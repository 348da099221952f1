---------------------------- MODULE GatewayConfig ----------------------------
(* The configuration of the daemon: the file, the copy the gateway keeps of  *)
(* it, the documents that editors have on their screens, and those who write *)
(* them. POST /pair exchanges the one-time code for a token and saves it;    *)
(* PUT /api/config saves an edited document, in which the mask stands for    *)
(* the tokens the editor could not see; binding a chat account adds a user   *)
(* to the file. A token stands for its hash, the hash of the mask for the    *)
(* mask, and of the other settings only the users allowed to chat are kept.  *)
(* Pairing is required.                                                      *)
EXTENDS Naturals, Sequences, FiniteSets

CONSTANTS
    Token,         \* tokens generate_token may return, and those typed by hand
    NoToken,
    Mask,          \* MASKED_SECRET
    NoBackup,      \* config.toml.bak does not exist
    User,          \* chat accounts
    Client,        \* rate keys of clients that pair
    Editor,        \* browsers and scripts that edit the configuration
    Caller,        \* requests and bindings under way at the same time
    MaxAttempts,   \* MAX_PAIR_ATTEMPTS
    MaxTokens,     \* bound: tokens in a document that is sent
    MaxCalls,      \* bound: requests and bindings
    MaxCrashes     \* bound: restarts

ASSUME ConfigAssumption ==
    /\ NoToken \notin Token /\ Mask \notin Token /\ IsFiniteSet(Caller)
    /\ MaxAttempts \in Nat \ {0} /\ MaxTokens \in Nat
    /\ MaxCalls \in Nat /\ MaxCrashes \in Nat

VARIABLES
    file,        \* config.toml
    bak,         \* config.toml.bak, which all writers share
    memory,      \* AppState.config
    draft,       \* the document each editor fetched last, before it was masked
    code,        \* whether there is a pairing_code
    guard,       \* paired_tokens of the guard
    fails,       \* failed_attempts: wrong codes of a client
    call,        \* what each caller is doing
    \* observations
    issued,      \* tokens issued since the daemon started
    used,        \* tokens ever issued or typed
    known,       \* tokens somebody was given or typed
    persisted,   \* tokens said to be persisted, and not taken out since
    bound,       \* users a binding wrote or found, and not taken out since
    guesses,     \* wrong codes a client was told of since its count was reset
    lost,        \* whether an answer with a token was lost
    stale,       \* whether a file was replaced that its successor was not made from
    calls, crashes

files == <<file, bak>>
told  == <<known, persisted, bound>>
vars == <<files, memory, draft, code, guard, fails, call, issued, used, told, guesses, lost,
          stale, calls, crashes>>
------------------------------------------------------------------------------
Config == [tokens : Seq(Token \cup {Mask}), users : SUBSET User]
Empty  == [tokens |-> <<>>, users |-> {}]

Listed(d) == {d.tokens[i] : i \in DOMAIN d.tokens}

(* PairingGuard::tokens lists a hash set, in no particular order.            *)
Listings(S) == {s \in [1 .. Cardinality(S) -> S] : \A t \in S : \E i \in DOMAIN s : s[i] = t}

(* A call has the document it changes as its author saw it, the one it was   *)
(* made from, and the one it saves.                                          *)
Idle == [kind |-> "none", phase |-> "idle", client |-> "none", token |-> NoToken,
         user |-> "none", seen |-> Empty, base |-> Empty, new |-> Empty]

Kinds  == {"none", "pair", "put", "bind"}
Phases == {"idle", "try", "count", "copy", "load", "save", "rename", "finish", "sync"}
CallRecord == [kind : Kinds, phase : Phases, client : Client \cup {"none"},
               token : Token \cup {NoToken}, user : User \cup {"none"},
               seen : Config, base : Config, new : Config]

Init ==
    /\ file = Empty /\ bak = NoBackup /\ memory = Empty
    /\ draft = [e \in Editor |-> Empty]
    /\ code = TRUE /\ guard = {}
    /\ fails = [c \in Client |-> 0]
    /\ call = [w \in Caller |-> Idle]
    /\ issued = {} /\ used = {} /\ known = {} /\ persisted = {} /\ bound = {}
    /\ guesses = [c \in Client |-> 0]
    /\ lost = FALSE /\ stale = FALSE /\ calls = 0 /\ crashes = 0

Start(w, c) ==
    /\ call[w] = Idle /\ calls < MaxCalls
    /\ call' = [call EXCEPT ![w] = c] /\ calls' = calls + 1

Goto(w, p) == call' = [call EXCEPT ![w].phase = p]
End(w)     == call' = [call EXCEPT ![w] = Idle]

(* The document w is about to save was edited as `seen' and made from `base'. *)
Saving(w, seen, base, new) ==
    call' = [call EXCEPT ![w] = [@ EXCEPT !.phase = "save", !.seen = seen, !.base = base,
                                          !.new = new]]

Carried(w) == {call[w].token} \ {NoToken}
------------------------------------------------------------------------------
(* handle_pair and try_pair_blocking.                                        *)
Locked(c) == fails[c] >= MaxAttempts

\* Mutant of BeginPair: a client that is locked out is not turned away.
BeginPairAnyway(w, c) ==
    /\ Start(w, [Idle EXCEPT !.kind = "pair", !.phase = "try", !.client = c])
    /\ UNCHANGED <<files, memory, draft, code, guard, fails, issued, used, told, guesses, lost,
                   stale, crashes>>

(* The lockout is looked up; a client that is locked out is turned away. *)
BeginPair(w, c) ==
    /\ ~Locked(c)
    /\ Start(w, [Idle EXCEPT !.kind = "pair", !.phase = "try", !.client = c])
    /\ UNCHANGED <<files, memory, draft, code, guard, fails, issued, used, told, guesses, lost,
                   stale, crashes>>

(* The lockout of a client passes, or its entry is swept or evicted. *)
Forget(c) ==
    /\ fails[c] > 0
    /\ fails' = [fails EXCEPT ![c] = 0] /\ guesses' = [guesses EXCEPT ![c] = 0]
    /\ UNCHANGED <<files, memory, draft, code, guard, call, issued, used, told, lost, stale,
                   calls, crashes>>

\* Mutant of RightCode: the code stays.
RightCodeKept(w) ==
    LET c == call[w].client IN
    /\ call[w].kind = "pair" /\ call[w].phase = "try" /\ code
    /\ \E t \in Token \ used :
          /\ guard' = guard \cup {t}
          /\ issued' = issued \cup {t} /\ used' = used \cup {t}
          /\ call' = [call EXCEPT ![w] = [@ EXCEPT !.phase = "copy", !.token = t]]
    /\ fails' = [fails EXCEPT ![c] = 0] /\ guesses' = [guesses EXCEPT ![c] = 0]
    /\ UNCHANGED <<files, memory, draft, code, told, lost, stale, calls, crashes>>

(* The right code: a token is issued and the code is gone, under its lock. *)
RightCode(w) ==
    LET c == call[w].client IN
    /\ call[w].kind = "pair" /\ call[w].phase = "try" /\ code
    /\ \E t \in Token \ used :
          /\ guard' = guard \cup {t}
          /\ issued' = issued \cup {t} /\ used' = used \cup {t}
          /\ call' = [call EXCEPT ![w] = [@ EXCEPT !.phase = "copy", !.token = t]]
    /\ code' = FALSE
    /\ fails' = [fails EXCEPT ![c] = 0] /\ guesses' = [guesses EXCEPT ![c] = 0]
    /\ UNCHANGED <<files, memory, draft, told, lost, stale, calls, crashes>>

(* A wrong code, or any when there is none to compare it with. *)
WrongCode(w) ==
    /\ call[w].kind = "pair" /\ call[w].phase = "try"
    /\ Goto(w, "count")
    /\ UNCHANGED <<files, memory, draft, code, guard, fails, issued, used, told, guesses, lost,
                   stale, calls, crashes>>

CountFailure(w) ==
    LET c == call[w].client IN
    /\ call[w].kind = "pair" /\ call[w].phase = "count"
    /\ fails' = [fails EXCEPT ![c] = @ + 1] /\ guesses' = [guesses EXCEPT ![c] = @ + 1]
    /\ End(w)
    /\ UNCHANGED <<files, memory, draft, code, guard, issued, used, told, lost, stale, calls,
                   crashes>>

\* Mutant of CopyConfig: the configuration is copied without the tokens.
CopyConfigAlone(w) ==
    /\ call[w].kind = "pair" /\ call[w].phase = "copy"
    /\ Saving(w, memory, memory, memory)
    /\ UNCHANGED <<files, memory, draft, code, guard, fails, issued, used, told, guesses, lost,
                   stale, calls, crashes>>

(* persist_pairing_tokens: the gateway's copy, with the guard's tokens. *)
CopyConfig(w) ==
    /\ call[w].kind = "pair" /\ call[w].phase = "copy"
    /\ \E s \in Listings(guard) : Saving(w, memory, memory, [memory EXCEPT !.tokens = s])
    /\ UNCHANGED <<files, memory, draft, code, guard, fails, issued, used, told, guesses, lost,
                   stale, calls, crashes>>
------------------------------------------------------------------------------
(* handle_api_config_get and handle_api_config_put.                          *)
Authenticated == known \cap guard # {}

(* An editor fetches the document. It stays on the screen, across restarts.  *)
Fetch(e) ==
    /\ Authenticated
    /\ draft' = [draft EXCEPT ![e] = memory]
    /\ UNCHANGED <<files, memory, code, guard, fails, call, issued, used, told, guesses, lost,
                   stale, calls, crashes>>

(* What an editor can send as list of tokens: masks, tokens it knows and     *)
(* tokens nobody has seen before.                                            *)
Typed == known \cup (Token \ used)
Sent  == UNION {[1 .. n -> Typed \cup {Mask}] : n \in 0 .. MaxTokens}

(* restore_vec_secrets: a mask stands for the token at its position, and for *)
(* itself where the list has become too short.                               *)
Restore(sent, current) ==
    [i \in DOMAIN sent |-> IF sent[i] = Mask /\ i \in DOMAIN current THEN current[i] ELSE sent[i]]

(* A document is sent back, edited in any way. It is authenticated, restored *)
(* and validated in one go; a document that is refused changes nothing.      *)
Put(w, e) ==
    \E sent \in Sent, users \in SUBSET User :
        LET typed == {sent[i] : i \in DOMAIN sent} \ {Mask}
            new == [tokens |-> Restore(sent, memory.tokens), users |-> users]
        IN  /\ Authenticated
            /\ Start(w, [Idle EXCEPT !.kind = "put", !.phase = "save", !.seen = draft[e],
                                     !.base = memory, !.new = new])
            /\ known' = known \cup typed /\ used' = used \cup typed
            /\ UNCHANGED <<files, memory, draft, code, guard, fails, issued, persisted, bound,
                           guesses, lost, stale, crashes>>
------------------------------------------------------------------------------
(* persist_allowed_identity, and the tools that edit the file the same way.  *)
Bind(w, u) ==
    /\ Start(w, [Idle EXCEPT !.kind = "bind", !.phase = "load", !.user = u])
    /\ UNCHANGED <<files, memory, draft, code, guard, fails, issued, used, told, guesses, lost,
                   stale, crashes>>

(* The file is read; a user it already has is not added. *)
Load(w) ==
    LET u == call[w].user IN
    /\ call[w].kind = "bind" /\ call[w].phase = "load"
    /\ \/ u \in file.users /\ End(w) /\ bound' = bound \cup {u}
       \/ /\ u \notin file.users
          /\ Saving(w, file, file, [file EXCEPT !.users = @ \cup {u}]) /\ UNCHANGED bound
    /\ UNCHANGED <<files, memory, draft, code, guard, fails, issued, used, known, persisted,
                   guesses, lost, stale, calls, crashes>>
------------------------------------------------------------------------------
(* Config::save: the temporary file is written and the old one is copied.    *)
Backup(w) ==
    /\ call[w].phase = "save"
    /\ bak' = file
    /\ Goto(w, "rename")
    /\ UNCHANGED <<file, memory, draft, code, guard, fails, issued, used, told, guesses, lost,
                   stale, calls, crashes>>

(* What an editor removed from the document on the screen, and the user a    *)
(* binding adds.                                                             *)
Removed(w, old, new) == IF call[w].kind = "put" THEN old \ new ELSE {}
Added(w) == IF call[w].kind = "bind" THEN {call[w].user} ELSE {}

(* The temporary file is renamed over the old one. *)
Rename(w) ==
    LET seen == call[w].seen
        new  == call[w].new
    IN  /\ call[w].phase = "rename"
        /\ file' = new
        /\ stale' = (stale \/ file # seen \/ file # call[w].base)
        /\ persisted' = persisted \ Removed(w, Listed(seen), Listed(new))
        /\ bound' = (bound \ Removed(w, seen.users, new.users)) \cup Added(w)
        /\ Goto(w, "finish")
        /\ UNCHANGED <<bak, memory, draft, code, guard, fails, issued, used, known, guesses, lost,
                       calls, crashes>>

\* Mutant of SaveFails: a token that could not be saved is not handed out.
SaveFailsUntold(w) ==
    /\ call[w].phase \in {"save", "rename", "finish"}
    /\ IF call[w].phase = "rename" /\ bak # NoBackup
       THEN file' = bak /\ stale' = (stale \/ file # bak)
       ELSE UNCHANGED <<file, stale>>
    /\ End(w)
    /\ UNCHANGED <<bak, memory, draft, code, guard, fails, issued, used, told, guesses, lost,
                   calls, crashes>>

(* The save fails: before the rename; at the rename, when the copy is put    *)
(* back, whoever made it; or after it, when the directory is not synced. A   *)
(* token is handed out all the same, as not persisted.                       *)
SaveFails(w) ==
    /\ call[w].phase \in {"save", "rename", "finish"}
    /\ IF call[w].phase = "rename" /\ bak # NoBackup
       THEN file' = bak /\ stale' = (stale \/ file # bak)
       ELSE UNCHANGED <<file, stale>>
    /\ known' = known \cup Carried(w)
    /\ End(w)
    /\ UNCHANGED <<bak, memory, draft, code, guard, fails, issued, used, persisted, bound,
                   guesses, lost, calls, crashes>>

(* The directory is synced and the copy removed. *)
Finish(w) ==
    /\ call[w].phase = "finish"
    /\ bak' = NoBackup
    /\ IF call[w].kind = "bind" THEN End(w) ELSE Goto(w, "sync")
    /\ UNCHANGED <<file, memory, draft, code, guard, fails, issued, used, told, guesses, lost,
                   stale, calls, crashes>>

(* The gateway's copy is replaced and the request is answered. *)
Sync(w) ==
    /\ call[w].phase = "sync"
    /\ memory' = call[w].new
    /\ known' = known \cup Carried(w)
    /\ persisted' = persisted \cup Carried(w)
    /\ End(w)
    /\ UNCHANGED <<files, draft, code, guard, fails, issued, used, bound, guesses, lost, stale,
                   calls, crashes>>

(* The request times out or its client hangs up: the handler is dropped      *)
(* where it waits. The comparison of codes runs on in its own thread.        *)
Drop(w) ==
    /\ call[w].kind \in {"pair", "put"}
    /\ call[w].phase \in {"copy", "save", "rename", "finish", "sync"}
    /\ lost' = (lost \/ Carried(w) # {})
    /\ End(w)
    /\ UNCHANGED <<files, memory, draft, code, guard, fails, issued, used, told, guesses, stale,
                   calls, crashes>>

(* The daemon stops and starts again from the file: PairingGuard::new. What  *)
(* is on the screens stays, and so do bindings from the command line.        *)
Restart ==
    /\ crashes < MaxCrashes /\ crashes' = crashes + 1
    /\ memory' = file /\ guard' = Listed(file) /\ code' = (Listed(file) = {})
    /\ fails' = [c \in Client |-> 0] /\ guesses' = [c \in Client |-> 0]
    /\ \E out \in SUBSET {w \in Caller : call[w].kind = "bind"} :
          call' = [w \in Caller |-> IF w \in out THEN call[w] ELSE Idle]
    /\ issued' = {} /\ lost' = (lost \/ \E w \in Caller : Carried(w) # {})
    /\ UNCHANGED <<files, draft, used, told, stale, calls>>
------------------------------------------------------------------------------
Next ==
    \/ Restart
    \/ \E c \in Client : Forget(c)
    \/ \E e \in Editor : Fetch(e)
    \/ \E w \in Caller :
          \/ \E c \in Client : BeginPair(w, c)
          \/ RightCode(w) \/ WrongCode(w) \/ CountFailure(w) \/ CopyConfig(w)
          \/ \E e \in Editor : Put(w, e)
          \/ \E u \in User : Bind(w, u)
          \/ Load(w) \/ Backup(w) \/ Rename(w) \/ SaveFails(w) \/ Finish(w) \/ Sync(w)
          \/ Drop(w)

Spec == Init /\ [][Next]_vars
------------------------------------------------------------------------------
TypeOK ==
    /\ file \in Config /\ bak \in Config \cup {NoBackup} /\ memory \in Config
    /\ draft \in [Editor -> Config]
    /\ code \in BOOLEAN /\ guard \subseteq used \cup {Mask}
    /\ fails \in [Client -> Nat] /\ guesses \in [Client -> Nat]
    /\ call \in [Caller -> CallRecord]
    /\ issued \subseteq used /\ used \subseteq Token
    /\ known \subseteq used /\ persisted \subseteq known /\ bound \subseteq User
    /\ lost \in BOOLEAN /\ stale \in BOOLEAN
    /\ calls \in 0 .. MaxCalls /\ crashes \in 0 .. MaxCrashes

(* The one-time code buys one token, however many requests present it at the *)
(* same time, and there is a code only while nobody is accepted: a code that *)
(* was used never comes back beside the token it bought.                     *)
OneTokenPerCode ==
    /\ Cardinality(issued) <= 1
    /\ code => issued = {} /\ guard = {}

(* Someone can always get in - with the code, with a token they were given   *)
(* or typed, or with one that is about to be given. There are two ways to    *)
(* lock everybody out, and no third: an answer that carried a token is lost, *)
(* or the saved list of tokens has become nothing but a mask that stood for  *)
(* no token any more.                                                        *)
SomeoneGetsIn ==
    \/ code
    \/ guard \cap known # {}
    \/ \E w \in Caller : call[w].token \in guard
    \/ lost
    \/ guard = {Mask}

(* A client is told of no more wrong codes, before its count is reset, than  *)
(* it takes to be locked out and the requests that were already under way.   *)
GuessesBounded == \A c \in Client : guesses[c] < MaxAttempts + Cardinality(Caller)

(* Config::save replaces the whole file. As long as every file was replaced  *)
(* by one made from it - whose author had seen it, whose masks were restored *)
(* from it, or which was its own copy put back - it has every token that was *)
(* said to be persisted and every user that was said to be bound, but those  *)
(* an editor took out: through failures at every point of a save, requests   *)
(* that were dropped, and restarts.                                          *)
KeptUnlessStale == ~stale => persisted \subseteq Listed(file) /\ bound \subseteq file.users

(* "Already-paired tokens are persisted in config so restarts don't require  *)
(* re-pairing": a token that was said to be persisted stays in the file      *)
(* until an editor takes it out.                                             *)
PersistedStays == persisted \subseteq Listed(file)
==============================================================================
