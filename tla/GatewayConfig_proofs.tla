------------------------- MODULE GatewayConfig_proofs -------------------------
(* Proofs about GatewayConfig, for any tokens, users, clients and editors,   *)
(* documents of any length, and any finite number of callers that are under  *)
(* way at the same time.                                                     *)
EXTENDS GatewayConfig, FiniteSetTheorems, TLAPS

Single(S) == \A s, t \in S : s = t

Guessing(w) == call[w].kind = "pair" /\ call[w].phase \in {"try", "count"}
Writing(w)  == call[w].phase \in {"save", "rename", "finish", "sync"}
Carrying(w) == call[w].kind = "pair" /\ (call[w].phase = "copy" \/ Writing(w))

Known == used \cup {Mask}

(* What a caller holds, by what it is doing. A token that is carried is the  *)
(* only one the guard accepts, and nobody has it; so no document is on its   *)
(* way to the file beside it, since one needs a token that somebody has.     *)
Held(w) == LET c == call[w] IN
    /\ c.kind = "none" => c = Idle
    /\ c.kind = "pair" => c.client \in Client /\ (Guessing(w) \/ Carrying(w))
    /\ c.kind = "put" => Writing(w) /\ Authenticated
    /\ c.kind = "bind" => c.phase \in {"load", "save", "rename", "finish"} /\ c.user \in User
    /\ c.token # NoToken <=> Carrying(w)
    /\ Carrying(w) => guard = {c.token} /\ c.token \notin known
    /\ Listed(c.base) \subseteq Known /\ Listed(c.new) \subseteq Known
    /\ Writing(w) /\ c.kind = "pair" =>
          /\ c.seen = memory /\ c.base = memory
          /\ Listed(c.new) = {c.token} /\ c.new.users = memory.users
    /\ Writing(w) /\ c.kind = "bind" =>
          c.seen = c.base /\ c.new = [c.base EXCEPT !.users = @ \cup {c.user}]

OneCarrier == \A w, x \in Caller : Carrying(w) /\ Carrying(x) => w = x

(* The code, the guard and the copies of the list.                           *)
Tokens ==
    /\ Single(issued)
    /\ code => guard = {} /\ issued = {}
    /\ ~code => guard # {}
    /\ (code \/ \E w \in Caller : Carrying(w)) => Listed(memory) = {}
    /\ Listed(file) \subseteq Known /\ Listed(memory) \subseteq Known
    /\ bak # NoBackup => Listed(bak) \subseteq Known

(* A token that was issued or typed is known, on its way, or was lost.       *)
Traced ==
    \A t \in used : \/ t \in known
                    \/ \E w \in Caller : call[w].token = t
                    \/ lost

(* What the file has as long as nothing stale was saved.                     *)
Kept ==
    ~stale => /\ persisted \subseteq Listed(file) /\ bound \subseteq file.users
              /\ \A w \in Caller : call[w].kind = "pair" /\ call[w].phase \in {"finish", "sync"}
                                     => call[w].token \in Listed(file)

Guessers(c) == {w \in Caller : Guessing(w) /\ call[w].client = c}

Counted ==
    /\ guesses = fails
    /\ \A c \in Client : fails[c] + Cardinality(Guessers(c))
                            < MaxAttempts + Cardinality(Caller)

IInv ==
    /\ TypeOK /\ Tokens /\ Traced /\ Kept
    /\ \A w \in Caller : Held(w)
    /\ OneCarrier

------------------------------------------------------------------------------
(* Documents.                                                                *)
LEMMA EmptyDocument ==
    /\ Empty \in Config /\ Listed(Empty) = {} /\ Empty.users = {}
    /\ Idle \in CallRecord
    /\ Idle.kind = "none" /\ Idle.phase = "idle" /\ Idle.token = NoToken
    /\ Idle.base = Empty /\ Idle.new = Empty
  BY DEF Idle, CallRecord, Kinds, Phases, Empty, Config, Listed

LEMMA ListedType ==
    ASSUME NEW d \in Config
    PROVE  Listed(d) \subseteq Token \cup {Mask} /\ d.users \in SUBSET User
  BY DEF Config, Listed

LEMMA WithUsers ==
    ASSUME NEW d \in Config, NEW U
    PROVE  Listed([d EXCEPT !.users = U]) = Listed(d)
  BY DEF Config, Listed

(* An enumeration of the only token of the guard.                            *)
LEMMA ListingOfOne ==
    ASSUME NEW t \in Token, NEW s \in Listings({t}), NEW d \in Config
    PROVE  /\ [d EXCEPT !.tokens = s] \in Config
           /\ Listed([d EXCEPT !.tokens = s]) = {t}
           /\ [d EXCEPT !.tokens = s].users = d.users
<1>1. Cardinality({t}) = 1
  BY FS_Singleton
<1>2. s \in [1 .. 1 -> {t}] /\ \A x \in {t} : \E i \in DOMAIN s : s[i] = x
  BY <1>1 DEF Listings
<1>3. s \in Seq(Token \cup {Mask})
  <2>1. s \in [1 .. 1 -> Token \cup {Mask}] /\ 1 \in Nat
    BY <1>2
  <2>2. \A n \in Nat : [1 .. n -> Token \cup {Mask}] \subseteq Seq(Token \cup {Mask})
    OBVIOUS
  <2> QED
    BY <2>1, <2>2
<1>4. {s[i] : i \in DOMAIN s} = {t}
  BY <1>2
<1>5. [d EXCEPT !.tokens = s].tokens = s /\ [d EXCEPT !.tokens = s].users = d.users
  BY DEF Config
<1>6. [d EXCEPT !.tokens = s] \in Config
  BY <1>3 DEF Config
<1>7. Listed([d EXCEPT !.tokens = s]) = {t}
  BY <1>4, <1>5 DEF Listed
<1> QED
  BY <1>5, <1>6, <1>7

(* A restored list has what was typed, what the gateway had, and masks.      *)
LEMMA Restored ==
    ASSUME NEW S \in SUBSET Token, NEW sent \in UNION {[1 .. n -> S \cup {Mask}] : n \in Nat},
           NEW d \in Config, NEW U \in SUBSET User
    PROVE  LET new == [tokens |-> Restore(sent, d.tokens), users |-> U]
           IN  new \in Config /\ Listed(new) \subseteq S \cup {Mask} \cup Listed(d)
<1> DEFINE r == Restore(sent, d.tokens)
           new == [tokens |-> r, users |-> U]
<1>1. PICK n \in Nat : sent \in [1 .. n -> S \cup {Mask}]
  OBVIOUS
<1>2. DOMAIN r = 1 .. n
  BY <1>1 DEF Restore
<1>3. ASSUME NEW i \in 1 .. n PROVE r[i] \in S \cup {Mask} \cup Listed(d)
  <2>1. r[i] = sent[i] \/ (i \in DOMAIN d.tokens /\ r[i] = d.tokens[i])
    BY <1>1 DEF Restore
  <2> QED
    BY <1>1, <2>1 DEF Listed
<1>4. S \cup {Mask} \cup Listed(d) \subseteq Token \cup {Mask}
  BY ListedType
<1>5. r \in [1 .. n -> Token \cup {Mask}]
  BY <1>2, <1>3, <1>4 DEF Restore
<1>6. r \in Seq(Token \cup {Mask})
  BY <1>5
<1>7. new \in Config
  BY <1>6 DEF Config
<1>8. Listed(new) \subseteq S \cup {Mask} \cup Listed(d)
  BY <1>2, <1>3 DEF Listed
<1> QED
  BY <1>7, <1>8

LEMMA InitInv == ASSUME Init PROVE IInv
<1>1. TypeOK
  <2>1. call \in [Caller -> CallRecord] /\ draft \in [Editor -> Config]
    BY EmptyDocument DEF Init
  <2>2. fails \in [Client -> Nat] /\ guesses \in [Client -> Nat]
    BY DEF Init
  <2>3. calls \in 0 .. MaxCalls /\ crashes \in 0 .. MaxCrashes
    BY ConfigAssumption DEF Init
  <2> QED
    BY <2>1, <2>2, <2>3, EmptyDocument DEF Init, TypeOK
<1>2. \A w \in Caller : call[w] = Idle
  BY DEF Init
<1>3. \A w \in Caller : Held(w)
  BY <1>2, EmptyDocument DEF Held, Guessing, Carrying, Writing
<1>4. OneCarrier
  BY <1>2, EmptyDocument DEF OneCarrier, Carrying
<1>5. Tokens /\ Traced /\ Kept
  BY <1>2, EmptyDocument DEF Init, Tokens, Single, Traced, Kept
<1> QED
  BY <1>1, <1>3, <1>4, <1>5 DEF IInv

(* What the steps of one caller leave of the others.                         *)
LEMMA Others ==
    ASSUME TypeOK, NEW w \in Caller, NEW r, call' = [call EXCEPT ![w] = r]
    PROVE  call'[w] = r /\ \A x \in Caller \ {w} : call'[x] = call[x]
  BY DEF TypeOK

------------------------------------------------------------------------------
(* Types.                                                                    *)
LEMMA StartType ==
    ASSUME TypeOK, NEW w \in Caller, NEW r \in CallRecord, Start(w, r)
    PROVE  call' \in [Caller -> CallRecord] /\ calls' \in 0 .. MaxCalls
  BY ConfigAssumption DEF Start, TypeOK

LEMMA EndType ==
    ASSUME TypeOK, NEW w \in Caller, End(w)
    PROVE  call' \in [Caller -> CallRecord]
  BY EmptyDocument DEF End, TypeOK

LEMMA GotoType ==
    ASSUME TypeOK, NEW w \in Caller, NEW p \in Phases, Goto(w, p)
    PROVE  /\ call' \in [Caller -> CallRecord]
           /\ call'[w] = [call[w] EXCEPT !.phase = p]
           /\ \A x \in Caller \ {w} : call'[x] = call[x]
<1>1. [call[w] EXCEPT !.phase = p] \in CallRecord
  BY DEF TypeOK, CallRecord
<1> QED
  BY <1>1 DEF TypeOK, Goto

LEMMA SavingType ==
    ASSUME TypeOK, NEW w \in Caller, NEW s \in Config, NEW b \in Config, NEW n \in Config,
           Saving(w, s, b, n)
    PROVE  /\ call' \in [Caller -> CallRecord]
           /\ call'[w] = [call[w] EXCEPT !.phase = "save", !.seen = s, !.base = b, !.new = n]
           /\ \A x \in Caller \ {w} : call'[x] = call[x]
<1>1. [call[w] EXCEPT !.phase = "save", !.seen = s, !.base = b, !.new = n] \in CallRecord
  BY DEF TypeOK, CallRecord, Phases
<1> QED
  BY <1>1 DEF TypeOK, Saving

(* A token that is carried was issued.                                       *)
LEMMA CarriedUsed ==
    ASSUME IInv, NEW w \in Caller
    PROVE  Carried(w) \subseteq used
<1>1. CASE Carrying(w)
  <2>1. guard = {call[w].token} /\ call[w].token \in Token
    BY <1>1, ConfigAssumption DEF IInv, Held, TypeOK, CallRecord
  <2> QED
    BY <2>1, ConfigAssumption DEF IInv, TypeOK, Carried
<1>2. CASE ~Carrying(w)
  BY <1>2 DEF IInv, Held, Carried
<1> QED
  BY <1>1, <1>2

(* The document of a PUT.                                                    *)
LEMMA PutDocument ==
    ASSUME TypeOK, NEW sent \in Sent, NEW users \in SUBSET User
    PROVE  LET typed == {sent[i] : i \in DOMAIN sent} \ {Mask}
               new == [tokens |-> Restore(sent, memory.tokens), users |-> users]
           IN  /\ typed \subseteq Token /\ typed \cap used \subseteq known
               /\ new \in Config /\ Listed(new) \subseteq typed \cup {Mask} \cup Listed(memory)
<1> DEFINE typed == {sent[i] : i \in DOMAIN sent} \ {Mask}
           new == [tokens |-> Restore(sent, memory.tokens), users |-> users]
<1>1. PICK n \in Nat : sent \in [1 .. n -> Typed \cup {Mask}]
  BY ConfigAssumption DEF Sent
<1>2. typed \subseteq Typed /\ sent \in [1 .. n -> typed \cup {Mask}]
  BY <1>1
<1>3. Typed \subseteq Token /\ Typed \cap used \subseteq known
  BY DEF Typed, TypeOK
<1>4. typed \in SUBSET Token /\ sent \in UNION {[1 .. k -> typed \cup {Mask}] : k \in Nat}
  BY <1>1, <1>2, <1>3
<1>5. memory \in Config
  BY DEF TypeOK
<1> HIDE DEF typed
<1>6. new \in Config /\ Listed(new) \subseteq typed \cup {Mask} \cup Listed(memory)
  BY <1>4, <1>5, Restored
<1> QED
  BY <1>2, <1>3, <1>6 DEF typed

LEMMA StepType == ASSUME IInv, [Next]_vars PROVE TypeOK'
<1> TypeOK
  BY DEF IInv
<1>0. /\ file \in Config /\ memory \in Config /\ guard \subseteq Known /\ used \subseteq Token
      /\ call \in [Caller -> CallRecord]
  BY DEF TypeOK, Known
<1>1. CASE UNCHANGED vars
  BY <1>1 DEF TypeOK, vars, told, files
<1>2. CASE Restart
  <2>1. Listed(file) \subseteq used \cup {Mask}
    BY DEF IInv, Tokens, Known
  <2>2. call' \in [Caller -> CallRecord]
    BY <1>0, <1>2, EmptyDocument DEF Restart
  <2>3. fails' \in [Client -> Nat] /\ guesses' \in [Client -> Nat]
    BY <1>2 DEF Restart
  <2>4. crashes' \in 0 .. MaxCrashes
    BY <1>2, ConfigAssumption DEF Restart, TypeOK
  <2> QED
    BY <1>2, <2>1, <2>2, <2>3, <2>4 DEF Restart, TypeOK, told, files
<1>3. ASSUME NEW c \in Client, Forget(c) PROVE TypeOK'
  BY <1>3 DEF Forget, TypeOK, told, files
<1>4. ASSUME NEW e \in Editor, Fetch(e) PROVE TypeOK'
  BY <1>4 DEF Fetch, TypeOK, told, files
<1>5. ASSUME NEW w \in Caller, NEW c \in Client, BeginPair(w, c) PROVE TypeOK'
  <2>1. [Idle EXCEPT !.kind = "pair", !.phase = "try", !.client = c] \in CallRecord
    BY EmptyDocument DEF CallRecord, Kinds, Phases
  <2>2. call' \in [Caller -> CallRecord] /\ calls' \in 0 .. MaxCalls
    BY <1>5, <2>1, StartType DEF BeginPair
  <2> QED
    BY <1>5, <2>2 DEF BeginPair, TypeOK, told, files
<1>6. ASSUME NEW w \in Caller, RightCode(w) PROVE TypeOK'
  <2>1. PICK t \in Token \ used :
          /\ guard' = guard \cup {t} /\ issued' = issued \cup {t} /\ used' = used \cup {t}
          /\ call' = [call EXCEPT ![w] = [@ EXCEPT !.phase = "copy", !.token = t]]
    BY <1>6 DEF RightCode
  <2>2. call' \in [Caller -> CallRecord]
    <3>1. [call[w] EXCEPT !.phase = "copy", !.token = t] \in CallRecord
      BY <1>0 DEF CallRecord, Phases
    <3> QED
      BY <1>0, <2>1, <3>1
  <2>3. fails' \in [Client -> Nat] /\ guesses' \in [Client -> Nat] /\ code' \in BOOLEAN
    BY <1>6 DEF RightCode, TypeOK
  <2> QED
    BY <1>6, <2>1, <2>2, <2>3 DEF RightCode, TypeOK, told, files
<1>7. ASSUME NEW w \in Caller, WrongCode(w) PROVE TypeOK'
  <2>1. call' \in [Caller -> CallRecord]
    BY <1>7, GotoType DEF WrongCode, Phases
  <2> QED
    BY <1>7, <2>1 DEF WrongCode, TypeOK, told, files
<1>8. ASSUME NEW w \in Caller, CountFailure(w) PROVE TypeOK'
  <2>1. call' \in [Caller -> CallRecord]
    BY <1>8, EndType DEF CountFailure
  <2>2. fails' \in [Client -> Nat] /\ guesses' \in [Client -> Nat]
    <3>1. call[w].client \in Client
      BY <1>8 DEF CountFailure, IInv, Held
    <3> QED
      BY <1>8, <3>1 DEF CountFailure, TypeOK
  <2> QED
    BY <1>8, <2>1, <2>2 DEF CountFailure, TypeOK, told, files
<1>9. ASSUME NEW w \in Caller, CopyConfig(w) PROVE TypeOK'
  <2>1. PICK s \in Listings(guard) : Saving(w, memory, memory, [memory EXCEPT !.tokens = s])
    BY <1>9 DEF CopyConfig
  <2>2. guard = {call[w].token} /\ call[w].token \in Token
    BY <1>0, <1>9, ConfigAssumption DEF CopyConfig, Carrying, IInv, Held, CallRecord
  <2>3. [memory EXCEPT !.tokens = s] \in Config
    BY <1>0, <2>1, <2>2, ListingOfOne
  <2>4. call' \in [Caller -> CallRecord]
    BY <1>0, <2>1, <2>3, SavingType
  <2> QED
    BY <1>9, <2>4 DEF CopyConfig, TypeOK, told, files
<1>10. ASSUME NEW w \in Caller, NEW e \in Editor, Put(w, e) PROVE TypeOK'
  <2> DEFINE typed(s) == {s[i] : i \in DOMAIN s} \ {Mask}
             new(s, u) == [tokens |-> Restore(s, memory.tokens), users |-> u]
  <2>1. PICK sent \in Sent, users \in SUBSET User :
          /\ Start(w, [Idle EXCEPT !.kind = "put", !.phase = "save", !.seen = draft[e],
                                   !.base = memory, !.new = new(sent, users)])
          /\ known' = known \cup typed(sent) /\ used' = used \cup typed(sent)
          /\ UNCHANGED <<files, memory, draft, code, guard, fails, issued, persisted, bound,
                         guesses, lost, stale, crashes>>
    BY <1>10 DEF Put
  <2>2. typed(sent) \subseteq Token /\ new(sent, users) \in Config
    BY PutDocument
  <2> HIDE DEF typed, new
  <2>3. [Idle EXCEPT !.kind = "put", !.phase = "save", !.seen = draft[e], !.base = memory,
                     !.new = new(sent, users)] \in CallRecord
    BY <2>2, EmptyDocument DEF CallRecord, Kinds, Phases, TypeOK
  <2>4. call' \in [Caller -> CallRecord] /\ calls' \in 0 .. MaxCalls
    BY <2>1, <2>3, StartType
  <2> QED
    BY <2>1, <2>2, <2>4 DEF TypeOK, files
<1>11. ASSUME NEW w \in Caller, NEW u \in User, Bind(w, u) PROVE TypeOK'
  <2>1. [Idle EXCEPT !.kind = "bind", !.phase = "load", !.user = u] \in CallRecord
    BY EmptyDocument DEF CallRecord, Kinds, Phases
  <2>2. call' \in [Caller -> CallRecord] /\ calls' \in 0 .. MaxCalls
    BY <1>11, <2>1, StartType DEF Bind
  <2> QED
    BY <1>11, <2>2 DEF Bind, TypeOK, told, files
<1>12. ASSUME NEW w \in Caller, Load(w) PROVE TypeOK'
  <2>1. call[w].user \in User
    BY <1>12 DEF Load, IInv, Held
  <2>2. [file EXCEPT !.users = @ \cup {call[w].user}] \in Config
    BY <1>0, <2>1 DEF Config
  <2>3. call' \in [Caller -> CallRecord]
    BY <1>0, <1>12, <2>2, EndType, SavingType DEF Load
  <2>4. bound' \subseteq User
    BY <1>12, <2>1 DEF Load, TypeOK
  <2> QED
    BY <1>12, <2>3, <2>4 DEF Load, TypeOK, files
<1>13. ASSUME NEW w \in Caller, Backup(w) PROVE TypeOK'
  <2>1. call' \in [Caller -> CallRecord]
    BY <1>13, GotoType DEF Backup, Phases
  <2> QED
    BY <1>0, <1>13, <2>1 DEF Backup, TypeOK, told
<1>14. ASSUME NEW w \in Caller, Rename(w) PROVE TypeOK'
  <2>1. call' \in [Caller -> CallRecord] /\ file' \in Config
    BY <1>0, <1>14, GotoType DEF Rename, Phases, CallRecord
  <2>2. Added(w) \subseteq User
    BY DEF Added, IInv, Held
  <2>3. bound' \subseteq User /\ persisted' \subseteq known /\ stale' \in BOOLEAN
    BY <1>14, <2>2 DEF Rename, TypeOK
  <2> QED
    BY <1>14, <2>1, <2>3 DEF Rename, TypeOK
<1>15. ASSUME NEW w \in Caller, SaveFails(w) PROVE TypeOK'
  <2>1. call' \in [Caller -> CallRecord]
    BY <1>15, EndType DEF SaveFails
  <2>2. file' \in Config /\ stale' \in BOOLEAN
    BY <1>0, <1>15 DEF SaveFails, TypeOK
  <2>3. known' \subseteq used /\ persisted \subseteq known'
    BY <1>15, CarriedUsed DEF SaveFails, TypeOK
  <2> QED
    BY <1>15, <2>1, <2>2, <2>3 DEF SaveFails, TypeOK
<1>16. ASSUME NEW w \in Caller, Finish(w) PROVE TypeOK'
  <2>1. call' \in [Caller -> CallRecord]
    BY <1>16, GotoType, EndType DEF Finish, Phases
  <2> QED
    BY <1>16, <2>1 DEF Finish, TypeOK, told
<1>17. ASSUME NEW w \in Caller, Sync(w) PROVE TypeOK'
  <2>1. call' \in [Caller -> CallRecord] /\ memory' \in Config
    BY <1>0, <1>17, EndType DEF Sync, CallRecord
  <2>2. known' \subseteq used /\ persisted' \subseteq known'
    BY <1>17, CarriedUsed DEF Sync, TypeOK
  <2> QED
    BY <1>17, <2>1, <2>2 DEF Sync, TypeOK, files
<1>18. ASSUME NEW w \in Caller, Drop(w) PROVE TypeOK'
  <2>1. call' \in [Caller -> CallRecord] /\ lost' \in BOOLEAN
    BY <1>18, EndType DEF Drop, TypeOK
  <2> QED
    BY <1>18, <2>1 DEF Drop, TypeOK, told, files
<1> QED
  BY <1>1, <1>2, <1>3, <1>4, <1>5, <1>6, <1>7, <1>8, <1>9, <1>10, <1>11, <1>12, <1>13, <1>14,
     <1>15, <1>16, <1>17, <1>18 DEF Next

------------------------------------------------------------------------------
(* The steps of one caller that leave the gateway's copy, the guard and the  *)
(* code. It may write the files, and type tokens that nobody has.            *)
LEMMA MoveStep ==
    ASSUME IInv, TypeOK', NEW w \in Caller, NEW r, call' = [call EXCEPT ![w] = r],
           UNCHANGED <<memory, code, guard, issued, lost>>,
           used \subseteq used', known \subseteq known', used' \ used \subseteq known',
           known' = known \/ Authenticated,
           Listed(file') \subseteq used' \cup {Mask},
           bak' # NoBackup => Listed(bak') \subseteq used' \cup {Mask},
           Held(w)', Kept', r.token = call[w].token
    PROVE  IInv'
<1>0. TypeOK /\ Tokens /\ Traced /\ OneCarrier /\ \A x \in Caller : Held(x)
  BY DEF IInv
<1>1. call'[w] = r /\ \A x \in Caller \ {w} : call'[x] = call[x]
  BY <1>0, Others
<1>2. \A x \in Caller : call'[x].token = call[x].token
  BY <1>1
<1>3. \A x \in Caller : Carrying(x) => known' = known
  BY <1>0 DEF Held, Authenticated
<1>4. ASSUME NEW x \in Caller \ {w} PROVE Held(x)'
  <2>1. (Guessing(x)' <=> Guessing(x)) /\ (Writing(x)' <=> Writing(x))
        /\ (Carrying(x)' <=> Carrying(x))
    BY <1>1 DEF Guessing, Writing, Carrying
  <2>2. Authenticated => Authenticated'
    BY DEF Authenticated
  <2>3. Known \subseteq Known'
    BY DEF Known
  <2> QED
    BY <1>0, <1>1, <1>3, <2>1, <2>2, <2>3 DEF Held
<1>5. \A x \in Caller : Held(x) /\ Held(x)'
  BY <1>0, <1>4
<1>6. \A x \in Caller : Carrying(x)' <=> Carrying(x)
  BY <1>2, <1>5 DEF Held
<1>7. OneCarrier'
  BY <1>0, <1>6 DEF OneCarrier
<1>8. Tokens'
  BY <1>0, <1>6 DEF Tokens, Known
<1>9. Traced'
  BY <1>0, <1>2 DEF Traced
<1> QED
  BY <1>5, <1>7, <1>8, <1>9 DEF IInv

(* A step of one caller that only changes what this caller is doing.         *)
LEMMA OwnStep ==
    ASSUME IInv, TypeOK', NEW w \in Caller, NEW r, call' = [call EXCEPT ![w] = r],
           UNCHANGED <<file, memory, code, guard, issued, used, known, persisted, lost, stale>>,
           bak' \in {bak, file, NoBackup}, bound' \subseteq bound \cup file.users,
           Held(w)', r.token = call[w].token,
           r.kind = "pair" /\ r.phase \in {"finish", "sync"} =>
              call[w].kind = "pair" /\ call[w].phase \in {"finish", "sync"}
    PROVE  IInv'
<1>1. call'[w] = r /\ \A x \in Caller \ {w} : call'[x] = call[x]
  BY Others DEF IInv
<1>2. Kept'
  BY <1>1 DEF IInv, Kept
<1>3. Listed(file) \subseteq Known /\ (bak' # NoBackup => Listed(bak') \subseteq Known)
  BY DEF IInv, Tokens
<1> QED
  BY <1>2, <1>3, MoveStep DEF Known

LEMMA BeginStep ==
    ASSUME IInv, TypeOK', NEW w \in Caller,
           (\E c \in Client : BeginPair(w, c)) \/ \E u \in User : Bind(w, u)
    PROVE  IInv'
<1>1. /\ UNCHANGED <<file, bak, memory, code, guard, issued, used, known, persisted, bound,
                     lost, stale>>
      /\ call[w] = Idle
  BY DEF BeginPair, Bind, Start, told, files
<1>2. ASSUME NEW c \in Client, BeginPair(w, c) PROVE IInv'
  <2> DEFINE r == [Idle EXCEPT !.kind = "pair", !.phase = "try", !.client = c]
  <2>1. call' = [call EXCEPT ![w] = r]
    BY <1>2 DEF BeginPair, Start
  <2>2. call'[w] = r
    BY <2>1, Others DEF IInv
  <2>3. /\ r.kind = "pair" /\ r.phase = "try" /\ r.client = c /\ r.token = NoToken
        /\ r.new = Empty /\ r.base = Empty /\ Idle.token = NoToken
    BY DEF Idle
  <2> HIDE DEF r
  <2>4. Held(w)'
    BY <2>2, <2>3, EmptyDocument DEF Held, Guessing, Carrying, Writing
  <2> QED
    BY <1>1, <2>1, <2>3, <2>4, OwnStep
<1>3. ASSUME NEW u \in User, Bind(w, u) PROVE IInv'
  <2> DEFINE r == [Idle EXCEPT !.kind = "bind", !.phase = "load", !.user = u]
  <2>1. call' = [call EXCEPT ![w] = r]
    BY <1>3 DEF Bind, Start
  <2>2. call'[w] = r
    BY <2>1, Others DEF IInv
  <2>3. /\ r.kind = "bind" /\ r.phase = "load" /\ r.user = u /\ r.token = NoToken
        /\ r.new = Empty /\ r.base = Empty /\ Idle.token = NoToken
    BY DEF Idle
  <2> HIDE DEF r
  <2>4. Held(w)'
    BY <2>2, <2>3, EmptyDocument DEF Held, Guessing, Carrying, Writing
  <2> QED
    BY <1>1, <2>1, <2>3, <2>4, OwnStep
<1> QED
  BY <1>2, <1>3

LEMMA GuessStep ==
    ASSUME IInv, TypeOK', NEW w \in Caller, WrongCode(w) \/ CountFailure(w)
    PROVE  IInv'
<1>0. TypeOK /\ Held(w)
  BY DEF IInv
<1>1. /\ UNCHANGED <<file, bak, memory, code, guard, issued, used, known, persisted, bound,
                     lost, stale>>
      /\ call[w].kind = "pair" /\ call[w].phase \in {"try", "count"}
  BY DEF WrongCode, CountFailure, told, files
<1>2. ~Carrying(w) /\ call[w].token = NoToken
  BY <1>0, <1>1 DEF Held, Carrying, Writing
<1>3. CASE WrongCode(w)
  <2> DEFINE r == [call[w] EXCEPT !.phase = "count"]
  <2>1. call' = [call EXCEPT ![w] = r] /\ call'[w] = r
    BY <1>0, <1>3, Others DEF WrongCode, Goto
  <2>2. /\ r.kind = "pair" /\ r.phase = "count" /\ r.client = call[w].client
        /\ r.token = call[w].token /\ r.new = call[w].new /\ r.base = call[w].base
    BY <1>0, <1>1 DEF TypeOK, CallRecord
  <2> HIDE DEF r
  <2>3. Held(w)'
    BY <1>0, <1>1, <1>2, <2>1, <2>2 DEF Held, Guessing, Carrying, Writing, Known
  <2> QED
    BY <1>1, <2>1, <2>2, <2>3, OwnStep
<1>4. CASE CountFailure(w)
  <2>1. call' = [call EXCEPT ![w] = Idle] /\ call'[w] = Idle
    BY <1>0, <1>4, Others DEF CountFailure, End
  <2>2. Held(w)'
    BY <2>1, EmptyDocument DEF Held, Guessing, Carrying, Writing
  <2> QED
    BY <1>1, <1>2, <2>1, <2>2, EmptyDocument, OwnStep
<1> QED
  BY <1>3, <1>4

(* The list that is saved has the token that was just issued, and no other.  *)
LEMMA CopyStep ==
    ASSUME IInv, TypeOK', NEW w \in Caller, CopyConfig(w)
    PROVE  IInv'
<1>0. TypeOK /\ Tokens /\ Held(w) /\ memory \in Config
  BY DEF IInv, TypeOK
<1>1. PICK s \in Listings(guard) : Saving(w, memory, memory, [memory EXCEPT !.tokens = s])
  BY DEF CopyConfig
<1>2. /\ call[w].kind = "pair" /\ call[w].phase = "copy"
      /\ UNCHANGED <<file, bak, memory, code, guard, issued, used, known, persisted, bound,
                     lost, stale>>
  BY DEF CopyConfig, told, files
<1>3. Carrying(w) /\ guard = {call[w].token} /\ call[w].token # NoToken
  BY <1>0, <1>2 DEF Carrying, Held
<1>4. call[w].token \in Token
  BY <1>0, <1>3 DEF TypeOK, CallRecord
<1> DEFINE n == [memory EXCEPT !.tokens = s]
           r == [call[w] EXCEPT !.phase = "save", !.seen = memory, !.base = memory, !.new = n]
<1>5. n \in Config /\ Listed(n) = {call[w].token} /\ n.users = memory.users
  BY <1>0, <1>1, <1>3, <1>4, ListingOfOne
<1> HIDE DEF n
<1>6. call' = [call EXCEPT ![w] = r] /\ call'[w] = r
  BY <1>0, <1>1, Others DEF Saving, n
<1>7. /\ r.kind = "pair" /\ r.phase = "save" /\ r.client = call[w].client
      /\ r.token = call[w].token /\ r.seen = memory /\ r.base = memory /\ r.new = n
  BY <1>0, <1>2 DEF TypeOK, CallRecord
<1> HIDE DEF r
<1>8. Listed(memory) \subseteq Known /\ Listed(n) \subseteq Known
  BY <1>0, <1>3, <1>5, <1>4, ConfigAssumption DEF Tokens, TypeOK, Known
<1>9. Held(w)'
  BY <1>0, <1>2, <1>3, <1>5, <1>6, <1>7, <1>8 DEF Held, Guessing, Carrying, Writing, Known
<1> QED
  BY <1>2, <1>6, <1>7, <1>9, OwnStep

(* A document may name tokens that were never issued; its editor has them.   *)
LEMMA PutStep ==
    ASSUME IInv, TypeOK', NEW w \in Caller, NEW e \in Editor, Put(w, e)
    PROVE  IInv'
<1>0. TypeOK /\ Tokens /\ memory \in Config
  BY DEF IInv, TypeOK
<1> DEFINE typed(s) == {s[i] : i \in DOMAIN s} \ {Mask}
           new(s, u) == [tokens |-> Restore(s, memory.tokens), users |-> u]
<1>1. PICK sent \in Sent, users \in SUBSET User :
        /\ Authenticated
        /\ Start(w, [Idle EXCEPT !.kind = "put", !.phase = "save", !.seen = draft[e],
                                 !.base = memory, !.new = new(sent, users)])
        /\ known' = known \cup typed(sent) /\ used' = used \cup typed(sent)
        /\ UNCHANGED <<files, memory, draft, code, guard, fails, issued, persisted, bound,
                       guesses, lost, stale, crashes>>
  BY DEF Put
<1> DEFINE r == [Idle EXCEPT !.kind = "put", !.phase = "save", !.seen = draft[e],
                             !.base = memory, !.new = new(sent, users)]
<1>2. Listed(new(sent, users)) \subseteq typed(sent) \cup {Mask} \cup Listed(memory)
  BY <1>0, PutDocument
<1>3. Listed(memory) \subseteq Known /\ Listed(file) \subseteq Known
      /\ (bak # NoBackup => Listed(bak) \subseteq Known)
  BY <1>0 DEF Tokens
<1> HIDE DEF typed, new
<1>4. call' = [call EXCEPT ![w] = r] /\ call'[w] = r /\ call[w] = Idle
      /\ \A x \in Caller \ {w} : call'[x] = call[x]
  BY <1>0, <1>1, Others DEF Start
<1>5. /\ r.kind = "put" /\ r.phase = "save" /\ r.token = NoToken
      /\ r.base = memory /\ r.new = new(sent, users) /\ Idle.token = NoToken
  BY DEF Idle
<1> HIDE DEF r
<1>6. Authenticated'
  BY <1>1 DEF Authenticated
<1>7. Held(w)'
  BY <1>1, <1>2, <1>3, <1>4, <1>5, <1>6 DEF Held, Guessing, Carrying, Writing, Known
<1>8. Kept'
  BY <1>1, <1>4, <1>5 DEF IInv, Kept, files
<1> QED
  BY <1>1, <1>3, <1>4, <1>5, <1>7, <1>8, MoveStep DEF Known, files

LEMMA LoadStep ==
    ASSUME IInv, TypeOK', NEW w \in Caller, Load(w)
    PROVE  IInv'
<1>0. TypeOK /\ Tokens /\ Held(w) /\ file \in Config
  BY DEF IInv, TypeOK
<1>1. /\ call[w].kind = "bind" /\ call[w].phase = "load" /\ call[w].user \in User
      /\ UNCHANGED <<file, bak, memory, code, guard, issued, used, known, persisted, lost, stale>>
  BY <1>0 DEF Load, Held, files
<1>2. ~Carrying(w) /\ call[w].token = NoToken
  BY <1>0, <1>1 DEF Held, Carrying
<1>3. CASE call[w].user \in file.users
  <2>1. call' = [call EXCEPT ![w] = Idle] /\ call'[w] = Idle
    BY <1>0, <1>3, Others DEF Load, End
  <2>2. Held(w)'
    BY <2>1, EmptyDocument DEF Held, Guessing, Carrying, Writing
  <2>3. bound' = bound \cup {call[w].user}
    BY <1>3 DEF Load
  <2> QED
    BY <1>1, <1>2, <1>3, <2>1, <2>2, <2>3, EmptyDocument, OwnStep
<1>4. CASE call[w].user \notin file.users
  <2> DEFINE n == [file EXCEPT !.users = @ \cup {call[w].user}]
             r == [call[w] EXCEPT !.phase = "save", !.seen = file, !.base = file, !.new = n]
  <2>1. call' = [call EXCEPT ![w] = r] /\ call'[w] = r /\ bound' = bound
    BY <1>0, <1>4, Others DEF Load, Saving
  <2>2. /\ r.kind = "bind" /\ r.phase = "save" /\ r.user = call[w].user
        /\ r.token = call[w].token /\ r.seen = file /\ r.base = file /\ r.new = n
    BY <1>0, <1>1 DEF TypeOK, CallRecord
  <2>3. Listed(n) = Listed(file) /\ Listed(file) \subseteq Known
    BY <1>0, WithUsers DEF Tokens
  <2> HIDE DEF r
  <2>4. Held(w)'
    BY <1>0, <1>1, <1>2, <2>1, <2>2, <2>3 DEF Held, Guessing, Carrying, Writing, Known
  <2> QED
    BY <1>1, <2>1, <2>2, <2>4, OwnStep
<1> QED
  BY <1>3, <1>4

LEMMA BackupStep ==
    ASSUME IInv, TypeOK', NEW w \in Caller, Backup(w) \/ Finish(w)
    PROVE  IInv'
<1>0. TypeOK /\ Held(w)
  BY DEF IInv
<1>1. /\ UNCHANGED <<file, memory, code, guard, issued, used, known, persisted, bound, lost, stale>>
      /\ bak' \in {file, NoBackup} /\ Writing(w)
  BY DEF Backup, Finish, told, Writing
<1>2. ASSUME NEW p \in {"rename", "sync"}, Goto(w, p), call[w].kind = "bind" => p = "rename",
             p = "sync" => call[w].phase = "finish"
      PROVE  IInv'
  <2> DEFINE r == [call[w] EXCEPT !.phase = p]
  <2>1. call' = [call EXCEPT ![w] = r] /\ call'[w] = r
    BY <1>0, <1>2, Others DEF Goto
  <2>2. /\ r.kind = call[w].kind /\ r.phase = p /\ r.client = call[w].client
        /\ r.token = call[w].token /\ r.user = call[w].user
        /\ r.seen = call[w].seen /\ r.base = call[w].base /\ r.new = call[w].new
    BY <1>0 DEF TypeOK, CallRecord
  <2>3. call[w].kind # "none"
    BY <1>0, <1>1, EmptyDocument DEF Held, Writing
  <2> HIDE DEF r
  <2>4. Guessing(w) = FALSE /\ Guessing(w)' = FALSE /\ Writing(w)'
        /\ (Carrying(w)' <=> Carrying(w))
    BY <1>1, <1>2, <2>1, <2>2 DEF Guessing, Writing, Carrying
  <2>5. Authenticated => Authenticated'
    BY <1>1 DEF Authenticated
  <2>6. Held(w)'
    BY <1>0, <1>1, <1>2, <2>1, <2>2, <2>3, <2>4, <2>5 DEF Held, Known
  <2> QED
    BY <1>1, <1>2, <2>1, <2>2, <2>6, OwnStep
<1>3. CASE End(w) /\ call[w].kind = "bind"
  <2>1. call' = [call EXCEPT ![w] = Idle] /\ call'[w] = Idle
    BY <1>0, <1>3, Others DEF End
  <2>2. Held(w)'
    BY <2>1, EmptyDocument DEF Held, Guessing, Carrying, Writing
  <2>3. call[w].token = NoToken
    BY <1>0, <1>3 DEF Held, Carrying
  <2> QED
    BY <1>1, <2>1, <2>2, <2>3, EmptyDocument, OwnStep
<1> QED
  BY <1>2, <1>3 DEF Backup, Finish

(* Unless the file or the gateway's copy differ from what the document was   *)
(* made from, all that was kept in the file is in the document, or was taken *)
(* out by its editor.                                                        *)
LEMMA RenameStep ==
    ASSUME IInv, TypeOK', NEW w \in Caller, Rename(w)
    PROVE  IInv'
<1>0. /\ TypeOK /\ Tokens /\ Kept /\ OneCarrier /\ \A x \in Caller : Held(x)
      /\ call[w] \in CallRecord /\ file \in Config
  BY DEF IInv, TypeOK
<1> DEFINE n == call[w].new
           r == [call[w] EXCEPT !.phase = "finish"]
<1>1. /\ call[w].phase = "rename" /\ file' = n
      /\ stale' = (stale \/ file # call[w].seen \/ file # call[w].base)
      /\ persisted' = persisted \ Removed(w, Listed(call[w].seen), Listed(n))
      /\ bound' = (bound \ Removed(w, call[w].seen.users, n.users)) \cup Added(w)
      /\ UNCHANGED <<bak, memory, code, guard, issued, used, known, lost>>
  BY DEF Rename
<1>2. call' = [call EXCEPT ![w] = r] /\ call'[w] = r /\ \A x \in Caller \ {w} : call'[x] = call[x]
  BY <1>0, Others DEF Rename, Goto
<1>3. /\ r.kind = call[w].kind /\ r.phase = "finish" /\ r.client = call[w].client
      /\ r.token = call[w].token /\ r.user = call[w].user
      /\ r.seen = call[w].seen /\ r.base = call[w].base /\ r.new = call[w].new
  BY <1>0 DEF CallRecord
<1>4. Writing(w) /\ call[w].kind \in {"pair", "put", "bind"}
  BY <1>0, <1>1, EmptyDocument DEF Held, Writing, CallRecord, Kinds
<1> HIDE DEF r
<1>5. Held(w)'
  <2>1. Guessing(w) = FALSE /\ Guessing(w)' = FALSE /\ Writing(w)'
        /\ (Carrying(w)' <=> Carrying(w))
    BY <1>1, <1>2, <1>3 DEF Guessing, Writing, Carrying
  <2>2. Authenticated => Authenticated'
    BY <1>1 DEF Authenticated
  <2> QED
    BY <1>0, <1>1, <1>2, <1>3, <1>4, <2>1, <2>2 DEF Held, Known
<1>6. Kept'
  <2> SUFFICES ASSUME ~stale'
               PROVE  /\ persisted' \subseteq Listed(n) /\ bound' \subseteq n.users
                      /\ \A x \in Caller : call'[x].kind = "pair"
                                           /\ call'[x].phase \in {"finish", "sync"}
                                             => call'[x].token \in Listed(n)
    BY <1>1 DEF Kept
  <2>1. /\ ~stale /\ file = call[w].seen /\ file = call[w].base
        /\ persisted \subseteq Listed(file) /\ bound \subseteq file.users
        /\ \A x \in Caller : call[x].kind = "pair" /\ call[x].phase \in {"finish", "sync"}
                               => call[x].token \in Listed(file)
    BY <1>0, <1>1 DEF Kept
  <2>2. CASE call[w].kind = "pair"
    <3>1. Carrying(w) /\ ~\E x \in Caller \ {w} : Carrying(x)
      BY <1>0, <1>4, <2>2 DEF Carrying, OneCarrier
    <3>2. /\ file = memory /\ Listed(n) = {call[w].token} /\ n.users = memory.users
          /\ Listed(memory) = {}
      BY <1>0, <1>4, <2>1, <2>2, <3>1 DEF Held, Tokens
    <3>3. persisted' = persisted /\ bound' = bound
      BY <1>1, <2>2 DEF Removed, Added
    <3>4. \A x \in Caller : call'[x].kind = "pair" /\ call'[x].phase \in {"finish", "sync"} => x = w
      BY <1>2, <3>1 DEF Carrying, Writing
    <3> QED
      BY <1>2, <1>3, <2>1, <3>2, <3>3, <3>4
  <2>3. CASE call[w].kind = "bind"
    <3>1. n = [file EXCEPT !.users = @ \cup {call[w].user}]
      BY <1>0, <1>4, <2>1, <2>3 DEF Held
    <3>2. Listed(n) = Listed(file) /\ n.users = file.users \cup {call[w].user}
      BY <1>0, <3>1, WithUsers DEF Config
    <3>3. persisted' = persisted /\ bound' = bound \cup {call[w].user}
      BY <1>1, <2>3 DEF Removed, Added
    <3> QED
      BY <1>2, <1>3, <2>1, <2>3, <3>2, <3>3
  <2>4. CASE call[w].kind = "put"
    <3>1. /\ persisted' = persisted \ (Listed(file) \ Listed(n))
          /\ bound' = bound \ (file.users \ n.users)
      BY <1>1, <2>1, <2>4 DEF Removed, Added
    <3>2. \A x \in Caller : ~Carrying(x)
      BY <1>0, <2>4 DEF Held, Authenticated
    <3>3. \A x \in Caller : ~(call'[x].kind = "pair" /\ call'[x].phase \in {"finish", "sync"})
      BY <1>2, <1>3, <2>4, <3>2 DEF Carrying, Writing
    <3> QED
      BY <2>1, <3>1, <3>3
  <2> QED
    BY <1>4, <2>2, <2>3, <2>4
<1>7. Listed(n) \subseteq Known /\ (bak # NoBackup => Listed(bak) \subseteq Known)
  BY <1>0 DEF Held, Tokens
<1> QED
  BY <1>1, <1>2, <1>3, <1>5, <1>6, <1>7, MoveStep DEF Known

(* A call ends: what it carried is handed out, or lost.                      *)
LEMMA ReleaseStep ==
    ASSUME IInv, TypeOK', NEW w \in Caller, SaveFails(w) \/ Drop(w)
    PROVE  IInv'
<1>0. /\ TypeOK /\ Tokens /\ Traced /\ Kept /\ OneCarrier /\ \A x \in Caller : Held(x)
  BY DEF IInv
<1>1. /\ End(w)
      /\ UNCHANGED <<bak, memory, code, guard, issued, used, persisted, bound>>
      /\ known' \in {known, known \cup Carried(w)} /\ lost' \in {lost, TRUE}
      /\ Carried(w) \subseteq known' \/ lost'
  <2>1. CASE SaveFails(w)
    BY <2>1 DEF SaveFails, told, files
  <2>2. CASE Drop(w)
    <3>1. CASE Carried(w) = {}
      BY <1>0, <2>2, <3>1 DEF Drop, told, files, TypeOK
    <3>2. CASE Carried(w) # {}
      BY <1>0, <2>2, <3>2 DEF Drop, told, files, TypeOK
    <3> QED
      BY <3>1, <3>2
  <2> QED
    BY <2>1, <2>2
<1>2. file' \in {file, bak} /\ (file' # file => bak # NoBackup)
      /\ (~stale' => ~stale /\ file' = file)
  <2>1. CASE SaveFails(w)
    <3>1. CASE call[w].phase = "rename" /\ bak # NoBackup
      BY <1>0, <2>1, <3>1 DEF SaveFails, TypeOK
    <3>2. CASE ~(call[w].phase = "rename" /\ bak # NoBackup)
      BY <1>0, <2>1, <3>2 DEF SaveFails, TypeOK
    <3> QED
      BY <3>1, <3>2
  <2>2. CASE Drop(w)
    BY <2>2 DEF Drop, files
  <2> QED
    BY <2>1, <2>2
<1>3. call'[w] = Idle /\ \A x \in Caller \ {w} : call'[x] = call[x]
  BY <1>0, <1>1, Others DEF End
<1>4. ASSUME NEW x \in Caller \ {w}, Carrying(x) PROVE known' = known
  <2>1. ~Carrying(w)
    BY <1>0, <1>4 DEF OneCarrier
  <2>2. Carried(w) = {}
    BY <1>0, <2>1 DEF Held, Carried
  <2> QED
    BY <1>1, <2>2
<1>5. ASSUME NEW x \in Caller PROVE Held(x)'
  <2>1. CASE x = w
    BY <1>3, <2>1, EmptyDocument DEF Held, Guessing, Carrying, Writing
  <2>2. CASE x # w
    <3>1. (Guessing(x)' <=> Guessing(x)) /\ (Writing(x)' <=> Writing(x))
          /\ (Carrying(x)' <=> Carrying(x))
      BY <1>3, <2>2 DEF Guessing, Writing, Carrying
    <3>2. Authenticated => Authenticated'
      BY <1>1 DEF Authenticated
    <3> QED
      BY <1>0, <1>1, <1>3, <1>4, <2>2, <3>1, <3>2 DEF Held, Known
  <2> QED
    BY <2>1, <2>2
<1>6. \A x \in Caller : Carrying(x)' => x # w /\ Carrying(x)
  BY <1>3, EmptyDocument DEF Carrying, Writing
<1>7. OneCarrier'
  BY <1>0, <1>6 DEF OneCarrier
<1>8. Tokens'
  BY <1>0, <1>1, <1>2, <1>6 DEF Tokens, Known
<1>9. Traced'
  <2>1. ASSUME NEW t \in used, call[w].token = t, ~lost' PROVE t \in known'
    BY <1>0, <1>1, <2>1, ConfigAssumption DEF Carried, TypeOK
  <2>2. used' = used /\ known \subseteq known' /\ (~lost' => ~lost)
    <3>1. used' = used /\ known \subseteq known'
      BY <1>1
    <3>2. lost \in BOOLEAN /\ lost' \in BOOLEAN /\ (lost' = lost \/ lost' = TRUE)
      BY <1>0, <1>1 DEF TypeOK
    <3> QED
      BY <3>1, <3>2
  <2>3. ASSUME NEW t \in used, ~lost', t \notin known'
        PROVE  \E x \in Caller : call'[x].token = t
    <3>1. PICK x \in Caller : call[x].token = t
      BY <1>0, <2>2, <2>3 DEF Traced
    <3>2. x # w
      BY <2>1, <2>3, <3>1
    <3> QED
      BY <1>3, <3>1, <3>2
  <2> QED
    BY <2>2, <2>3 DEF Traced
<1>10. Kept'
  BY <1>0, <1>1, <1>2, <1>3, EmptyDocument DEF Kept
<1> QED
  BY <1>5, <1>7, <1>8, <1>9, <1>10 DEF IInv

(* The gateway's copy becomes what was saved: it has a token only when there *)
(* is no code any more and no other is carried.                              *)
LEMMA SyncStep ==
    ASSUME IInv, TypeOK', NEW w \in Caller, Sync(w)
    PROVE  IInv'
<1>0. /\ TypeOK /\ Tokens /\ Traced /\ Kept /\ OneCarrier /\ \A x \in Caller : Held(x)
  BY DEF IInv
<1>1. /\ call[w].phase = "sync" /\ memory' = call[w].new /\ End(w)
      /\ known' = known \cup Carried(w) /\ persisted' = persisted \cup Carried(w)
      /\ UNCHANGED <<file, bak, code, guard, issued, used, bound, lost, stale>>
  BY DEF Sync, files
<1>2. call'[w] = Idle /\ \A x \in Caller \ {w} : call'[x] = call[x]
  BY <1>0, <1>1, Others DEF End
<1>3. Writing(w) /\ call[w].kind \in {"pair", "put"}
  BY <1>0, <1>1, EmptyDocument DEF Held, Writing, TypeOK, CallRecord, Kinds
<1>4. ~code /\ \A x \in Caller \ {w} : ~Carrying(x)
  <2>1. CASE call[w].kind = "pair"
    BY <1>0, <1>3, <2>1 DEF Carrying, Held, OneCarrier, Tokens
  <2>2. CASE call[w].kind = "put"
    BY <1>0, <2>2 DEF Held, Authenticated, Tokens
  <2> QED
    BY <1>3, <2>1, <2>2
<1>5. ASSUME NEW x \in Caller PROVE Held(x)' /\ ~Carrying(x)'
  <2>1. CASE x = w
    BY <1>2, <2>1, EmptyDocument DEF Held, Guessing, Carrying, Writing
  <2>2. CASE x # w
    <3>1. (Guessing(x)' <=> Guessing(x)) /\ (Writing(x)' <=> Writing(x)) /\ ~Carrying(x)'
      BY <1>2, <1>4, <2>2 DEF Guessing, Writing, Carrying
    <3>2. Authenticated => Authenticated'
      BY <1>1 DEF Authenticated
    <3>3. ~Carrying(x) /\ (Writing(x) => call[x].kind # "pair")
      BY <1>4, <2>2 DEF Carrying
    <3> QED
      BY <1>0, <1>1, <1>2, <2>2, <3>1, <3>2, <3>3 DEF Held, Known
  <2> QED
    BY <2>1, <2>2
<1>6. OneCarrier'
  BY <1>5 DEF OneCarrier
<1>7. Tokens'
  BY <1>0, <1>1, <1>4, <1>5 DEF Tokens, Held, Known
<1>8. Traced'
  <2>1. ASSUME NEW t \in used, call[w].token = t PROVE t \in known'
    BY <1>0, <1>1, <2>1, ConfigAssumption DEF Carried, TypeOK
  <2> QED
    BY <1>0, <1>1, <1>2, <2>1 DEF Traced
<1>9. Kept'
  <2>1. ~stale => Carried(w) \subseteq Listed(file)
    <3>1. CASE Carrying(w)
      BY <1>0, <1>1, <3>1 DEF Kept, Carrying, Carried
    <3>2. CASE ~Carrying(w)
      BY <1>0, <3>2 DEF Held, Carried
    <3> QED
      BY <3>1, <3>2
  <2> QED
    BY <1>0, <1>1, <1>2, <2>1, EmptyDocument DEF Kept
<1> QED
  BY <1>5, <1>6, <1>7, <1>8, <1>9 DEF IInv

(* The code buys its token when the guard accepts none: nobody carries one,  *)
(* and no document is on its way.                                            *)
LEMMA RightCodeStep ==
    ASSUME IInv, TypeOK', NEW w \in Caller, RightCode(w)
    PROVE  IInv'
<1>0. /\ TypeOK /\ Tokens /\ Traced /\ Kept /\ OneCarrier /\ \A x \in Caller : Held(x)
  BY DEF IInv
<1>1. PICK t \in Token \ used :
        /\ guard' = guard \cup {t} /\ issued' = issued \cup {t} /\ used' = used \cup {t}
        /\ call' = [call EXCEPT ![w] = [@ EXCEPT !.phase = "copy", !.token = t]]
  BY DEF RightCode
<1>2. /\ call[w].kind = "pair" /\ call[w].phase = "try" /\ code /\ ~code'
      /\ UNCHANGED <<file, bak, memory, known, persisted, bound, lost, stale>>
  BY DEF RightCode, files, told
<1>3. guard' = {t} /\ issued' = {t} /\ t \notin known /\ t # NoToken /\ t \notin guard
  BY <1>0, <1>1, <1>2, ConfigAssumption DEF Tokens, TypeOK
<1> DEFINE r == [call[w] EXCEPT !.phase = "copy", !.token = t]
<1>4. call'[w] = r /\ \A x \in Caller \ {w} : call'[x] = call[x]
  BY <1>0, <1>1, Others
<1>5. /\ r.kind = "pair" /\ r.phase = "copy" /\ r.client = call[w].client /\ r.token = t
      /\ r.base = call[w].base /\ r.new = call[w].new
  BY <1>0, <1>2 DEF TypeOK, CallRecord
<1> HIDE DEF r
<1>6. \A x \in Caller : ~Carrying(x) /\ call[x].kind # "put" /\ call[x].token = NoToken
  BY <1>0, <1>2 DEF Tokens, Held, Authenticated
<1>7. ASSUME NEW x \in Caller PROVE Held(x)'
  <2>1. CASE x = w
    <3>1. Held(w) /\ call[w].client \in Client /\ used \subseteq used'
      BY <1>0, <1>1, <1>2 DEF Held
    <3>2. Carrying(w)' /\ ~Writing(w)' /\ call'[w].kind = "pair" /\ call'[w].client \in Client
          /\ call'[w].token = t /\ guard' = {t} /\ t \notin known' /\ t # NoToken
      BY <1>2, <1>3, <1>4, <1>5, <3>1 DEF Carrying, Writing
    <3>3. Listed(call'[w].base) \subseteq Known' /\ Listed(call'[w].new) \subseteq Known'
      BY <1>4, <1>5, <3>1 DEF Held, Known
    <3> QED
      BY <2>1, <3>2, <3>3 DEF Held
  <2>2. CASE x # w
    <3>1. (Guessing(x)' <=> Guessing(x)) /\ (Writing(x)' <=> Writing(x)) /\ ~Carrying(x)'
      BY <1>4, <1>6, <2>2 DEF Guessing, Writing, Carrying
    <3> QED
      BY <1>0, <1>1, <1>2, <1>4, <1>6, <2>2, <3>1 DEF Held, Carrying, Known
  <2> QED
    BY <2>1, <2>2
<1>8. \A x \in Caller : Carrying(x)' => x = w
  BY <1>4, <1>6 DEF Carrying, Writing
<1>9. OneCarrier'
  BY <1>8 DEF OneCarrier
<1>10. Tokens'
  BY <1>0, <1>1, <1>2, <1>3 DEF Tokens, Single, Known
<1>11. Traced'
  BY <1>0, <1>1, <1>2, <1>4, <1>5, <1>6, ConfigAssumption DEF Traced, TypeOK
<1>12. Kept'
  BY <1>0, <1>2, <1>4, <1>5 DEF Kept
<1> QED
  BY <1>7, <1>9, <1>10, <1>11, <1>12 DEF IInv

(* Only bindings from the command line go on; what was carried is lost.      *)
LEMMA RestartStep ==
    ASSUME IInv, TypeOK', Restart
    PROVE  IInv'
<1>0. TypeOK /\ Tokens /\ Traced /\ Kept /\ \A x \in Caller : Held(x)
  BY DEF IInv
<1>1. /\ memory' = file /\ guard' = Listed(file) /\ code' = (Listed(file) = {}) /\ issued' = {}
      /\ lost' = (lost \/ \E w \in Caller : Carried(w) # {})
      /\ UNCHANGED <<file, bak, used, known, persisted, bound, stale>>
  BY DEF Restart, told, files
<1>2. PICK out \in SUBSET {w \in Caller : call[w].kind = "bind"} :
         call' = [w \in Caller |-> IF w \in out THEN call[w] ELSE Idle]
  BY DEF Restart
<1>3. ASSUME NEW x \in Caller PROVE Held(x)' /\ ~Carrying(x)'
  <2>1. CASE x \in out
    <3>1. call'[x] = call[x] /\ call[x].kind = "bind"
      BY <1>2, <2>1
    <3>2. /\ ~Carrying(x) /\ ~Carrying(x)' /\ ~Guessing(x) /\ ~Guessing(x)'
          /\ (Writing(x)' <=> Writing(x))
      BY <3>1 DEF Carrying, Guessing, Writing
    <3> QED
      BY <1>0, <1>1, <3>1, <3>2 DEF Held, Known
  <2>2. CASE x \notin out
    <3>1. call'[x] = Idle
      BY <1>2, <2>2
    <3> QED
      BY <3>1, EmptyDocument DEF Held, Guessing, Carrying, Writing
  <2> QED
    BY <2>1, <2>2
<1>4. OneCarrier'
  BY <1>3 DEF OneCarrier
<1>5. Tokens'
  BY <1>0, <1>1, <1>3 DEF Tokens, Single, Known
<1>6. Traced'
  <2>1. ASSUME NEW t \in used, NEW w \in Caller, call[w].token = t PROVE lost'
    BY <1>0, <1>1, <2>1, ConfigAssumption DEF Carried, TypeOK
  <2> QED
    BY <1>0, <1>1, <2>1 DEF Traced
<1>7. Kept'
  <2>1. \A x \in Caller : call'[x].kind # "pair"
    BY <1>2, EmptyDocument
  <2> QED
    BY <1>0, <1>1, <2>1 DEF Kept
<1> QED
  BY <1>3, <1>4, <1>5, <1>6, <1>7 DEF IInv

LEMMA StepInv == IInv /\ [Next]_vars => IInv'
<1> SUFFICES ASSUME IInv, [Next]_vars PROVE IInv'
  OBVIOUS
<1>0. TypeOK'
  BY StepType
<1>1. CASE \/ UNCHANGED vars
           \/ \E c \in Client : Forget(c)
           \/ \E e \in Editor : Fetch(e)
  <2>1. UNCHANGED <<file, bak, memory, code, guard, call, issued, used, known, persisted, bound,
                    lost, stale>>
    BY <1>1 DEF vars, Forget, Fetch, told, files
  <2> QED
    BY <1>0, <2>1 DEF IInv, Tokens, Traced, Kept, Held, OneCarrier, Guessing, Carrying,
                      Writing, Known, Authenticated
<1>2. CASE Restart
  BY <1>0, <1>2, RestartStep
<1>3. ASSUME NEW w \in Caller,
             \/ \E c \in Client : BeginPair(w, c)
             \/ RightCode(w) \/ WrongCode(w) \/ CountFailure(w) \/ CopyConfig(w)
             \/ \E e \in Editor : Put(w, e)
             \/ \E u \in User : Bind(w, u)
             \/ Load(w) \/ Backup(w) \/ Rename(w) \/ SaveFails(w) \/ Finish(w) \/ Sync(w)
             \/ Drop(w)
      PROVE  IInv'
  BY <1>0, <1>3, BeginStep, RightCodeStep, GuessStep, CopyStep, PutStep, LoadStep, BackupStep,
     RenameStep, ReleaseStep, SyncStep
<1> QED
  BY <1>1, <1>2, <1>3 DEF Next

LEMMA Invariance == Spec => []IInv
  BY InitInv, StepInv, PTL DEF Spec

LEMMA SingleCount ==
    ASSUME NEW S, Single(S)
    PROVE  Cardinality(S) <= 1
<1>1. CASE S = {}
  <2>1. Cardinality({}) = 0
    BY FS_EmptySet
  <2> QED
    BY <1>1, <2>1
<1>2. ASSUME NEW s \in S PROVE Cardinality(S) <= 1
  <2>1. S = {s}
    BY <1>2 DEF Single
  <2>2. Cardinality({s}) = 1
    BY FS_Singleton
  <2> QED
    BY <2>1, <2>2
<1> QED
  BY <1>1, <1>2

(* The requests that may still count a wrong code of a client.               *)
LEMMA CountStep ==
    ASSUME Counted, TypeOK, TypeOK', NEW c \in Client,
           \/ fails'[c] < MaxAttempts
           \/ fails'[c] = fails[c] /\ Guessers(c)' \subseteq Guessers(c)
           \/ \E w \in Guessers(c) : /\ fails'[c] = fails[c] + 1
                                     /\ Guessers(c)' = Guessers(c) \ {w}
    PROVE  fails'[c] + Cardinality(Guessers(c)') < MaxAttempts + Cardinality(Caller)
<1>1. IsFiniteSet(Caller) /\ MaxAttempts \in Nat
  BY ConfigAssumption
<1>2. /\ IsFiniteSet(Guessers(c)) /\ IsFiniteSet(Guessers(c)')
      /\ Cardinality(Guessers(c)') <= Cardinality(Caller)
  BY <1>1, FS_Subset DEF Guessers
<1>3. /\ Cardinality(Guessers(c)) \in Nat /\ Cardinality(Guessers(c)') \in Nat
      /\ Cardinality(Caller) \in Nat /\ fails[c] \in Nat /\ fails'[c] \in Nat
  BY <1>1, <1>2, FS_CardinalityType DEF TypeOK
<1>4. fails[c] + Cardinality(Guessers(c)) < MaxAttempts + Cardinality(Caller)
  BY DEF Counted
<1>5. CASE fails'[c] < MaxAttempts
  BY <1>1, <1>2, <1>3, <1>5
<1>6. CASE fails'[c] = fails[c] /\ Guessers(c)' \subseteq Guessers(c)
  <2>1. Cardinality(Guessers(c)') <= Cardinality(Guessers(c))
    BY <1>2, <1>6, FS_Subset
  <2> QED
    BY <1>1, <1>3, <1>4, <1>6, <2>1
<1>7. ASSUME NEW w \in Guessers(c), fails'[c] = fails[c] + 1,
             Guessers(c)' = Guessers(c) \ {w}
      PROVE  fails'[c] + Cardinality(Guessers(c)') < MaxAttempts + Cardinality(Caller)
  <2>1. Cardinality(Guessers(c)') = Cardinality(Guessers(c)) - 1
    BY <1>2, <1>7, FS_RemoveElement
  <2> QED
    BY <1>1, <1>3, <1>4, <1>7, <2>1
<1> QED
  BY <1>5, <1>6, <1>7

LEMMA CountedInit == ASSUME Init PROVE Counted
<1>1. guesses = fails /\ \A c \in Client : fails[c] = 0 /\ Guessers(c) = {}
  BY DEF Init, Guessers, Guessing, Idle
<1>2. Cardinality(Caller) \in Nat /\ Cardinality({}) = 0 /\ MaxAttempts \in Nat \ {0}
  BY ConfigAssumption, FS_CardinalityType, FS_EmptySet
<1> QED
  BY <1>1, <1>2 DEF Counted

LEMMA CountedStep ==
    ASSUME IInv, IInv', Counted, [Next]_vars
    PROVE  Counted'
<1>0. /\ call \in [Caller -> CallRecord] /\ TypeOK /\ TypeOK' /\ guesses = fails
      /\ fails \in [Client -> Nat] /\ \A w \in Caller : Held(w)
      /\ MaxAttempts \in Nat \ {0}
  BY ConfigAssumption DEF IInv, TypeOK, Counted
<1>1. guesses' = fails'
  <2>1. CASE \/ Restart \/ UNCHANGED vars \/ \E c \in Client : Forget(c)
             \/ \E e \in Editor : Fetch(e)
    BY <1>0, <2>1 DEF Restart, vars, Forget, Fetch
  <2>2. ASSUME NEW w \in Caller, CountFailure(w) \/ RightCode(w) PROVE guesses' = fails'
    BY <1>0, <2>2 DEF CountFailure, RightCode
  <2>3. ASSUME NEW w \in Caller,
               \/ WrongCode(w) \/ CopyConfig(w) \/ Load(w) \/ Backup(w) \/ Rename(w)
               \/ SaveFails(w) \/ Finish(w) \/ Sync(w) \/ Drop(w)
               \/ \E c \in Client : BeginPair(w, c)
               \/ \E e \in Editor : Put(w, e)
               \/ \E u \in User : Bind(w, u)
        PROVE  guesses' = fails'
    BY <1>0, <2>3 DEF WrongCode, CopyConfig, Load, Backup, Rename, SaveFails, Finish, Sync, Drop,
                      BeginPair, Put, Bind
  <2> QED
    BY <2>1, <2>2, <2>3 DEF Next
<1> SUFFICES ASSUME NEW c \in Client
             PROVE  \/ fails'[c] < MaxAttempts
                    \/ fails'[c] = fails[c] /\ Guessers(c)' \subseteq Guessers(c)
                    \/ \E w \in Guessers(c) : /\ fails'[c] = fails[c] + 1
                                              /\ Guessers(c)' = Guessers(c) \ {w}
  BY <1>0, <1>1, CountStep DEF Counted
<1>2. CASE UNCHANGED vars
  BY <1>2 DEF vars, Guessers, Guessing
<1>3. CASE Restart
  BY <1>0, <1>3 DEF Restart
<1>4. ASSUME NEW d \in Client, Forget(d)
      PROVE  fails'[c] = 0 \/ (fails'[c] = fails[c] /\ Guessers(c)' = Guessers(c))
  BY <1>0, <1>4 DEF Forget, Guessers, Guessing
<1>5. ASSUME NEW w \in Caller, NEW d \in Client, BeginPair(w, d)
      PROVE  fails'[c] < MaxAttempts \/ (fails'[c] = fails[c] /\ Guessers(c)' \subseteq Guessers(c))
  <2>1. CASE c = d
    BY <1>0, <1>5, <2>1 DEF BeginPair, Locked
  <2>2. CASE c # d
    <3>1. call'[w].client = d /\ \A x \in Caller \ {w} : call'[x] = call[x]
      BY <1>0, <1>5 DEF BeginPair, Start, Idle
    <3> QED
      BY <1>5, <2>2, <3>1 DEF BeginPair, Guessers, Guessing
  <2> QED
    BY <2>1, <2>2
<1>6. ASSUME NEW w \in Caller, CountFailure(w)
      PROVE  \/ fails'[c] = fails[c] /\ Guessers(c)' \subseteq Guessers(c)
             \/ w \in Guessers(c) /\ fails'[c] = fails[c] + 1 /\ Guessers(c)' = Guessers(c) \ {w}
  <2>1. call'[w] = Idle /\ \A x \in Caller \ {w} : call'[x] = call[x]
    BY <1>0, <1>6 DEF CountFailure, End
  <2>2. Idle.kind = "none" /\ Guessing(w) /\ call[w].client \in Client
    BY <1>0, <1>6 DEF Idle, CountFailure, Held, Guessing
  <2>3. Guessers(c)' = Guessers(c) \ {w}
    BY <2>1, <2>2 DEF Guessers, Guessing
  <2>4. fails' = [fails EXCEPT ![call[w].client] = @ + 1]
    BY <1>6 DEF CountFailure
  <2>5. CASE call[w].client = c
    BY <1>0, <2>2, <2>3, <2>4, <2>5 DEF Guessers
  <2>6. CASE call[w].client # c
    BY <1>0, <2>2, <2>3, <2>4, <2>6
  <2> QED
    BY <2>5, <2>6
<1>7. ASSUME NEW w \in Caller, RightCode(w)
      PROVE  fails'[c] = 0 \/ (fails'[c] = fails[c] /\ Guessers(c)' \subseteq Guessers(c))
  <2>1. /\ fails' = [fails EXCEPT ![call[w].client] = 0]
        /\ \A x \in Caller : call'[x].kind = "pair" /\ call'[x].phase \in {"try", "count"}
                               => call'[x] = call[x]
    BY <1>0, <1>7 DEF RightCode, CallRecord
  <2> QED
    BY <1>0, <2>1 DEF Guessers, Guessing
<1>8. ASSUME NEW w \in Caller, WrongCode(w)
      PROVE  fails'[c] = fails[c] /\ Guessers(c)' = Guessers(c)
  <2>1. /\ fails' = fails /\ call'[w].kind = "pair" /\ call[w].kind = "pair"
        /\ call'[w].phase = "count" /\ call[w].phase = "try"
        /\ call'[w].client = call[w].client
        /\ \A x \in Caller \ {w} : call'[x] = call[x]
    BY <1>0, <1>8 DEF WrongCode, Goto, CallRecord
  <2> QED
    BY <2>1 DEF Guessers, Guessing
<1>9. ASSUME NEW w \in Caller,
             \/ CopyConfig(w) \/ (\E e \in Editor : Put(w, e)) \/ (\E u \in User : Bind(w, u))
             \/ Load(w) \/ Backup(w) \/ Rename(w) \/ SaveFails(w) \/ Finish(w) \/ Sync(w)
             \/ Drop(w)
      PROVE  fails'[c] = fails[c] /\ Guessers(c)' \subseteq Guessers(c)
  <2>1. fails' = fails /\ \A x \in Caller \ {w} : call'[x] = call[x]
    <3>1. CASE CopyConfig(w) \/ Load(w)
      BY <1>0, <3>1 DEF CopyConfig, Load, Saving, End
    <3>2. CASE (\E e \in Editor : Put(w, e)) \/ (\E u \in User : Bind(w, u))
      BY <1>0, <3>2 DEF Put, Bind, Start
    <3>3. CASE \/ Backup(w) \/ Rename(w) \/ SaveFails(w) \/ Finish(w) \/ Sync(w) \/ Drop(w)
      BY <1>0, <3>3 DEF Backup, Rename, SaveFails, Finish, Sync, Drop, End, Goto
    <3> QED
      BY <1>9, <3>1, <3>2, <3>3
  <2>2. ~Guessing(w)'
    <3>1. Idle.kind = "none"
      BY DEF Idle
    <3>2. CASE CopyConfig(w) \/ Load(w)
      <4>1. call'[w].phase = "save" \/ call'[w] = Idle
        BY <1>0, <3>2 DEF CopyConfig, Load, Saving, End, CallRecord
      <4> QED
        BY <3>1, <4>1 DEF Guessing
    <3>3. ASSUME NEW e \in Editor, Put(w, e) PROVE ~Guessing(w)'
      <4>1. call'[w].kind = "put"
        BY <1>0, <3>3 DEF Put, Start, Idle
      <4> QED
        BY <4>1 DEF Guessing
    <3>4. ASSUME NEW u \in User, Bind(w, u) PROVE ~Guessing(w)'
      <4>1. call'[w].kind = "bind"
        BY <1>0, <3>4 DEF Bind, Start, Idle
      <4> QED
        BY <4>1 DEF Guessing
    <3>5. CASE Backup(w) \/ Rename(w) \/ Finish(w)
      <4>1. End(w) \/ \E p \in {"rename", "finish", "sync"} : Goto(w, p)
        BY <3>5 DEF Backup, Rename, Finish
      <4>2. call'[w] = Idle \/ call'[w].phase \in {"rename", "finish", "sync"}
        BY <1>0, <4>1 DEF End, Goto, CallRecord
      <4> QED
        BY <3>1, <4>2 DEF Guessing
    <3>6. CASE SaveFails(w) \/ Sync(w) \/ Drop(w)
      BY <1>0, <3>1, <3>6 DEF SaveFails, Sync, Drop, End, Guessing
    <3> QED
      BY <1>9, <3>2, <3>3, <3>4, <3>5, <3>6
  <2> QED
    BY <2>1, <2>2 DEF Guessers, Guessing
<1>10. ASSUME NEW e \in Editor, Fetch(e)
       PROVE  fails'[c] = fails[c] /\ Guessers(c)' = Guessers(c)
  BY <1>10 DEF Fetch, Guessers, Guessing
<1> QED
  BY <1>0, <1>2, <1>3, <1>4, <1>5, <1>6, <1>7, <1>8, <1>9, <1>10 DEF Next

(* Types are kept (GatewayConfig!TypeOK): whatever the documents are edited   *)
(* into and however the file, its copy, the gateway's copy and the screens   *)
(* are pushed over one another, a list has only tokens and masks, the guard  *)
(* accepts only what was issued or typed and the mask, and nothing is called *)
(* persisted that nobody was given.                                          *)
THEOREM TypeCorrect == Spec => []TypeOK
<1>1. IInv => TypeOK
  BY DEF IInv
<1> QED
  BY <1>1, Invariance, PTL

(* The one-time code buys one token, however many requests race for it, and  *)
(* while there is a code nobody is accepted, whatever tokens editors send    *)
(* (GatewayConfig!OneTokenPerCode).                                          *)
THEOREM OneTokenCorrect == Spec => []OneTokenPerCode
<1>1. IInv => OneTokenPerCode
  <2>1. IInv => Single(issued) /\ (code => issued = {} /\ guard = {})
    BY DEF IInv, Tokens
  <2> QED
    BY <2>1, SingleCount DEF OneTokenPerCode
<1> QED
  BY <1>1, Invariance, PTL

(* Nobody is locked out but in the two ways the property names: an answer    *)
(* with a token was lost, or the guard was loaded with nothing but a mask    *)
(* (GatewayConfig!SomeoneGetsIn). There is always a code or something the    *)
(* guard accepts, and a token it accepts is known, on its way, or was lost.  *)
THEOREM AccessCorrect == Spec => []SomeoneGetsIn
<1>1. IInv => SomeoneGetsIn
  <2> SUFFICES ASSUME IInv, ~code, ~lost, guard # {Mask} PROVE SomeoneGetsIn
    BY DEF SomeoneGetsIn
  <2>1. guard # {} /\ guard \subseteq used \cup {Mask}
    BY DEF IInv, Tokens, TypeOK
  <2>2. PICK t \in guard : t \in used
    BY <2>1
  <2> QED
    BY <2>2 DEF IInv, Traced, SomeoneGetsIn
<1> QED
  BY <1>1, Invariance, PTL

(* What was said to be persisted or bound is in the file until an editor     *)
(* takes it out, as long as every file was replaced by one made from it      *)
(* (GatewayConfig!KeptUnlessStale): whatever fails between the copy that is  *)
(* made of the file and the sync of its directory.                           *)
THEOREM KeptCorrect == Spec => []KeptUnlessStale
<1>1. IInv => KeptUnlessStale
  BY DEF IInv, Kept, KeptUnlessStale
<1> QED
  BY <1>1, Invariance, PTL

(* A client is told of fewer wrong codes than lock it out, and one for each  *)
(* request that had already passed the lockout (GatewayConfig!GuessesBounded). *)
THEOREM GuessesCorrect == Spec => []GuessesBounded
<1>1. IInv /\ Counted => GuessesBounded
  <2> SUFFICES ASSUME IInv, Counted, NEW c \in Client
               PROVE  guesses[c] < MaxAttempts + Cardinality(Caller)
    BY DEF GuessesBounded
  <2>1. /\ IsFiniteSet(Guessers(c)) /\ IsFiniteSet(Caller) /\ MaxAttempts \in Nat
        /\ guesses[c] = fails[c] /\ fails[c] \in Nat
    BY ConfigAssumption, FS_Subset DEF Guessers, IInv, TypeOK, Counted
  <2>2. Cardinality(Guessers(c)) \in Nat /\ Cardinality(Caller) \in Nat
    BY <2>1, FS_CardinalityType
  <2> QED
    BY <2>1, <2>2 DEF Counted
<1>2. Spec => []Counted
  BY CountedInit, CountedStep, Invariance, PTL DEF Spec
<1> QED
  BY <1>1, <1>2, Invariance, PTL
==============================================================================
