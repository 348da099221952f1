----------------------------- MODULE AgentSession ----------------------------
(* The interactive session of the agent: the loop over the user's inputs,    *)
(* the tool-call loop of a turn, the chain of models and providers behind    *)
(* each question, the approval of tools, and the history kept across turns.  *)
(* A call stands for a tool with its arguments. The system prompt, which is  *)
(* never cut, is left out of the history.                                    *)
EXTENDS Naturals, Sequences, FiniteSets

CONSTANTS
    Call,            \* tool_call_signature: a tool and its arguments
    Tool,
    ToolOf,          \* the tool of a call
    AutoApprove,     \* tools that never need approval
    AlwaysAsk,       \* tools that always do
    Caps,            \* what max_history_messages may be
    KeepRecent,      \* COMPACTION_KEEP_RECENT_MESSAGES
    Window,          \* messages the model's context holds
    MaxIterations,   \* max_tool_iterations
    Models,          \* length of the model chain
    Providers,       \* number of providers
    MaxRetries,
    MaxCalls,        \* bound: calls in one reply of the model
    MaxTurns         \* bound: turns of the session

ASSUME SessionAssumption ==
    /\ ToolOf \in [Call -> Tool] /\ AutoApprove \subseteq Tool /\ AlwaysAsk \subseteq Tool
    /\ Caps \subseteq Nat /\ KeepRecent \in Nat \ {0} /\ Window \in Nat
    /\ MaxIterations \in Nat \ {0} /\ MaxRetries \in Nat
    /\ Models \in Nat \ {0} /\ Providers \in Nat \ {0}
    /\ MaxCalls \in Nat \ {0} /\ MaxTurns \in Nat

VARIABLES
    config,       \* autonomy level and history cap of the session
    phase,        \* where run and run_tool_call_loop are
    turn,         \* number of the user's input
    iteration,    \* rounds of tool calls made in this turn
    at,           \* the attempt the provider chain is at
    tried,        \* models and providers asked since the chain was entered
    batch,        \* the calls of the model's last reply
    ids,          \* whether they carry ids
    index,        \* the call the gate is at
    parallel,     \* whether the calls may run concurrently
    answers,      \* what the user said of the calls of the batch
    results,      \* for each call of the batch, the call its result is of
    executable,   \* calls that passed the gate
    executed,     \* calls of the batch that were executed
    seen,         \* signatures seen in this turn
    count,        \* executions of a signature in this turn
    allowlist,    \* tools the user always allows
    history,
    round,        \* number of the last round of calls
    verdict,      \* how the last turn ended
    forgotten     \* whether messages were removed since the last /new

batchVars == <<batch, ids, index, parallel, answers, results, executable, executed>>
turnVars  == <<seen, count>>
vars == <<config, phase, turn, iteration, at, tried, batchVars, turnVars, allowlist,
          history, round, verdict, forgotten>>
------------------------------------------------------------------------------
Phases == {"prompt", "iterating", "asking", "gating", "executing"}
Verdicts == {"none", "answered", "exhausted", "refused", "overflow", "unreachable"}
Decisions == {"yes", "no", "always"}

\* A round's results are one message each if the calls have ids, one in all if not.
Message == [kind : {"user", "answer", "summary"}] \cup
           [kind : {"calls"}, round : Nat, size : Nat] \cup
           [kind : {"result"}, round : Nat, id : Nat, of : Nat] \cup
           [kind : {"results"}, round : Nat]

Config == [supervised : BOOLEAN, cap : Caps]
Pair == (1 .. Models) \X (1 .. Providers)
Batch == UNION {[1 .. n -> Call] : n \in 1 .. MaxCalls}

\* Mutant of NeedsApproval: a tool the user always allows is not asked for.
NeedsApprovalUnlessAllowed(tool) ==
    /\ config.supervised
    /\ tool \notin AutoApprove \cup allowlist

(* ApprovalManager.needs_approval. *)
NeedsApproval(tool) ==
    /\ config.supervised
    /\ tool \in AlwaysAsk \/ tool \notin AutoApprove \cup allowlist

Init ==
    /\ config \in Config
    /\ phase = "prompt" /\ turn = 0 /\ iteration = 0
    /\ at = [model |-> 1, provider |-> 1, attempt |-> 0] /\ tried = {}
    /\ batch = <<>> /\ ids = FALSE /\ index = 1 /\ parallel = FALSE
    /\ answers = <<>> /\ results = <<>> /\ executable = {} /\ executed = {}
    /\ seen = {} /\ count = [c \in Call |-> 0]
    /\ allowlist = {} /\ history = <<>> /\ round = 0
    /\ verdict = "none" /\ forgotten = FALSE
------------------------------------------------------------------------------
(* run: the user's input opens a turn. *)
Say ==
    /\ phase = "prompt" /\ turn < MaxTurns
    /\ turn' = turn + 1
    /\ history' = Append(history, [kind |-> "user"])
    /\ iteration' = 0 /\ seen' = {} /\ count' = [c \in Call |-> 0]
    /\ phase' = "iterating"
    /\ UNCHANGED <<config, at, tried, batchVars, allowlist, round, verdict, forgotten>>

(* run: /new, confirmed. *)
Clear ==
    /\ phase = "prompt"
    /\ history' = <<>> /\ forgotten' = FALSE
    /\ UNCHANGED <<config, phase, turn, iteration, at, tried, batchVars, turnVars,
                   allowlist, round, verdict>>

(* run: the error of a turn is shown; what the turn put into the history     *)
(* stays, and neither compaction nor trimming happens.                       *)
FailTurn(v) ==
    /\ phase' = "prompt" /\ verdict' = v
    /\ UNCHANGED <<config, turn, iteration, batchVars, turnVars, allowlist, history,
                   round, forgotten>>

(* run_tool_call_loop: the head of the loop. The provider may not take the   *)
(* images of the history, or they cannot be prepared.                        *)
Iterate ==
    /\ phase = "iterating"
    /\ \/ /\ iteration < MaxIterations
          /\ phase' = "asking"
          /\ at' = [model |-> 1, provider |-> 1, attempt |-> 0] /\ tried' = {}
          /\ UNCHANGED <<config, turn, iteration, batchVars, turnVars, allowlist, history,
                         round, verdict, forgotten>>
       \/ /\ iteration < MaxIterations
          /\ FailTurn("refused") /\ UNCHANGED <<at, tried>>
       \/ /\ iteration = MaxIterations
          /\ FailTurn("exhausted") /\ UNCHANGED <<at, tried>>
------------------------------------------------------------------------------
(* ReliableProvider.chat.                                                    *)
Ask == tried' = tried \cup {<<at.model, at.provider>>}

\* Mutant of NextProvider: the chain starts again at its end.
NextProviderAround ==
    /\ at' = IF at.provider < Providers THEN [at EXCEPT !.provider = @ + 1, !.attempt = 0]
             ELSE [model |-> IF at.model < Models THEN at.model + 1 ELSE 1,
                   provider |-> 1, attempt |-> 0]
    /\ UNCHANGED <<config, phase, turn, iteration, batchVars, turnVars, allowlist,
                   history, round, verdict, forgotten>>

(* The next provider, then the next model, then the error. *)
NextProvider ==
    \/ /\ at.provider < Providers
       /\ at' = [at EXCEPT !.provider = @ + 1, !.attempt = 0]
       /\ UNCHANGED <<config, phase, turn, iteration, batchVars, turnVars, allowlist,
                      history, round, verdict, forgotten>>
    \/ /\ at.provider = Providers /\ at.model < Models
       /\ at' = [model |-> at.model + 1, provider |-> 1, attempt |-> 0]
       /\ UNCHANGED <<config, phase, turn, iteration, batchVars, turnVars, allowlist,
                      history, round, verdict, forgotten>>
    \/ /\ at.provider = Providers /\ at.model = Models
       /\ FailTurn("unreachable") /\ UNCHANGED at

(* A retryable error: again after the backoff, while retries are left. *)
Retry ==
    /\ phase = "asking" /\ Ask
    /\ \/ /\ at.attempt < MaxRetries
          /\ at' = [at EXCEPT !.attempt = @ + 1]
          /\ UNCHANGED <<config, phase, turn, iteration, batchVars, turnVars, allowlist,
                         history, round, verdict, forgotten>>
       \/ at.attempt = MaxRetries /\ NextProvider

(* An error that retrying cannot heal. *)
MoveOn == phase = "asking" /\ Ask /\ NextProvider

(* The context is exceeded: no retry and no fallback. *)
Overflow ==
    /\ phase = "asking" /\ Ask
    /\ Len(history) > Window
    /\ FailTurn("overflow") /\ UNCHANGED at
------------------------------------------------------------------------------
Latest(h, n) == SubSeq(h, Len(h) - n + 1, Len(h))

\* Mutant of Compact: the compacted messages are dropped, not summarised.
CompactAway(h) ==
    IF Len(h) <= config.cap \/ Len(h) <= KeepRecent THEN h ELSE Latest(h, KeepRecent)

(* auto_compact_history; a summary the model cannot write is cut from the    *)
(* transcript.                                                               *)
Compact(h) ==
    IF Len(h) <= config.cap \/ Len(h) <= KeepRecent THEN h
    ELSE <<[kind |-> "summary"]>> \o Latest(h, KeepRecent)

(* trim_history. *)
Trim(h) == IF Len(h) <= config.cap THEN h ELSE Latest(h, config.cap)

(* A reply without calls ends the turn: it is stored and shown, and the      *)
(* history is compacted, then trimmed.                                       *)
Answer ==
    /\ phase = "asking" /\ Ask
    /\ Len(history) <= Window
    /\ LET said == Append(history, [kind |-> "answer"]) IN
          /\ history' = Trim(Compact(said))
          /\ forgotten' = (forgotten \/ Compact(said) # said \/ Trim(said) # said)
    /\ phase' = "prompt" /\ verdict' = "answered"
    /\ UNCHANGED <<config, turn, iteration, at, batchVars, turnVars, allowlist, round>>

(* The reply asks for tools. *)
CallTools(b) ==
    /\ phase = "asking" /\ Ask
    /\ Len(history) <= Window
    /\ batch' = b /\ ids' \in BOOLEAN /\ index' = 1
    /\ parallel' = (Len(b) > 1 /\ \A i \in DOMAIN b : ~NeedsApproval(ToolOf[b[i]]))
    /\ answers' = [i \in DOMAIN b |-> "none"] /\ results' = [i \in DOMAIN b |-> 0]
    /\ executable' = {} /\ executed' = {}
    /\ phase' = "gating"
    /\ UNCHANGED <<config, turn, iteration, at, turnVars, allowlist, history, round, verdict,
                   forgotten>>
------------------------------------------------------------------------------
(* A call seen before in this turn is answered and not executed. *)
Admit(i) ==
    IF batch[i] \in seen
    THEN results' = [results EXCEPT ![i] = i] /\ UNCHANGED <<seen, executable>>
    ELSE seen' = seen \cup {batch[i]} /\ executable' = executable \cup {i} /\ UNCHANGED results

Deny(i) == results' = [results EXCEPT ![i] = i] /\ UNCHANGED <<seen, executable>>

(* The gate passes over the calls in order; the user is asked for those that *)
(* need approval.                                                            *)
Gate(d) ==
    /\ phase = "gating"
    /\ IF NeedsApproval(ToolOf[batch[index]])
       THEN /\ answers' = [answers EXCEPT ![index] = d]
            /\ allowlist' = IF d = "always" THEN allowlist \cup {ToolOf[batch[index]]}
                            ELSE allowlist
            /\ IF d = "no" THEN Deny(index) ELSE Admit(index)
       ELSE d = "yes" /\ Admit(index) /\ UNCHANGED <<answers, allowlist>>
    /\ index' = index + 1
    /\ phase' = IF index = Len(batch) THEN "executing" ELSE "gating"
    /\ UNCHANGED <<config, turn, iteration, at, tried, batch, ids, parallel, executed, count,
                   history, round, verdict, forgotten>>

Pending == executable \ executed

(* execute_one_tool: in order, or in any order when run concurrently. A tool *)
(* that is unknown or fails has a result, too.                               *)
Execute(i) ==
    /\ phase = "executing" /\ i \in Pending
    /\ ~parallel => \A j \in Pending : i <= j
    /\ executed' = executed \cup {i}
    /\ count' = [count EXCEPT ![batch[i]] = @ + 1]
    /\ results' = [results EXCEPT ![i] = i]
    /\ UNCHANGED <<config, phase, turn, iteration, at, tried, batch, ids, index, parallel,
                   answers, executable, seen, allowlist, history, round, verdict, forgotten>>

CallsMessage == [kind |-> "calls", round |-> round + 1, size |-> IF ids THEN Len(batch) ELSE 0]
ResultMessage(i) == [kind |-> "result", round |-> round + 1, id |-> i, of |-> results[i]]

\* Mutant of Report: the results of denied and repeated calls come first.
ReportAsTheyCame ==
    IF ids THEN
        LET n == Len(batch)
            order == CHOOSE p \in [1 .. n -> 1 .. n] :
                        /\ \A i, j \in 1 .. n : i # j => p[i] # p[j]
                        /\ \A i, j \in 1 .. n : p[i] \in executable /\ p[j] \notin executable
                                                  => j < i
        IN  [i \in 1 .. n |-> [ResultMessage(i) EXCEPT !.of = order[i]]]
    ELSE <<[kind |-> "results", round |-> round + 1]>>

(* One message for each call that has an id, or one in all. *)
Report ==
    IF ids THEN [i \in 1 .. Len(batch) |-> ResultMessage(i)]
    ELSE <<[kind |-> "results", round |-> round + 1]>>

\* Mutant of Record: the results are stored before the reply that asked for them.
RecordResultsFirst ==
    /\ phase = "executing" /\ Pending = {}
    /\ history' = Append(history \o Report, CallsMessage)
    /\ round' = round + 1 /\ iteration' = iteration + 1
    /\ phase' = "iterating"
    /\ UNCHANGED <<config, turn, at, tried, batchVars, turnVars, allowlist, verdict, forgotten>>

(* The calls and their results go into the history together.                 *)
Record ==
    /\ phase = "executing" /\ Pending = {}
    /\ history' = Append(history, CallsMessage) \o Report
    /\ round' = round + 1 /\ iteration' = iteration + 1
    /\ phase' = "iterating"
    /\ UNCHANGED <<config, turn, at, tried, batchVars, turnVars, allowlist, verdict, forgotten>>
------------------------------------------------------------------------------
Step ==
    \/ Iterate \/ Retry \/ MoveOn \/ Overflow \/ Answer
    \/ \E b \in Batch : CallTools(b)
    \/ \E d \in Decisions : Gate(d)
    \/ \E i \in 1 .. MaxCalls : Execute(i)
    \/ Record

Quit == phase = "prompt" /\ UNCHANGED vars

Next == Say \/ Clear \/ Step \/ Quit

Spec == Init /\ [][Next]_vars

(* The runtime goes on with the turn; requests have timeouts, tools return   *)
(* and the user answers the prompt.                                          *)
FairSpec == Spec /\ WF_vars(Step)
------------------------------------------------------------------------------
TypeOK ==
    /\ config \in Config
    /\ phase \in Phases /\ turn \in 0 .. MaxTurns /\ iteration \in 0 .. MaxIterations
    /\ at \in [model : 1 .. Models, provider : 1 .. Providers, attempt : 0 .. MaxRetries]
    /\ tried \subseteq Pair
    /\ batch \in Batch \cup {<<>>} /\ ids \in BOOLEAN /\ parallel \in BOOLEAN
    /\ phase = "gating" => index \in DOMAIN batch
    /\ answers \in [DOMAIN batch -> Decisions \cup {"none"}]
    /\ results \in [DOMAIN batch -> 0 .. MaxCalls]
    /\ executable \subseteq DOMAIN batch /\ executed \subseteq executable
    /\ seen \subseteq Call /\ count \in [Call -> Nat]
    /\ allowlist \subseteq Tool
    /\ history \in Seq(Message) /\ round \in Nat
    /\ verdict \in Verdicts /\ forgotten \in BOOLEAN

(* No tool is executed twice with the same arguments in a turn, however      *)
(* often the model asks for it, in one reply or over several rounds.         *)
ExecutedOncePerTurn == \A c \in Call : count[c] <= 1

(* In a supervised session every call that is to be executed was approved:   *)
(* by the configuration, by an earlier "always" unless the tool must always  *)
(* be asked for, or by the user for this very call.                          *)
ExecutedWithConsent ==
    config.supervised =>
        \A i \in executable : LET tool == ToolOf[batch[i]] IN
            \/ answers[i] \in {"yes", "always"}
            \/ tool \in (AutoApprove \cup allowlist) \ AlwaysAsk

(* Calls run concurrently only if none of them waits for the user, so that a *)
(* denial comes before anything it could stop.                               *)
ConcurrentUnasked ==
    parallel => \A i \in DOMAIN answers : answers[i] = "none"

Answered(h) ==
    \A k \in DOMAIN h : h[k].kind = "calls" =>
        LET n == h[k].size IN
        IF n = 0
        THEN k < Len(h) /\ h[k + 1] = [kind |-> "results", round |-> h[k].round]
        ELSE /\ k + n <= Len(h)
             /\ \A i \in 1 .. n :
                   h[k + i] = [kind |-> "result", round |-> h[k].round, id |-> i, of |-> i]

(* Every reply with calls is followed by the result of each, in the order of *)
(* the calls, whatever was denied, repeated or run concurrently, and         *)
(* wherever the history was cut.                                             *)
CallsAnswered == Answered(history)

(* A result stands without its calls only where the history was cut, before  *)
(* every other message but the summary.                                      *)
OrphansAtTheCut ==
    \A k \in DOMAIN history : history[k].kind \in {"result", "results"} =>
        \/ \E j \in 1 .. k - 1 : history[j].kind = "calls" /\ history[j].round = history[k].round
        \/ \A j \in 1 .. k - 1 : history[j].kind \in {"summary", "result", "results"}

(* Where the cap leaves room for a summary and the messages compaction       *)
(* keeps, nothing is forgotten without one.                                  *)
ForgottenIsSummarised ==
    forgotten /\ config.cap > KeepRecent
    => \E k \in DOMAIN history : history[k].kind = "summary"

(* A turn that is answered brings the history back under the cap, whatever   *)
(* the failed turns before it left.                                          *)
AnsweredWithinCap ==
    phase = "prompt" /\ verdict = "answered" => Len(history) <= config.cap

(* "All providers/models failed" is said only when every provider was asked  *)
(* for every model of the chain, however the errors were classified.         *)
UnreachableMeansAllTried ==
    phase = "prompt" /\ verdict = "unreachable" => tried = Pair

(* Every turn comes back to the prompt, whatever the model asks for and      *)
(* however the providers fail.                                               *)
EveryTurnEnds == (phase # "prompt") ~> (phase = "prompt")
==============================================================================
