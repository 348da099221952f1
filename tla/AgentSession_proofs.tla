------------------------- MODULE AgentSession_proofs -------------------------
(* Proofs about AgentSession for any tools, any length of the provider chain *)
(* and any caps on the history.                                              *)
EXTENDS AgentSession, SequenceTheorems, TLAPS

------------------------------------------------------------------------------
(* Lemmas about the messages and the cuts of the history.                    *)

LEMMA MessageKinds ==
    /\ [kind |-> "user"] \in Message /\ [kind |-> "answer"] \in Message
    /\ [kind |-> "summary"] \in Message
    /\ \A r \in Nat, n \in Nat : [kind |-> "calls", round |-> r, size |-> n] \in Message
    /\ \A r \in Nat, i \in Nat, o \in Nat :
          [kind |-> "result", round |-> r, id |-> i, of |-> o] \in Message
    /\ \A r \in Nat : [kind |-> "results", round |-> r] \in Message
<1>1. /\ [kind |-> "user"] \in [kind : {"user", "answer", "summary"}]
      /\ [kind |-> "answer"] \in [kind : {"user", "answer", "summary"}]
      /\ [kind |-> "summary"] \in [kind : {"user", "answer", "summary"}]
  OBVIOUS
<1>2. \A r \in Nat, n \in Nat : [kind |-> "calls", round |-> r, size |-> n]
                                   \in [kind : {"calls"}, round : Nat, size : Nat]
  OBVIOUS
<1>3. \A r \in Nat, i \in Nat, o \in Nat :
          [kind |-> "result", round |-> r, id |-> i, of |-> o]
             \in [kind : {"result"}, round : Nat, id : Nat, of : Nat]
  OBVIOUS
<1>4. \A r \in Nat : [kind |-> "results", round |-> r] \in [kind : {"results"}, round : Nat]
  OBVIOUS
<1> QED
  BY <1>1, <1>2, <1>3, <1>4, Zenon DEF Message

LEMMA CapFacts ==
    ASSUME config \in Config
    PROVE  config.cap \in Nat /\ KeepRecent \in Nat /\ KeepRecent > 0
<1>1. config.cap \in Caps
  BY DEF Config
<1>2. config.cap \in Nat
  BY <1>1, SessionAssumption
<1>3. KeepRecent \in Nat /\ KeepRecent > 0
  BY SessionAssumption
<1> QED
  BY <1>2, <1>3

LEMMA LatestFacts ==
    ASSUME NEW S, NEW h \in Seq(S), NEW n \in Nat, n <= Len(h)
    PROVE  /\ Latest(h, n) \in Seq(S) /\ Len(Latest(h, n)) = n
           /\ \A i \in 1 .. n : Latest(h, n)[i] = h[Len(h) - n + i]
<1>1. CASE n = 0
  BY <1>1 DEF Latest
<1>2. CASE n > 0
  <2>1. Len(h) \in Nat /\ Len(h) - n + 1 \in 1 .. Len(h)
    BY <1>2
  <2>2. \A i \in Len(h) - n + 1 .. Len(h) : h[i] \in S
    BY <2>1, ElementOfSeq
  <2> QED
    BY <1>2, <2>1, <2>2 DEF Latest
<1> QED
  BY <1>1, <1>2

LEMMA CompactFacts ==
    ASSUME config \in Config, NEW h \in Seq(Message)
    PROVE  /\ Compact(h) \in Seq(Message)
           /\ IF Len(h) > KeepRecent /\ Len(h) > config.cap
              THEN /\ Len(Compact(h)) = KeepRecent + 1
                   /\ Compact(h)[1] = [kind |-> "summary"]
              ELSE Compact(h) = h
<1>1. config.cap \in Nat /\ KeepRecent \in Nat /\ KeepRecent > 0 /\ Len(h) \in Nat
  BY CapFacts, LenProperties
<1>2. CASE Len(h) <= config.cap \/ Len(h) <= KeepRecent
  BY <1>1, <1>2 DEF Compact
<1>3. CASE ~(Len(h) <= config.cap \/ Len(h) <= KeepRecent)
  <2>1. Latest(h, KeepRecent) \in Seq(Message) /\ Len(Latest(h, KeepRecent)) = KeepRecent
    BY <1>1, <1>3, LatestFacts
  <2>2. <<[kind |-> "summary"]>> \in Seq(Message) /\ Len(<<[kind |-> "summary"]>>) = 1
    BY MessageKinds
  <2>3. Compact(h) = <<[kind |-> "summary"]>> \o Latest(h, KeepRecent)
    BY <1>3 DEF Compact
  <2>4. /\ Compact(h) \in Seq(Message) /\ Len(Compact(h)) = 1 + KeepRecent
        /\ Compact(h)[1] = [kind |-> "summary"]
    BY <1>1, <2>1, <2>2, <2>3, ConcatProperties
  <2> QED
    BY <1>1, <1>3, <2>4
<1> QED
  BY <1>2, <1>3

LEMMA TrimFacts ==
    ASSUME config \in Config, NEW h \in Seq(Message)
    PROVE  /\ Trim(h) \in Seq(Message)
           /\ Len(Trim(h)) <= config.cap
           /\ Len(h) <= config.cap => Trim(h) = h
<1>1. config.cap \in Nat /\ Len(h) \in Nat
  BY CapFacts, LenProperties
<1>2. CASE Len(h) <= config.cap
  BY <1>1, <1>2 DEF Trim
<1>3. CASE ~(Len(h) <= config.cap)
  <2>1. Trim(h) = Latest(h, config.cap) /\ config.cap <= Len(h)
    BY <1>1, <1>3 DEF Trim
  <2> QED
    BY <1>1, <1>3, <2>1, LatestFacts
<1> QED
  BY <1>2, <1>3
------------------------------------------------------------------------------
LEMMA TypeInit == Init => TypeOK
<1> SUFFICES ASSUME Init PROVE TypeOK
  OBVIOUS
<1>1. /\ at \in [model : 1 .. Models, provider : 1 .. Providers, attempt : 0 .. MaxRetries]
      /\ iteration \in 0 .. MaxIterations /\ turn \in 0 .. MaxTurns
  BY SessionAssumption DEF Init
<1>2. /\ answers \in [DOMAIN batch -> Decisions \cup {"none"}]
      /\ results \in [DOMAIN batch -> 0 .. MaxCalls]
      /\ executable \subseteq DOMAIN batch /\ executed \subseteq executable
  BY DEF Init
<1>3. /\ batch \in Batch \cup {<<>>} /\ history \in Seq(Message) /\ round \in Nat
      /\ count \in [Call -> Nat] /\ phase # "gating"
  BY DEF Init
<1>4. /\ config \in Config /\ phase \in Phases /\ verdict \in Verdicts
      /\ ids \in BOOLEAN /\ parallel \in BOOLEAN /\ forgotten \in BOOLEAN
      /\ tried \subseteq Pair /\ seen \subseteq Call /\ allowlist \subseteq Tool
  BY DEF Init, Phases, Verdicts
<1> QED
  BY <1>1, <1>2, <1>3, <1>4 DEF TypeOK

LEMMA BatchDomain ==
    ASSUME NEW b \in Batch
    PROVE  /\ Len(b) \in 1 .. MaxCalls /\ DOMAIN b = 1 .. Len(b)
           /\ \A i \in DOMAIN b : b[i] \in Call
<1>1. PICK n \in 1 .. MaxCalls : b \in [1 .. n -> Call]
  BY DEF Batch
<1>2. n \in Nat /\ Len(b) = n
  BY <1>1, SessionAssumption, LenProperties
<1> QED
  BY <1>1, <1>2

(* A turn that fails.                                                        *)
LEMMA FailTyped ==
    ASSUME TypeOK, NEW v \in Verdicts, FailTurn(v), UNCHANGED at, tried' \subseteq Pair
    PROVE  TypeOK'
BY DEF TypeOK, FailTurn, batchVars, turnVars, Phases

LEMMA NextProviderTyped ==
    ASSUME TypeOK, NextProvider, tried' \subseteq Pair, phase = "asking"
    PROVE  TypeOK'
<1>1. CASE at.provider = Providers /\ at.model = Models /\ FailTurn("unreachable") /\ UNCHANGED at
  BY <1>1, FailTyped DEF Verdicts
<1>2. CASE UNCHANGED <<config, phase, turn, iteration, batchVars, turnVars, allowlist,
                       history, round, verdict, forgotten>>
  <2>0. at \in [model : 1 .. Models, provider : 1 .. Providers, attempt : 0 .. MaxRetries]
    BY DEF TypeOK
  <2>1. at' \in [model : 1 .. Models, provider : 1 .. Providers, attempt : 0 .. MaxRetries]
    <3>1. CASE at.provider < Providers /\ at' = [at EXCEPT !.provider = @ + 1, !.attempt = 0]
      <4>1. at.provider + 1 \in 1 .. Providers /\ 0 \in 0 .. MaxRetries
        BY <2>0, <3>1, SessionAssumption
      <4> QED
        BY <2>0, <3>1, <4>1
    <3>2. CASE at.model < Models /\ at' = [model |-> at.model + 1, provider |-> 1, attempt |-> 0]
      BY <2>0, <3>2, SessionAssumption
    <3>3. CASE UNCHANGED at
      BY <2>0, <3>3
    <3> QED
      BY <3>1, <3>2, <3>3 DEF NextProvider
  <2> QED
    BY <1>2, <2>1 DEF TypeOK, batchVars, turnVars
<1> QED
  BY <1>1, <1>2 DEF NextProvider

LEMMA AskTyped == ASSUME TypeOK, Ask PROVE tried' \subseteq Pair
BY DEF TypeOK, Ask, Pair

LEMMA GateTyped ==
    ASSUME TypeOK, NEW d \in Decisions, Gate(d)
    PROVE  TypeOK'
<1>1. /\ phase = "gating" /\ index \in DOMAIN batch /\ batch \in Batch \cup {<<>>}
      /\ answers \in [DOMAIN batch -> Decisions \cup {"none"}]
      /\ results \in [DOMAIN batch -> 0 .. MaxCalls]
  BY DEF Gate, TypeOK
<1>2. batch \in Batch
  BY <1>1
<1>3. /\ Len(batch) \in 1 .. MaxCalls /\ DOMAIN batch = 1 .. Len(batch)
      /\ batch[index] \in Call /\ index \in Nat /\ MaxCalls \in Nat
  BY <1>1, <1>2, BatchDomain, SessionAssumption
<1>4. ToolOf[batch[index]] \in Tool
  BY <1>3, SessionAssumption
<1>5. /\ UNCHANGED <<config, turn, iteration, at, tried, batch, ids, parallel, executed,
                     count, history, round, verdict, forgotten>>
      /\ index' = index + 1
      /\ phase' = IF index = Len(batch) THEN "executing" ELSE "gating"
  BY DEF Gate
<1>6. answers' \in [DOMAIN batch -> Decisions \cup {"none"}] /\ allowlist' \subseteq Tool
  BY <1>1, <1>4 DEF Gate, TypeOK
<1>7. /\ results' \in [DOMAIN batch -> 0 .. MaxCalls] /\ seen' \subseteq Call
      /\ executable' \subseteq DOMAIN batch /\ executed \subseteq executable'
  <2>1. Admit(index) \/ Deny(index)
    BY DEF Gate
  <2>2. index \in 0 .. MaxCalls
    BY <1>1, <1>3
  <2>3. /\ seen \subseteq Call /\ executable \subseteq DOMAIN batch
        /\ executed \subseteq executable
    BY DEF TypeOK
  <2>4. [results EXCEPT ![index] = index] \in [DOMAIN batch -> 0 .. MaxCalls]
    BY <1>1, <2>2
  <2>5. CASE results' = [results EXCEPT ![index] = index] /\ UNCHANGED <<seen, executable>>
    BY <2>3, <2>4, <2>5
  <2>6. CASE /\ seen' = seen \cup {batch[index]} /\ executable' = executable \cup {index}
             /\ UNCHANGED results
    BY <1>1, <1>3, <2>3, <2>6
  <2> QED
    BY <2>1, <2>5, <2>6 DEF Admit, Deny
<1>8. phase' = "gating" => index' \in DOMAIN batch
  BY <1>1, <1>3, <1>5
<1> QED
  BY <1>5, <1>6, <1>7, <1>8 DEF TypeOK, Phases

LEMMA RecordMessages == ASSUME TypeOK PROVE CallsMessage \in Message /\ Report \in Seq(Message)
<1>1. batch \in Batch \cup {<<>>} /\ round \in Nat /\ history \in Seq(Message)
  BY DEF TypeOK
<1>2. Len(batch) \in Nat /\ DOMAIN batch = 1 .. Len(batch)
  BY <1>1, BatchDomain
<1>3. CallsMessage \in Message
  <2>1. (IF ids THEN Len(batch) ELSE 0) \in Nat /\ round + 1 \in Nat
    BY <1>1, <1>2
  <2> QED
    BY <2>1, MessageKinds DEF CallsMessage
<1>4. Report \in Seq(Message)
  <2>1. ASSUME NEW i \in 1 .. Len(batch) PROVE ResultMessage(i) \in Message
    <3>1. results[i] \in Nat /\ i \in Nat /\ round + 1 \in Nat
      BY <1>1, <1>2, <2>1, SessionAssumption DEF TypeOK
    <3> QED
      BY <3>1, MessageKinds DEF ResultMessage
  <2>2. [i \in 1 .. Len(batch) |-> ResultMessage(i)] \in Seq(Message)
    BY <1>2, <2>1
  <2>3. <<[kind |-> "results", round |-> round + 1]>> \in Seq(Message)
    BY <1>1, MessageKinds
  <2> QED
    BY <2>2, <2>3 DEF Report
<1> QED
  BY <1>3, <1>4

LEMMA RecordTyped == ASSUME TypeOK, Record, iteration < MaxIterations PROVE TypeOK'
<1>1. batch \in Batch \cup {<<>>} /\ round \in Nat /\ history \in Seq(Message)
  BY DEF TypeOK
<1>2. CallsMessage \in Message /\ Report \in Seq(Message)
  BY RecordMessages
<1>5. history' \in Seq(Message) /\ round' \in Nat
  BY <1>1, <1>2 DEF Record
<1>6. iteration' \in 0 .. MaxIterations
  BY SessionAssumption DEF TypeOK, Record
<1> QED
  BY <1>5, <1>6 DEF TypeOK, Record, batchVars, turnVars, Phases
------------------------------------------------------------------------------
(* While a round is under way the turn has rounds left.                      *)
Rounds == phase \in {"asking", "gating", "executing"} => iteration < MaxIterations

LEMMA RoundsStep == TypeOK /\ Rounds /\ [Next]_vars => Rounds'
<1> SUFFICES ASSUME TypeOK, Rounds, [Next]_vars PROVE Rounds'
  OBVIOUS
<1>1. CASE Say \/ Clear \/ Quit \/ UNCHANGED vars
  BY <1>1, SessionAssumption DEF Say, Clear, Quit, vars, Rounds
<1>2. CASE Iterate
  BY <1>2 DEF Iterate, FailTurn, Rounds
<1>3. CASE Retry \/ MoveOn \/ Overflow
  BY <1>3 DEF Retry, MoveOn, Overflow, NextProvider, FailTurn, Rounds
<1>4. CASE Answer \/ Record
  BY <1>4 DEF Answer, Record, Rounds
<1>5. ASSUME NEW b \in Batch, CallTools(b) PROVE Rounds'
  BY <1>5 DEF CallTools, Rounds
<1>6. ASSUME NEW d \in Decisions, Gate(d) PROVE Rounds'
  BY <1>6 DEF Gate, Rounds
<1>7. ASSUME NEW i \in 1 .. MaxCalls, Execute(i) PROVE Rounds'
  BY <1>7 DEF Execute, Rounds
<1> QED
  BY <1>1, <1>2, <1>3, <1>4, <1>5, <1>6, <1>7 DEF Next, Step

LEMMA TypeStep == TypeOK /\ Rounds /\ [Next]_vars => TypeOK'
<1> SUFFICES ASSUME TypeOK, Rounds, [Next]_vars PROVE TypeOK'
  OBVIOUS
<1>1. CASE UNCHANGED vars \/ Quit
  BY <1>1 DEF Quit, vars, batchVars, turnVars, TypeOK
<1>2. CASE Say
  <2>1. turn' \in 0 .. MaxTurns /\ iteration' \in 0 .. MaxIterations
    BY <1>2, SessionAssumption DEF Say, TypeOK
  <2>2. history' \in Seq(Message)
    BY <1>2, MessageKinds DEF Say, TypeOK
  <2>3. seen' \subseteq Call /\ count' \in [Call -> Nat] /\ phase' = "iterating"
    BY <1>2 DEF Say
  <2>4. UNCHANGED <<config, at, tried, batch, ids, index, parallel, answers, results,
                    executable, executed, allowlist, round, verdict, forgotten>>
    BY <1>2 DEF Say, batchVars
  <2>5. phase' \in Phases /\ phase' # "gating"
    BY <2>3 DEF Phases
  <2> QED
    BY <2>1, <2>2, <2>3, <2>4, <2>5 DEF TypeOK
<1>3. CASE Clear
  <2>0. <<>> \in Seq(Message)
    OBVIOUS
  <2>1. history' \in Seq(Message) /\ forgotten' \in BOOLEAN
    BY <1>3, <2>0 DEF Clear
  <2>2. UNCHANGED <<config, phase, turn, iteration, at, tried, batch, ids, index, parallel,
                    answers, results, executable, executed, seen, count, allowlist, round,
                    verdict>>
    BY <1>3 DEF Clear, batchVars, turnVars
  <2> QED
    BY <2>1, <2>2 DEF TypeOK
<1>4. CASE Iterate
  <2>1. CASE /\ phase' = "asking"
             /\ at' = [model |-> 1, provider |-> 1, attempt |-> 0] /\ tried' = {}
             /\ UNCHANGED <<config, turn, iteration, batchVars, turnVars, allowlist,
                            history, round, verdict, forgotten>>
    <3>1. at' \in [model : 1 .. Models, provider : 1 .. Providers, attempt : 0 .. MaxRetries]
      BY <2>1, SessionAssumption
    <3> QED
      BY <2>1, <3>1 DEF TypeOK, batchVars, turnVars, Phases
  <2>2. CASE \E v \in Verdicts : FailTurn(v) /\ UNCHANGED <<at, tried>>
    <3>1. PICK v \in Verdicts : FailTurn(v) /\ UNCHANGED <<at, tried>>
      BY <2>2
    <3>2. tried' \subseteq Pair
      BY <3>1 DEF TypeOK
    <3> QED
      BY <3>1, <3>2, FailTyped
  <2> QED
    BY <1>4, <2>1, <2>2 DEF Iterate, Verdicts
<1>5. CASE Retry
  <2>1. tried' \subseteq Pair /\ phase = "asking"
    BY <1>5, AskTyped DEF Retry
  <2>2. CASE NextProvider
    BY <2>1, <2>2, NextProviderTyped
  <2>3. CASE /\ at.attempt < MaxRetries
             /\ at' = [at EXCEPT !.attempt = @ + 1]
             /\ UNCHANGED <<config, phase, turn, iteration, batchVars, turnVars, allowlist,
                            history, round, verdict, forgotten>>
    <3>1. at.attempt + 1 \in 0 .. MaxRetries
      BY <2>3, SessionAssumption DEF TypeOK
    <3>2. at' \in [model : 1 .. Models, provider : 1 .. Providers, attempt : 0 .. MaxRetries]
      BY <2>3, <3>1 DEF TypeOK
    <3> QED
      BY <2>1, <2>3, <3>2 DEF TypeOK, batchVars, turnVars
  <2> QED
    BY <1>5, <2>2, <2>3 DEF Retry
<1>6. CASE MoveOn
  BY <1>6, AskTyped, NextProviderTyped DEF MoveOn
<1>7. CASE Overflow
  <2>1. "overflow" \in Verdicts /\ tried' \subseteq Pair /\ FailTurn("overflow") /\ UNCHANGED at
    BY <1>7, AskTyped DEF Overflow, Verdicts
  <2> QED
    BY <2>1, FailTyped
<1>8. CASE Answer
  <2>1. history \in Seq(Message) /\ config \in Config
    BY DEF TypeOK
  <2>2. Append(history, [kind |-> "answer"]) \in Seq(Message)
    BY <2>1, MessageKinds
  <2>3. history' \in Seq(Message)
    BY <1>8, <2>1, <2>2, CompactFacts, TrimFacts DEF Answer
  <2>4. tried' \subseteq Pair /\ forgotten' \in BOOLEAN
    BY <1>8, AskTyped DEF Answer, TypeOK
  <2> QED
    BY <1>8, <2>3, <2>4 DEF Answer, TypeOK, batchVars, turnVars, Phases, Verdicts
<1>9. ASSUME NEW b \in Batch, CallTools(b) PROVE TypeOK'
  <2>1. Len(b) \in 1 .. MaxCalls /\ DOMAIN b = 1 .. Len(b)
    BY BatchDomain
  <2>2. tried' \subseteq Pair
    BY <1>9, AskTyped DEF CallTools
  <2>3. /\ batch' \in Batch /\ index' \in DOMAIN batch'
        /\ answers' \in [DOMAIN batch' -> Decisions \cup {"none"}]
        /\ results' \in [DOMAIN batch' -> 0 .. MaxCalls]
        /\ executable' = {} /\ executed' = {}
    <3>1. 0 \in 0 .. MaxCalls /\ 1 \in 1 .. Len(b)
      BY <2>1, SessionAssumption
    <3> QED
      BY <1>9, <2>1, <3>1 DEF CallTools
  <2>4. parallel' \in BOOLEAN /\ ids' \in BOOLEAN /\ phase' = "gating"
    BY <1>9 DEF CallTools
  <2> QED
    BY <1>9, <2>2, <2>3, <2>4 DEF CallTools, TypeOK, turnVars, Phases
<1>10. ASSUME NEW d \in Decisions, Gate(d) PROVE TypeOK'
  BY <1>10, GateTyped
<1>11. ASSUME NEW i \in 1 .. MaxCalls, Execute(i) PROVE TypeOK'
  <2>1. /\ i \in DOMAIN batch /\ batch \in Batch \cup {<<>>}
        /\ results \in [DOMAIN batch -> 0 .. MaxCalls] /\ i \in executable
    BY <1>11 DEF Execute, Pending, TypeOK
  <2>2. batch[i] \in Call
    BY <2>1, BatchDomain
  <2>3. results' \in [DOMAIN batch -> 0 .. MaxCalls]
    BY <1>11, <2>1, SessionAssumption DEF Execute
  <2>4. count' \in [Call -> Nat]
    BY <1>11, <2>2 DEF Execute, TypeOK
  <2>5. executed' \subseteq executable
    BY <1>11, <2>1 DEF Execute, TypeOK
  <2> QED
    BY <1>11, <2>3, <2>4, <2>5 DEF Execute, TypeOK
<1>12. CASE Record
  BY <1>12, RecordTyped DEF Record, Rounds
<1> QED
  BY <1>1, <1>2, <1>3, <1>4, <1>5, <1>6, <1>7, <1>8, <1>9, <1>10, <1>11, <1>12 DEF Next, Step

(* The state of a session has its types, whatever the tools, the providers   *)
(* and the caps.                                                             *)
THEOREM TypeCorrect == Spec => []TypeOK
<1>1. Init => TypeOK /\ Rounds
  BY TypeInit DEF Init, Rounds
<1>2. TypeOK /\ Rounds /\ [Next]_vars => TypeOK' /\ Rounds'
  BY TypeStep, RoundsStep
<1> QED
  BY <1>1, <1>2, PTL DEF Spec
------------------------------------------------------------------------------
(* A signature that was executed was seen; the calls of the batch that wait  *)
(* to be executed are of signatures that were seen and not executed, each of *)
(* its own.                                                                  *)
OnceInv ==
    /\ phase \in {"gating", "executing"} =>
          /\ \A i \in executable : batch[i] \in seen
          /\ \A i, j \in executable : batch[i] = batch[j] => i = j
          /\ \A i \in Pending : count[batch[i]] = 0
    /\ phase = "gating" => executed = {} /\ \A i \in executable : i < index
    /\ \A c \in Call : count[c] > 0 => c \in seen
    /\ \A c \in Call : count[c] <= 1

LEMMA OnceStep == TypeOK /\ OnceInv /\ [Next]_vars => OnceInv'
<1> SUFFICES ASSUME TypeOK, OnceInv, [Next]_vars PROVE OnceInv'
  OBVIOUS
<1>1. CASE UNCHANGED vars \/ Quit
  BY <1>1 DEF Quit, vars, batchVars, turnVars, OnceInv, Pending
<1>2. CASE Say
  BY <1>2 DEF Say, OnceInv
<1>3. CASE Clear \/ Iterate \/ Retry \/ MoveOn \/ Overflow \/ Answer
  <2>1. /\ UNCHANGED <<seen, count>> /\ phase' \notin {"gating", "executing"}
    BY <1>3 DEF Clear, Iterate, Retry, MoveOn, Overflow, Answer, NextProvider, FailTurn,
                turnVars
  <2> QED
    BY <2>1 DEF OnceInv
<1>4. ASSUME NEW b \in Batch, CallTools(b) PROVE OnceInv'
  BY <1>4 DEF CallTools, OnceInv, Pending, turnVars
<1>5. ASSUME NEW d \in Decisions, Gate(d) PROVE OnceInv'
  <2>1. /\ UNCHANGED <<batch, executed, count>> /\ index' = index + 1 /\ executed = {}
        /\ phase = "gating" /\ index \in Nat /\ index \in DOMAIN batch
        /\ \A i \in executable : i \in Nat /\ i < index
    <3>1. phase = "gating" /\ index \in DOMAIN batch /\ batch \in Batch \cup {<<>>}
      BY <1>5 DEF Gate, TypeOK
    <3>2. DOMAIN batch \subseteq Nat
      BY <3>1, BatchDomain
    <3> QED
      BY <1>5, <3>1, <3>2 DEF Gate, OnceInv, TypeOK
  <2>2. batch[index] \in Call
    BY <2>1, BatchDomain DEF TypeOK
  <2>3. Admit(index) \/ Deny(index)
    BY <1>5 DEF Gate
  <2>4. CASE UNCHANGED <<seen, executable>>
    BY <2>1, <2>4 DEF OnceInv, Pending
  <2>5. CASE /\ batch[index] \notin seen /\ seen' = seen \cup {batch[index]}
             /\ executable' = executable \cup {index}
    <3>1. count[batch[index]] = 0
      BY <2>2, <2>5 DEF OnceInv, TypeOK
    <3>2. \A i \in executable : batch[i] # batch[index]
      BY <2>1, <2>5 DEF OnceInv
    <3>3. \A i, j \in executable' : batch'[i] = batch'[j] => i = j
      BY <2>1, <2>5, <3>2 DEF OnceInv
    <3>4. \A i \in Pending' : count'[batch'[i]] = 0
      BY <2>1, <2>5, <3>1 DEF OnceInv, Pending
    <3>5. \A i \in executable' : batch'[i] \in seen' /\ i < index'
      BY <2>1, <2>5 DEF OnceInv
    <3> QED
      BY <2>1, <2>5, <3>3, <3>4, <3>5 DEF OnceInv
  <2> QED
    BY <2>3, <2>4, <2>5 DEF Admit, Deny
<1>6. ASSUME NEW i \in 1 .. MaxCalls, Execute(i) PROVE OnceInv'
  <2>1. /\ UNCHANGED <<batch, executable, seen, phase>> /\ phase = "executing"
        /\ i \in Pending /\ executed' = executed \cup {i}
        /\ count' = [count EXCEPT ![batch[i]] = @ + 1]
    BY <1>6 DEF Execute
  <2>2. /\ i \in executable /\ batch[i] \in seen /\ count[batch[i]] = 0 /\ batch[i] \in Call
        /\ count \in [Call -> Nat]
    BY <2>1 DEF OnceInv, Pending, TypeOK
  <2>3. \A j \in Pending' : j \in Pending /\ batch[j] # batch[i]
    BY <2>1, <2>2 DEF OnceInv, Pending
  <2>4. \A j \in Pending' : count'[batch'[j]] = 0
    <3> SUFFICES ASSUME NEW j \in Pending' PROVE count'[batch[j]] = 0
      BY <2>1
    <3>1. j \in Pending /\ batch[j] # batch[i] /\ count[batch[j]] = 0 /\ batch[j] \in Call
      BY <2>1, <2>3 DEF OnceInv, Pending, TypeOK
    <3> QED
      BY <2>1, <2>2, <3>1
  <2>5. \A c \in Call : count'[c] = IF c = batch[i] THEN 1 ELSE count[c]
    BY <2>1, <2>2
  <2>6. \A c \in Call : (count'[c] > 0 => c \in seen) /\ count'[c] <= 1
    BY <2>2, <2>5 DEF OnceInv
  <2> QED
    BY <2>1, <2>4, <2>6 DEF OnceInv
<1>7. CASE Record
  BY <1>7 DEF Record, OnceInv, turnVars
<1> QED
  BY <1>1, <1>2, <1>3, <1>4, <1>5, <1>6, <1>7 DEF Next, Step

(* A tool runs at most once with the same arguments in a turn, whatever the  *)
(* model asks for.                                                           *)
THEOREM OnceCorrect == Spec => []ExecutedOncePerTurn
<1>1. Init => OnceInv
  BY DEF Init, OnceInv
<1>2. OnceInv => ExecutedOncePerTurn
  BY DEF OnceInv, ExecutedOncePerTurn
<1> QED
  BY <1>1, <1>2, OnceStep, TypeCorrect, PTL DEF Spec
------------------------------------------------------------------------------
(* The gate decides on the call it is at, and on no call it passed before.   *)
LEMMA ConsentStep ==
    TypeOK /\ OnceInv /\ ExecutedWithConsent /\ [Next]_vars => ExecutedWithConsent'
<1> SUFFICES ASSUME TypeOK, OnceInv, ExecutedWithConsent, [Next]_vars,
                    config'.supervised, NEW i \in executable'
             PROVE  \/ answers'[i] \in {"yes", "always"}
                    \/ ToolOf[batch'[i]] \in (AutoApprove \cup allowlist') \ AlwaysAsk
  BY DEF ExecutedWithConsent
<1>1. CASE UNCHANGED <<config, batch, answers, executable, allowlist>>
  BY <1>1 DEF ExecutedWithConsent
<1>2. ASSUME NEW b \in Batch, CallTools(b) PROVE FALSE
  BY <1>2 DEF CallTools
<1>3. ASSUME NEW d \in Decisions, Gate(d)
      PROVE  \/ answers'[i] \in {"yes", "always"}
             \/ ToolOf[batch'[i]] \in (AutoApprove \cup allowlist') \ AlwaysAsk
  <2>1. /\ phase = "gating" /\ index \in DOMAIN batch /\ answers \in [DOMAIN batch -> Decisions \cup {"none"}]
        /\ UNCHANGED <<config, batch>> /\ executable \subseteq DOMAIN batch
        /\ batch \in Batch \cup {<<>>}
    BY <1>3 DEF Gate, TypeOK
  <2>2. DOMAIN batch \subseteq Nat
    BY <2>1, BatchDomain
  <2>3. \A j \in executable : j # index
    BY <2>1, <2>2 DEF OnceInv
  <2>4. allowlist \subseteq allowlist'
    BY <1>3 DEF Gate
  <2>5. i \in executable \/ (i = index /\ Admit(index))
    BY <1>3 DEF Gate, Admit, Deny
  <2>6. CASE i \in executable
    <3>1. answers'[i] = answers[i]
      BY <1>3, <2>1, <2>3, <2>6 DEF Gate
    <3> QED
      BY <2>1, <2>4, <2>6, <3>1 DEF ExecutedWithConsent
  <2>7. CASE i \notin executable /\ i = index
    <3>1. CASE NeedsApproval(ToolOf[batch[index]])
      <4>1. answers' = [answers EXCEPT ![index] = d] /\ d # "no"
        BY <1>3, <2>5, <2>7, <3>1 DEF Gate, Deny
      <4>2. answers'[index] = d
        BY <2>1, <4>1
      <4> QED
        BY <2>7, <4>1, <4>2 DEF Decisions
    <3>2. CASE ~NeedsApproval(ToolOf[batch[index]])
      BY <2>1, <2>4, <2>7, <3>2 DEF NeedsApproval
    <3> QED
      BY <3>1, <3>2
  <2> QED
    BY <2>5, <2>6, <2>7
<1>4. CASE Say \/ Clear \/ Quit \/ UNCHANGED vars \/ Iterate \/ Retry \/ MoveOn \/ Overflow
           \/ Answer \/ Record \/ \E j \in 1 .. MaxCalls : Execute(j)
  <2>1. UNCHANGED <<config, batch, answers, executable, allowlist>>
    BY <1>4 DEF Say, Clear, Quit, vars, Iterate, Retry, MoveOn, Overflow, NextProvider, FailTurn,
                Answer, Record, Execute, batchVars
  <2> QED
    BY <1>1, <2>1
<1> QED
  BY <1>2, <1>3, <1>4 DEF Next, Step

(* In a supervised session no call runs that the configuration, an earlier   *)
(* "always" or the user for this call did not approve.                       *)
THEOREM ConsentCorrect == Spec => []ExecutedWithConsent
<1>1. Init => OnceInv /\ ExecutedWithConsent
  BY DEF Init, OnceInv, ExecutedWithConsent
<1> QED
  BY <1>1, OnceStep, ConsentStep, TypeCorrect, PTL DEF Spec
------------------------------------------------------------------------------
(* Calls that run concurrently need no approval, and go on needing none.     *)
UnaskedInv ==
    parallel => /\ \A i \in DOMAIN batch : ~NeedsApproval(ToolOf[batch[i]])
                /\ \A i \in DOMAIN answers : answers[i] = "none"

LEMMA UnaskedStep == TypeOK /\ UnaskedInv /\ [Next]_vars => UnaskedInv'
<1> SUFFICES ASSUME TypeOK, UnaskedInv, [Next]_vars PROVE UnaskedInv'
  OBVIOUS
<1>1. CASE UNCHANGED <<config, batch, parallel, answers, allowlist>>
  BY <1>1 DEF UnaskedInv, NeedsApproval
<1>2. ASSUME NEW b \in Batch, CallTools(b) PROVE UnaskedInv'
  BY <1>2 DEF CallTools, UnaskedInv, NeedsApproval
<1>3. ASSUME NEW d \in Decisions, Gate(d) PROVE UnaskedInv'
  <2>1. index \in DOMAIN batch /\ UNCHANGED <<config, batch, parallel>>
    BY <1>3 DEF Gate, TypeOK
  <2>2. parallel => UNCHANGED <<answers, allowlist>>
    BY <1>3, <2>1 DEF Gate, UnaskedInv
  <2> QED
    BY <2>1, <2>2 DEF UnaskedInv, NeedsApproval
<1>4. CASE Say \/ Clear \/ Quit \/ UNCHANGED vars \/ Iterate \/ Retry \/ MoveOn \/ Overflow
           \/ Answer \/ Record \/ \E j \in 1 .. MaxCalls : Execute(j)
  <2>1. UNCHANGED <<config, batch, parallel, answers, allowlist>>
    BY <1>4 DEF Say, Clear, Quit, vars, Iterate, Retry, MoveOn, Overflow, NextProvider, FailTurn,
                Answer, Record, Execute, batchVars
  <2> QED
    BY <1>1, <2>1
<1> QED
  BY <1>2, <1>3, <1>4 DEF Next, Step

(* No call runs concurrently with one the user is asked about.               *)
THEOREM UnaskedCorrect == Spec => []ConcurrentUnasked
<1>1. Init => UnaskedInv
  BY DEF Init, UnaskedInv
<1>2. UnaskedInv => ConcurrentUnasked
  BY DEF UnaskedInv, ConcurrentUnasked
<1> QED
  BY <1>1, <1>2, UnaskedStep, TypeCorrect, PTL DEF Spec
------------------------------------------------------------------------------
(* What the chain left behind was asked.                                     *)
Behind(m, p) == m < at.model \/ (m = at.model /\ p < at.provider)

ChainInv ==
    /\ phase = "asking" =>
          \A m \in 1 .. Models, p \in 1 .. Providers : Behind(m, p) => <<m, p>> \in tried
    /\ UnreachableMeansAllTried

LEMMA NextProviderChain ==
    ASSUME TypeOK, ChainInv, Ask, NextProvider, phase = "asking"
    PROVE  ChainInv'
<1>1. /\ at.model \in 1 .. Models /\ at.provider \in 1 .. Providers
      /\ at \in [model : 1 .. Models, provider : 1 .. Providers, attempt : 0 .. MaxRetries]
      /\ Models \in Nat /\ Providers \in Nat
  BY SessionAssumption DEF TypeOK
<1>2. \A m \in 1 .. Models, p \in 1 .. Providers :
         Behind(m, p) \/ (m = at.model /\ p = at.provider) => <<m, p>> \in tried'
  BY DEF ChainInv, Ask
<1>3. CASE /\ at.provider < Providers
           /\ at' = [at EXCEPT !.provider = @ + 1, !.attempt = 0] /\ UNCHANGED phase
  <2>1. at'.model = at.model /\ at'.provider = at.provider + 1
    BY <1>1, <1>3
  <2>2. \A m \in 1 .. Models, p \in 1 .. Providers : Behind(m, p)' => <<m, p>> \in tried'
    BY <1>1, <1>2, <2>1 DEF Behind
  <2> QED
    BY <1>3, <2>2 DEF ChainInv, UnreachableMeansAllTried
<1>4. CASE /\ at.provider = Providers /\ at' = [model |-> at.model + 1, provider |-> 1, attempt |-> 0]
           /\ UNCHANGED phase
  <2>1. at'.model = at.model + 1 /\ at'.provider = 1
    BY <1>4
  <2>2. \A m \in 1 .. Models, p \in 1 .. Providers : Behind(m, p)' => <<m, p>> \in tried'
    <3> SUFFICES ASSUME NEW m \in 1 .. Models, NEW p \in 1 .. Providers, Behind(m, p)'
                 PROVE  <<m, p>> \in tried'
      OBVIOUS
    <3>1. m < at.model \/ m = at.model
      BY <1>1, <2>1 DEF Behind
    <3>2. m = at.model => p < at.provider \/ p = at.provider
      BY <1>1, <1>4
    <3> QED
      BY <1>2, <3>1, <3>2 DEF Behind
  <2> QED
    BY <1>4, <2>2 DEF ChainInv, UnreachableMeansAllTried
<1>5. CASE at.provider = Providers /\ at.model = Models /\ FailTurn("unreachable")
  <2>1. \A m \in 1 .. Models, p \in 1 .. Providers : <<m, p>> \in tried'
    <3> SUFFICES ASSUME NEW m \in 1 .. Models, NEW p \in 1 .. Providers
                 PROVE  <<m, p>> \in tried'
      OBVIOUS
    <3>1. m < at.model \/ m = at.model
      BY <1>1, <1>5
    <3>2. p < at.provider \/ p = at.provider
      BY <1>1, <1>5
    <3> QED
      BY <1>2, <3>1, <3>2 DEF Behind
  <2>2. tried' \subseteq Pair
    BY AskTyped
  <2>3. tried' = Pair
    BY <2>1, <2>2 DEF Pair
  <2> QED
    BY <1>5, <2>3 DEF ChainInv, UnreachableMeansAllTried, FailTurn
<1> QED
  BY <1>3, <1>4, <1>5 DEF NextProvider

LEMMA ChainStep == TypeOK /\ ChainInv /\ [Next]_vars => ChainInv'
<1> SUFFICES ASSUME TypeOK, ChainInv, [Next]_vars PROVE ChainInv'
  OBVIOUS
<1>1. CASE Clear \/ Quit \/ UNCHANGED vars
  BY <1>1 DEF Clear, Quit, vars, ChainInv, UnreachableMeansAllTried, Behind
<1>2. CASE Iterate
  <2>1. CASE phase' = "asking" /\ at' = [model |-> 1, provider |-> 1, attempt |-> 0]
    <3>1. \A m \in 1 .. Models, p \in 1 .. Providers : ~Behind(m, p)'
      BY <2>1, SessionAssumption DEF Behind
    <3> QED
      BY <2>1, <3>1 DEF ChainInv, UnreachableMeansAllTried
  <2>2. CASE phase' = "prompt" /\ verdict' # "unreachable"
    BY <2>2 DEF ChainInv, UnreachableMeansAllTried
  <2> QED
    BY <1>2, <2>1, <2>2 DEF Iterate, FailTurn
<1>3. CASE Retry
  <2>1. CASE NextProvider
    BY <1>3, <2>1, NextProviderChain DEF Retry
  <2>2. CASE at' = [at EXCEPT !.attempt = @ + 1] /\ UNCHANGED phase
    <3>1. at'.model = at.model /\ at'.provider = at.provider
      BY <2>2 DEF TypeOK
    <3> QED
      BY <1>3, <2>2, <3>1 DEF Retry, Ask, ChainInv, UnreachableMeansAllTried, Behind
  <2> QED
    BY <1>3, <2>1, <2>2 DEF Retry
<1>4. CASE MoveOn
  BY <1>4, NextProviderChain DEF MoveOn
<1>5. CASE Say \/ Overflow \/ Answer \/ Record
  <2>1. phase' # "asking" /\ (phase' = "prompt" => verdict' # "unreachable")
    BY <1>5 DEF Say, Overflow, FailTurn, Answer, Record
  <2> QED
    BY <2>1 DEF ChainInv, UnreachableMeansAllTried
<1>6. CASE \/ \E b \in Batch : CallTools(b)
           \/ \E d \in Decisions : Gate(d)
           \/ \E i \in 1 .. MaxCalls : Execute(i)
  <2>1. phase' \notin {"asking", "prompt"}
    BY <1>6 DEF CallTools, Gate, Execute
  <2> QED
    BY <2>1 DEF ChainInv, UnreachableMeansAllTried
<1> QED
  BY <1>1, <1>2, <1>3, <1>4, <1>5, <1>6 DEF Next, Step

(* The chain gives up only when every provider was asked for every model.    *)
THEOREM ChainCorrect == Spec => []UnreachableMeansAllTried
<1>1. Init => ChainInv
  BY DEF Init, ChainInv, UnreachableMeansAllTried
<1>2. ChainInv => UnreachableMeansAllTried
  BY DEF ChainInv
<1> QED
  BY <1>1, <1>2, ChainStep, TypeCorrect, PTL DEF Spec
------------------------------------------------------------------------------
(* The end of an answered turn: compaction makes room, trimming enforces it. *)
LEMMA TidyFacts ==
    ASSUME TypeOK, NEW h \in Seq(Message)
    PROVE  /\ Len(Trim(Compact(h))) <= config.cap
           /\ config.cap > KeepRecent => Trim(Compact(h)) = Compact(h)
           /\ config.cap > KeepRecent /\ (Compact(h) # h \/ Trim(h) # h)
                 => /\ Len(Compact(h)) = KeepRecent + 1
                    /\ Compact(h)[1] = [kind |-> "summary"]
<1>1. config \in Config
  BY DEF TypeOK
<1>2. config.cap \in Nat /\ KeepRecent \in Nat /\ Len(h) \in Nat
  BY <1>1, CapFacts, LenProperties
<1>3. Compact(h) \in Seq(Message) /\ Len(Compact(h)) \in Nat
  BY <1>1, CompactFacts, LenProperties
<1>4. Len(Trim(Compact(h))) <= config.cap
      /\ (Len(Compact(h)) <= config.cap => Trim(Compact(h)) = Compact(h))
      /\ (Len(h) <= config.cap => Trim(h) = h)
  BY <1>1, <1>3, TrimFacts
<1>5. IF Len(h) > KeepRecent /\ Len(h) > config.cap
      THEN Len(Compact(h)) = KeepRecent + 1 /\ Compact(h)[1] = [kind |-> "summary"]
      ELSE Compact(h) = h
  BY <1>1, CompactFacts
<1> QED
  BY <1>2, <1>3, <1>4, <1>5

HasSummary(h) == \E k \in DOMAIN h : h[k].kind = "summary"

LEMMA SummaryStays ==
    ASSUME NEW h \in Seq(Message), HasSummary(h), NEW e \in Message, NEW t \in Seq(Message)
    PROVE  HasSummary(Append(h, e)) /\ HasSummary(h \o t)
<1>1. PICK k \in 1 .. Len(h) : h[k].kind = "summary"
  BY DEF HasSummary
<1>2. k \in DOMAIN Append(h, e) /\ Append(h, e)[k] = h[k]
  BY <1>1, AppendProperties
<1>3. k \in DOMAIN (h \o t) /\ (h \o t)[k] = h[k]
  BY <1>1, ConcatProperties
<1> QED
  BY <1>1, <1>2, <1>3 DEF HasSummary

LEMMA CapStep == TypeOK /\ AnsweredWithinCap /\ [Next]_vars => AnsweredWithinCap'
<1> SUFFICES ASSUME TypeOK, AnsweredWithinCap, [Next]_vars PROVE AnsweredWithinCap'
  OBVIOUS
<1>1. CASE Quit \/ UNCHANGED vars
  BY <1>1 DEF Quit, vars, AnsweredWithinCap
<1>2. CASE Clear
  <2>1. config'.cap \in Nat /\ Len(<<>>) = 0 /\ history' = <<>>
    BY <1>2, CapFacts DEF Clear, TypeOK
  <2> QED
    BY <2>1 DEF AnsweredWithinCap
<1>3. CASE Answer
  <2>1. Append(history, [kind |-> "answer"]) \in Seq(Message)
    BY MessageKinds DEF TypeOK
  <2>2. /\ history' = Trim(Compact(Append(history, [kind |-> "answer"]))) /\ config' = config
    BY <1>3 DEF Answer
  <2> QED
    BY <2>1, <2>2, TidyFacts DEF AnsweredWithinCap
<1>4. CASE Say \/ Iterate \/ Retry \/ MoveOn \/ Overflow \/ Record
  <2>1. phase' # "prompt" \/ verdict' # "answered"
    BY <1>4 DEF Say, Iterate, Retry, MoveOn, Overflow, NextProvider, FailTurn, Record
  <2> QED
    BY <2>1 DEF AnsweredWithinCap
<1>5. CASE \/ \E b \in Batch : CallTools(b)
           \/ \E d \in Decisions : Gate(d)
           \/ \E i \in 1 .. MaxCalls : Execute(i)
  <2>1. phase' # "prompt"
    BY <1>5 DEF CallTools, Gate, Execute
  <2> QED
    BY <2>1 DEF AnsweredWithinCap
<1> QED
  BY <1>1, <1>2, <1>3, <1>4, <1>5 DEF Next, Step

(* An answered turn brings the history under the cap, however far failed     *)
(* turns let it grow.                                                        *)
THEOREM CapCorrect == Spec => []AnsweredWithinCap
<1>1. Init => AnsweredWithinCap
  BY DEF Init, AnsweredWithinCap
<1> QED
  BY <1>1, CapStep, TypeCorrect, PTL DEF Spec

LEMMA SummaryStep == TypeOK /\ ForgottenIsSummarised /\ [Next]_vars => ForgottenIsSummarised'
<1> SUFFICES ASSUME TypeOK, ForgottenIsSummarised, [Next]_vars,
                    forgotten', config'.cap > KeepRecent
             PROVE  HasSummary(history')
  BY DEF ForgottenIsSummarised, HasSummary
<1>0. config' = config /\ history \in Seq(Message)
  BY DEF Next, Step, Say, Clear, Quit, vars, Iterate, Retry, MoveOn, Overflow, NextProvider,
         FailTurn, Answer, CallTools, Gate, Execute, Record, TypeOK
<1>1. forgotten => HasSummary(history)
  BY <1>0 DEF ForgottenIsSummarised, HasSummary
<1>2. CASE UNCHANGED <<history, forgotten>>
  BY <1>1, <1>2
<1>4. CASE Say
  <2>1. [kind |-> "user"] \in Message /\ <<>> \in Seq(Message)
    BY MessageKinds
  <2> QED
    BY <1>0, <1>1, <1>4, <2>1, SummaryStays DEF Say
<1>5. CASE Record
  <2>1. CallsMessage \in Message /\ Report \in Seq(Message)
    BY RecordMessages
  <2>2. Append(history, CallsMessage) \in Seq(Message) /\ HasSummary(Append(history, CallsMessage))
    BY <1>0, <1>1, <1>5, <2>1, SummaryStays DEF Record
  <2> QED
    BY <1>5, <2>1, <2>2, SummaryStays DEF Record
<1>6. CASE Answer
  <2> DEFINE said == Append(history, [kind |-> "answer"])
  <2>1. said \in Seq(Message)
    BY <1>0, MessageKinds
  <2>2. history' = Trim(Compact(said))
        /\ forgotten' = (forgotten \/ Compact(said) # said \/ Trim(said) # said)
    BY <1>6 DEF Answer
  <2>3. history' = Compact(said)
    BY <1>0, <2>1, <2>2, TidyFacts
  <2>4. CASE Compact(said) # said \/ Trim(said) # said
    <3>1. Len(Compact(said)) = KeepRecent + 1 /\ Compact(said)[1] = [kind |-> "summary"]
      BY <1>0, <2>1, <2>4, TidyFacts
    <3>2. Compact(said) \in Seq(Message) /\ KeepRecent \in Nat
      BY <2>1, CompactFacts, SessionAssumption DEF TypeOK
    <3>3. 1 \in DOMAIN history' /\ history'[1].kind = "summary"
      BY <2>3, <3>1, <3>2
    <3> QED
      BY <3>3 DEF HasSummary
  <2>5. CASE Compact(said) = said /\ Trim(said) = said
    <3>1. PICK k \in DOMAIN history : history[k].kind = "summary"
      BY <1>1, <2>2, <2>5 DEF HasSummary
    <3>2. k \in DOMAIN said /\ said[k] = history[k]
      BY <1>0, <3>1
    <3> QED
      BY <2>3, <2>5, <3>1, <3>2 DEF HasSummary
  <2> QED
    BY <2>4, <2>5
<1>7. CASE Clear
  BY <1>7 DEF Clear
<1>8. CASE Quit \/ UNCHANGED vars \/ Iterate \/ Retry \/ MoveOn \/ Overflow
  BY <1>2, <1>8 DEF Quit, vars, Iterate, Retry, MoveOn, Overflow, NextProvider, FailTurn
<1>9. CASE \/ \E b \in Batch : CallTools(b)
           \/ \E d \in Decisions : Gate(d)
           \/ \E i \in 1 .. MaxCalls : Execute(i)
  BY <1>2, <1>9 DEF CallTools, Gate, Execute
<1> QED
  BY <1>4, <1>5, <1>6, <1>7, <1>8, <1>9 DEF Next, Step

(* With room for a summary under the cap, no message of the conversation is  *)
(* forgotten without one, up to the next /new.                               *)
THEOREM SummaryCorrect == Spec => []ForgottenIsSummarised
<1>1. Init => ForgottenIsSummarised
  BY DEF Init, ForgottenIsSummarised
<1> QED
  BY <1>1, SummaryStep, TypeCorrect, PTL DEF Spec
------------------------------------------------------------------------------
(* Rounds stay whole where the history grows and where it is cut.            *)
LEMMA CallsSizes ==
    ASSUME NEW h \in Seq(Message), NEW k \in DOMAIN h, h[k].kind = "calls"
    PROVE  h[k].size \in Nat /\ h[k].round \in Nat
<1>1. h[k] \in Message
  BY ElementOfSeq
<1>2. CASE h[k] \in [kind : {"calls"}, round : Nat, size : Nat]
  BY <1>2
<1>3. CASE h[k] \in [kind : {"user", "answer", "summary"}]
  BY <1>3
<1>4. CASE h[k] \in [kind : {"result"}, round : Nat, id : Nat, of : Nat]
  BY <1>4
<1>5. CASE h[k] \in [kind : {"results"}, round : Nat]
  BY <1>5
<1> QED
  BY <1>1, <1>2, <1>3, <1>4, <1>5, Zenon DEF Message

LEMMA AnsweredAppend ==
    ASSUME NEW h \in Seq(Message), Answered(h), NEW e \in Message, e.kind # "calls"
    PROVE  Answered(Append(h, e))
<1> DEFINE g == Append(h, e)
<1>1. /\ g \in Seq(Message) /\ Len(g) = Len(h) + 1 /\ Len(h) \in Nat /\ g[Len(h) + 1] = e
      /\ \A j \in 1 .. Len(h) : g[j] = h[j]
      /\ DOMAIN g = 1 .. Len(h) + 1 /\ DOMAIN h = 1 .. Len(h)
  BY AppendProperties, LenProperties
<1> HIDE DEF g
<1> SUFFICES ASSUME NEW k \in DOMAIN g, g[k].kind = "calls"
             PROVE  LET n == g[k].size IN
                    IF n = 0
                    THEN k < Len(g) /\ g[k + 1] = [kind |-> "results", round |-> g[k].round]
                    ELSE /\ k + n <= Len(g)
                         /\ \A i \in 1 .. n :
                               g[k + i] = [kind |-> "result", round |-> g[k].round,
                                           id |-> i, of |-> i]
  BY DEF Answered, g
<1>2. k \in 1 .. Len(h) /\ g[k] = h[k] /\ k \in DOMAIN h
  BY <1>1
<1>3. h[k].size \in Nat
  BY <1>2, CallsSizes
<1>4. CASE h[k].size = 0
  <2>1. k < Len(h) /\ h[k + 1] = [kind |-> "results", round |-> h[k].round]
    BY <1>2, <1>4 DEF Answered
  <2>2. k + 1 \in 1 .. Len(h)
    BY <1>1, <1>2, <2>1
  <2> QED
    BY <1>1, <1>2, <1>4, <2>1, <2>2
<1>5. CASE h[k].size # 0
  <2>1. k + h[k].size <= Len(h) /\ \A i \in 1 .. h[k].size :
            h[k + i] = [kind |-> "result", round |-> h[k].round, id |-> i, of |-> i]
    BY <1>2, <1>5 DEF Answered
  <2>2. \A i \in 1 .. h[k].size : k + i \in 1 .. Len(h)
    BY <1>1, <1>2, <1>3, <2>1
  <2> QED
    BY <1>1, <1>2, <1>3, <1>5, <2>1, <2>2
<1> QED
  BY <1>4, <1>5

\* h cut to its last messages, behind p others that are not calls.
CutOf(g, h, p) ==
    /\ g \in Seq(Message) /\ p \in Nat /\ Len(g) - p \in 0 .. Len(h)
    /\ \A j \in 1 .. p : j <= Len(g) => g[j].kind # "calls"
    /\ \A j \in p + 1 .. Len(g) : g[j] = h[Len(h) - Len(g) + j]

LEMMA AnsweredCut ==
    ASSUME NEW h \in Seq(Message), Answered(h), NEW g, NEW p, CutOf(g, h, p)
    PROVE  Answered(g)
<1>1. /\ g \in Seq(Message) /\ p \in Nat /\ Len(g) \in Nat /\ Len(h) \in Nat
      /\ Len(g) - p \in 0 .. Len(h) /\ DOMAIN g = 1 .. Len(g) /\ DOMAIN h = 1 .. Len(h)
      /\ \A j \in p + 1 .. Len(g) : g[j] = h[Len(h) - Len(g) + j]
  BY LenProperties DEF CutOf
<1> SUFFICES ASSUME NEW k \in DOMAIN g, g[k].kind = "calls"
             PROVE  LET n == g[k].size IN
                    IF n = 0
                    THEN k < Len(g) /\ g[k + 1] = [kind |-> "results", round |-> g[k].round]
                    ELSE /\ k + n <= Len(g)
                         /\ \A i \in 1 .. n :
                               g[k + i] = [kind |-> "result", round |-> g[k].round,
                                           id |-> i, of |-> i]
  BY DEF Answered
<1> DEFINE c == Len(h) - Len(g) + k
<1>2. k \in p + 1 .. Len(g)
  BY <1>1 DEF CutOf
<1>3. c \in DOMAIN h /\ g[k] = h[c] /\ c \in Nat
  BY <1>1, <1>2
<1>4. h[c].size \in Nat
  BY <1>3, CallsSizes
<1>5. ASSUME NEW i \in Nat, k + i \in p + 1 .. Len(g)
      PROVE  g[k + i] = h[c + i]
  <2>1. Len(h) - Len(g) + (k + i) = c + i
    BY <1>1, <1>2
  <2>2. g[k + i] = h[Len(h) - Len(g) + (k + i)]
    BY <1>1, <1>5
  <2> HIDE DEF c
  <2> QED
    BY <2>1, <2>2
<1>6. CASE h[c].size = 0
  <2>1. c < Len(h) /\ h[c + 1] = [kind |-> "results", round |-> h[c].round]
    BY <1>3, <1>6 DEF Answered
  <2>2. k < Len(g) /\ k + 1 \in p + 1 .. Len(g)
    BY <1>1, <1>2, <2>1
  <2>3. g[k + 1] = h[c + 1]
    BY <1>5, <2>2
  <2> QED
    BY <1>3, <1>6, <2>1, <2>2, <2>3
<1>7. CASE h[c].size # 0
  <2>1. c + h[c].size <= Len(h) /\ \A i \in 1 .. h[c].size :
            h[c + i] = [kind |-> "result", round |-> h[c].round, id |-> i, of |-> i]
    BY <1>3, <1>7 DEF Answered
  <2>2. \A i \in 1 .. h[c].size : k + i \in p + 1 .. Len(g) /\ i \in Nat
    BY <1>1, <1>2, <1>4, <2>1
  <2>3. \A i \in 1 .. h[c].size : g[k + i] = h[c + i]
    BY <1>5, <2>2
  <2>4. k + h[c].size <= Len(g)
    BY <1>1, <1>2, <1>4, <2>1
  <2> HIDE DEF c
  <2> QED
    BY <1>3, <1>7, <2>1, <2>3, <2>4
<1> QED
  BY <1>6, <1>7

LEMMA AnsweredLatest ==
    ASSUME NEW h \in Seq(Message), Answered(h), NEW n \in Nat, n <= Len(h)
    PROVE  Answered(Latest(h, n))
<1>1. /\ Latest(h, n) \in Seq(Message) /\ Len(Latest(h, n)) = n
      /\ \A i \in 1 .. n : Latest(h, n)[i] = h[Len(h) - n + i]
  BY LatestFacts
<1> DEFINE g == Latest(h, n)
<1> HIDE DEF g
<1>2. g \in Seq(Message) /\ Len(g) = n /\ \A i \in 1 .. n : g[i] = h[Len(h) - n + i]
  BY <1>1 DEF g
<1>3. Len(h) \in Nat /\ Len(g) - 0 \in 0 .. Len(h)
  BY <1>2, LenProperties
<1>4. CutOf(g, h, 0)
  BY <1>2, <1>3 DEF CutOf
<1> QED
  BY <1>4, AnsweredCut DEF g

LEMMA AnsweredSummary ==
    ASSUME NEW h \in Seq(Message), Answered(h)
    PROVE  Answered(<<[kind |-> "summary"]>> \o h)
<1> DEFINE s == <<[kind |-> "summary"]>>
           g == s \o h
<1>1. s \in Seq(Message) /\ Len(s) = 1 /\ s[1].kind = "summary"
  BY MessageKinds
<1> HIDE DEF s
<1>2. /\ g \in Seq(Message) /\ Len(g) = Len(h) + 1 /\ g[1] = s[1] /\ Len(h) \in Nat
      /\ \A j \in 2 .. Len(h) + 1 : g[j] = h[j - 1]
  BY <1>1, ConcatProperties, LenProperties
<1> HIDE DEF g
<1>3. \A j \in 2 .. Len(h) + 1 : Len(h) - Len(g) + j = j - 1
  BY <1>2
<1>4. CutOf(g, h, 1)
  BY <1>1, <1>2, <1>3 DEF CutOf
<1> QED
  BY <1>4, AnsweredCut DEF g, s

LEMMA AnsweredTidied ==
    ASSUME TypeOK, NEW h \in Seq(Message), Answered(h)
    PROVE  Answered(Trim(Compact(h)))
<1>1. config.cap \in Nat /\ KeepRecent \in Nat /\ config \in Config
  BY CapFacts, SessionAssumption DEF TypeOK
<1>2. Answered(Compact(h)) /\ Compact(h) \in Seq(Message)
  <2>1. CASE Len(h) <= config.cap \/ Len(h) <= KeepRecent
    BY <2>1 DEF Compact
  <2>2. CASE ~(Len(h) <= config.cap \/ Len(h) <= KeepRecent)
    <3>1. KeepRecent <= Len(h)
      BY <1>1, <2>2, LenProperties
    <3>2. Answered(Latest(h, KeepRecent)) /\ Latest(h, KeepRecent) \in Seq(Message)
      BY <1>1, <3>1, AnsweredLatest, LatestFacts
    <3>3. Answered(<<[kind |-> "summary"]>> \o Latest(h, KeepRecent))
      BY <3>2, AnsweredSummary
    <3> QED
      BY <1>1, <2>2, <3>3, CompactFacts DEF Compact
  <2> QED
    BY <2>1, <2>2
<1> DEFINE g == Compact(h)
<1> HIDE DEF g
<1>3. g \in Seq(Message) /\ Answered(g)
  BY <1>2 DEF g
<1>4. Answered(Trim(g))
  <2>1. CASE Len(g) <= config.cap
    BY <1>3, <2>1 DEF Trim
  <2>2. CASE ~(Len(g) <= config.cap)
    <3>1. config.cap <= Len(g)
      BY <1>1, <1>3, <2>2, LenProperties
    <3>2. Answered(Latest(g, config.cap))
      BY <1>1, <1>3, <3>1, AnsweredLatest
    <3> QED
      BY <2>2, <3>2 DEF Trim
  <2> QED
    BY <2>1, <2>2
<1> QED
  BY <1>4 DEF g

(* A call the gate passed over has its own result or is to be executed, and  *)
(* one that was executed has its own result.                                 *)
ResultInv ==
    /\ phase \in {"gating", "executing"} => batch \in Batch
    /\ phase = "gating" => \A i \in 1 .. index - 1 : i \in executable \/ results[i] = i
    /\ phase = "executing" => \A i \in DOMAIN batch : i \in executable \/ results[i] = i
    /\ \A i \in executed : results[i] = i

LEMMA ResultGate == ASSUME TypeOK, ResultInv, NEW d \in Decisions, Gate(d) PROVE ResultInv'
<1>1. /\ phase = "gating" /\ index \in DOMAIN batch /\ batch \in Batch
      /\ results \in [DOMAIN batch -> 0 .. MaxCalls] /\ UNCHANGED <<batch, executed>>
      /\ executed \subseteq DOMAIN batch
  BY DEF Gate, TypeOK, ResultInv
<1>2. DOMAIN batch = 1 .. Len(batch) /\ Len(batch) \in Nat /\ index \in 1 .. Len(batch)
  BY <1>1, BatchDomain
<1>3. /\ index \in executable' \/ results'[index] = index
      /\ \A j \in DOMAIN batch : results'[j] = results[j] \/ results'[j] = j
      /\ executable \subseteq executable'
  <2>1. Admit(index) \/ Deny(index)
    BY DEF Gate
  <2> QED
    BY <1>1, <2>1 DEF Admit, Deny
<1>4. index' = index + 1 /\ phase' = IF index = Len(batch) THEN "executing" ELSE "gating"
  BY DEF Gate
<1>5. \A i \in 1 .. index : i \in executable' \/ results'[i] = i
  <2>1. \A i \in 1 .. index - 1 : i \in DOMAIN batch /\ (i \in executable \/ results[i] = i)
    BY <1>1, <1>2 DEF ResultInv
  <2>2. \A i \in 1 .. index - 1 : i \in executable' \/ results'[i] = i
    BY <1>3, <2>1
  <2>3. \A i \in 1 .. index : i \in 1 .. index - 1 \/ i = index
    BY <1>2
  <2> QED
    BY <1>3, <2>2, <2>3
<1>6. \A i \in executed' : results'[i] = i
  BY <1>1, <1>3 DEF ResultInv
<1>7. index' - 1 = index /\ (phase' = "executing" => DOMAIN batch' = 1 .. index)
  BY <1>1, <1>2, <1>4
<1> QED
  BY <1>1, <1>5, <1>6, <1>7 DEF ResultInv

LEMMA ResultStep == TypeOK /\ ResultInv /\ [Next]_vars => ResultInv'
<1> SUFFICES ASSUME TypeOK, ResultInv, [Next]_vars PROVE ResultInv'
  OBVIOUS
<1>1. CASE UNCHANGED <<phase, index, batch, results, executable, executed>>
  BY <1>1 DEF ResultInv
<1>2. CASE phase' \notin {"gating", "executing"} /\ UNCHANGED <<results, executed>>
  BY <1>2 DEF ResultInv
<1>3. ASSUME NEW b \in Batch, CallTools(b) PROVE ResultInv'
  <2>1. /\ batch' = b /\ index' = 1 /\ phase' = "gating" /\ executed' = {}
    BY <1>3 DEF CallTools
  <2>2. 1 .. index' - 1 = {}
    BY <2>1
  <2> QED
    BY <2>1, <2>2 DEF ResultInv
<1>4. ASSUME NEW d \in Decisions, Gate(d) PROVE ResultInv'
  BY <1>4, ResultGate
<1>5. ASSUME NEW i \in 1 .. MaxCalls, Execute(i) PROVE ResultInv'
  <2>1. /\ phase = "executing" /\ results \in [DOMAIN batch -> 0 .. MaxCalls]
        /\ UNCHANGED <<phase, batch, executable>> /\ executed' = executed \cup {i}
        /\ results' = [results EXCEPT ![i] = i] /\ executable \subseteq DOMAIN batch
        /\ executed \subseteq executable /\ i \in executable
    BY <1>5 DEF Execute, Pending, TypeOK
  <2> QED
    BY <2>1 DEF ResultInv
<1>6. CASE Say \/ Iterate \/ Answer \/ Record
  BY <1>2, <1>6 DEF Say, Iterate, FailTurn, Answer, Record, batchVars
<1>7. CASE Clear \/ Quit \/ UNCHANGED vars
  BY <1>1, <1>7 DEF Clear, Quit, vars, batchVars
<1>8. CASE Retry \/ MoveOn \/ Overflow
  BY <1>1, <1>2, <1>8 DEF Retry, MoveOn, Overflow, NextProvider, FailTurn, batchVars
<1> QED
  BY <1>3, <1>4, <1>5, <1>6, <1>7, <1>8 DEF Next, Step

\* What Record adds: the reply with its calls, then what Report gives.
LEMMA RecordGrows ==
    ASSUME TypeOK, Record
    PROVE  /\ history' \in Seq(Message)
           /\ Len(history') = Len(history) + 1 + Len(Report)
           /\ \A j \in 1 .. Len(history) : history'[j] = history[j]
           /\ history'[Len(history) + 1] = CallsMessage
           /\ \A i \in 1 .. Len(Report) : history'[Len(history) + 1 + i] = Report[i]
<1> DEFINE h == Append(history, CallsMessage)
           g == h \o Report
           L == Len(history)
<1>1. /\ history \in Seq(Message) /\ CallsMessage \in Message /\ Report \in Seq(Message)
  BY RecordMessages DEF TypeOK
<1>2. L \in Nat /\ Len(Report) \in Nat
  BY <1>1, LenProperties
<1>3. /\ h \in Seq(Message) /\ Len(h) = L + 1 /\ h[L + 1] = CallsMessage
      /\ \A j \in 1 .. L : h[j] = history[j]
  BY <1>1, AppendProperties
<1>4. history' = g
  BY DEF Record
<1> HIDE DEF h, L
<1>5. /\ g \in Seq(Message) /\ Len(g) = Len(h) + Len(Report)
      /\ \A j \in 1 .. Len(h) + Len(Report) :
            g[j] = IF j <= Len(h) THEN h[j] ELSE Report[j - Len(h)]
  BY <1>1, <1>3, ConcatProperties
<1>6. \A j \in 1 .. L + 1 : g[j] = h[j]
  BY <1>2, <1>3, <1>5
<1>7. ASSUME NEW i \in 1 .. Len(Report) PROVE g[L + 1 + i] = Report[i]
  <2>1. L + 1 + i \in 1 .. Len(h) + Len(Report) /\ ~(L + 1 + i <= Len(h))
    BY <1>2, <1>3
  <2>2. (L + 1 + i) - Len(h) = i
    BY <1>2, <1>3
  <2> QED
    BY <1>5, <2>1, <2>2
<1>8. \A j \in 1 .. L : g[j] = history[j]
  BY <1>2, <1>3, <1>6
<1>9. g[L + 1] = CallsMessage /\ Len(g) = L + 1 + Len(Report)
  BY <1>2, <1>3, <1>5, <1>6
<1> HIDE DEF g
<1> QED
  BY <1>4, <1>5, <1>7, <1>8, <1>9 DEF L

LEMMA RecordAnswered ==
    ASSUME TypeOK, ResultInv, CallsAnswered, Record
    PROVE  CallsAnswered'
<1> DEFINE g == history'
           L == Len(history)
<1>1. /\ history \in Seq(Message) /\ CallsMessage \in Message /\ Report \in Seq(Message)
      /\ round \in Nat
  BY RecordMessages DEF TypeOK
<1>2. /\ batch \in Batch /\ Len(batch) \in Nat /\ Len(batch) > 0 /\ DOMAIN batch = 1 .. Len(batch)
      /\ \A i \in DOMAIN batch : results[i] = i
  <2>1. batch \in Batch /\ phase = "executing" /\ executable = executed
    BY DEF Record, ResultInv, Pending, TypeOK
  <2>2. \A i \in DOMAIN batch : results[i] = i
    BY <2>1 DEF ResultInv
  <2> QED
    BY <2>1, <2>2, BatchDomain
<1>3. L \in Nat /\ DOMAIN history = 1 .. L /\ Len(Report) \in Nat
  BY <1>1, LenProperties
<1>4. /\ g \in Seq(Message) /\ Len(g) = L + 1 + Len(Report)
      /\ \A j \in 1 .. L : g[j] = history[j]
      /\ g[L + 1] = CallsMessage
      /\ \A i \in 1 .. Len(Report) : g[L + 1 + i] = Report[i]
  BY RecordGrows
<1>5. DOMAIN g = 1 .. L + 1 + Len(Report)
  BY <1>4, LenProperties
<1>6. \A h : h = g => (CallsAnswered' <=> Answered(h))
  BY DEF CallsAnswered, Answered
<1> HIDE DEF g, L
<1>8. ASSUME NEW i \in 1 .. Len(Report) PROVE g[L + 1 + i].kind # "calls"
  <2>1. Report[i].kind # "calls"
    BY <1>1, <1>8 DEF Report, ResultMessage
  <2> QED
    BY <1>4, <2>1
<1> SUFFICES ASSUME NEW k \in DOMAIN g, g[k].kind = "calls"
             PROVE  LET n == g[k].size IN
                    IF n = 0
                    THEN k < Len(g) /\ g[k + 1] = [kind |-> "results", round |-> g[k].round]
                    ELSE /\ k + n <= Len(g)
                         /\ \A i \in 1 .. n :
                               g[k + i] = [kind |-> "result", round |-> g[k].round,
                                           id |-> i, of |-> i]
  BY <1>6 DEF Answered
<1>9. k \in 1 .. L \/ k = L + 1
  <2>1. CASE k > L + 1
    <3>1. k - (L + 1) \in 1 .. Len(Report) /\ L + 1 + (k - (L + 1)) = k
      BY <1>3, <1>5, <2>1
    <3> QED
      BY <1>8, <3>1
  <2> QED
    BY <1>3, <1>5, <2>1
<1>10. CASE k \in 1 .. L
  <2>1. g[k] = history[k] /\ history[k].size \in Nat
    <3>1. g[k] = history[k]
      BY <1>3, <1>4, <1>10
    <3> QED
      BY <1>1, <1>3, <1>10, <3>1, CallsSizes
  <2>2. \A j \in 1 .. L : g[j] = history[j]
    BY <1>4
  <2>3. CASE history[k].size = 0
    <3>1. k < L /\ history[k + 1] = [kind |-> "results", round |-> history[k].round]
      BY <1>3, <1>10, <2>1, <2>3 DEF CallsAnswered, Answered, L
    <3>2. k + 1 \in 1 .. L /\ k < Len(g)
      BY <1>3, <1>4, <1>10, <3>1
    <3> QED
      BY <2>1, <2>2, <2>3, <3>1, <3>2
  <2>4. CASE history[k].size # 0
    <3>1. k + history[k].size <= L /\ \A i \in 1 .. history[k].size :
              history[k + i] = [kind |-> "result", round |-> history[k].round,
                                id |-> i, of |-> i]
      BY <1>3, <1>10, <2>1, <2>4 DEF CallsAnswered, Answered, L
    <3>2. \A i \in 1 .. history[k].size : k + i \in 1 .. L
      BY <1>3, <1>10, <2>1, <3>1
    <3>3. k + history[k].size <= Len(g)
      BY <1>3, <1>4, <1>10, <2>1, <3>1
    <3> QED
      BY <2>1, <2>2, <2>4, <3>1, <3>2, <3>3
  <2> QED
    BY <2>3, <2>4
<1>11. CASE k = L + 1
  <2>1. g[k] = CallsMessage
    BY <1>3, <1>4, <1>11
  <2>2. CASE ids
    <3>1. /\ g[k].size = Len(batch) /\ g[k].round = round + 1 /\ Len(batch) # 0
          /\ Report = [i \in 1 .. Len(batch) |-> ResultMessage(i)]
      BY <1>2, <2>1, <2>2 DEF CallsMessage, Report
    <3>2. Len(Report) = Len(batch)
      BY <1>2, <3>1
    <3>3. ASSUME NEW i \in 1 .. Len(batch)
          PROVE  g[k + i] = [kind |-> "result", round |-> round + 1, id |-> i, of |-> i]
      BY <1>2, <1>4, <1>11, <3>1, <3>2 DEF ResultMessage
    <3>4. k + Len(batch) <= Len(g)
      BY <1>2, <1>3, <1>4, <1>11, <3>2
    <3> QED
      BY <3>1, <3>3, <3>4
  <2>3. CASE ~ids
    <3>1. /\ g[k].size = 0 /\ g[k].round = round + 1
          /\ Report = <<[kind |-> "results", round |-> round + 1]>>
      BY <2>1, <2>3 DEF CallsMessage, Report
    <3>2. Len(Report) = 1 /\ Report[1] = [kind |-> "results", round |-> round + 1]
      BY <3>1
    <3>3. g[k + 1] = Report[1] /\ k < Len(g)
      BY <1>3, <1>4, <1>11, <3>2
    <3> QED
      BY <3>1, <3>2, <3>3
  <2> QED
    BY <2>2, <2>3
<1> QED
  BY <1>9, <1>10, <1>11

LEMMA AnsweredStep == TypeOK /\ ResultInv /\ CallsAnswered /\ [Next]_vars => CallsAnswered'
<1> SUFFICES ASSUME TypeOK, ResultInv, CallsAnswered, [Next]_vars PROVE CallsAnswered'
  OBVIOUS
<1>1. history \in Seq(Message)
  BY DEF TypeOK
<1>2. CASE UNCHANGED history
  BY <1>2 DEF CallsAnswered, Answered
<1>3. CASE Say
  <2>1. Answered(Append(history, [kind |-> "user"]))
    BY <1>1, AnsweredAppend, MessageKinds DEF CallsAnswered
  <2> QED
    BY <1>3, <2>1 DEF Say, CallsAnswered, Answered
<1>4. CASE Answer
  <2> DEFINE said == Append(history, [kind |-> "answer"])
  <2>1. Answered(said) /\ said \in Seq(Message)
    BY <1>1, AnsweredAppend, AppendProperties, MessageKinds DEF CallsAnswered
  <2>2. history' = Trim(Compact(said))
    BY <1>4 DEF Answer
  <2> HIDE DEF said
  <2>3. Answered(Trim(Compact(said)))
    BY <2>1, AnsweredTidied
  <2> QED
    BY <2>2, <2>3 DEF CallsAnswered, Answered
<1>5. CASE Clear
  BY <1>5 DEF Clear, CallsAnswered, Answered
<1>6. CASE Record
  BY <1>6, RecordAnswered
<1>7. CASE Quit \/ UNCHANGED vars \/ Iterate \/ Retry \/ MoveOn \/ Overflow
  BY <1>2, <1>7 DEF Quit, vars, Iterate, Retry, MoveOn, Overflow, NextProvider, FailTurn
<1>8. CASE \/ \E b \in Batch : CallTools(b)
           \/ \E d \in Decisions : Gate(d)
           \/ \E i \in 1 .. MaxCalls : Execute(i)
  BY <1>2, <1>8 DEF CallTools, Gate, Execute
<1> QED
  BY <1>3, <1>4, <1>5, <1>6, <1>7, <1>8 DEF Next, Step

(* Every reply with calls is followed by the result of each, in their order, *)
(* however the turn went and wherever the history was cut.                   *)
THEOREM CallsAnsweredCorrect == Spec => []CallsAnswered
<1>1. Init => ResultInv /\ CallsAnswered
  BY DEF Init, ResultInv, CallsAnswered, Answered
<1> QED
  BY <1>1, ResultStep, AnsweredStep, TypeCorrect, PTL DEF Spec
------------------------------------------------------------------------------
(* Where a result stands: in the run of results right behind its calls, or   *)
(* in the run of results the history begins with. That the runs are unbroken *)
(* is what a cut preserves: a result that loses its calls loses everything   *)
(* before it but results.                                                    *)
IsResult(m) == m.kind \in {"result", "results"}

Belongs(h, k) ==
    \E j \in 1 .. k - 1 : /\ h[j].kind = "calls" /\ h[j].round = h[k].round
                          /\ \A i \in j + 1 .. k : IsResult(h[i])

AtTheCut(h, k) == \A j \in 1 .. k - 1 : h[j].kind = "summary" \/ IsResult(h[j])

Placed(h) == \A k \in DOMAIN h : IsResult(h[k]) => Belongs(h, k) \/ AtTheCut(h, k)

PlacedInv == Placed(history)

\* A place depends on nothing behind it.
LEMMA PlaceKept ==
    ASSUME NEW h, NEW g, NEW k \in Nat, \A j \in 1 .. k : g[j] = h[j],
           k > 0, IsResult(h[k]), Belongs(h, k) \/ AtTheCut(h, k)
    PROVE  Belongs(g, k) \/ AtTheCut(g, k)
<1>0. g[k] = h[k] /\ \A j \in 1 .. k - 1 : g[j] = h[j]
  OBVIOUS
<1>1. CASE Belongs(h, k)
  <2>1. PICK j \in 1 .. k - 1 : /\ h[j].kind = "calls" /\ h[j].round = h[k].round
                                /\ \A i \in j + 1 .. k : IsResult(h[i])
    BY <1>1 DEF Belongs
  <2>2. \A i \in j + 1 .. k : i \in 1 .. k
    BY <2>1
  <2>3. \A i \in j + 1 .. k : IsResult(g[i])
    BY <2>1, <2>2
  <2>4. g[j].kind = "calls" /\ g[j].round = g[k].round
    BY <1>0, <2>1
  <2> QED
    BY <2>3, <2>4 DEF Belongs
<1>2. CASE AtTheCut(h, k)
  BY <1>0, <1>2 DEF AtTheCut
<1> QED
  BY <1>1, <1>2

LEMMA PlacedAppend ==
    ASSUME NEW h \in Seq(Message), Placed(h), NEW e \in Message, ~IsResult(e)
    PROVE  Placed(Append(h, e))
<1> DEFINE g == Append(h, e)
<1>1. /\ g \in Seq(Message) /\ Len(g) = Len(h) + 1 /\ Len(h) \in Nat /\ g[Len(h) + 1] = e
      /\ \A j \in 1 .. Len(h) : g[j] = h[j]
      /\ DOMAIN g = 1 .. Len(h) + 1 /\ DOMAIN h = 1 .. Len(h)
  BY AppendProperties, LenProperties
<1> HIDE DEF g
<1>2. ASSUME NEW k \in DOMAIN g, IsResult(g[k])
      PROVE  Belongs(g, k) \/ AtTheCut(g, k)
  <2>1. k # Len(h) + 1
    BY <1>1, <1>2
  <2>2. k \in 1 .. Len(h) /\ k \in Nat /\ k > 0
    BY <1>1, <1>2, <2>1
  <2>3. /\ \A j \in 1 .. k : g[j] = h[j]
        /\ IsResult(h[k]) /\ (Belongs(h, k) \/ AtTheCut(h, k))
    BY <1>1, <1>2, <2>2 DEF Placed
  <2> QED
    BY <2>2, <2>3, PlaceKept
<1> QED
  BY <1>2 DEF Placed, g

\* The last messages of h, behind nothing but summaries.
LEMMA PlacedCut ==
    ASSUME NEW h \in Seq(Message), Placed(h), NEW g, NEW p, CutOf(g, h, p),
           \A j \in 1 .. p : j <= Len(g) => g[j].kind = "summary"
    PROVE  Placed(g)
<1>1. /\ g \in Seq(Message) /\ p \in Nat /\ Len(g) \in Nat /\ Len(h) \in Nat
      /\ Len(g) - p \in 0 .. Len(h) /\ DOMAIN g = 1 .. Len(g) /\ DOMAIN h = 1 .. Len(h)
      /\ \A j \in p + 1 .. Len(g) : g[j] = h[Len(h) - Len(g) + j]
  BY LenProperties DEF CutOf
<1> SUFFICES ASSUME NEW k \in DOMAIN g, IsResult(g[k])
             PROVE  Belongs(g, k) \/ AtTheCut(g, k)
  BY DEF Placed
<1> DEFINE d == Len(h) - Len(g)
           c == d + k
<1>2. d \in Int /\ d + p >= 0 /\ d + Len(g) = Len(h)
  BY <1>1
<1>3. k \in p + 1 .. Len(g)
  BY <1>1 DEF IsResult
<1>4. ASSUME NEW i \in p + 1 .. Len(g) PROVE g[i] = h[d + i] /\ d + i \in DOMAIN h
  BY <1>1, <1>4
<1> HIDE DEF d
<1>5. c \in DOMAIN h /\ g[k] = h[c] /\ c \in Nat
  BY <1>1, <1>3, <1>4
<1>6. ASSUME NEW b \in Nat, \A i \in b .. c - 1 : h[i].kind = "summary" \/ IsResult(h[i]),
             b <= d + p + 1
      PROVE  AtTheCut(g, k)
  <2> SUFFICES ASSUME NEW i \in 1 .. k - 1 PROVE g[i].kind = "summary" \/ IsResult(g[i])
    BY DEF AtTheCut
  <2>1. CASE i <= p
    BY <1>1, <1>3, <2>1
  <2>2. CASE ~(i <= p)
    <3>1. i \in p + 1 .. Len(g) /\ d + i \in b .. c - 1
      BY <1>1, <1>2, <1>3, <1>6, <2>2
    <3> QED
      BY <1>4, <1>6, <3>1
  <2> QED
    BY <2>1, <2>2
<1>7. CASE AtTheCut(h, c)
  <2>1. \A i \in 1 .. c - 1 : h[i].kind = "summary" \/ IsResult(h[i])
    BY <1>7 DEF AtTheCut
  <2>2. 1 \in Nat /\ 1 <= d + p + 1
    BY <1>1, <1>2
  <2> HIDE DEF c
  <2> QED
    BY <1>6, <2>1, <2>2
<1>8. CASE Belongs(h, c)
  <2>1. PICK j \in 1 .. c - 1 : /\ h[j].kind = "calls" /\ h[j].round = h[c].round
                                /\ \A i \in j + 1 .. c : IsResult(h[i])
    BY <1>8 DEF Belongs
  <2>2. CASE j <= d + p
    <3>1. \A i \in j + 1 .. c - 1 : IsResult(h[i])
      BY <1>5, <2>1
    <3>2. j + 1 \in Nat /\ j + 1 <= d + p + 1
      BY <1>1, <1>2, <1>5, <2>1, <2>2
    <3> HIDE DEF c
    <3> QED
      BY <1>6, <3>1, <3>2
  <2>3. CASE ~(j <= d + p)
    <3>1. /\ j - d \in p + 1 .. Len(g) /\ j - d \in 1 .. k - 1 /\ d + (j - d) = j
      BY <1>1, <1>2, <1>3, <1>5, <2>1, <2>3
    <3>2. g[j - d] = h[j]
      BY <1>4, <3>1
    <3>3. ASSUME NEW i \in (j - d) + 1 .. k PROVE IsResult(g[i])
      <4>1. i \in p + 1 .. Len(g) /\ d + i \in j + 1 .. c
        BY <1>1, <1>2, <1>3, <1>5, <2>1, <3>1
      <4> QED
        BY <1>4, <2>1, <4>1
    <3> QED
      BY <1>5, <2>1, <3>1, <3>2, <3>3 DEF Belongs
  <2> QED
    BY <2>2, <2>3
<1> QED
  BY <1>5, <1>7, <1>8 DEF Placed

LEMMA PlacedLatest ==
    ASSUME NEW h \in Seq(Message), Placed(h), NEW n \in Nat, n <= Len(h)
    PROVE  Placed(Latest(h, n))
<1> DEFINE g == Latest(h, n)
<1>1. g \in Seq(Message) /\ Len(g) = n /\ \A i \in 1 .. n : g[i] = h[Len(h) - n + i]
  BY LatestFacts
<1> HIDE DEF g
<1>2. Len(h) \in Nat /\ Len(g) - 0 \in 0 .. Len(h)
  BY <1>1, LenProperties
<1>3. CutOf(g, h, 0)
  BY <1>1, <1>2 DEF CutOf
<1>4. \A j \in 1 .. 0 : j <= Len(g) => g[j].kind = "summary"
  OBVIOUS
<1> QED
  BY <1>3, <1>4, PlacedCut DEF g

LEMMA PlacedSummary ==
    ASSUME NEW h \in Seq(Message), Placed(h)
    PROVE  Placed(<<[kind |-> "summary"]>> \o h)
<1> DEFINE s == <<[kind |-> "summary"]>>
           g == s \o h
<1>1. s \in Seq(Message) /\ Len(s) = 1 /\ s[1].kind = "summary"
  BY MessageKinds
<1> HIDE DEF s
<1>2. /\ g \in Seq(Message) /\ Len(g) = Len(h) + 1 /\ g[1] = s[1] /\ Len(h) \in Nat
      /\ \A j \in 2 .. Len(h) + 1 : g[j] = h[j - 1]
  BY <1>1, ConcatProperties, LenProperties
<1> HIDE DEF g
<1>3. \A j \in 2 .. Len(h) + 1 : Len(h) - Len(g) + j = j - 1
  BY <1>2
<1>4. CutOf(g, h, 1)
  BY <1>1, <1>2, <1>3 DEF CutOf
<1>5. \A j \in 1 .. 1 : j <= Len(g) => g[j].kind = "summary"
  BY <1>1, <1>2
<1> QED
  BY <1>4, <1>5, PlacedCut DEF g, s

LEMMA PlacedTidied ==
    ASSUME TypeOK, NEW h \in Seq(Message), Placed(h)
    PROVE  Placed(Trim(Compact(h)))
<1>1. config.cap \in Nat /\ KeepRecent \in Nat /\ config \in Config
  BY CapFacts, SessionAssumption DEF TypeOK
<1>2. Placed(Compact(h)) /\ Compact(h) \in Seq(Message)
  <2>1. CASE Len(h) <= config.cap \/ Len(h) <= KeepRecent
    BY <2>1 DEF Compact
  <2>2. CASE ~(Len(h) <= config.cap \/ Len(h) <= KeepRecent)
    <3>1. KeepRecent <= Len(h)
      BY <1>1, <2>2, LenProperties
    <3>2. Placed(Latest(h, KeepRecent)) /\ Latest(h, KeepRecent) \in Seq(Message)
      BY <1>1, <3>1, PlacedLatest, LatestFacts
    <3>3. Placed(<<[kind |-> "summary"]>> \o Latest(h, KeepRecent))
      BY <3>2, PlacedSummary
    <3> QED
      BY <1>1, <2>2, <3>3, CompactFacts DEF Compact
  <2> QED
    BY <2>1, <2>2
<1> DEFINE g == Compact(h)
<1> HIDE DEF g
<1>3. g \in Seq(Message) /\ Placed(g)
  BY <1>2 DEF g
<1>4. Placed(Trim(g))
  <2>1. CASE Len(g) <= config.cap
    BY <1>3, <2>1 DEF Trim
  <2>2. CASE ~(Len(g) <= config.cap)
    <3>1. config.cap <= Len(g)
      BY <1>1, <1>3, <2>2, LenProperties
    <3>2. Placed(Latest(g, config.cap))
      BY <1>1, <1>3, <3>1, PlacedLatest
    <3> QED
      BY <2>2, <3>2 DEF Trim
  <2> QED
    BY <2>1, <2>2
<1> QED
  BY <1>4 DEF g

LEMMA PlacedRecord ==
    ASSUME TypeOK, Placed(history), Record
    PROVE  Placed(history')
<1> DEFINE g == history'
           L == Len(history)
<1>1. /\ history \in Seq(Message) /\ Report \in Seq(Message)
      /\ L \in Nat /\ DOMAIN history = 1 .. L /\ Len(Report) \in Nat
  BY RecordMessages, LenProperties DEF TypeOK
<1>2. /\ g \in Seq(Message) /\ Len(g) = L + 1 + Len(Report)
      /\ \A j \in 1 .. L : g[j] = history[j]
      /\ g[L + 1] = CallsMessage
      /\ \A i \in 1 .. Len(Report) : g[L + 1 + i] = Report[i]
  BY RecordGrows
<1>3. DOMAIN g = 1 .. L + 1 + Len(Report)
  BY <1>2, LenProperties
<1>4. CallsMessage.kind = "calls" /\ CallsMessage.round = round + 1
  BY DEF CallsMessage
<1>5. ASSUME NEW i \in 1 .. Len(Report)
      PROVE  IsResult(Report[i]) /\ Report[i].round = round + 1
  BY <1>1, <1>5 DEF Report, ResultMessage, IsResult
<1> HIDE DEF g, L
<1>6. ASSUME NEW j \in L + 2 .. L + 1 + Len(Report)
      PROVE  IsResult(g[j]) /\ g[j].round = round + 1
  <2>1. j - (L + 1) \in 1 .. Len(Report) /\ L + 1 + (j - (L + 1)) = j
    BY <1>1, <1>6
  <2>2. g[j] = Report[j - (L + 1)]
    BY <1>2, <2>1
  <2> QED
    BY <1>5, <2>1, <2>2
<1>7. ASSUME NEW k \in DOMAIN g, IsResult(g[k])
      PROVE  Belongs(g, k) \/ AtTheCut(g, k)
  <2>1. CASE k \in 1 .. L
    <3>1. k \in Nat /\ k > 0 /\ \A j \in 1 .. k : g[j] = history[j]
      BY <1>1, <1>2, <2>1
    <3>2. IsResult(history[k]) /\ (Belongs(history, k) \/ AtTheCut(history, k))
      BY <1>1, <1>7, <2>1, <3>1 DEF Placed
    <3> QED
      BY <3>1, <3>2, PlaceKept
  <2>2. CASE k = L + 1
    BY <1>2, <1>4, <1>7, <2>2 DEF IsResult
  <2>3. CASE k \in L + 2 .. L + 1 + Len(Report)
    <3>1. L + 1 \in 1 .. k - 1 /\ \A i \in (L + 1) + 1 .. k : i \in L + 2 .. L + 1 + Len(Report)
      BY <1>1, <2>3
    <3>2. g[L + 1].kind = "calls" /\ g[L + 1].round = g[k].round
      BY <1>2, <1>4, <1>6, <2>3
    <3>3. \A i \in (L + 1) + 1 .. k : IsResult(g[i])
      BY <1>6, <3>1
    <3> QED
      BY <3>1, <3>2, <3>3 DEF Belongs
  <2> QED
    BY <1>1, <1>3, <1>7, <2>1, <2>2, <2>3
<1> QED
  BY <1>7 DEF Placed, g

LEMMA PlacedStep == TypeOK /\ PlacedInv /\ [Next]_vars => PlacedInv'
<1> SUFFICES ASSUME TypeOK, PlacedInv, [Next]_vars PROVE Placed(history')
  BY DEF PlacedInv, Placed, Belongs, AtTheCut
<1>1. history \in Seq(Message) /\ Placed(history)
  BY DEF TypeOK, PlacedInv
<1>2. CASE UNCHANGED history
  BY <1>1, <1>2
<1>3. CASE Say
  <2>1. Placed(Append(history, [kind |-> "user"]))
    BY <1>1, PlacedAppend, MessageKinds DEF IsResult
  <2> QED
    BY <1>3, <2>1 DEF Say
<1>4. CASE Answer
  <2> DEFINE said == Append(history, [kind |-> "answer"])
  <2>1. Placed(said) /\ said \in Seq(Message)
    BY <1>1, PlacedAppend, AppendProperties, MessageKinds DEF IsResult
  <2>2. history' = Trim(Compact(said))
    BY <1>4 DEF Answer
  <2> HIDE DEF said
  <2> QED
    BY <2>1, <2>2, PlacedTidied
<1>5. CASE Clear
  BY <1>5 DEF Clear, Placed
<1>6. CASE Record
  BY <1>1, <1>6, PlacedRecord
<1>7. CASE Quit \/ UNCHANGED vars \/ Iterate \/ Retry \/ MoveOn \/ Overflow
  BY <1>2, <1>7 DEF Quit, vars, Iterate, Retry, MoveOn, Overflow, NextProvider, FailTurn
<1>8. CASE \/ \E b \in Batch : CallTools(b)
           \/ \E d \in Decisions : Gate(d)
           \/ \E i \in 1 .. MaxCalls : Execute(i)
  BY <1>2, <1>8 DEF CallTools, Gate, Execute
<1> QED
  BY <1>3, <1>4, <1>5, <1>6, <1>7, <1>8 DEF Next, Step

(* A result stands without its calls only where compaction or trimming cut   *)
(* the history: before every message that is not a summary or a result.      *)
THEOREM OrphansCorrect == Spec => []OrphansAtTheCut
<1>1. Init => PlacedInv
  BY DEF Init, PlacedInv, Placed
<1>2. TypeOK /\ PlacedInv => OrphansAtTheCut
  <2> SUFFICES ASSUME PlacedInv, NEW k \in DOMAIN history,
                      history[k].kind \in {"result", "results"}
               PROVE  \/ \E j \in 1 .. k - 1 :
                            history[j].kind = "calls" /\ history[j].round = history[k].round
                      \/ \A j \in 1 .. k - 1 : history[j].kind \in {"summary", "result", "results"}
    BY DEF OrphansAtTheCut
  <2> QED
    BY DEF PlacedInv, Placed, IsResult, Belongs, AtTheCut
<1> QED
  BY <1>1, <1>2, PlacedStep, TypeCorrect, PTL DEF Spec
==============================================================================
