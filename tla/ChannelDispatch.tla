--------------------------- MODULE ChannelDispatch ---------------------------
(* The message loop of the chat channels: one worker per inbound message,    *)
(* a limit on the workers, the interruption of a chat's older request by a   *)
(* newer message, and the conversation histories the workers share.          *)
(* Messages are numbered in the order of the inbound queue.                  *)
EXTENDS Naturals, SequencesExt

CONSTANTS
    Message,      \* 1 .. n
    Chat,         \* interruption scopes: channel, reply target and sender
    Sender,       \* history keys: channel, thread and sender
    None,
    ChatOf,       \* the chat of a message
    SenderOf,     \* the sender of a chat
    Commanding,   \* chats of channels with runtime commands
    Limits,       \* what max_in_flight_messages may be
    MaxHistory,   \* MAX_CHANNEL_HISTORY
    KeepTurns     \* CHANNEL_HISTORY_COMPACT_KEEP_MESSAGES

ASSUME DispatchAssumption ==
    /\ Message \subseteq Nat /\ IsFiniteSet(Message)
    /\ ChatOf \in [Message -> Chat] /\ SenderOf \in [Chat -> Sender]
    /\ Commanding \subseteq Chat /\ None \notin Message
    /\ Limits \subseteq Nat \ {0} /\ MaxHistory \in Nat \ {0} /\ KeepTurns \in Nat \ {0}

VARIABLES
    config,        \* the configuration the process was started with
    stage,         \* where the worker of a message is
    active,        \* in_flight_by_sender: the message registered last in a chat
    prev,          \* the message a worker found registered before it
    rank,          \* order in which the workers registered, 0: not yet
    cancelled,     \* messages whose cancellation token was cancelled
    done,          \* completions marked done
    history,       \* conversation_histories
    request,       \* turns a worker asked the model with
    outcome,       \* what became of a message
    before         \* messages of a sender already processed when it was last reset

vars == <<config, stage, active, prev, rank, cancelled, done, history, request,
          outcome, before>>
------------------------------------------------------------------------------
Parked  == {"cancelling", "checking", "listening", "waiting"}
Busy    == {"processing", "appended", "asking"}
Running == Busy \cup {"starting", "closing"}
Stages  == Parked \cup Running \cup {"queued", "spawned", "marking", "ended"}
Outcomes == {"none", "dropped", "reset", "replied", "cancelled", "answered", "failed",
             "rolled_back", "compacted"}
Turn == [role : {"user", "assistant"}, of : Seq(Message)]

\* The chats whose channel interrupts on new messages, the limit on the workers.
Config == [interrupting : SUBSET Chat, limit : Limits]

Key(m) == SenderOf[ChatOf[m]]
Interrupts(m) == ChatOf[m] \in config.interrupting
InFlight == {m \in Message : stage[m] \notin {"queued", "ended"}}

User(m) == [role |-> "user", of |-> <<m>>]
Assistant(m) == [role |-> "assistant", of |-> <<m>>]

Expected(out) == IF Len(out) % 2 = 0 THEN "user" ELSE "assistant"

\* The next turn is stored if it is the other role's, and merged into the last if not.
Take(out, t) ==
    IF t.role = Expected(out) THEN Append(out, t)
    ELSE IF out = <<>> THEN out
    ELSE [out EXCEPT ![Len(out)] = [role |-> t.role, of |-> @.of \o t.of]]

\* Mutant of Normalise: turns are kept as they are.
NormaliseNot(turns) == turns

(* normalize_cached_channel_turns: user first, roles alternate, consecutive  *)
(* turns of one role are merged.                                             *)
Normalise(turns) ==
    LET out[i \in 0 .. Len(turns)] == IF i = 0 THEN <<>> ELSE Take(out[i - 1], turns[i])
    IN  out[Len(turns)]

Latest(turns, n) == SubSeq(turns, IF Len(turns) > n THEN Len(turns) - n + 1 ELSE 1, Len(turns))

(* append_sender_turn. *)
Remember(k, turn) ==
    history' = [history EXCEPT ![k] = Latest(Append(@, turn), MaxHistory)]

(* compact_sender_history. *)
Compact(k) == history' = [history EXCEPT ![k] = Normalise(Latest(@, KeepTurns))]

(* rollback_orphan_user_turn; the caller closes the turn if it cannot. *)
EndsWithOrphan(k, m) == history[k] # <<>> /\ Last(history[k]) = User(m)

Init ==
    /\ config \in Config
    /\ stage = [m \in Message |-> "queued"]
    /\ active = [c \in Chat |-> None]
    /\ prev = [m \in Message |-> None]
    /\ rank = [m \in Message |-> 0]
    /\ cancelled = {}
    /\ done = {}
    /\ history = [k \in Sender |-> <<>>]
    /\ request = [m \in Message |-> <<>>]
    /\ outcome = [m \in Message |-> "none"]
    /\ before = [k \in Sender |-> {}]

Go(m, s) == stage' = [stage EXCEPT ![m] = s]
Settle(m, o) == outcome' = [outcome EXCEPT ![m] = o] /\ Go(m, "closing")
------------------------------------------------------------------------------
(* run_message_dispatch_loop: the loop. A message leaves the queue in order, *)
(* when a permit is free; its worker holds the permit until it ends.         *)
Spawn(m) ==
    /\ stage[m] = "queued"
    /\ \A n \in Message : n < m => stage[n] # "queued"
    /\ Cardinality(InFlight) < config.limit
    /\ Go(m, "spawned")
    /\ UNCHANGED <<config, active, prev, rank, cancelled, done, history, request,
                   outcome, before>>

(* The worker takes the place of the chat's latest message. *)
Register(m) ==
    /\ stage[m] = "spawned"
    /\ IF Interrupts(m)
       THEN /\ prev' = [prev EXCEPT ![m] = active[ChatOf[m]]]
            /\ active' = [active EXCEPT ![ChatOf[m]] = m]
            /\ rank' = [rank EXCEPT ![m] = 1 + Cardinality({n \in Message : rank[n] > 0})]
            /\ Go(m, IF active[ChatOf[m]] = None THEN "starting" ELSE "cancelling")
       ELSE /\ Go(m, "starting")
            /\ UNCHANGED <<prev, active, rank>>
    /\ UNCHANGED <<config, cancelled, done, history, request, outcome, before>>

CancelPrevious(m) ==
    /\ stage[m] = "cancelling"
    /\ cancelled' = cancelled \cup {prev[m]}
    /\ Go(m, "checking")
    /\ UNCHANGED <<config, active, prev, rank, done, history, request, outcome, before>>

\* Mutant of CheckDone: the worker does not wait for the one it cancelled.
CheckDoneNot(m) ==
    /\ stage[m] = "checking"
    /\ Go(m, "starting")
    /\ UNCHANGED <<config, active, prev, rank, cancelled, done, history, request,
                   outcome, before>>

(* InFlightTaskCompletion::wait: done is read ... *)
CheckDone(m) ==
    /\ stage[m] = "checking"
    /\ Go(m, IF prev[m] \in done THEN "starting" ELSE "listening")
    /\ UNCHANGED <<config, active, prev, rank, cancelled, done, history, request,
                   outcome, before>>

(* ... and only then the worker listens for the notification. *)
Listen(m) ==
    /\ stage[m] = "listening"
    /\ Go(m, "waiting")
    /\ UNCHANGED <<config, active, prev, rank, cancelled, done, history, request,
                   outcome, before>>

\* Mutant of Close: the chat's entry is removed whoever holds it.
CloseWhoever(m) ==
    /\ stage[m] = "closing"
    /\ active' = IF Interrupts(m) THEN [active EXCEPT ![ChatOf[m]] = None] ELSE active
    /\ Go(m, "marking")
    /\ UNCHANGED <<config, prev, rank, cancelled, done, history, request, outcome, before>>

(* After process_channel_message: the chat's entry goes if it is still ours. *)
Close(m) ==
    /\ stage[m] = "closing"
    /\ active' = IF Interrupts(m) /\ active[ChatOf[m]] = m
                 THEN [active EXCEPT ![ChatOf[m]] = None] ELSE active
    /\ Go(m, "marking")
    /\ UNCHANGED <<config, prev, rank, cancelled, done, history, request, outcome, before>>

\* Mutant of MarkDone: the flag is not set, only the listeners are woken.
MarkDoneUnset(m) ==
    /\ stage[m] = "marking"
    /\ stage' = [n \in Message |->
                   IF n = m THEN "ended"
                   ELSE IF stage[n] = "waiting" /\ prev[n] = m THEN "starting"
                   ELSE stage[n]]
    /\ UNCHANGED <<config, active, prev, rank, cancelled, done, history, request,
                   outcome, before>>

(* InFlightTaskCompletion::mark_done: wakes those that listen now; the       *)
(* worker ends and drops its permit.                                         *)
MarkDone(m) ==
    /\ stage[m] = "marking"
    /\ done' = done \cup {m}
    /\ stage' = [n \in Message |->
                   IF n = m THEN "ended"
                   ELSE IF stage[n] = "waiting" /\ prev[n] = m THEN "starting"
                   ELSE stage[n]]
    /\ UNCHANGED <<config, active, prev, rank, cancelled, history, request, outcome, before>>
------------------------------------------------------------------------------
(* process_channel_message.                                                  *)

(* A message cancelled while it waited is dropped before anything else. *)
Start(m) ==
    /\ stage[m] = "starting"
    /\ IF m \in cancelled THEN Settle(m, "dropped")
                          ELSE Go(m, "processing") /\ UNCHANGED outcome
    /\ UNCHANGED <<config, active, prev, rank, cancelled, done, history, request, before>>

(* handle_runtime_command_if_needed: /new, /model and /models with an        *)
(* argument forget the conversation.                                         *)
Reset(m) ==
    /\ stage[m] = "processing"
    /\ ChatOf[m] \in Commanding
    /\ history' = [history EXCEPT ![Key(m)] = <<>>]
    /\ before' = [before EXCEPT ![Key(m)] =
                    {n \in Message : /\ Key(n) = Key(m)
                                     /\ stage[n] \in Busy \cup {"closing", "marking", "ended"}}]
    /\ Settle(m, "reset")
    /\ UNCHANGED <<config, active, prev, rank, cancelled, done, request>>

(* A command that only answers, or a provider that cannot be created.        *)
Reply(m) ==
    /\ stage[m] = "processing"
    /\ Settle(m, "replied")
    /\ UNCHANGED <<config, active, prev, rank, cancelled, done, history, request, before>>

(* The user's turn is stored before the model is asked. *)
AppendUser(m) ==
    /\ stage[m] = "processing"
    /\ Remember(Key(m), User(m))
    /\ Go(m, "appended")
    /\ UNCHANGED <<config, active, prev, rank, cancelled, done, request, outcome, before>>

(* The history is read back, under another lock, for the request. *)
Ask(m) ==
    /\ stage[m] = "appended"
    /\ request' = [request EXCEPT ![m] = Normalise(history[Key(m)])]
    /\ Go(m, "asking")
    /\ UNCHANGED <<config, active, prev, rank, cancelled, done, history, outcome, before>>

\* Mutant of Cancel: an interrupted request takes its user turn away.
CancelClosesTurn(m) ==
    /\ stage[m] = "asking" /\ m \in cancelled
    /\ history' = [history EXCEPT ![Key(m)] = SelectSeq(@, LAMBDA t : t # User(m))]
    /\ Settle(m, "cancelled")
    /\ UNCHANGED <<config, active, prev, rank, cancelled, done, request, before>>

(* The interrupted request leaves its user turn. *)
Cancel(m) ==
    /\ stage[m] = "asking" /\ m \in cancelled
    /\ Settle(m, "cancelled")
    /\ UNCHANGED <<config, active, prev, rank, cancelled, done, history, request, before>>

(* The model answered; the answer is stored and sent, cancelled or not. *)
Answer(m) ==
    /\ stage[m] = "asking"
    /\ Remember(Key(m), Assistant(m))
    /\ Settle(m, "answered")
    /\ UNCHANGED <<config, active, prev, rank, cancelled, done, request, before>>

\* Mutant of Fail: the failed request is left open in the history.
FailOpen(m) ==
    /\ stage[m] = "asking" /\ m \notin cancelled
    /\ Settle(m, "failed")
    /\ UNCHANGED <<config, active, prev, rank, cancelled, done, history, request, before>>

(* The model or a tool failed: the context overflowed, the model has no      *)
(* vision, or anything else.                                                 *)
Fail(m) ==
    /\ stage[m] = "asking" /\ m \notin cancelled
    /\ \/ Compact(Key(m)) /\ Settle(m, "compacted")
       \/ /\ EndsWithOrphan(Key(m), m)
          /\ history' = [history EXCEPT ![Key(m)] = Front(@)]
          /\ Settle(m, "rolled_back")
       \/ Remember(Key(m), Assistant(m)) /\ Settle(m, "failed")
    /\ UNCHANGED <<config, active, prev, rank, cancelled, done, request, before>>

(* The model did not answer in time; the marker is like that of a failure.   *)
TimeOut(m) ==
    /\ stage[m] = "asking"
    /\ Remember(Key(m), Assistant(m))
    /\ Settle(m, "failed")
    /\ UNCHANGED <<config, active, prev, rank, cancelled, done, request, before>>
------------------------------------------------------------------------------
Ended == /\ \A m \in Message : stage[m] = "ended"
         /\ UNCHANGED vars

Work(m) ==
    \/ Spawn(m) \/ Register(m) \/ CancelPrevious(m) \/ CheckDone(m) \/ Listen(m)
    \/ Start(m) \/ Reset(m) \/ Reply(m) \/ AppendUser(m) \/ Ask(m)
    \/ Cancel(m) \/ Answer(m) \/ Fail(m) \/ TimeOut(m)
    \/ Close(m) \/ MarkDone(m)

Next == (\E m \in Message : Work(m)) \/ Ended

Spec == Init /\ [][Next]_vars

(* Tokio runs every task that is ready; the model's answer has a timeout.    *)
FairSpec == Spec /\ \A m \in Message : WF_vars(Work(m))
------------------------------------------------------------------------------
TypeOK ==
    /\ config \in Config
    /\ stage \in [Message -> Stages]
    /\ active \in [Chat -> Message \cup {None}]
    /\ prev \in [Message -> Message \cup {None}]
    /\ rank \in [Message -> Nat]

(* In a chat that interrupts, a request is processed only when every older   *)
(* one is over, however the workers are scheduled.                           *)
OneAtATime ==
    \A m, n \in Message :
        ChatOf[m] = ChatOf[n] /\ Interrupts(m) /\ stage[m] \in Busy /\ stage[n] \in Busy
        => m = n

\* A sender with one chat, which interrupts.
Orderly(k) == \E c \in config.interrupting : \A d \in Chat : SenderOf[d] = k <=> d = c

(* /new starts fresh: no turn of a message processed before it comes back    *)
(* from a request that was still running.                                    *)
FreshAfterReset ==
    \A k \in Sender : Orderly(k) =>
        \A i \in DOMAIN history[k] :
            \A j \in DOMAIN history[k][i].of : history[k][i].of[j] \notin before[k]

(* Every request alternates, starting with the user, within the limit of the *)
(* history, whatever interleaving or eviction left in it; where messages     *)
(* interrupt it ends with the turn of the message it is for.                 *)
RequestWellFormed ==
    \A m \in Message : LET q == request[m] IN
        /\ Len(q) <= MaxHistory
        /\ \A i \in DOMAIN q : q[i].role = IF i % 2 = 1 THEN "user" ELSE "assistant"
        /\ Orderly(Key(m)) /\ q # <<>> => Last(q).role = "user" /\ Last(Last(q).of) = m

(* A user turn without an answer belongs to a request that is being          *)
(* processed, was interrupted, or overflowed the context: a failed or        *)
(* timed-out request is never inherited as unfinished context.               *)
OrphansAreUnfinished ==
    \A k \in Sender : Orderly(k) =>
        \A i \in DOMAIN history[k] : LET h == history[k] IN
            h[i].role = "user" /\ (i = Len(h) \/ h[i + 1].role = "user")
            => \A j \in DOMAIN h[i].of :
                  outcome[h[i].of[j]] \in {"none", "cancelled", "compacted"}

InHistory(m) ==
    LET h == history[Key(m)] IN
    \E i \in DOMAIN h : h[i].role = "user" /\ m \in ToSet(h[i].of)

\* Nothing took the turns stored since m: no reset, compaction or full history.
NothingForgotten(m) ==
    LET later == {n \in Message : rank[n] > rank[m]} IN
    /\ m \notin before[Key(m)]
    /\ \A n \in later : outcome[n] # "compacted"
    /\ 2 * Cardinality(later) < MaxHistory

(* The turn of an interrupted request is kept for the next one, until a      *)
(* reset, a compaction or the limit of the history takes it.                 *)
InterruptedTurnKept ==
    \A m \in Message :
        outcome[m] = "cancelled" /\ Orderly(Key(m)) /\ NothingForgotten(m) => InHistory(m)

(* A worker that read the flag before it was set and listened after.         *)
MissedWakeUp(m) == stage[m] = "waiting" /\ prev[m] \in done

(* Every message is worked off: neither the limit on the workers nor the     *)
(* workers that wait for each other block it, only a lost wake-up can.       *)
OnlyLostWakeUpsBlock ==
    \A m \in Message : <>(stage[m] = "ended" \/ \E n \in Message : MissedWakeUp(n))
==============================================================================
