--------------------------- MODULE GatewayWebhooks ---------------------------
(* POST /webhook of the gateway: the sliding-window rate limiter, the        *)
(* authentication and the idempotency store it passes before the model is    *)
(* asked. Each of the stores is used under a lock of its own; handlers run   *)
(* concurrently and are dropped when the request times out or the client     *)
(* hangs up. Instants are read just before the lock is taken and taken here  *)
(* to be those of the lock: a handler waits for it a few statements at most. *)
EXTENDS Naturals, FiniteSets

CONSTANTS
    Client,        \* rate keys: addresses of clients
    Key,           \* idempotency keys
    NoKey,         \* a request without one
    Handler,       \* requests under way at the same time
    Limits,        \* what limit_per_window may be; 0 is no limit
    Window,        \* RATE_LIMIT_WINDOW_SECS
    SweepEvery,    \* RATE_LIMITER_SWEEP_INTERVAL_SECS
    MaxClients,    \* rate_limit_max_keys
    Ttl,           \* idempotency_ttl_secs
    MaxKeys,       \* idempotency_max_keys
    Horizon,       \* bound: time
    MaxRequests,   \* bound: requests
    MaxCrashes     \* bound: restarts

ASSUME GatewayAssumption ==
    /\ NoKey \notin Key
    /\ Limits \cup {SweepEvery, Horizon, MaxRequests, MaxCrashes} \subseteq Nat
    /\ {Window, MaxClients, Ttl, MaxKeys} \subseteq Nat \ {0}

VARIABLES
    limit,
    clock,
    requests,    \* of the rate limiter: the requests let in, by client
    sweep,       \* its last_sweep
    keys,        \* of the idempotency store: when a key was seen
    call,        \* the request of each handler
    outcome,     \* how the last request to end was answered
    \* observations
    admitted,    \* the requests of a client that were let in, since it was forgotten
    since,       \* when work on a key started, since it was forgotten
    begun,       \* keys some work started on
    processed,   \* keys some work was done for
    sent, crashes

limiter == <<requests, sweep, admitted>>
store   == <<keys, since, begun>>
vars == <<limit, clock, limiter, store, call, outcome, processed, sent, crashes>>
------------------------------------------------------------------------------
Outcomes == {"none", "limited", "rejected", "duplicate", "answered", "failed", "dropped"}
Idle == [phase |-> "idle"]
Call == {Idle} \cup [phase : {"checking", "working"}, key : Key \cup {NoKey}]

Without(f, x) == [y \in DOMAIN f \ {x} |-> f[y]]
With(f, x, v) == [y \in DOMAIN f \cup {x} |-> IF y = x THEN v ELSE f[y]]

\* An entry of a client's list: the instant, and which request it is.
Entry(t, nr) == [at |-> t, nr |-> nr]

Init ==
    /\ limit \in Limits /\ clock = 0 /\ requests = <<>> /\ sweep = 0 /\ keys = <<>>
    /\ call = [h \in Handler |-> Idle] /\ outcome = "none"
    /\ admitted = [c \in Client |-> {}] /\ since = <<>>
    /\ begun = {} /\ processed = {} /\ sent = 0 /\ crashes = 0

Tick ==
    /\ clock < Horizon /\ clock' = clock + 1
    /\ UNCHANGED <<limit, limiter, store, call, outcome, processed, sent, crashes>>
------------------------------------------------------------------------------
(* SlidingWindowRateLimiter.allow.                                           *)
Recent(log) == {e \in log : e.at + Window > clock}

Pruned(r) ==
    LET fresh == {c \in DOMAIN r : Recent(r[c]) # {}}
    IN  [c \in fresh |-> Recent(r[c])]

Sweeping == clock - sweep >= SweepEvery
Swept == IF Sweeping THEN Pruned(requests) ELSE requests
Crowded(c, r) == c \notin DOMAIN r /\ Cardinality(DOMAIN r) >= MaxClients

\* The clients whose last request is the oldest; which of them goes is the map's order.
LongestSilent(r) ==
    {c \in DOMAIN r : \A d \in DOMAIN r : \A e \in r[c] : \E f \in r[d] : e.at <= f.at}

\* The map with room for c, and the clients that were forgotten for it.
MakeRoom(c) ==
    IF ~Crowded(c, Swept) THEN {[map |-> Swept, gone |-> {}]}
    ELSE LET r == Pruned(Swept) IN
         IF ~Crowded(c, r) THEN {[map |-> r, gone |-> {}]}
         ELSE {[map |-> Without(r, d), gone |-> {d}] : d \in LongestSilent(r)}

\* Mutant of Full: one request more than the limit is let in.
FullOver(log) == Cardinality(log) > limit

Full(log) == Cardinality(log) >= limit

(* A request arrives; over the limit, it is answered 429. *)
Arrive(h, c, k) ==
    /\ call[h] = Idle /\ sent < MaxRequests /\ sent' = sent + 1
    /\ IF limit = 0
       THEN /\ call' = [call EXCEPT ![h] = [phase |-> "checking", key |-> k]]
            /\ UNCHANGED <<limiter, outcome>>
       ELSE \E room \in MakeRoom(c) :
            LET log == IF c \in DOMAIN room.map THEN Recent(room.map[c]) ELSE {}
                forgetful == [d \in Client |-> IF d \in room.gone THEN {} ELSE admitted[d]]
            IN  /\ sweep' = IF Sweeping \/ Crowded(c, Swept) THEN clock ELSE sweep
                /\ IF Full(log)
                   THEN /\ requests' = With(room.map, c, log)
                        /\ admitted' = forgetful
                        /\ outcome' = "limited"
                        /\ UNCHANGED call
                   ELSE /\ requests' = With(room.map, c, log \cup {Entry(clock, sent)})
                        /\ admitted' = [forgetful EXCEPT ![c] = @ \cup {Entry(clock, sent)}]
                        /\ call' = [call EXCEPT ![h] = [phase |-> "checking", key |-> k]]
                        /\ UNCHANGED outcome
    /\ UNCHANGED <<limit, clock, store, processed, crashes>>

Answered(h, o) ==
    /\ call' = [call EXCEPT ![h] = Idle]
    /\ outcome' = o

Begin(h) ==
    /\ call' = [call EXCEPT ![h].phase = "working"]
    /\ begun' = begun \cup {call[h].key}
------------------------------------------------------------------------------
(* IdempotencyStore.record_if_new.                                           *)

\* Mutant of LiveKeys: keys are kept for the window of the rate limiter.
LiveKeysOfWindow == {k \in DOMAIN keys : clock - keys[k] < Window}

LiveKeys == {k \in DOMAIN keys : clock - keys[k] < Ttl}

Oldest(live) == {k \in live : \A l \in live : keys[k] <= keys[l]}

\* Mutant of Stored: a full store forgets nothing.
StoredAll(k, gone) == With([l \in LiveKeys |-> keys[l]], k, clock)

\* The store with k in it, and without the key that made room.
Stored(k, gone) == With([l \in LiveKeys \ gone |-> keys[l]], k, clock)

\* Mutant of CheckIn: the key is recorded before the request is authenticated.
CheckInRecordsFirst(h) ==
    LET k == call[h].key IN
    /\ call[h].phase = "checking" /\ k # NoKey
    /\ keys' = With([l \in LiveKeys |-> keys[l]], k, IF k \in LiveKeys THEN keys[k] ELSE clock)
    /\ IF k \in LiveKeys
       THEN Answered(h, "duplicate") /\ UNCHANGED <<since, begun>>
       ELSE \/ Answered(h, "rejected") /\ UNCHANGED <<since, begun>>
            \/ Begin(h) /\ since' = With(since, k, clock) /\ UNCHANGED outcome
    /\ UNCHANGED <<limit, clock, limiter, processed, sent, crashes>>

(* The request is refused for its token, its secret or its body; or its key  *)
(* is looked up and recorded, and work on it begins.                         *)
CheckIn(h) ==
    LET k == call[h].key IN
    /\ call[h].phase = "checking"
    /\ \/ Answered(h, "rejected") /\ UNCHANGED store
       \/ /\ k = NoKey
          /\ Begin(h) /\ UNCHANGED <<keys, since, outcome>>
       \/ /\ k \in LiveKeys
          /\ keys' = [l \in LiveKeys |-> keys[l]]
          /\ Answered(h, "duplicate") /\ UNCHANGED <<since, begun>>
       \/ /\ k \in Key \ LiveKeys
          /\ \E gone \in IF Cardinality(LiveKeys) >= MaxKeys
                         THEN {{l} : l \in Oldest(LiveKeys)} ELSE {{}} :
                /\ keys' = Stored(k, gone)
                /\ since' = With([l \in DOMAIN since \ gone |-> since[l]], k, clock)
          /\ Begin(h) /\ UNCHANGED outcome
    /\ UNCHANGED <<limit, clock, limiter, processed, sent, crashes>>

(* run_gateway_chat_simple returns. *)
Finish(h) ==
    /\ call[h].phase = "working"
    /\ \/ /\ Answered(h, "answered")
          /\ processed' = processed \cup {call[h].key}
       \/ Answered(h, "failed") /\ UNCHANGED processed
    /\ UNCHANGED <<limit, clock, limiter, store, sent, crashes>>

(* TimeoutLayer, or the client hung up: the handler is dropped where it waits. *)
Drop(h) ==
    /\ call[h].phase = "working"
    /\ Answered(h, "dropped")
    /\ UNCHANGED <<limit, clock, limiter, store, processed, sent, crashes>>

(* The daemon restarts: both stores are in memory. *)
Crash ==
    /\ crashes < MaxCrashes /\ crashes' = crashes + 1
    /\ requests' = <<>> /\ sweep' = clock /\ keys' = <<>>
    /\ call' = [h \in Handler |-> Idle]
    /\ outcome' = "dropped"
    /\ admitted' = [c \in Client |-> {}] /\ since' = <<>>
    /\ UNCHANGED <<limit, clock, begun, processed, sent>>
------------------------------------------------------------------------------
Next ==
    \/ Tick \/ Crash
    \/ \E h \in Handler :
          \/ \E c \in Client, k \in Key \cup {NoKey} : Arrive(h, c, k)
          \/ CheckIn(h) \/ Finish(h) \/ Drop(h)

Spec == Init /\ [][Next]_vars
------------------------------------------------------------------------------
Times == 0 .. clock
Entries == [at : Times, nr : 0 .. sent]

TypeOK ==
    /\ limit \in Limits /\ clock \in 0 .. Horizon /\ sweep \in Times
    /\ DOMAIN requests \subseteq Client /\ Cardinality(DOMAIN requests) <= MaxClients
    /\ \A c \in DOMAIN requests : requests[c] \subseteq Entries
    /\ DOMAIN keys \subseteq Key /\ Cardinality(DOMAIN keys) <= MaxKeys
    /\ \A k \in DOMAIN keys : keys[k] \in Times
    /\ call \in [Handler -> Call] /\ outcome \in Outcomes
    /\ admitted \in [Client -> SUBSET Entries]
    /\ DOMAIN since \subseteq Key /\ \A k \in DOMAIN since : since[k] \in Times
    /\ begun \cup processed \subseteq Key \cup {NoKey}
    /\ sent \in 0 .. MaxRequests /\ crashes \in 0 .. MaxCrashes

(* However clients, sweeps and evictions interleave, a client the limiter    *)
(* has not forgotten is let in at most limit times in any window.            *)
RateLimited == limit > 0 => \A c \in Client : Cardinality(Recent(admitted[c])) <= limit

(* Work on a key does not start a second time within its time to live,       *)
(* unless the full store or a restart forgot it: two deliveries of a webhook *)
(* do not both reach the model.                                              *)
StartedOncePerTtl ==
    [][\A h \in Handler :
          call[h].phase = "checking" /\ call'[h].phase = "working"
          => \/ call[h].key \notin DOMAIN since
             \/ clock - since[call[h].key] >= Ttl]_vars

\* h's request is answered as a duplicate in this step.
TurnedAway(h) ==
    /\ call[h].phase = "checking" /\ call'[h] = Idle
    /\ outcome' = "duplicate"

(* A request called a duplicate follows one that was authenticated and that  *)
(* work had begun for: one that was turned away does not use its key up.     *)
DuplicateWasBegun ==
    [][\A h \in Handler :
          TurnedAway(h) => call[h].key \in begun]_vars

(* "Request already processed for this idempotency key": what a duplicate is *)
(* told, is true or about to be.                                             *)
DuplicateMeansProcessed ==
    [][\A h \in Handler :
          TurnedAway(h)
          => \/ call[h].key \in processed
             \/ \E g \in Handler : call[g].phase = "working" /\ call[g].key = call[h].key]_vars
==============================================================================
