------------------------ MODULE ChannelDispatch_proofs ------------------------
(* Proofs about the interruption protocol of ChannelDispatch, for any number *)
(* of messages, chats and workers, and about the histories and requests it   *)
(* leads to, for any length of a history.                                    *)
EXTENDS ChannelDispatch, FiniteSetTheorems, SequenceTheorems, WellFoundedInduction, TLAPS

Registered == {n \in Message : rank[n] > 0}
Open(m) == stage[m] \in Parked \cup Running
Together(m, n) == ChatOf[m] = ChatOf[n]

(* The workers of an interrupting chat registered one after the other; a     *)
(* parked worker waits for the one just before it; the one that runs is the  *)
(* oldest that is not over.                                                  *)
Ranked ==
    /\ \A m \in Message : rank[m] <= Cardinality(Registered)
    /\ \A m, n \in Message : rank[m] = rank[n] /\ rank[m] > 0 => m = n
    /\ \A m \in Message : stage[m] \in {"queued", "spawned"} => rank[m] = 0
    /\ \A m \in Message : Interrupts(m) /\ Open(m) => rank[m] > 0

Latest_is_active ==
    /\ \A m \in Message : Interrupts(m) /\ Open(m) => active[ChatOf[m]] # None
    /\ \A c \in Chat : active[c] # None =>
          /\ c \in config.interrupting /\ ChatOf[active[c]] = c /\ Open(active[c])
          /\ \A m \in Message : ChatOf[m] = c => rank[m] <= rank[active[c]]

Parked_behind ==
    \A m \in Message : Interrupts(m) /\ stage[m] \in Parked =>
        /\ prev[m] \in Message /\ Together(prev[m], m)
        /\ 0 < rank[prev[m]] /\ rank[prev[m]] < rank[m]
        /\ \A o \in Message : Together(o, m) /\ rank[o] < rank[m] => rank[o] <= rank[prev[m]]
        /\ ~Open(prev[m]) =>
              \A o \in Message : Together(o, m) /\ Open(o) /\ o # m => rank[m] < rank[o]

Oldest_runs ==
    \A m, o \in Message :
        /\ Interrupts(m) /\ Together(m, o) /\ m # o
        /\ stage[m] \in Running /\ Open(o)
        => rank[m] < rank[o]

Done_is_over == \A m \in done : m \in Message /\ stage[m] = "ended"

Protocol == TypeOK /\ Ranked /\ Latest_is_active /\ Parked_behind /\ Oldest_runs /\ Done_is_over

LEMMA StageKinds ==
    /\ Parked \cap Running = {} /\ Busy \subseteq Running
    /\ Parked \cup Running \subseteq Stages
    /\ \A s \in {"queued", "spawned", "marking", "ended"} : s \notin Parked \cup Running
    /\ "starting" \in Running /\ "closing" \in Running /\ "cancelling" \in Parked
    /\ "checking" \in Parked /\ "listening" \in Parked /\ "waiting" \in Parked
BY DEF Parked, Running, Busy, Stages

LEMMA RankCounts ==
    ASSUME TypeOK
    PROVE  IsFiniteSet(Registered) /\ Cardinality(Registered) \in Nat
<1>1. IsFiniteSet(Message) /\ Registered \in SUBSET Message
  BY DispatchAssumption DEF Registered
<1> QED
  BY <1>1, FS_Subset, FS_CardinalityType

LEMMA ProtocolInit == Init => Protocol
<1> SUFFICES ASSUME Init PROVE Protocol
  OBVIOUS
<1>1. TypeOK
  BY StageKinds DEF Init, TypeOK, Stages
<1>2. Registered = {}
  BY DEF Init, Registered
<1>3. \A m \in Message : ~Open(m) /\ stage[m] \notin Parked /\ stage[m] \notin Running
  BY StageKinds DEF Init, Open
<1>4. Ranked
  BY <1>2, <1>3, FS_EmptySet DEF Init, Ranked
<1> QED
  BY <1>1, <1>3, <1>4 DEF Init, Protocol, Latest_is_active, Parked_behind, Oldest_runs,
                          Done_is_over

(* A worker moves on without crossing a border of the protocol.              *)
LEMMA Moves ==
    ASSUME Protocol, NEW m \in Message, NEW s \in Stages,
           UNCHANGED <<config, active, prev, rank, done>>, Go(m, s),
           \/ stage[m] \in Running /\ s \in Running
           \/ stage[m] \in Parked /\ s \in Parked
           \/ stage[m] = "queued" /\ s = "spawned"
    PROVE  Protocol'
<1>1. \A n \in Message : /\ (Open(n) <=> Open(n)')
                         /\ (stage'[n] \in Parked <=> stage[n] \in Parked)
                         /\ (stage'[n] \in Running <=> stage[n] \in Running)
                         /\ (stage[n] \in {"queued", "spawned"}
                               <=> stage'[n] \in {"queued", "spawned"})
                         /\ (stage[n] = "ended" => stage'[n] = "ended")
  BY StageKinds DEF Open, Go, Protocol, TypeOK
<1>2. TypeOK'
  BY DEF Protocol, TypeOK, Go
<1>3. Registered' = Registered
  BY DEF Registered
<1>4. Ranked'
  BY <1>1, <1>3 DEF Protocol, Ranked, Interrupts
<1>5. Latest_is_active'
  <2>1. \A c \in Chat : active[c] # None => active[c] \in Message
    BY DEF Protocol, TypeOK
  <2> QED
    BY <1>1, <2>1 DEF Protocol, Latest_is_active, Interrupts
<1>6. Parked_behind'
  BY <1>1 DEF Protocol, Parked_behind, Interrupts, Together
<1>7. Oldest_runs'
  BY <1>1 DEF Protocol, Oldest_runs, Interrupts, Together
<1>8. Done_is_over'
  BY <1>1 DEF Protocol, Done_is_over
<1> QED
  BY <1>2, <1>4, <1>5, <1>6, <1>7, <1>8 DEF Protocol

(* Workers whose predecessors are over start.                                *)
LEMMA Starts ==
    ASSUME Protocol, NEW S \in SUBSET Message,
           UNCHANGED <<config, active, prev, rank, done>>,
           \A n \in S : stage[n] \in Parked /\ (Interrupts(n) => ~Open(prev[n])),
           stage' = [n \in Message |-> IF n \in S THEN "starting" ELSE stage[n]]
    PROVE  Protocol'
<1>1. \A n \in Message : /\ (Open(n) <=> Open(n)')
                         /\ (stage'[n] \in Parked => stage[n] \in Parked /\ n \notin S)
                         /\ (stage'[n] \in Running <=> stage[n] \in Running \/ n \in S)
                         /\ (stage[n] \in {"queued", "spawned"}
                               <=> stage'[n] \in {"queued", "spawned"})
                         /\ (stage[n] = "ended" => stage'[n] = "ended")
  BY StageKinds DEF Open
<1>2. TypeOK'
  BY StageKinds DEF Protocol, TypeOK
<1>3. Registered' = Registered
  BY DEF Registered
<1>4. Ranked'
  BY <1>1, <1>3 DEF Protocol, Ranked, Interrupts
<1>5. Latest_is_active'
  <2>1. \A c \in Chat : active[c] # None => active[c] \in Message
    BY DEF Protocol, TypeOK
  <2> QED
    BY <1>1, <2>1 DEF Protocol, Latest_is_active, Interrupts
<1>6. Parked_behind'
  BY <1>1 DEF Protocol, Parked_behind, Interrupts, Together
<1>7. Oldest_runs'
  <2>1. ASSUME NEW m \in Message, NEW o \in Message, Interrupts(m), Together(m, o), m # o,
               m \in S, Open(o)
        PROVE  rank[m] < rank[o]
    BY <2>1 DEF Protocol, Parked_behind, Together
  <2> QED
    BY <1>1, <2>1 DEF Protocol, Oldest_runs, Interrupts, Together
<1>8. Done_is_over'
  BY <1>1 DEF Protocol, Done_is_over
<1> QED
  BY <1>2, <1>4, <1>5, <1>6, <1>7, <1>8 DEF Protocol

LEMMA Registers ==
    ASSUME Protocol, NEW m \in Message, Register(m), Interrupts(m)
    PROVE  Protocol'
<1> DEFINE C == ChatOf[m]
           R == 1 + Cardinality(Registered)
<1>0. TypeOK /\ Ranked /\ Latest_is_active /\ Parked_behind /\ Oldest_runs /\ Done_is_over
  BY DEF Protocol
<1>1. /\ C \in Chat /\ C \in config.interrupting
      /\ stage[m] = "spawned" /\ rank[m] = 0 /\ ~Open(m)
  BY <1>0, StageKinds, DispatchAssumption DEF Register, Interrupts, Ranked, Open
<1>2. /\ prev' = [prev EXCEPT ![m] = active[C]]
      /\ active' = [active EXCEPT ![C] = m]
      /\ rank' = [rank EXCEPT ![m] = R]
      /\ stage' = [stage EXCEPT ![m] = IF active[C] = None THEN "starting" ELSE "cancelling"]
      /\ config' = config /\ done' = done
  BY DEF Register, Go, Registered
<1>3. IsFiniteSet(Registered) /\ Cardinality(Registered) \in Nat /\ R \in Nat /\ R > 0
  BY <1>0, RankCounts
<1>4. \A n \in Message : rank[n] \in Nat /\ rank[n] < R
  BY <1>0, <1>3 DEF TypeOK, Ranked
<1>5. rank'[m] = R /\ \A n \in Message : n # m => rank'[n] = rank[n]
  BY <1>0, <1>2 DEF TypeOK
<1>6. Cardinality(Registered') = R
  <2>1. m \notin Registered
    BY <1>1 DEF Registered
  <2>2. Registered' = Registered \cup {m}
    BY <1>3, <1>5 DEF Registered
  <2> QED
    BY <1>3, <2>1, <2>2, FS_AddElement
<1>7. TypeOK'
  <2>1. active[C] \in Message \cup {None}
    BY <1>0, <1>1 DEF TypeOK
  <2> QED
    BY <1>0, <1>1, <1>2, <1>3, <2>1, StageKinds DEF TypeOK
<1>8. /\ Open(m)'
      /\ \A n \in Message : n # m =>
            /\ stage'[n] = stage[n] /\ (Open(n)' <=> Open(n)) /\ prev'[n] = prev[n]
  BY <1>0, <1>2, StageKinds DEF TypeOK, Open
<1> HIDE DEF R
<1>9. Ranked'
  <2>1. \A n \in Message : rank'[n] <= R
    BY <1>3, <1>4, <1>5
  <2>2. \A n, o \in Message : rank'[n] = rank'[o] /\ rank'[n] > 0 => n = o
    BY <1>0, <1>3, <1>4, <1>5 DEF Ranked
  <2>3. \A n \in Message : stage'[n] \in {"queued", "spawned"} => rank'[n] = 0
    BY <1>0, <1>5, <1>8, StageKinds DEF Ranked, Open
  <2>4. \A n \in Message : Interrupts(n)' /\ Open(n)' => rank'[n] > 0
    BY <1>0, <1>2, <1>3, <1>5, <1>8 DEF Ranked, Interrupts
  <2> QED
    BY <1>6, <2>1, <2>2, <2>3, <2>4 DEF Ranked
<1>10. Latest_is_active'
  <2>1. active'[C] = m /\ \A c \in Chat : c # C => active'[c] = active[c]
    BY <1>0, <1>1, <1>2 DEF TypeOK
  <2>2. m # None
    BY DispatchAssumption
  <2>3. ASSUME NEW n \in Message, Interrupts(n)', Open(n)'
        PROVE  active'[ChatOf[n]] # None
    <3>1. CASE ChatOf[n] = C
      BY <2>1, <2>2, <3>1
    <3>2. CASE ChatOf[n] # C
      <4>1. n # m /\ Open(n) /\ Interrupts(n) /\ ChatOf[n] \in Chat
        BY <1>2, <1>8, <2>3, <3>2, DispatchAssumption DEF Interrupts
      <4> QED
        BY <1>0, <2>1, <3>2, <4>1 DEF Latest_is_active
    <3> QED
      BY <3>1, <3>2
  <2>4. ASSUME NEW c \in Chat, active'[c] # None
        PROVE  /\ c \in config'.interrupting /\ ChatOf[active'[c]] = c /\ Open(active[c])'
               /\ \A n \in Message : ChatOf[n] = c => rank'[n] <= rank'[active'[c]]
    <3>1. CASE c = C
      BY <1>1, <1>2, <1>3, <1>4, <1>5, <1>8, <2>1, <3>1 DEF Open
    <3>2. CASE c # C
      <4>1. active[c] \in Message /\ active[c] # m /\ active'[c] = active[c]
        BY <1>0, <2>1, <2>4, <3>2 DEF TypeOK, Latest_is_active
      <4>2. stage'[active[c]] = stage[active[c]] /\ rank'[active[c]] = rank[active[c]]
        BY <1>5, <1>8, <4>1
      <4>3. \A n \in Message : ChatOf[n] = c => rank'[n] = rank[n]
        BY <1>5, <3>2
      <4> QED
        BY <1>0, <1>2, <2>4, <4>1, <4>2, <4>3 DEF Latest_is_active, Open
    <3> QED
      BY <3>1, <3>2
  <2> QED
    BY <2>3, <2>4 DEF Latest_is_active
<1>11. Parked_behind'
  <2> SUFFICES ASSUME NEW n \in Message, Interrupts(n)', stage'[n] \in Parked
               PROVE  /\ prev'[n] \in Message /\ Together(prev'[n], n)
                      /\ 0 < rank'[prev'[n]] /\ rank'[prev'[n]] < rank'[n]
                      /\ \A o \in Message : Together(o, n) /\ rank'[o] < rank'[n]
                                              => rank'[o] <= rank'[prev'[n]]
                      /\ ~Open(prev[n])' =>
                            \A o \in Message : Together(o, n) /\ Open(o)' /\ o # n
                                                 => rank'[n] < rank'[o]
    BY DEF Parked_behind, Together
  <2>1. CASE n = m
    <3>1. prev'[m] = active[C] /\ active[C] # None
      BY <1>0, <1>2, <2>1, StageKinds DEF TypeOK
    <3>2. active[C] \in Message /\ ChatOf[active[C]] = C /\ Open(active[C]) /\ active[C] # m
      BY <1>0, <1>1, <3>1 DEF TypeOK, Latest_is_active
    <3>3. rank[active[C]] > 0
      BY <1>0, <1>1, <3>2 DEF Ranked, Interrupts
    <3>4. \A o \in Message : ChatOf[o] = C => rank[o] <= rank[active[C]]
      BY <1>0, <1>1, <3>1 DEF Latest_is_active
    <3>5. Open(prev[m])'
      BY <1>8, <3>1, <3>2 DEF Open
    <3> QED
      BY <1>3, <1>4, <1>5, <2>1, <3>1, <3>2, <3>3, <3>4, <3>5 DEF Together
  <2>2. CASE n # m
    <3>1. Interrupts(n) /\ stage[n] \in Parked /\ prev'[n] = prev[n] /\ rank'[n] = rank[n]
      BY <1>2, <1>5, <1>8, <2>2 DEF Interrupts
    <3>2. /\ prev[n] \in Message /\ Together(prev[n], n)
          /\ 0 < rank[prev[n]] /\ rank[prev[n]] < rank[n]
          /\ \A o \in Message : Together(o, n) /\ rank[o] < rank[n] => rank[o] <= rank[prev[n]]
          /\ ~Open(prev[n]) =>
                \A o \in Message : Together(o, n) /\ Open(o) /\ o # n => rank[n] < rank[o]
      BY <1>0, <3>1 DEF Parked_behind
    <3>3. prev[n] # m
      BY <1>1, <3>2
    <3>4. rank'[prev[n]] = rank[prev[n]] /\ (Open(prev[n])' <=> Open(prev[n]))
      BY <1>5, <1>8, <3>1, <3>2, <3>3 DEF Open
    <3> QED
      BY <1>3, <1>4, <1>5, <1>8, <2>2, <3>1, <3>2, <3>4
  <2> QED
    BY <2>1, <2>2
<1>12. Oldest_runs'
  <2> SUFFICES ASSUME NEW n \in Message, NEW o \in Message, Interrupts(n)', Together(n, o),
                      n # o, stage'[n] \in Running, Open(o)'
               PROVE  rank'[n] < rank'[o]
    BY DEF Oldest_runs, Together
  <2>1. CASE n = m
    <3>1. active[C] = None
      BY <1>0, <1>2, <2>1, StageKinds DEF TypeOK
    <3>2. Open(o) /\ Interrupts(o) /\ ChatOf[o] = C
      BY <1>1, <1>8, <2>1 DEF Together, Interrupts
    <3> QED
      BY <1>0, <3>1, <3>2 DEF Latest_is_active
  <2>2. CASE n # m /\ o = m
    BY <1>4, <1>5, <2>2
  <2>3. CASE n # m /\ o # m
    <3>1. Interrupts(n) /\ stage[n] \in Running /\ Open(o)
      BY <1>2, <1>8, <2>3 DEF Interrupts
    <3> QED
      BY <1>0, <1>5, <2>3, <3>1 DEF Oldest_runs
  <2> QED
    BY <2>1, <2>2, <2>3
<1>13. Done_is_over'
  BY <1>0, <1>1, <1>2, <1>8, StageKinds DEF Done_is_over
<1> QED
  BY <1>7, <1>9, <1>10, <1>11, <1>12, <1>13 DEF Protocol

(* A worker of a chat that does not interrupt takes no part.                 *)
LEMMA StartsAlone ==
    ASSUME Protocol, NEW m \in Message, Register(m), ~Interrupts(m)
    PROVE  Protocol'
<1>0. TypeOK /\ Ranked /\ Latest_is_active /\ Parked_behind /\ Oldest_runs /\ Done_is_over
  BY DEF Protocol
<1>1. /\ UNCHANGED <<config, active, prev, rank, done>>
      /\ stage[m] = "spawned" /\ stage' = [stage EXCEPT ![m] = "starting"]
  BY DEF Register, Go
<1>2. \A n \in Message : n # m => stage'[n] = stage[n] /\ (Open(n)' <=> Open(n))
  BY <1>0, <1>1 DEF TypeOK, Open
<1>3. stage'[m] = "starting" /\ Open(m)' /\ ~Open(m)
  BY <1>0, <1>1, StageKinds DEF TypeOK, Open
<1>4. TypeOK'
  BY <1>0, <1>1, StageKinds DEF TypeOK
<1>5. Ranked'
  <2>1. Registered' = Registered
    BY <1>1 DEF Registered
  <2> QED
    BY <1>0, <1>1, <1>2, <1>3, <2>1 DEF Ranked, Interrupts
<1>6. Latest_is_active'
  <2>1. \A n \in Message : Interrupts(n) /\ Open(n)' => active[ChatOf[n]] # None
    BY <1>0, <1>2 DEF Latest_is_active
  <2>2. \A c \in Chat : active[c] # None => active[c] \in Message /\ Open(active[c])'
    BY <1>0, <1>1, <1>2, <1>3 DEF TypeOK, Latest_is_active, Open
  <2> QED
    BY <1>0, <1>1, <2>1, <2>2 DEF Latest_is_active, Interrupts, Open
<1>7. \A n, o \in Message : Interrupts(n) /\ Together(n, o) => n # m /\ o # m
  BY DEF Interrupts, Together
<1>8. Parked_behind'
  <2>1. \A n \in Message : Interrupts(n) /\ stage'[n] \in Parked
          => stage[n] \in Parked /\ prev[n] # m /\ (Open(prev[n])' <=> Open(prev[n]))
    BY <1>0, <1>1, <1>2, <1>3, StageKinds DEF Parked_behind, Open, Interrupts, Together
  <2> QED
    BY <1>0, <1>1, <1>2, <1>7, <2>1 DEF Parked_behind, Interrupts, Together
<1>9. Oldest_runs'
  BY <1>0, <1>1, <1>2, <1>7 DEF Oldest_runs, Interrupts, Together
<1>10. Done_is_over'
  BY <1>0, <1>1, <1>2, StageKinds DEF Done_is_over
<1> QED
  BY <1>4, <1>5, <1>6, <1>8, <1>9, <1>10 DEF Protocol

(* The oldest of its chat leaves: the next one becomes the oldest.           *)
LEMMA Closes ==
    ASSUME Protocol, NEW m \in Message, Close(m)
    PROVE  Protocol'
<1> DEFINE C == ChatOf[m]
<1>0. TypeOK /\ Ranked /\ Latest_is_active /\ Parked_behind /\ Oldest_runs /\ Done_is_over
  BY DEF Protocol
<1>1. /\ UNCHANGED <<config, prev, rank, done>> /\ C \in Chat
      /\ stage[m] = "closing" /\ stage' = [stage EXCEPT ![m] = "marking"]
      /\ active' = IF Interrupts(m) /\ active[C] = m THEN [active EXCEPT ![C] = None] ELSE active
  BY DispatchAssumption DEF Close, Go
<1>2. \A n \in Message : n # m => stage'[n] = stage[n] /\ (Open(n)' <=> Open(n))
  BY <1>0, <1>1 DEF TypeOK, Open
<1>3. stage'[m] = "marking" /\ ~Open(m)' /\ Open(m) /\ stage[m] \in Running
  BY <1>0, <1>1, StageKinds DEF TypeOK, Open
<1>4. TypeOK'
  BY <1>0, <1>1 DEF TypeOK, Stages
<1>5. Ranked'
  <2>1. Registered' = Registered
    BY <1>1 DEF Registered
  <2> QED
    BY <1>0, <1>1, <1>2, <1>3, <2>1 DEF Ranked, Interrupts
<1>6. Latest_is_active'
  <2>1. ASSUME NEW n \in Message, Interrupts(n)', Open(n)'
        PROVE  active'[ChatOf[n]] # None
    <3>1. n # m /\ Open(n) /\ Interrupts(n) /\ ChatOf[n] \in Chat
      BY <1>1, <1>2, <1>3, <2>1, DispatchAssumption DEF Interrupts
    <3>2. active[ChatOf[n]] # None
      BY <1>0, <3>1 DEF Latest_is_active
    <3>3. ~(Interrupts(m) /\ active[C] = m /\ ChatOf[n] = C)
      <4>1. SUFFICES ASSUME Interrupts(m), active[C] = m, ChatOf[n] = C PROVE FALSE
        OBVIOUS
      <4>2. rank[n] <= rank[m] /\ rank[m] < rank[n]
        BY <1>0, <1>1, <1>3, <3>1, <3>2, <4>1 DEF Latest_is_active, Oldest_runs, Together
      <4> QED
        BY <1>0, <4>2 DEF TypeOK
    <3> QED
      BY <1>0, <1>1, <3>1, <3>2, <3>3 DEF TypeOK
  <2>2. \A c \in Chat : active'[c] # None =>
           active'[c] = active[c] /\ active[c] \in Message /\ active[c] # m
    BY <1>0, <1>1 DEF TypeOK, Latest_is_active, Interrupts
  <2>3. \A c \in Chat : active'[c] # None => Open(active[c])'
    <3> SUFFICES ASSUME NEW c \in Chat, active'[c] # None PROVE Open(active[c])'
      OBVIOUS
    <3>1. active'[c] = active[c] /\ active[c] \in Message /\ active[c] # m /\ Open(active[c])
      BY <1>0, <2>2 DEF Latest_is_active
    <3> QED
      BY <1>2, <3>1 DEF Open
  <2> QED
    BY <1>0, <1>1, <2>1, <2>2, <2>3 DEF Latest_is_active
<1>7. Parked_behind'
  <2> SUFFICES ASSUME NEW n \in Message, Interrupts(n)', stage'[n] \in Parked
               PROVE  /\ prev[n] \in Message /\ Together(prev[n], n)
                      /\ 0 < rank[prev[n]] /\ rank[prev[n]] < rank[n]
                      /\ \A o \in Message : Together(o, n) /\ rank[o] < rank[n]
                                              => rank[o] <= rank[prev[n]]
                      /\ ~Open(prev[n])' =>
                            \A o \in Message : Together(o, n) /\ Open(o)' /\ o # n
                                                 => rank[n] < rank[o]
    BY <1>1 DEF Parked_behind, Together
  <2>1. Interrupts(n) /\ stage[n] \in Parked /\ n # m /\ Open(n)
    BY <1>1, <1>2, <1>3, StageKinds DEF Interrupts, Open
  <2>2. /\ prev[n] \in Message /\ Together(prev[n], n)
        /\ 0 < rank[prev[n]] /\ rank[prev[n]] < rank[n]
        /\ \A o \in Message : Together(o, n) /\ rank[o] < rank[n] => rank[o] <= rank[prev[n]]
        /\ ~Open(prev[n]) =>
              \A o \in Message : Together(o, n) /\ Open(o) /\ o # n => rank[n] < rank[o]
    BY <1>0, <2>1 DEF Parked_behind
  <2>3. CASE prev[n] # m
    <3>1. Open(prev[n])' <=> Open(prev[n])
      BY <1>1, <1>2, <2>2, <2>3 DEF Open
    <3> QED
      BY <1>2, <1>3, <2>2, <3>1
  <2>4. CASE prev[n] = m
    <3>1. ASSUME NEW o \in Message, Together(o, n), Open(o)', o # n
          PROVE  rank[n] < rank[o]
      <4>1. o # m /\ Open(o)
        BY <1>2, <1>3, <3>1
      <4>2. rank[m] < rank[o]
        BY <1>0, <1>3, <2>1, <2>2, <2>4, <3>1, <4>1 DEF Oldest_runs, Together, Interrupts
      <4>3. rank[n] # rank[o] /\ rank[n] \in Nat /\ rank[o] \in Nat /\ rank[m] \in Nat
        BY <1>0, <2>2, <3>1 DEF Ranked, TypeOK
      <4> QED
        BY <2>2, <2>4, <3>1, <4>2, <4>3
    <3> QED
      BY <2>2, <3>1
  <2> QED
    BY <2>3, <2>4
<1>8. Oldest_runs'
  BY <1>0, <1>1, <1>2, <1>3, StageKinds DEF Oldest_runs, Interrupts, Together
<1>9. Done_is_over'
  BY <1>0, <1>1, <1>2 DEF Done_is_over
<1> QED
  BY <1>4, <1>5, <1>6, <1>7, <1>8, <1>9 DEF Protocol

(* The worker ends: those that listen for it start.                          *)
LEMMA Marks ==
    ASSUME Protocol, NEW m \in Message, MarkDone(m)
    PROVE  Protocol'
<1> DEFINE S == {n \in Message : stage[n] = "waiting" /\ prev[n] = m}
<1>0. TypeOK /\ Ranked /\ Latest_is_active /\ Parked_behind /\ Oldest_runs /\ Done_is_over
  BY DEF Protocol
<1>1. /\ UNCHANGED <<config, active, prev, rank>> /\ done' = done \cup {m}
      /\ stage[m] = "marking"
      /\ stage' = [n \in Message |-> IF n = m THEN "ended"
                                     ELSE IF n \in S THEN "starting" ELSE stage[n]]
  BY DEF MarkDone
<1>2. \A n \in S : n \in Message /\ stage[n] \in Parked /\ prev[n] = m /\ n # m
  BY <1>1, StageKinds
<1> HIDE DEF S
<1>3. ~Open(m)
  BY <1>1, StageKinds DEF Open
<1>4. \A n \in Message : /\ (Open(n) <=> Open(n)')
                         /\ (stage'[n] \in Parked => stage[n] \in Parked /\ n \notin S)
                         /\ (stage'[n] \in Running <=> stage[n] \in Running \/ n \in S)
                         /\ (stage[n] \in {"queued", "spawned"}
                               <=> stage'[n] \in {"queued", "spawned"})
                         /\ (stage[n] = "ended" => stage'[n] = "ended")
  BY <1>1, <1>2, StageKinds DEF Open
<1>5. TypeOK'
  BY <1>0, <1>1, StageKinds DEF TypeOK, Stages
<1>6. Registered' = Registered
  BY <1>1 DEF Registered
<1>7. Ranked'
  BY <1>0, <1>1, <1>4, <1>6 DEF Ranked, Interrupts
<1>8. Latest_is_active'
  <2>1. \A c \in Chat : active[c] # None => active[c] \in Message
    BY <1>0 DEF TypeOK
  <2> QED
    BY <1>0, <1>1, <1>4, <2>1 DEF Latest_is_active, Interrupts
<1>9. Parked_behind'
  BY <1>0, <1>1, <1>4 DEF Parked_behind, Interrupts, Together
<1>10. Oldest_runs'
  <2>1. ASSUME NEW n \in Message, NEW o \in Message, Interrupts(n), Together(n, o), n # o,
               n \in S, Open(o)
        PROVE  rank[n] < rank[o]
    BY <1>0, <1>2, <1>3, <2>1 DEF Parked_behind, Together
  <2> QED
    BY <1>0, <1>1, <1>4, <2>1 DEF Oldest_runs, Interrupts, Together
<1>11. Done_is_over'
  BY <1>0, <1>1, <1>4 DEF Done_is_over
<1> QED
  BY <1>5, <1>7, <1>8, <1>9, <1>10, <1>11 DEF Protocol

(* The worker reads the flag of the one before it.                           *)
LEMMA Checks ==
    ASSUME Protocol, NEW m \in Message, CheckDone(m)
    PROVE  Protocol'
<1>1. UNCHANGED <<config, active, prev, rank, done>> /\ stage[m] = "checking"
  BY DEF CheckDone
<1>2. CASE prev[m] \in done
  <2>1. stage[prev[m]] = "ended"
    BY <1>2 DEF Protocol, Done_is_over
  <2>2. ~Open(prev[m])
    BY <2>1, StageKinds DEF Open
  <2>3. stage' = [n \in Message |-> IF n \in {m} THEN "starting" ELSE stage[n]]
    BY <1>2 DEF CheckDone, Go, Protocol, TypeOK
  <2> DEFINE S == {m}
  <2>4. stage' = [n \in Message |-> IF n \in S THEN "starting" ELSE stage[n]]
    BY <2>3
  <2>5. \A n \in S : stage[n] \in Parked /\ (Interrupts(n) => ~Open(prev[n]))
    BY <1>1, <2>2, StageKinds
  <2>6. S \in SUBSET Message
    OBVIOUS
  <2> HIDE DEF S
  <2> QED
    BY <1>1, <2>4, <2>5, <2>6, Starts
<1>3. CASE prev[m] \notin done
  BY <1>1, <1>3, Moves, StageKinds DEF CheckDone
<1> QED
  BY <1>2, <1>3

LEMMA ProtocolStep == Protocol /\ [Next]_vars => Protocol'
<1> SUFFICES ASSUME Protocol, [Next]_vars PROVE Protocol'
  OBVIOUS
<1>1. CASE UNCHANGED vars
  <2>1. UNCHANGED <<config, stage, active, prev, rank, done>>
    BY <1>1 DEF vars
  <2>2. Registered' = Registered
    BY <2>1 DEF Registered
  <2> QED
    BY <2>1, <2>2 DEF Protocol, TypeOK, Ranked, Latest_is_active, Parked_behind, Oldest_runs,
                      Done_is_over, Open, Interrupts, Together
<1>2. ASSUME NEW m \in Message, Work(m) PROVE Protocol'
  <2>1. CASE Register(m)
    BY <2>1, Registers, StartsAlone
  <2>2. CASE CheckDone(m)
    BY <2>2, Checks
  <2>3. CASE Close(m)
    BY <2>3, Closes
  <2>4. CASE MarkDone(m)
    BY <2>4, Marks
  <2>5. CASE Spawn(m)
    BY <2>5, Moves, StageKinds DEF Spawn, Stages
  <2>6. CASE CancelPrevious(m) \/ Listen(m)
    BY <2>6, Moves, StageKinds DEF CancelPrevious, Listen
  <2>7. CASE Start(m) \/ Reset(m) \/ Reply(m) \/ AppendUser(m) \/ Ask(m)
    <3>1. PICK s \in Running : /\ UNCHANGED <<config, active, prev, rank, done>>
                               /\ stage[m] \in Running /\ Go(m, s)
      BY <2>7 DEF Start, Reset, Reply, AppendUser, Ask, Settle, Go, Running, Busy
    <3> QED
      BY <3>1, Moves, StageKinds
  <2>8. CASE Cancel(m) \/ Answer(m) \/ Fail(m) \/ TimeOut(m)
    <3>1. /\ UNCHANGED <<config, active, prev, rank, done>>
          /\ stage[m] \in Running /\ Go(m, "closing")
      BY <2>8 DEF Cancel, Answer, Fail, TimeOut, Settle, Go, Running, Busy
    <3> QED
      BY <3>1, Moves, StageKinds
  <2> QED
    BY <1>2, <2>1, <2>2, <2>3, <2>4, <2>5, <2>6, <2>7, <2>8 DEF Work
<1> QED
  BY <1>1, <1>2 DEF Next, Ended

LEMMA ProtocolOneAtATime == Protocol => OneAtATime
<1> SUFFICES ASSUME Protocol, NEW m \in Message, NEW n \in Message, ChatOf[m] = ChatOf[n],
                    Interrupts(m), stage[m] \in Busy, stage[n] \in Busy, m # n
             PROVE  FALSE
  BY DEF OneAtATime
<1>1. Open(m) /\ Open(n) /\ stage[m] \in Running /\ stage[n] \in Running /\ Interrupts(n)
  BY StageKinds DEF Open, Interrupts
<1>2. rank[m] < rank[n] /\ rank[n] < rank[m] /\ rank[m] \in Nat /\ rank[n] \in Nat
  BY <1>1 DEF Protocol, Oldest_runs, Together, TypeOK
<1> QED
  BY <1>2

LEMMA ProtocolHolds == Spec => []Protocol
  BY ProtocolInit, ProtocolStep, PTL DEF Spec

(* The dispatcher's own variables keep their types.                          *)
THEOREM TypeCorrect == Spec => []TypeOK
<1>1. Protocol => TypeOK
  BY DEF Protocol
<1> QED
  BY <1>1, ProtocolHolds, PTL

(* However many messages, chats and workers there are, a chat whose channel  *)
(* interrupts has one request in process_channel_message at a time.          *)
THEOREM OneAtATimeCorrect == Spec => []OneAtATime
  BY ProtocolHolds, ProtocolOneAtATime, PTL
------------------------------------------------------------------------------
(* Induction over the naturals, for a set: every set of naturals that is not *)
(* empty has a least element.                                                *)
LEMMA NatMin ==
    ASSUME NEW T \in SUBSET Nat, T # {}
    PROVE  \E x \in T : \A y \in T : ~(y < x)
<1>1. \E x \in T : \A y \in T : ~(<<y, x>> \in OpToRel(<, Nat))
  BY NatLessThanWellFounded, WFMin
<1>2. PICK x \in T : \A y \in T : ~(<<y, x>> \in OpToRel(<, Nat))
  BY <1>1
<1>3. ASSUME NEW y \in T, y < x PROVE FALSE
  BY <1>2, <1>3 DEF OpToRel
<1> QED
  BY <1>3

LEMMA SetInduction ==
    ASSUME NEW P \in SUBSET Nat, 0 \in P, \A n \in P : n + 1 \in P
    PROVE  P = Nat
<1> SUFFICES ASSUME P # Nat PROVE FALSE
  OBVIOUS
<1>1. PICK x \in Nat \ P : \A y \in Nat \ P : ~(y < x)
  <2>1. Nat \ P \in SUBSET Nat /\ Nat \ P # {}
    OBVIOUS
  <2> QED
    BY <2>1, NatMin
<1>2. x # 0 /\ x - 1 \in Nat /\ x - 1 < x
  BY <1>1
<1>3. (x - 1) + 1 \in P
  BY <1>1, <1>2
<1> QED
  BY <1>1, <1>3
------------------------------------------------------------------------------
(* normalize_cached_channel_turns.                                           *)

\* f holds the turns normalised so far, after each of the first n.
Folded(f, turns, n) ==
    f = [i \in 0 .. n |-> IF i = 0 THEN <<>> ELSE Take(f[i - 1], turns[i])]

LEMMA FoldExists ==
    ASSUME NEW turns, NEW n \in Nat
    PROVE  \E f : Folded(f, turns, n)
<1> DEFINE P == {k \in Nat : \E f : Folded(f, turns, k)}
<1>1. 0 \in P
  <2>1. Folded([i \in 0 .. 0 |-> <<>>], turns, 0)
    BY DEF Folded
  <2> QED
    BY <2>1
<1>2. ASSUME NEW k \in P PROVE k + 1 \in P
  <2>1. PICK f : Folded(f, turns, k)
    OBVIOUS
  <2> DEFINE g == [i \in 0 .. k + 1 |-> IF i <= k THEN f[i] ELSE Take(f[k], turns[k + 1])]
  <2>2. ASSUME NEW i \in 0 .. k + 1
        PROVE  g[i] = IF i = 0 THEN <<>> ELSE Take(g[i - 1], turns[i])
    <3>1. CASE i = 0
      BY <2>1, <3>1 DEF Folded
    <3>2. CASE i \in 1 .. k
      <4>1. i - 1 \in 0 .. k + 1 /\ i - 1 <= k
        BY <3>2
      <4>2. g[i] = f[i] /\ g[i - 1] = f[i - 1]
        BY <3>2, <4>1
      <4>3. f[i] = Take(f[i - 1], turns[i])
        BY <2>1, <3>2 DEF Folded
      <4> QED
        BY <3>2, <4>2, <4>3
    <3>3. CASE i = k + 1
      <4>1. g[i] = Take(f[k], turns[k + 1]) /\ i - 1 = k /\ i # 0
        BY <3>3
      <4>2. g[k] = f[k]
        OBVIOUS
      <4> QED
        BY <3>3, <4>1, <4>2
    <3> QED
      BY <3>1, <3>2, <3>3
  <2>3. Folded(g, turns, k + 1)
    <3>1. g = [i \in 0 .. k + 1 |-> g[i]]
      OBVIOUS
    <3> HIDE DEF g
    <3> QED
      BY <2>2, <3>1 DEF Folded
  <2> QED
    BY <2>3
<1>3. P = Nat
  BY <1>1, <1>2, SetInduction
<1> QED
  BY <1>3

LEMMA NormaliseFold ==
    ASSUME NEW turns, Len(turns) \in Nat
    PROVE  \E f : Folded(f, turns, Len(turns)) /\ Normalise(turns) = f[Len(turns)]
<1> DEFINE f == CHOOSE g : g = [i \in 0 .. Len(turns) |->
                                  IF i = 0 THEN <<>> ELSE Take(g[i - 1], turns[i])]
<1>1. Normalise(turns) = f[Len(turns)]
  BY DEF Normalise
<1>2. Folded(f, turns, Len(turns))
  BY FoldExists DEF Folded
<1> QED
  BY <1>1, <1>2

Alternates(q) == \A i \in 1 .. Len(q) : q[i].role = IF i % 2 = 1 THEN "user" ELSE "assistant"

LEMMA TurnFacts ==
    ASSUME NEW s \in Seq(Turn), NEW i \in 1 .. Len(s)
    PROVE  /\ s[i] \in Turn /\ s[i].role \in {"user", "assistant"} /\ s[i].of \in Seq(Message)
           /\ s[i] = [role |-> s[i].role, of |-> s[i].of]
<1>1. s[i] \in Turn
  BY ElementOfSeq
<1> QED
  BY <1>1 DEF Turn

\* A turn is stored behind the other role's, or merged into the last of its own.
LEMMA TakeFacts ==
    ASSUME NEW out \in Seq(Turn), Alternates(out), NEW t \in Turn
    PROVE  /\ Take(out, t) \in Seq(Turn) /\ Alternates(Take(out, t))
           /\ \/ Take(out, t) = Append(out, t)
              \/ out = <<>> /\ Take(out, t) = out /\ t.role = "assistant"
              \/ /\ Len(out) > 0 /\ Len(Take(out, t)) = Len(out)
                 /\ \A i \in 1 .. Len(out) - 1 : Take(out, t)[i] = out[i]
                 /\ out[Len(out)].role = t.role
                 /\ Take(out, t)[Len(out)] = [role |-> t.role, of |-> out[Len(out)].of \o t.of]
<1> DEFINE L == Len(out)
<1>1. L \in Nat /\ t.role \in {"user", "assistant"} /\ t.of \in Seq(Message)
      /\ t = [role |-> t.role, of |-> t.of]
  BY LenProperties DEF Turn
<1>2. CASE t.role = Expected(out)
  <2> DEFINE g == Append(out, t)
  <2>1. Take(out, t) = g
    BY <1>2 DEF Take
  <2>2. g \in Seq(Turn) /\ Len(g) = L + 1 /\ g[L + 1] = t /\ \A i \in 1 .. L : g[i] = out[i]
    BY AppendProperties
  <2>3. t.role = IF (L + 1) % 2 = 1 THEN "user" ELSE "assistant"
    BY <1>1, <1>2 DEF Expected
  <2> HIDE DEF g
  <2>4. Alternates(g)
    <3> SUFFICES ASSUME NEW i \in 1 .. L + 1
                 PROVE  g[i].role = IF i % 2 = 1 THEN "user" ELSE "assistant"
      BY <2>2 DEF Alternates
    <3>1. CASE i = L + 1
      BY <2>2, <2>3, <3>1
    <3>2. CASE i # L + 1
      <4>1. i \in 1 .. L
        BY <1>1, <3>2
      <4> QED
        BY <2>2, <4>1 DEF Alternates
    <3> QED
      BY <3>1, <3>2
  <2> QED
    BY <2>1, <2>2, <2>4 DEF g
<1>3. CASE t.role # Expected(out) /\ out = <<>>
  <2>1. Take(out, t) = out
    BY <1>3 DEF Take
  <2>2. Expected(out) = "user"
    BY <1>3 DEF Expected
  <2> QED
    BY <1>1, <1>3, <2>1, <2>2
<1>4. CASE t.role # Expected(out) /\ out # <<>>
  <2> DEFINE e == [role |-> t.role, of |-> out[L].of \o t.of]
             g == [out EXCEPT ![L] = e]
  <2>1. L \in 1 .. L /\ L > 0
    BY <1>1, <1>4, EmptySeq
  <2>2. out[L] \in Turn /\ out[L].of \in Seq(Message)
        /\ out[L] = [role |-> out[L].role, of |-> out[L].of]
    BY <2>1, TurnFacts
  <2>3. out[L].role = IF L % 2 = 1 THEN "user" ELSE "assistant"
    BY <2>1 DEF Alternates
  <2>4. out[L].role = t.role
    BY <1>1, <1>4, <2>3 DEF Expected
  <2>5. out[L].of \o t.of \in Seq(Message)
    BY <1>1, <2>2, ConcatProperties
  <2>6. e \in Turn
    BY <1>1, <2>5 DEF Turn
  <2>7. Take(out, t) = g
    BY <1>4 DEF Take
  <2> HIDE DEF e
  <2>8. /\ g \in Seq(Turn) /\ Len(g) = L
        /\ \A j \in 1 .. L : g[j] = IF j = L THEN e ELSE out[j]
    BY <2>1, <2>6, ExceptSeq
  <2> HIDE DEF g
  <2>9. \A j \in 1 .. L : g[j].role = out[j].role
    BY <2>4, <2>8 DEF e
  <2>10. Alternates(g)
    BY <2>8, <2>9 DEF Alternates
  <2>11. g[L] = e /\ \A i \in 1 .. L - 1 : g[i] = out[i]
    BY <1>1, <2>1, <2>8
  <2> QED
    BY <2>1, <2>4, <2>7, <2>8, <2>10, <2>11 DEF e
<1> QED
  BY <1>2, <1>3, <1>4

\* What is known of the turns normalised after the first n of s: where each message
\* comes from, that the last user's messages come from the user's turns s[c] .. s[n],
\* and that a user's turn at n is the last of them.
Gathered(out, s, n) ==
    /\ out \in Seq(Turn) /\ Len(out) <= n /\ Alternates(out)
    /\ \A a \in 1 .. Len(out) : \A b \in 1 .. Len(out[a].of) :
          \E c \in 1 .. n : \E d \in 1 .. Len(s[c].of) :
             /\ out[a].of[b] = s[c].of[d]
             /\ a = Len(out) /\ out[a].role = "user"
                   => \A e \in c .. n : s[e].role = "user"
    /\ n > 0 /\ s[n].role = "user" /\ s[n].of # <<>> =>
          /\ Len(out) > 0 /\ out[Len(out)].role = "user" /\ out[Len(out)].of # <<>>
          /\ out[Len(out)].of[Len(out[Len(out)].of)] = s[n].of[Len(s[n].of)]

LEMMA GatherNext ==
    ASSUME NEW s \in Seq(Turn), NEW n \in Nat, n + 1 <= Len(s),
           NEW out, Gathered(out, s, n)
    PROVE  Gathered(Take(out, s[n + 1]), s, n + 1)
<1> DEFINE t == s[n + 1]
           g == Take(out, t)
           L == Len(out)
<1>1. n + 1 \in 1 .. Len(s) /\ Len(s) \in Nat
  BY LenProperties
<1>2. t \in Turn /\ t.role \in {"user", "assistant"} /\ t.of \in Seq(Message)
  BY <1>1, TurnFacts
<1>3. out \in Seq(Turn) /\ L <= n /\ Alternates(out) /\ L \in Nat
  BY LenProperties DEF Gathered
<1> HIDE DEF t
<1>4. /\ g \in Seq(Turn) /\ Alternates(g)
      /\ \/ g = Append(out, t)
         \/ out = <<>> /\ g = out /\ t.role = "assistant"
         \/ /\ L > 0 /\ Len(g) = L
            /\ \A i \in 1 .. L - 1 : g[i] = out[i]
            /\ out[L].role = t.role
            /\ g[L] = [role |-> t.role, of |-> out[L].of \o t.of]
  BY <1>2, <1>3, TakeFacts
<1>5. Len(t.of) \in Nat /\ t.of # <<>> => Len(t.of) > 0
  BY <1>2, EmptySeq, LenProperties
<1> DEFINE From(a, b, m) ==
             \E c \in 1 .. m : \E d \in 1 .. Len(s[c].of) :
                /\ g[a].of[b] = s[c].of[d]
                /\ a = Len(g) /\ g[a].role = "user" => \A e \in c .. m : s[e].role = "user"
\* a turn that stays the last one, or is not the last one any more
<1>6. ASSUME NEW a \in 1 .. L, NEW b \in 1 .. Len(out[a].of), g[a].of[b] = out[a].of[b],
             a = Len(g) /\ g[a].role = "user"
               => a = L /\ out[a].role = "user" /\ t.role = "user"
      PROVE  From(a, b, n + 1)
  <2>0. PICK c \in 1 .. n : \E d \in 1 .. Len(s[c].of) :
               /\ out[a].of[b] = s[c].of[d]
               /\ a = L /\ out[a].role = "user" => \A e \in c .. n : s[e].role = "user"
    BY <1>6 DEF Gathered
  <2>1. PICK d \in 1 .. Len(s[c].of) :
               /\ out[a].of[b] = s[c].of[d]
               /\ a = L /\ out[a].role = "user" => \A e \in c .. n : s[e].role = "user"
    BY <2>0
  <2>2. c \in 1 .. n + 1
    OBVIOUS
  <2>3. a = Len(g) /\ g[a].role = "user" => \A e \in c .. n + 1 : s[e].role = "user"
    <3> SUFFICES ASSUME a = Len(g), g[a].role = "user", NEW e \in c .. n + 1
                 PROVE  s[e].role = "user"
      OBVIOUS
    <3>1. CASE e = n + 1
      BY <1>6, <3>1 DEF t
    <3>2. CASE e # n + 1
      <4>1. e \in c .. n
        BY <3>2
      <4> QED
        BY <1>6, <2>1, <4>1
    <3> QED
      BY <3>1, <3>2
  <2> HIDE DEF g
  <2> QED
    BY <1>6, <2>1, <2>2, <2>3
\* the message of t itself
<1>7. ASSUME NEW a, NEW b, NEW d \in 1 .. Len(t.of), g[a].of[b] = t.of[d], g[a].role = t.role
      PROVE  From(a, b, n + 1)
  <2>1. n + 1 \in 1 .. n + 1 /\ s[n + 1] = t
    BY DEF t
  <2>2. g[a].role = "user" => \A e \in n + 1 .. n + 1 : s[e].role = "user"
    <3>1. \A e \in n + 1 .. n + 1 : e = n + 1
      OBVIOUS
    <3> QED
      BY <1>7, <2>1, <3>1, Zenon
  <2> HIDE DEF g
  <2> QED
    BY <1>7, <2>1, <2>2
<1> DEFINE Sources == \A a \in 1 .. Len(g) : \A b \in 1 .. Len(g[a].of) : From(a, b, n + 1)
           Ending == t.role = "user" /\ t.of # <<>> =>
                       /\ Len(g) > 0 /\ g[Len(g)].role = "user" /\ g[Len(g)].of # <<>>
                       /\ g[Len(g)].of[Len(g[Len(g)].of)] = t.of[Len(t.of)]
<1>8. CASE g = Append(out, t)
  <2>1. Len(g) = L + 1 /\ g[L + 1] = t /\ \A i \in 1 .. L : g[i] = out[i]
    BY <1>2, <1>3, <1>8, AppendProperties
  <2> HIDE DEF g, From
  <2>2. Sources
    <3> SUFFICES ASSUME NEW a \in 1 .. L + 1, NEW b \in 1 .. Len(g[a].of)
                 PROVE  From(a, b, n + 1)
      BY <2>1
    <3>1. CASE a = L + 1
      BY <1>7, <2>1, <3>1
    <3>2. CASE a # L + 1
      <4>1. a \in 1 .. L /\ g[a] = out[a] /\ a # Len(g)
        BY <1>3, <2>1, <3>2
      <4> QED
        BY <1>6, <4>1
    <3> QED
      BY <3>1, <3>2
  <2>3. Len(g) <= n + 1 /\ Ending
    BY <1>3, <2>1
  <2> QED
    BY <1>4, <2>2, <2>3
       DEF Gathered, t, g, From
<1>9. CASE out = <<>> /\ g = out /\ t.role = "assistant"
  <2>1. Len(g) = 0 /\ L = 0
    BY <1>9
  <2> HIDE DEF g, From
  <2>2. Sources /\ Ending /\ Len(g) <= n + 1
    BY <1>9, <2>1
  <2> QED
    BY <1>4, <2>2 DEF Gathered, t, g, From
<1>10. CASE /\ L > 0 /\ Len(g) = L
            /\ \A i \in 1 .. L - 1 : g[i] = out[i]
            /\ out[L].role = t.role
            /\ g[L] = [role |-> t.role, of |-> out[L].of \o t.of]
  <2> DEFINE o == out[L].of
  <2>1. L \in 1 .. L /\ o \in Seq(Message) /\ Len(o) \in Nat
    <3>1. L \in 1 .. L
      BY <1>3, <1>10
    <3> QED
      BY <1>3, <3>1, TurnFacts, LenProperties
  <2>2. /\ Len(o \o t.of) = Len(o) + Len(t.of)
        /\ \A i \in 1 .. Len(o) + Len(t.of) :
              (o \o t.of)[i] = IF i <= Len(o) THEN o[i] ELSE t.of[i - Len(o)]
    BY <1>2, <2>1, ConcatProperties
  <2> HIDE DEF g, o, From
  <2>3. g[L].role = t.role /\ g[L].of = o \o t.of
    <3>1. \A x, r, q : x = [role |-> r, of |-> q] => x.role = r /\ x.of = q
      OBVIOUS
    <3>2. g[L] = [role |-> t.role, of |-> o \o t.of]
      BY <1>10, Zenon DEF o
    <3> QED
      BY <3>1, <3>2, Zenon
  <2>4. Sources
    <3> SUFFICES ASSUME NEW a \in 1 .. L, NEW b \in 1 .. Len(g[a].of)
                 PROVE  From(a, b, n + 1)
      BY <1>10
    <3>1. CASE a # L
      <4>1. a \in 1 .. L - 1 /\ g[a] = out[a]
        BY <1>3, <1>10, <3>1
      <4> QED
        BY <1>6, <1>10, <3>1, <4>1
    <3>2. CASE a = L /\ b <= Len(o)
      <4>1. b \in 1 .. Len(out[a].of)
        BY <2>1, <3>2 DEF o
      <4>2. g[a].of[b] = out[a].of[b]
        <5>1. b \in 1 .. Len(o) + Len(t.of)
          BY <1>5, <2>1, <3>2
        <5> QED
          BY <2>2, <2>3, <3>2, <5>1 DEF o
      <4>3. g[a].role = "user" => out[a].role = "user" /\ t.role = "user"
        BY <1>10, <2>3, <3>2
      <4> QED
        BY <1>6, <3>2, <4>1, <4>2, <4>3
    <3>3. CASE a = L /\ ~(b <= Len(o))
      <4>1. b \in 1 .. Len(o) + Len(t.of)
        BY <2>2, <2>3, <3>3
      <4>2. b - Len(o) \in 1 .. Len(t.of)
        BY <1>5, <2>1, <3>3, <4>1
      <4>3. g[a].of[b] = t.of[b - Len(o)]
        BY <2>2, <2>3, <3>3, <4>1
      <4> QED
        BY <1>7, <2>3, <3>3, <4>2, <4>3
    <3> QED
      BY <3>1, <3>2, <3>3
  <2>5. Ending
    <3> SUFFICES ASSUME t.role = "user", t.of # <<>>
                 PROVE  /\ Len(g) > 0 /\ g[Len(g)].role = "user" /\ g[Len(g)].of # <<>>
                        /\ g[Len(g)].of[Len(g[Len(g)].of)] = t.of[Len(t.of)]
      OBVIOUS
    <3>1. Len(g[L].of) = Len(o) + Len(t.of) /\ Len(t.of) > 0
      BY <1>5, <2>2, <2>3
    <3>2. (o \o t.of)[Len(o) + Len(t.of)] = t.of[Len(t.of)]
      <4>1. /\ Len(o) + Len(t.of) \in 1 .. Len(o) + Len(t.of)
            /\ ~(Len(o) + Len(t.of) <= Len(o)) /\ (Len(o) + Len(t.of)) - Len(o) = Len(t.of)
        BY <1>5, <2>1, <3>1
      <4> QED
        BY <2>2, <4>1
    <3>3. g[L].of # <<>>
      BY <1>5, <2>1, <3>1
    <3> QED
      BY <1>10, <2>3, <3>1, <3>2, <3>3
  <2>6. Len(g) <= n + 1
    BY <1>3, <1>10
  <2> QED
    BY <1>4, <2>4, <2>5, <2>6 DEF Gathered, t, g, From
<1> QED
  BY <1>4, <1>8, <1>9, <1>10

\* What normalising gives, of any length of turns.
LEMMA NormaliseFacts ==
    ASSUME NEW s \in Seq(Turn)
    PROVE  Gathered(Normalise(s), s, Len(s))
<1>1. Len(s) \in Nat
  BY LenProperties
<1>2. PICK f : Folded(f, s, Len(s)) /\ Normalise(s) = f[Len(s)]
  BY <1>1, NormaliseFold
<1> DEFINE P == {n \in Nat : n <= Len(s) => Gathered(f[n], s, n)}
<1>3. 0 \in P
  <2>1. f[0] = <<>>
    BY <1>1, <1>2 DEF Folded
  <2>2. Gathered(<<>>, s, 0)
    BY EmptySeq DEF Gathered, Alternates
  <2> QED
    BY <2>1, <2>2
<1>4. ASSUME NEW n \in P PROVE n + 1 \in P
  <2> SUFFICES ASSUME n + 1 <= Len(s) PROVE Gathered(f[n + 1], s, n + 1)
    OBVIOUS
  <2>1. n \in Nat /\ Gathered(f[n], s, n)
    BY <1>1
  <2>2. n + 1 \in 0 .. Len(s) /\ n + 1 # 0 /\ (n + 1) - 1 = n
    BY <1>1, <2>1
  <2>3. f[n + 1] = Take(f[n], s[n + 1])
    BY <1>2, <2>2 DEF Folded
  <2> QED
    BY <2>1, <2>3, GatherNext
<1>5. P = Nat
  BY <1>3, <1>4, SetInduction
<1> QED
  BY <1>1, <1>2, <1>5
------------------------------------------------------------------------------
(* The other changes of a history. A message is in a sequence of turns, or   *)
(* waits in it, in a user's turn that no assistant's turn follows.           *)
In(s, m) == \E i \in 1 .. Len(s) : \E j \in 1 .. Len(s[i].of) : s[i].of[j] = m

Unanswered(s, i) == s[i].role = "user" /\ (i = Len(s) \/ s[i + 1].role = "user")

Waits(s, m) ==
    \E i \in 1 .. Len(s) : Unanswered(s, i) /\ \E j \in 1 .. Len(s[i].of) : s[i].of[j] = m

\* g holds the turns of h from the d-th on, and t behind them if there is one.
LEMMA LatestFacts ==
    ASSUME NEW s \in Seq(Turn), NEW n \in Nat, n > 0
    PROVE  \E d \in Nat :
              /\ Latest(s, n) \in Seq(Turn) /\ Len(Latest(s, n)) = Len(s) - d
              /\ Len(s) - d <= n /\ (d > 0 => Len(s) = n + d) /\ d <= Len(s)
              /\ \A i \in 1 .. Len(s) - d : Latest(s, n)[i] = s[i + d]
<1> DEFINE d == IF Len(s) > n THEN Len(s) - n ELSE 0
           g == SubSeq(s, d + 1, Len(s))
<1>1. Len(s) \in Nat /\ \A i \in 1 .. Len(s) : s[i] \in Turn
  BY LenProperties, ElementOfSeq
<1>2. d \in Nat /\ d <= Len(s) /\ Len(s) - d <= n /\ (d > 0 => Len(s) = n + d)
  BY <1>1
<1>3. Latest(s, n) = g
  <2>1. (IF Len(s) > n THEN Len(s) - n + 1 ELSE 1) = d + 1
    BY <1>1
  <2> QED
    BY <2>1 DEF Latest
<1> HIDE DEF d
<1>4. /\ g \in Seq(Turn)
      /\ Len(g) = IF d + 1 <= Len(s) THEN Len(s) - (d + 1) + 1 ELSE 0
      /\ \A i \in 1 .. Len(s) - (d + 1) + 1 : g[i] = s[(d + 1) + i - 1]
  <2>1. \A i \in d + 1 .. Len(s) : s[i] \in Turn
    BY <1>1, <1>2
  <2>2. d + 1 \in Int /\ Len(s) \in Int
    BY <1>1, <1>2
  <2> QED
    BY <2>1, <2>2, SubSeqProperties
<1> HIDE DEF g
<1>5. Len(g) = Len(s) - d /\ \A i \in 1 .. Len(s) - d : g[i] = s[i + d]
  <2>1. Len(s) - (d + 1) + 1 = Len(s) - d /\ \A i \in Nat : (d + 1) + i - 1 = i + d
    BY <1>1, <1>2
  <2>2. Len(g) = Len(s) - d
    BY <1>1, <1>2, <1>4
  <2>3. ASSUME NEW i \in 1 .. Len(s) - d PROVE g[i] = s[i + d]
    BY <1>4, <2>1, <2>3
  <2> QED
    BY <2>2, <2>3
<1> QED
  BY <1>2, <1>3, <1>4, <1>5

\* g is h without its oldest turn if that is one too many, and t behind it.
Stores(h, g, t, d) ==
    /\ d \in {0, 1} /\ (d = 1 => Len(h) = MaxHistory)
    /\ g \in Seq(Turn) /\ Len(g) = Len(h) + 1 - d /\ Len(g) > 0 /\ Len(g) <= MaxHistory
    /\ g[Len(g)] = t
    /\ \A i \in 1 .. Len(g) - 1 : i + d \in 1 .. Len(h) /\ g[i] = h[i + d]

LEMMA RememberFacts ==
    ASSUME NEW h \in Seq(Turn), Len(h) <= MaxHistory, NEW t \in Turn
    PROVE  \E d \in {0, 1} : Stores(h, Latest(Append(h, t), MaxHistory), t, d)
<1> DEFINE s == Append(h, t)
           g == Latest(s, MaxHistory)
<1>1. MaxHistory \in Nat /\ MaxHistory > 0 /\ Len(h) \in Nat
  BY DispatchAssumption, LenProperties
<1>2. s \in Seq(Turn) /\ Len(s) = Len(h) + 1 /\ s[Len(h) + 1] = t
      /\ \A i \in 1 .. Len(h) : s[i] = h[i]
  BY AppendProperties
<1> HIDE DEF s
<1>3. PICK d \in Nat :
              /\ g \in Seq(Turn) /\ Len(g) = Len(s) - d
              /\ Len(s) - d <= MaxHistory /\ (d > 0 => Len(s) = MaxHistory + d) /\ d <= Len(s)
              /\ \A i \in 1 .. Len(s) - d : g[i] = s[i + d]
  BY <1>1, <1>2, LatestFacts
<1> HIDE DEF g
<1>4. d \in {0, 1} /\ (d = 1 => Len(h) = MaxHistory) /\ Len(g) > 0 /\ Len(g) <= MaxHistory
      /\ Len(g) = Len(h) + 1 - d
  BY <1>1, <1>2, <1>3
<1>5. g[Len(g)] = t
  <2>1. Len(g) \in 1 .. Len(s) - d /\ Len(g) + d = Len(h) + 1
    BY <1>1, <1>2, <1>3, <1>4
  <2> QED
    BY <1>2, <1>3, <2>1
<1>6. ASSUME NEW i \in 1 .. Len(g) - 1 PROVE i + d \in 1 .. Len(h) /\ g[i] = h[i + d]
  <2>1. i \in 1 .. Len(s) - d /\ i + d \in 1 .. Len(h)
    BY <1>1, <1>2, <1>3, <1>4
  <2> QED
    BY <1>2, <1>3, <2>1
<1>7. Stores(h, g, t, d)
  BY <1>3, <1>4, <1>5, <1>6 DEF Stores
<1> QED
  BY <1>4, <1>7 DEF g, s

LEMMA CompactFacts ==
    ASSUME NEW h \in Seq(Turn), NEW g, g = Normalise(Latest(h, KeepTurns))
    PROVE  /\ g \in Seq(Turn) /\ Len(g) <= Len(h)
           /\ \A x : (In(g, x) => In(h, x)) /\ (Waits(g, x) => Waits(h, x))
<1> DEFINE s == Latest(h, KeepTurns)
<1>1. KeepTurns \in Nat /\ KeepTurns > 0 /\ Len(h) \in Nat
  BY DispatchAssumption, LenProperties
<1>2. PICK k \in Nat : /\ s \in Seq(Turn) /\ Len(s) = Len(h) - k
                       /\ k <= Len(h)
                       /\ \A i \in 1 .. Len(h) - k : s[i] = h[i + k]
  BY <1>1, LatestFacts
<1>3. Len(s) \in Nat /\ k \in Nat
  BY <1>1, <1>2
<1>4. Gathered(g, s, Len(s))
  BY <1>2, NormaliseFacts
<1> HIDE DEF s
<1>5. \A c \in 1 .. Len(s) : c + k \in 1 .. Len(h) /\ s[c] = h[c + k]
  BY <1>1, <1>2
<1>6. ASSUME NEW a \in 1 .. Len(g), NEW b \in 1 .. Len(g[a].of)
      PROVE  /\ In(h, g[a].of[b])
             /\ Unanswered(g, a) => Waits(h, g[a].of[b])
  <2>1. PICK c \in 1 .. Len(s) : \E d \in 1 .. Len(s[c].of) :
               /\ g[a].of[b] = s[c].of[d]
               /\ a = Len(g) /\ g[a].role = "user" => \A e \in c .. Len(s) : s[e].role = "user"
    BY <1>4 DEF Gathered
  <2>2. PICK d \in 1 .. Len(s[c].of) :
               /\ g[a].of[b] = s[c].of[d]
               /\ a = Len(g) /\ g[a].role = "user" => \A e \in c .. Len(s) : s[e].role = "user"
    BY <2>1
  <2>3. c + k \in 1 .. Len(h) /\ s[c] = h[c + k]
    BY <1>5
  <2>4. In(h, g[a].of[b])
    BY <2>2, <2>3 DEF In
  <2>5. ASSUME Unanswered(g, a) PROVE Waits(h, g[a].of[b])
    <3>1. g \in Seq(Turn) /\ Alternates(g) /\ Len(g) \in Nat
      BY <1>4, LenProperties DEF Gathered
    <3>2. g[a].role = "user"
      BY <2>5 DEF Unanswered
    <3>3. a = Len(g)
      <4>1. SUFFICES ASSUME a # Len(g) PROVE FALSE
        OBVIOUS
      <4>2. a + 1 \in 1 .. Len(g) /\ g[a + 1].role = "user"
        BY <2>5, <3>1, <4>1 DEF Unanswered
      <4>3. a % 2 = 1 /\ (a + 1) % 2 = 1
        BY <3>1, <3>2, <4>2 DEF Alternates
      <4> QED
        BY <4>3
    <3>4. \A e \in c .. Len(s) : s[e].role = "user"
      BY <2>2, <3>2, <3>3
    <3>5. Unanswered(h, c + k)
      <4>1. c \in c .. Len(s)
        BY <1>1, <1>2
      <4>2. h[c + k].role = "user"
        BY <2>3, <3>4, <4>1
      <4>3. CASE c = Len(s)
        BY <1>1, <1>2, <4>2, <4>3 DEF Unanswered
      <4>4. CASE c # Len(s)
        <5>1. c + 1 \in c .. Len(s) /\ c + 1 \in 1 .. Len(s) /\ (c + 1) + k = (c + k) + 1
          BY <1>3, <4>4
        <5>2. h[(c + 1) + k].role = "user"
          BY <1>5, <3>4, <5>1
        <5> QED
          BY <4>2, <5>1, <5>2 DEF Unanswered
      <4> QED
        BY <4>3, <4>4
    <3> QED
      BY <2>2, <2>3, <3>5 DEF Waits
  <2> QED
    BY <2>4, <2>5
<1>7. g \in Seq(Turn) /\ Len(g) <= Len(h)
  BY <1>1, <1>2, <1>4, LenProperties DEF Gathered
<1>8. ASSUME NEW x, In(g, x) PROVE In(h, x)
  <2>1. PICK a \in 1 .. Len(g) : \E b \in 1 .. Len(g[a].of) : g[a].of[b] = x
    BY <1>8, Zenon DEF In
  <2>2. PICK b \in 1 .. Len(g[a].of) : g[a].of[b] = x
    BY <2>1
  <2> QED
    BY <1>6, <2>1, <2>2, Zenon
<1>9. ASSUME NEW x, Waits(g, x) PROVE Waits(h, x)
  <2>1. PICK a \in 1 .. Len(g) : Unanswered(g, a) /\ \E b \in 1 .. Len(g[a].of) : g[a].of[b] = x
    BY <1>9, Zenon DEF Waits
  <2>2. PICK b \in 1 .. Len(g[a].of) : g[a].of[b] = x
    BY <2>1
  <2> QED
    BY <1>6, <2>1, <2>2, Zenon
<1> QED
  BY <1>7, <1>8, <1>9

\* Before the last turn of h there is no message m.
Alone(h, m) == \A i \in 1 .. Len(h) - 1 : \A j \in 1 .. Len(h[i].of) : h[i].of[j] # m

LEMMA StoresFacts ==
    ASSUME NEW h \in Seq(Turn), NEW g, NEW m \in Message, NEW r \in {"user", "assistant"},
           NEW d, Stores(h, g, [role |-> r, of |-> <<m>>], d)
    PROVE  /\ \A x : In(g, x) => In(h, x) \/ x = m
           /\ \A x : Waits(g, x) => Waits(h, x) \/ (r = "user" /\ x = m)
           /\ r = "assistant" /\ Alone(h, m) => ~Waits(g, m)
<1>1. /\ d \in {0, 1} /\ Len(g) = Len(h) + 1 - d /\ Len(g) > 0
      /\ Len(h) \in Nat /\ Len(g) \in Nat /\ d \in Nat
      /\ \A i \in 1 .. Len(g) - 1 : i + d \in 1 .. Len(h) /\ g[i] = h[i + d]
  BY LenProperties DEF Stores
<1>2. g[Len(g)].role = r /\ g[Len(g)].of = <<m>>
  <2>1. \A x, p, q : x = [role |-> p, of |-> q] => x.role = p /\ x.of = q
    OBVIOUS
  <2>2. g[Len(g)] = [role |-> r, of |-> <<m>>]
    BY DEF Stores
  <2> QED
    BY <2>1, <2>2, Zenon
<1>3. Len(<<m>>) = 1 /\ <<m>>[1] = m
  OBVIOUS
<1>4. \A i \in 1 .. Len(g) : i = Len(g) \/ i \in 1 .. Len(g) - 1
  BY <1>1
<1>5. ASSUME NEW x, In(g, x), x # m PROVE In(h, x)
  <2>1. PICK i \in 1 .. Len(g) : \E j \in 1 .. Len(g[i].of) : g[i].of[j] = x
    BY <1>5 DEF In
  <2>2. i # Len(g)
    BY <1>2, <1>3, <1>5, <2>1
  <2>3. i + d \in 1 .. Len(h) /\ g[i] = h[i + d]
    BY <1>1, <1>4, <2>2
  <2> QED
    BY <2>1, <2>3 DEF In
<1>6. ASSUME NEW i \in 1 .. Len(g) - 1, Unanswered(g, i)
      PROVE  Unanswered(h, i + d) /\ (r = "assistant" => i + d \in 1 .. Len(h) - 1)
  <2>1. i + d \in 1 .. Len(h) /\ g[i] = h[i + d] /\ i # Len(g) /\ i \in Nat
    BY <1>1
  <2>2. h[i + d].role = "user" /\ g[i + 1].role = "user"
    BY <1>6, <2>1 DEF Unanswered
  <2>3. CASE i + 1 = Len(g)
    <3>1. r = "user" /\ i + d = Len(h)
      BY <1>1, <1>2, <2>1, <2>2, <2>3
    <3> QED
      BY <2>2, <3>1 DEF Unanswered
  <2>4. CASE i + 1 # Len(g)
    <3>1. i + 1 \in 1 .. Len(g) - 1 /\ (i + 1) + d = (i + d) + 1
      BY <1>1, <2>1, <2>4
    <3>2. (i + d) + 1 \in 1 .. Len(h) /\ g[i + 1] = h[(i + d) + 1]
      BY <1>1, <3>1
    <3>3. i + d \in 1 .. Len(h) - 1
      BY <1>1, <2>1, <3>2
    <3> QED
      BY <2>2, <3>2, <3>3 DEF Unanswered
  <2> QED
    BY <2>3, <2>4
<1>7. ASSUME NEW x, Waits(g, x)
      PROVE  \/ r = "user" /\ x = m
             \/ \E i \in 1 .. Len(g) - 1 :
                   Unanswered(g, i) /\ \E j \in 1 .. Len(g[i].of) : g[i].of[j] = x
  <2>1. PICK i \in 1 .. Len(g) : Unanswered(g, i) /\ \E j \in 1 .. Len(g[i].of) : g[i].of[j] = x
    BY <1>7 DEF Waits
  <2>2. CASE i = Len(g)
    BY <1>2, <1>3, <2>1, <2>2 DEF Unanswered
  <2>3. CASE i # Len(g)
    BY <1>4, <2>1, <2>3
  <2> QED
    BY <2>2, <2>3
<1>8. ASSUME NEW x, Waits(g, x), ~(r = "user" /\ x = m) PROVE Waits(h, x)
  <2>1. PICK i \in 1 .. Len(g) - 1 :
           Unanswered(g, i) /\ \E j \in 1 .. Len(g[i].of) : g[i].of[j] = x
    BY <1>7, <1>8
  <2>2. i + d \in 1 .. Len(h) /\ g[i] = h[i + d] /\ Unanswered(h, i + d)
    BY <1>1, <1>6, <2>1
  <2> QED
    BY <2>1, <2>2 DEF Waits
<1>9. ASSUME r = "assistant", Alone(h, m), Waits(g, m) PROVE FALSE
  <2>1. PICK i \in 1 .. Len(g) - 1 :
           Unanswered(g, i) /\ \E j \in 1 .. Len(g[i].of) : g[i].of[j] = m
    BY <1>7, <1>9
  <2>2. g[i] = h[i + d] /\ i + d \in 1 .. Len(h) - 1
    BY <1>1, <1>6, <1>9, <2>1
  <2> QED
    BY <1>9, <2>1, <2>2 DEF Alone
<1> QED
  BY <1>5, <1>8, <1>9

LEMMA FrontFacts ==
    ASSUME NEW h \in Seq(Turn), h # <<>>, h[Len(h)].role = "user", NEW g, g = Front(h)
    PROVE  /\ g \in Seq(Turn) /\ Len(g) = Len(h) - 1 /\ \A i \in 1 .. Len(g) : g[i] = h[i]
           /\ \A x : (In(g, x) => In(h, x)) /\ (Waits(g, x) => Waits(h, x))
           /\ \A x : Alone(h, x) => ~Waits(g, x)
<1>1. Len(h) \in Nat /\ Len(h) > 0 /\ \A i \in 1 .. Len(h) : h[i] \in Turn
  BY EmptySeq, ElementOfSeq
<1>2. /\ g \in Seq(Turn)
      /\ Len(g) = IF 1 <= Len(h) - 1 THEN Len(h) - 1 - 1 + 1 ELSE 0
      /\ \A i \in 1 .. Len(h) - 1 - 1 + 1 : g[i] = h[1 + i - 1]
  <2>1. 1 \in Int /\ Len(h) - 1 \in Int /\ \A i \in 1 .. Len(h) - 1 : h[i] \in Turn
    BY <1>1
  <2> QED
    BY <2>1, SubSeqProperties DEF Front
<1>3. Len(g) = Len(h) - 1 /\ \A i \in 1 .. Len(g) : g[i] = h[i]
  <2>1. Len(g) = Len(h) - 1
    <3>1. \A n \in Nat : n > 0 => (IF 1 <= n - 1 THEN n - 1 - 1 + 1 ELSE 0) = n - 1
      OBVIOUS
    <3> QED
      BY <1>1, <1>2, <3>1, Zenon
  <2>2. ASSUME NEW i \in 1 .. Len(g) PROVE g[i] = h[i]
    <3>1. i \in 1 .. Len(h) - 1 - 1 + 1 /\ 1 + i - 1 = i
      BY <1>1, <2>1
    <3> QED
      BY <1>2, <3>1
  <2> QED
    BY <2>1, <2>2
<1>4. \A i \in 1 .. Len(g) : i \in 1 .. Len(h) /\ i \in 1 .. Len(h) - 1
  BY <1>1, <1>3
<1>5. ASSUME NEW x, In(g, x) PROVE In(h, x) /\ ~Alone(h, x)
  <2>1. PICK i \in 1 .. Len(g) : \E j \in 1 .. Len(g[i].of) : g[i].of[j] = x
    BY <1>5 DEF In
  <2>2. i \in 1 .. Len(h) /\ i \in 1 .. Len(h) - 1 /\ g[i] = h[i]
    BY <1>3, <1>4
  <2> QED
    BY <2>1, <2>2 DEF In, Alone
<1>6. ASSUME NEW x, Waits(g, x) PROVE Waits(h, x) /\ In(g, x)
  <2>1. PICK i \in 1 .. Len(g) : Unanswered(g, i) /\ \E j \in 1 .. Len(g[i].of) : g[i].of[j] = x
    BY <1>6 DEF Waits
  <2>2. i \in 1 .. Len(h) /\ g[i] = h[i]
    BY <1>3, <1>4
  <2>3. Unanswered(h, i)
    <3>1. CASE i = Len(g)
      <4>1. i + 1 = Len(h)
        BY <1>1, <1>3, <3>1
      <4> QED
        BY <2>1, <2>2, <4>1 DEF Unanswered
    <3>2. CASE i # Len(g)
      <4>1. i + 1 \in 1 .. Len(g)
        BY <1>1, <1>3, <3>2
      <4> QED
        BY <1>3, <2>1, <2>2, <3>2, <4>1 DEF Unanswered
    <3> QED
      BY <3>1, <3>2
  <2> QED
    BY <2>1, <2>2, <2>3 DEF Waits, In
<1> QED
  BY <1>2, <1>3, <1>5, <1>6
------------------------------------------------------------------------------
(* The histories. A message is stored by its own worker only, while that     *)
(* worker is the one at work in its chat; what follows says where.           *)
Stored == {"appended", "asking"}
Over   == {"closing", "marking", "ended"}
Early  == Stages \ (Stored \cup Over)

HistoryType ==
    /\ history \in [Sender -> Seq(Turn)]
    /\ \A k \in Sender : Len(history[k]) <= MaxHistory
    /\ request \in [Message -> Seq(Turn)]
    /\ outcome \in [Message -> Outcomes]
    /\ before \in [Sender -> SUBSET Message]

Settled == \A m \in Message : outcome[m] # "none" => stage[m] \in Over

\* A history holds messages of its sender that were stored.
Own ==
    \A k \in Sender, m \in Message :
       In(history[k], m) => Key(m) = k /\ stage[m] \in Stored \cup Over

\* The request under way ends its history, and is nowhere else in it.
Current ==
    \A m \in Message : Orderly(Key(m)) /\ stage[m] \in Stored =>
       LET h == history[Key(m)] IN h # <<>> /\ h[Len(h)] = User(m) /\ Alone(h, m)

\* What a reset put behind it is over.
Aside ==
    \A k \in Sender : \A m \in before[k] : Key(m) = k /\ (Orderly(k) => stage[m] \in Over)

\* A worker that is over came before those that are not.
Over_first ==
    \A m, n \in Message :
       Together(m, n) /\ Interrupts(m) /\ stage[m] \in Over /\ Open(n) /\ m # n
       => rank[m] < rank[n]

Fresh == \A k \in Sender : Orderly(k) => \A m \in before[k] : ~In(history[k], m)

Waiting ==
    \A k \in Sender : Orderly(k) =>
       \A m \in Message : Waits(history[k], m) => outcome[m] \in {"none", "cancelled", "compacted"}

\* Each message after m has stored at most two turns, the one under way its own.
OverAfter(m) == {n \in Message : rank[n] > rank[m] /\ stage[n] \in Over}
StoredAfter(m) == \E n \in Message : Key(n) = Key(m) /\ rank[n] > rank[m] /\ stage[n] \in Stored
Slack(m) == 2 * Cardinality(OverAfter(m)) + IF StoredAfter(m) THEN 1 ELSE 0

Kept ==
    \A m \in Message : outcome[m] = "cancelled" /\ Orderly(Key(m)) /\ NothingForgotten(m) =>
       LET h == history[Key(m)] IN
       \E i \in 1 .. Len(h) : h[i] = User(m) /\ Len(h) - i <= Slack(m)

Histories ==
    /\ HistoryType /\ Settled /\ Own /\ Current /\ Aside /\ Over_first
    /\ Fresh /\ RequestWellFormed /\ Waiting /\ Kept

LEMMA Classes ==
    /\ Stages = Early \cup Stored \cup Over
    /\ Early \cap Stored = {} /\ Early \cap Over = {} /\ Stored \cap Over = {}
    /\ Parked \subseteq Early /\ Stored \subseteq Running
    /\ {"queued", "spawned", "starting", "processing"} \subseteq Early
    /\ "closing" \in Over /\ "marking" \in Over /\ "ended" \in Over
    /\ "appended" \in Stored /\ "asking" \in Stored /\ "processing" \in Running
BY DEF Early, Stored, Over, Stages, Parked, Running, Busy

\* A step that leaves the histories alone: no worker passes from one class of stages
\* to another, and one that opens has the highest rank.
Quiet ==
    /\ UNCHANGED <<config, history, request, outcome, before>>
    /\ \A n \in Message :
          /\ (stage'[n] \in Early <=> stage[n] \in Early)
          /\ (stage'[n] \in Stored <=> stage[n] \in Stored)
          /\ (stage'[n] \in Over <=> stage[n] \in Over)
          /\ rank[n] <= rank'[n] /\ (rank'[n] = rank[n] \/ stage[n] \in Early)
          /\ Interrupts(n) /\ Open(n)' /\ ~Open(n) =>
                \A o \in Message : o # n => rank'[o] < rank'[n]

\* The steps of process_channel_message by their effect on the histories.
Leaves(m) ==
    /\ stage[m] \in {"starting", "processing"}
    /\ \E o \in {"dropped", "replied"} : Settle(m, o)
    /\ UNCHANGED <<config, rank, history, request, before>>

Concludes(m) ==
    /\ stage[m] = "asking" /\ Remember(Key(m), Assistant(m))
    /\ \E o \in {"answered", "failed"} : Settle(m, o)
    /\ UNCHANGED <<config, rank, request, before>>

Overflows(m) ==
    /\ stage[m] = "asking" /\ Compact(Key(m)) /\ Settle(m, "compacted")
    /\ UNCHANGED <<config, rank, request, before>>

RollsBack(m) ==
    /\ stage[m] = "asking" /\ EndsWithOrphan(Key(m), m)
    /\ history' = [history EXCEPT ![Key(m)] = Front(@)]
    /\ Settle(m, "rolled_back")
    /\ UNCHANGED <<config, rank, request, before>>

LEMMA Kinds ==
    ASSUME Protocol, [Next]_vars
    PROVE  \/ Quiet
           \/ \E m \in Message : \/ Leaves(m) \/ Cancel(m) \/ Reset(m) \/ AppendUser(m)
                                 \/ Ask(m) \/ Concludes(m) \/ Overflows(m) \/ RollsBack(m)
<1>0. TypeOK /\ \A n \in Message : rank[n] \in Nat
  BY DEF Protocol, TypeOK
<1>1. CASE UNCHANGED vars
  BY <1>0, <1>1 DEF vars, Quiet, Open
<1>2. ASSUME NEW m \in Message, Work(m)
      PROVE  \/ Quiet
             \/ Leaves(m) \/ Cancel(m) \/ Reset(m) \/ AppendUser(m)
             \/ Ask(m) \/ Concludes(m) \/ Overflows(m) \/ RollsBack(m)
  <2>1. ASSUME UNCHANGED <<config, rank, history, request, outcome, before>>,
               NEW s \in Stages, Go(m, s), Open(m) \/ s \notin Parked \cup Running,
               \/ stage[m] \in Early /\ s \in Early
               \/ stage[m] \in Over /\ s \in Over
        PROVE  Quiet
    BY <1>0, <2>1, Classes DEF Quiet, Go, TypeOK, Open
  <2>2. CASE Spawn(m)
    BY <2>1, <2>2, Classes, StageKinds DEF Spawn, Stages
  <2>3. CASE Register(m)
    <3>1. CASE Interrupts(m)
      <4> DEFINE R == 1 + Cardinality(Registered)
      <4>1. /\ stage[m] = "spawned"
            /\ rank' = [rank EXCEPT ![m] = R]
            /\ stage' = [stage EXCEPT ![m] = IF active[ChatOf[m]] = None
                                             THEN "starting" ELSE "cancelling"]
            /\ UNCHANGED <<config, history, request, outcome, before>>
        BY <2>3, <3>1 DEF Register, Go, Registered
      <4>2. R \in Nat /\ \A n \in Message : rank[n] < R
        BY <1>0, RankCounts DEF Protocol, Ranked
      <4> HIDE DEF R
      <4>3. \A n \in Message : rank'[n] = IF n = m THEN R ELSE rank[n]
        BY <1>0, <4>1 DEF TypeOK
      <4>4. \A n \in Message : n # m => stage'[n] = stage[n]
        BY <1>0, <4>1 DEF TypeOK
      <4>5. stage[m] \in Early /\ stage'[m] \in Early
        BY <1>0, <4>1, Classes, StageKinds DEF TypeOK
      <4> QED
        BY <1>0, <4>1, <4>2, <4>3, <4>4, <4>5, Classes DEF Quiet, Open
    <3>2. CASE ~Interrupts(m)
      <4>1. /\ stage[m] = "spawned" /\ stage' = [stage EXCEPT ![m] = "starting"]
            /\ UNCHANGED <<config, rank, history, request, outcome, before>>
        BY <2>3, <3>2 DEF Register, Go
      <4> QED
        BY <1>0, <3>2, <4>1, Classes DEF Quiet, Open, TypeOK
    <3> QED
      BY <3>1, <3>2
  <2>4. CASE CancelPrevious(m) \/ Listen(m)
    BY <2>1, <2>4, Classes, StageKinds DEF CancelPrevious, Listen, Open
  <2>5. CASE CheckDone(m)
    BY <2>1, <2>5, Classes, StageKinds DEF CheckDone, Open
  <2>6. CASE Start(m)
    <3>1. CASE m \in cancelled
      BY <2>6, <3>1 DEF Start, Leaves
    <3>2. CASE m \notin cancelled
      BY <2>1, <2>6, <3>2, Classes, StageKinds DEF Start, Open
    <3> QED
      BY <3>1, <3>2
  <2>7. CASE Reply(m)
    BY <2>7 DEF Reply, Leaves
  <2>8. CASE Answer(m) \/ TimeOut(m)
    BY <2>8 DEF Answer, TimeOut, Concludes
  <2>9. CASE Fail(m)
    BY <2>9 DEF Fail, Concludes, Overflows, RollsBack
  <2>10. CASE Close(m)
    BY <2>1, <2>10, Classes, StageKinds DEF Close, Open
  <2>11. CASE MarkDone(m)
    <3>1. /\ stage[m] = "marking"
          /\ UNCHANGED <<config, rank, history, request, outcome, before>>
          /\ \A n \in Message : stage'[n] = IF n = m THEN "ended"
                                   ELSE IF stage[n] = "waiting" /\ prev[n] = m THEN "starting"
                                   ELSE stage[n]
      BY <2>11 DEF MarkDone
    <3>2. \A n \in Message : Open(n)' => Open(n)
      BY <3>1, StageKinds DEF Open
    <3>3. "waiting" \in Early /\ "starting" \in Early
      BY Classes, StageKinds
    <3> QED
      BY <1>0, <3>1, <3>2, <3>3, Classes DEF Quiet
  <2> QED
    BY <1>2, <2>2, <2>3, <2>4, <2>5, <2>6, <2>7, <2>8, <2>9, <2>10, <2>11 DEF Work
<1> QED
  BY <1>1, <1>2 DEF Next, Ended

Acts(m) == \/ Leaves(m) \/ Cancel(m) \/ Reset(m) \/ AppendUser(m)
           \/ Ask(m) \/ Concludes(m) \/ Overflows(m) \/ RollsBack(m)

\* One worker moves, from before or at work to at work or over; other conversations stay.
LEMMA ActFacts ==
    ASSUME TypeOK, HistoryType, NEW m \in Message, Acts(m)
    PROVE  /\ UNCHANGED <<config, rank>> /\ Key(m) \in Sender
           /\ stage[m] \in Early \cup Stored /\ stage[m] \in Running /\ Open(m)
           /\ stage'[m] \in Stored \cup Over
           /\ stage'[m] \in Over \/ outcome'[m] = outcome[m]
           /\ \A n \in Message : n # m => stage'[n] = stage[n] /\ outcome'[n] = outcome[n]
           /\ outcome' \in [Message -> Outcomes]
           /\ \A k \in Sender : k # Key(m) => history'[k] = history[k]
           /\ \A k \in Sender : k # Key(m) => before'[k] = before[k]
<1>1. Key(m) \in Sender
  BY DispatchAssumption DEF Key
<1>2. /\ UNCHANGED <<config, rank>>
      /\ stage[m] \in {"starting", "processing", "appended", "asking"}
      /\ \E s \in {"appended", "asking", "closing"} :
            stage' = [stage EXCEPT ![m] = s] /\ (s = "closing" \/ outcome' = outcome)
  BY DEF Acts, Leaves, Cancel, Reset, AppendUser, Ask, Concludes, Overflows, RollsBack, Settle, Go
<1>3. outcome' = outcome \/ \E o \in Outcomes : outcome' = [outcome EXCEPT ![m] = o]
  BY DEF Acts, Leaves, Cancel, Reset, AppendUser, Ask, Concludes, Overflows, RollsBack, Settle,
         Outcomes
<1>4. history' = history \/ \E g : history' = [history EXCEPT ![Key(m)] = g]
  <2>1. CASE Leaves(m) \/ Cancel(m) \/ Ask(m)
    BY <2>1 DEF Leaves, Cancel, Ask
  <2>2. CASE Reset(m)
    BY <2>2 DEF Reset
  <2>3. CASE AppendUser(m) \/ Concludes(m)
    BY <2>3 DEF AppendUser, Concludes, Remember
  <2>4. CASE Overflows(m) \/ RollsBack(m)
    BY <2>4 DEF Overflows, RollsBack, Compact
  <2> QED
    BY <2>1, <2>2, <2>3, <2>4 DEF Acts
<1>5. before' = before \/ \E b : before' = [before EXCEPT ![Key(m)] = b]
  BY DEF Acts, Leaves, Cancel, Reset, AppendUser, Ask, Concludes, Overflows, RollsBack
<1>6. \A k \in Sender : k # Key(m) => history'[k] = history[k]
  BY <1>1, <1>4 DEF HistoryType
<1>7. \A k \in Sender : k # Key(m) => before'[k] = before[k]
  BY <1>1, <1>5 DEF HistoryType
<1>8. /\ stage'[m] \in {"appended", "asking", "closing"}
      /\ stage'[m] = "closing" \/ outcome'[m] = outcome[m]
      /\ \A n \in Message : n # m => stage'[n] = stage[n]
  BY <1>2 DEF TypeOK
<1>9. outcome' \in [Message -> Outcomes] /\ \A n \in Message : n # m => outcome'[n] = outcome[n]
  BY <1>3 DEF HistoryType
<1>10. stage[m] \in Early \cup Stored /\ stage[m] \in Running /\ Open(m)
  BY <1>2, Classes, StageKinds DEF Open
<1>11. stage'[m] \in Stored \cup Over /\ (stage'[m] \in Over \/ outcome'[m] = outcome[m])
  BY <1>8, Classes
<1> QED
  BY <1>1, <1>2, <1>6, <1>7, <1>8, <1>9, <1>10, <1>11

LEMMA UserTurn == \A m \in Message : User(m) \in Turn /\ Assistant(m) \in Turn
<1> SUFFICES ASSUME NEW m \in Message PROVE User(m) \in Turn /\ Assistant(m) \in Turn
  OBVIOUS
<1>1. <<m>> \in Seq(Message)
  OBVIOUS
<1> QED
  BY <1>1 DEF User, Assistant, Turn

\* What the step does to the conversation of its message.
LEMMA HistoryFacts ==
    ASSUME TypeOK, HistoryType, NEW m \in Message, Acts(m),
           NEW h, h = history[Key(m)], NEW g, g = history'[Key(m)]
    PROVE  /\ h \in Seq(Turn) /\ g \in Seq(Turn) /\ Len(g) <= MaxHistory
           /\ \A x : In(g, x) => In(h, x) \/ (x = m /\ (AppendUser(m) \/ Concludes(m)))
           /\ \A x : Waits(g, x) => Waits(h, x) \/ (x = m /\ AppendUser(m))
           /\ Concludes(m) \/ RollsBack(m) => (Alone(h, m) => ~Waits(g, m))
           /\ AppendUser(m) => \E d \in {0, 1} : Stores(h, g, User(m), d)
           /\ Concludes(m) => \E d \in {0, 1} : Stores(h, g, Assistant(m), d)
           /\ RollsBack(m) => /\ h # <<>> /\ h[Len(h)] = User(m)
                              /\ Len(g) = Len(h) - 1 /\ \A i \in 1 .. Len(g) : g[i] = h[i]
           /\ Reset(m) => g = <<>>
           /\ Leaves(m) \/ Cancel(m) \/ Ask(m) => g = h
<1>1. Key(m) \in Sender /\ h \in Seq(Turn) /\ Len(h) <= MaxHistory /\ Len(h) \in Nat
  <2>1. Key(m) \in Sender
    BY ActFacts
  <2> QED
    BY <2>1, LenProperties DEF HistoryType
<1>2. \A e : history' = [history EXCEPT ![Key(m)] = e] => g = e
  BY <1>1 DEF HistoryType
<1>3. /\ Leaves(m) \/ Cancel(m) \/ Ask(m) => g = h
      /\ Reset(m) => g = <<>>
      /\ Overflows(m) => g = Normalise(Latest(h, KeepTurns))
      /\ RollsBack(m) => g = Front(h) /\ h # <<>> /\ h[Len(h)] = User(m)
      /\ AppendUser(m) => g = Latest(Append(h, User(m)), MaxHistory)
      /\ Concludes(m) => g = Latest(Append(h, Assistant(m)), MaxHistory)
  <2>1. Leaves(m) \/ Cancel(m) \/ Ask(m) => g = h
    BY DEF Leaves, Cancel, Ask
  <2>2. Reset(m) => g = <<>>
    BY <1>2 DEF Reset
  <2>3. Overflows(m) => g = Normalise(Latest(h, KeepTurns))
    BY <1>2 DEF Overflows, Compact
  <2>4. RollsBack(m) => g = Front(h) /\ h # <<>> /\ h[Len(h)] = User(m)
    BY <1>2 DEF RollsBack, EndsWithOrphan, Last
  <2>5. AppendUser(m) => g = Latest(Append(h, User(m)), MaxHistory)
    BY <1>2 DEF AppendUser, Remember
  <2>6. Concludes(m) => g = Latest(Append(h, Assistant(m)), MaxHistory)
    BY <1>2 DEF Concludes, Remember
  <2> QED
    BY <2>1, <2>2, <2>3, <2>4, <2>5, <2>6
<1>4. \A x : ~In(<<>>, x) /\ ~Waits(<<>>, x)
  BY DEF In, Waits
<1>5. ~(AppendUser(m) /\ (Concludes(m) \/ RollsBack(m))) /\ ~(Concludes(m) /\ RollsBack(m))
  <2>1. ~(AppendUser(m) /\ (Concludes(m) \/ RollsBack(m)))
    BY DEF AppendUser, Concludes, RollsBack
  <2>2. \A o : Settle(m, o) => outcome'[m] = o
    BY DEF Settle, HistoryType
  <2>3. Concludes(m) => outcome'[m] \in {"answered", "failed"}
    BY <2>2 DEF Concludes
  <2>4. RollsBack(m) => outcome'[m] = "rolled_back"
    BY <2>2 DEF RollsBack
  <2> QED
    BY <2>1, <2>3, <2>4
<1>6. CASE AppendUser(m)
  <2>1. PICK d \in {0, 1} : Stores(h, g, User(m), d)
    BY <1>1, <1>3, <1>6, UserTurn, RememberFacts
  <2>2. Stores(h, g, [role |-> "user", of |-> <<m>>], d)
    BY <2>1 DEF User
  <2>3. /\ \A x : In(g, x) => In(h, x) \/ x = m
        /\ \A x : Waits(g, x) => Waits(h, x) \/ x = m
    BY <1>1, <2>2, StoresFacts
  <2>4. g \in Seq(Turn) /\ Len(g) <= MaxHistory
    BY <2>1 DEF Stores
  <2>5. ~Concludes(m) /\ ~RollsBack(m) /\ ~Reset(m) /\ ~Leaves(m) /\ ~Cancel(m) /\ ~Ask(m)
    <3>1. ~Reset(m) /\ ~Leaves(m)
      BY <1>6, ActFacts, Classes DEF AppendUser, Reset, Leaves, Settle, Go, TypeOK
    <3> QED
      BY <1>6, <3>1 DEF AppendUser, Concludes, RollsBack, Cancel, Ask
  <2> QED
    BY <1>1, <1>6, <2>1, <2>3, <2>4, <2>5
<1>7. CASE Concludes(m)
  <2>1. PICK d \in {0, 1} : Stores(h, g, Assistant(m), d)
    BY <1>1, <1>3, <1>7, UserTurn, RememberFacts
  <2>2. Stores(h, g, [role |-> "assistant", of |-> <<m>>], d)
    BY <2>1 DEF Assistant
  <2>3. /\ \A x : In(g, x) => In(h, x) \/ x = m
        /\ \A x : Waits(g, x) => Waits(h, x)
        /\ Alone(h, m) => ~Waits(g, m)
    BY <1>1, <2>2, StoresFacts
  <2>4. g \in Seq(Turn) /\ Len(g) <= MaxHistory
    BY <2>1 DEF Stores
  <2> QED
    BY <1>1, <1>3, <1>5, <1>7, <2>1, <2>3, <2>4
<1>8. CASE RollsBack(m)
  <2>1. h # <<>> /\ h[Len(h)] = User(m) /\ g = Front(h) /\ h[Len(h)].role = "user"
    BY <1>3, <1>8 DEF User
  <2>2. /\ g \in Seq(Turn) /\ Len(g) = Len(h) - 1 /\ \A i \in 1 .. Len(g) : g[i] = h[i]
        /\ \A x : In(g, x) => In(h, x)
        /\ \A x : Waits(g, x) => Waits(h, x)
        /\ \A x : Alone(h, x) => ~Waits(g, x)
    BY <1>1, <2>1, FrontFacts
  <2>3. Len(g) <= MaxHistory
    BY <1>1, <2>2, DispatchAssumption
  <2> QED
    BY <1>1, <1>3, <1>5, <1>8, <2>1, <2>2, <2>3
<1>9. CASE Overflows(m)
  <2>1. /\ g \in Seq(Turn) /\ Len(g) <= Len(h)
        /\ \A x : In(g, x) => In(h, x)
        /\ \A x : Waits(g, x) => Waits(h, x)
    BY <1>1, <1>3, <1>9, CompactFacts
  <2>2. Len(g) <= MaxHistory
    BY <1>1, <2>1, DispatchAssumption, LenProperties
  <2> QED
    BY <1>1, <1>3, <1>5, <1>6, <1>7, <1>8, <2>1, <2>2
<1>10. CASE Leaves(m) \/ Cancel(m) \/ Ask(m) \/ Reset(m)
  <2>1. g \in Seq(Turn) /\ Len(g) <= MaxHistory /\ \A x : (In(g, x) => In(h, x)) /\ (Waits(g, x) => Waits(h, x))
    <3>1. <<>> \in Seq(Turn) /\ Len(<<>>) <= MaxHistory
      BY DispatchAssumption, EmptySeq
    <3> QED
      BY <1>1, <1>3, <1>4, <1>10, <3>1
  <2> QED
    BY <1>1, <1>3, <1>5, <1>6, <1>7, <1>8, <1>10, <2>1
<1> QED
  BY <1>6, <1>7, <1>8, <1>9, <1>10 DEF Acts

LEMMA HistoriesInit == Init => Histories
<1> SUFFICES ASSUME Init PROVE Histories
  OBVIOUS
<1>1. HistoryType
  BY EmptySeq, DispatchAssumption DEF Init, HistoryType, Outcomes
<1>2. \A k \in Sender : \A x : ~In(history[k], x) /\ ~Waits(history[k], x)
  BY EmptySeq DEF Init, In, Waits
<1>3. \A m \in Message : /\ stage[m] \notin Over /\ stage[m] \notin Stored /\ outcome[m] = "none"
                         /\ request[m] = <<>>
  BY DEF Init, Over, Stored
<1>4. \A k \in Sender : before[k] = {}
  BY DEF Init
<1>5. RequestWellFormed
  BY <1>3, EmptySeq, DispatchAssumption DEF RequestWellFormed
<1> QED
  BY <1>1, <1>2, <1>3, <1>4, <1>5
     DEF Histories, Settled, Own, Current, Aside, Over_first, Fresh, Waiting, Kept

\* Where a sender has one chat and it interrupts, one of its workers is at work.
LEMMA OneChat ==
    ASSUME NEW m \in Message, NEW n \in Message, Orderly(Key(m)), Key(n) = Key(m)
    PROVE  Together(m, n) /\ Interrupts(m) /\ Interrupts(n)
BY DispatchAssumption DEF Orderly, Key, Together, Interrupts

LEMMA Exclusive ==
    ASSUME Protocol, NEW m \in Message, NEW n \in Message, Orderly(Key(m)), Key(n) = Key(m),
           stage[m] \in Running, stage[n] \in Running
    PROVE  m = n
<1> SUFFICES ASSUME m # n PROVE FALSE
  OBVIOUS
<1>1. Together(m, n) /\ Together(n, m) /\ Interrupts(m) /\ Interrupts(n)
  BY OneChat DEF Together
<1>2. Open(m) /\ Open(n)
  BY DEF Open
<1>3. rank[m] < rank[n] /\ rank[n] < rank[m] /\ rank[m] \in Nat /\ rank[n] \in Nat
  BY <1>1, <1>2 DEF Protocol, Oldest_runs, TypeOK
<1> QED
  BY <1>3

LEMMA HistoryTypeStep ==
    ASSUME TypeOK, HistoryType, NEW m \in Message, Acts(m)
    PROVE  HistoryType'
<1>1. /\ Key(m) \in Sender /\ outcome' \in [Message -> Outcomes]
      /\ \A k \in Sender : k # Key(m) => history'[k] = history[k]
  BY ActFacts
<1>2. history'[Key(m)] \in Seq(Turn) /\ Len(history'[Key(m)]) <= MaxHistory
  BY HistoryFacts
<1>3. history' \in [Sender -> Seq(Turn)]
  <2>1. DOMAIN history' = Sender /\ history' = [k \in Sender |-> history'[k]]
    BY DEF HistoryType, Acts, Leaves, Cancel, Reset, AppendUser, Ask, Concludes, Overflows,
           RollsBack, Remember, Compact
  <2>2. \A k \in Sender : history'[k] \in Seq(Turn)
    BY <1>1, <1>2 DEF HistoryType
  <2> QED
    BY <2>1, <2>2
<1>4. \A k \in Sender : Len(history'[k]) <= MaxHistory
  BY <1>1, <1>2 DEF HistoryType
<1>5. request' \in [Message -> Seq(Turn)]
  <2>1. CASE Ask(m)
    <3>1. Normalise(history[Key(m)]) \in Seq(Turn)
      BY <1>1, NormaliseFacts DEF HistoryType, Gathered
    <3> QED
      BY <2>1, <3>1 DEF Ask, HistoryType
  <2>2. CASE ~Ask(m)
    BY <2>2 DEF HistoryType, Acts, Leaves, Cancel, Reset, AppendUser, Concludes, Overflows, RollsBack
  <2> QED
    BY <2>1, <2>2
<1>6. before' \in [Sender -> SUBSET Message]
  BY DEF HistoryType, Acts, Leaves, Cancel, Reset, AppendUser, Ask, Concludes, Overflows, RollsBack
<1> QED
  BY <1>1, <1>3, <1>4, <1>5, <1>6 DEF HistoryType

LEMMA SettledStep ==
    ASSUME TypeOK, HistoryType, Settled, NEW m \in Message, Acts(m)
    PROVE  Settled'
<1>1. /\ stage[m] \in Early \cup Stored /\ (stage'[m] \in Over \/ outcome'[m] = outcome[m])
      /\ \A n \in Message : n # m => stage'[n] = stage[n] /\ outcome'[n] = outcome[n]
  BY ActFacts
<1>2. stage[m] \notin Over
  BY <1>1, Classes
<1> QED
  BY <1>1, <1>2 DEF Settled

LEMMA OwnStep ==
    ASSUME TypeOK, HistoryType, Own, NEW m \in Message, Acts(m)
    PROVE  Own'
<1> SUFFICES ASSUME NEW k \in Sender, NEW x \in Message, In(history'[k], x)
             PROVE  Key(x) = k /\ stage'[x] \in Stored \cup Over
  BY DEF Own, Key
<1>1. /\ stage'[m] \in Stored \cup Over
      /\ \A n \in Message : n # m => stage'[n] = stage[n]
      /\ k # Key(m) => history'[k] = history[k]
  BY ActFacts
<1>2. In(history[k], x) \/ (k = Key(m) /\ x = m)
  BY <1>1, HistoryFacts
<1> QED
  BY <1>1, <1>2 DEF Own

LEMMA CurrentStep ==
    ASSUME Protocol, HistoryType, Own, Current, NEW m \in Message, Acts(m)
    PROVE  Current'
<1> SUFFICES ASSUME NEW x \in Message, Orderly(Key(x))', stage'[x] \in Stored,
                    NEW h, h = history'[Key(x)]
             PROVE  h # <<>> /\ h[Len(h)] = User(x) /\ Alone(h, x)
  BY DEF Current, Key
<1>0. TypeOK
  BY DEF Protocol
<1>1. /\ UNCHANGED config /\ Key(x) \in Sender /\ Orderly(Key(x)) /\ Key(x)' = Key(x)
      /\ \A n \in Message : n # m => stage'[n] = stage[n]
      /\ Key(x) # Key(m) => h = history[Key(x)]
      /\ stage[m] \in Running
  <2>1. Key(x) \in Sender
    BY DispatchAssumption DEF Key
  <2> QED
    BY <1>0, <2>1, ActFacts DEF Orderly, Key
<1>2. CASE x # m /\ Key(x) # Key(m)
  BY <1>1, <1>2 DEF Current
<1>3. CASE x # m /\ Key(x) = Key(m)
  <2>1. stage[x] \in Running
    BY <1>1, <1>3, Classes
  <2> QED
    BY <1>1, <1>3, <2>1, Exclusive
<1>4. CASE x = m /\ AppendUser(m)
  <2> DEFINE h0 == history[Key(m)]
  <2>1. PICK d \in {0, 1} : Stores(h0, h, User(m), d)
    BY <1>0, <1>4, HistoryFacts
  <2>2. h \in Seq(Turn) /\ Len(h) > 0 /\ h[Len(h)] = User(m)
        /\ \A i \in 1 .. Len(h) - 1 : i + d \in 1 .. Len(h0) /\ h[i] = h0[i + d]
    BY <2>1 DEF Stores
  <2>3. ~In(h0, m)
    <3>1. stage[m] \notin Stored \cup Over
      BY <1>4, Classes DEF AppendUser
    <3> QED
      BY <1>1, <1>4, <3>1 DEF Own
  <2>4. Alone(h, m)
    BY <2>2, <2>3 DEF Alone, In
  <2> QED
    BY <1>4, <2>2, <2>4, EmptySeq
<1>5. CASE x = m /\ ~AppendUser(m)
  <2>1. stage'[m] # "closing"
    BY <1>5 DEF Stored
  <2>2. Ask(m)
    <3>1. \A o : Settle(m, o) => stage'[m] = "closing"
      BY <1>0 DEF Settle, Go, TypeOK
    <3> QED
      BY <1>5, <2>1, <3>1
         DEF Acts, Leaves, Cancel, Reset, Concludes, Overflows, RollsBack
  <2>3. h = history[Key(m)] /\ stage[m] \in Stored
    BY <1>5, <2>2, Classes DEF Ask
  <2> QED
    BY <1>1, <1>5, <2>3 DEF Current
<1> QED
  BY <1>2, <1>3, <1>4, <1>5

LEMMA AsideStep ==
    ASSUME Protocol, HistoryType, Aside, NEW m \in Message, Acts(m)
    PROVE  Aside'
<1> SUFFICES ASSUME NEW k \in Sender, NEW x \in before'[k]
             PROVE  Key(x) = k /\ (Orderly(k)' => stage'[x] \in Over)
  BY DEF Aside, Key
<1>0. TypeOK
  BY DEF Protocol
<1>1. /\ UNCHANGED config /\ (Orderly(k)' <=> Orderly(k))
      /\ \A n \in Message : n # m => stage'[n] = stage[n]
      /\ k # Key(m) => before'[k] = before[k]
      /\ stage[m] \in Running /\ stage[m] \notin Over
  <2>1. stage[m] \notin Over
    BY <1>0, ActFacts, Classes
  <2> QED
    BY <1>0, <2>1, ActFacts DEF Orderly
<1>2. CASE before'[k] = before[k]
  <2>1. Key(x) = k /\ (Orderly(k) => stage[x] \in Over) /\ x \in Message
    BY <1>2 DEF Aside, HistoryType
  <2> QED
    BY <1>1, <2>1
<1>3. CASE before'[k] # before[k]
  <2>1. Reset(m) /\ k = Key(m)
    BY <1>1, <1>3 DEF Acts, Leaves, Cancel, AppendUser, Ask, Concludes, Overflows, RollsBack
  <2>2. x \in Message /\ Key(x) = k /\ stage[x] \in Busy \cup {"closing", "marking", "ended"}
    BY <2>1 DEF Reset, HistoryType
  <2>3. stage'[m] \in Over
    BY <1>0, <2>1, Classes DEF Reset, Settle, Go, TypeOK
  <2>4. ASSUME Orderly(k), x # m PROVE stage'[x] \in Over
    <3>1. stage[x] \notin Running
      BY <1>1, <2>1, <2>2, <2>4, Exclusive
    <3>2. stage[x] \in Over
      BY <2>2, <3>1, StageKinds DEF Over
    <3> QED
      BY <1>1, <2>2, <2>4, <3>2
  <2> QED
    BY <1>1, <2>2, <2>3, <2>4
<1> QED
  BY <1>2, <1>3

LEMMA Over_firstStep ==
    ASSUME Protocol, HistoryType, Over_first, NEW m \in Message, Acts(m)
    PROVE  Over_first'
<1> SUFFICES ASSUME NEW x \in Message, NEW n \in Message, Together(x, n), Interrupts(x)',
                    stage'[x] \in Over, Open(n)', x # n
             PROVE  rank'[x] < rank'[n]
  BY DEF Over_first, Together
<1>1. /\ UNCHANGED <<config, rank>> /\ stage[m] \in Running /\ Open(m)
      /\ \A o \in Message : o # m => stage'[o] = stage[o]
  BY ActFacts DEF Protocol
<1>2. Interrupts(x) /\ Open(n)
  BY <1>1 DEF Interrupts, Open
<1>3. CASE x = m
  BY <1>1, <1>2, <1>3 DEF Protocol, Oldest_runs
<1>4. CASE x # m
  BY <1>1, <1>2, <1>4 DEF Over_first
<1> QED
  BY <1>3, <1>4

LEMMA FreshStep ==
    ASSUME Protocol, HistoryType, Aside, Fresh, NEW m \in Message, Acts(m)
    PROVE  Fresh'
<1> SUFFICES ASSUME NEW k \in Sender, Orderly(k)', NEW x \in before'[k], In(history'[k], x)
             PROVE  FALSE
  BY DEF Fresh
<1>0. TypeOK
  BY DEF Protocol
<1>1. /\ Orderly(k) /\ stage[m] \notin Over
      /\ k # Key(m) => history'[k] = history[k] /\ before'[k] = before[k]
  <2>1. stage[m] \notin Over
    BY <1>0, ActFacts, Classes
  <2> QED
    BY <1>0, <2>1, ActFacts DEF Orderly
<1>2. k = Key(m)
  BY <1>1 DEF Fresh
<1>3. ~Reset(m)
  <2>1. Reset(m) => history'[k] = <<>>
    BY <1>0, <1>2, HistoryFacts
  <2> QED
    BY <2>1, EmptySeq DEF In
<1>4. before'[k] = before[k]
  BY <1>3 DEF Acts, Leaves, Cancel, AppendUser, Ask, Concludes, Overflows, RollsBack
<1>5. In(history[k], x) \/ x = m
  BY <1>0, <1>2, HistoryFacts
<1>6. x # m
  BY <1>1, <1>4 DEF Aside
<1> QED
  BY <1>1, <1>4, <1>5, <1>6 DEF Fresh

LEMMA RequestStep ==
    ASSUME Protocol, HistoryType, Current, RequestWellFormed, NEW m \in Message, Acts(m)
    PROVE  RequestWellFormed'
<1>0. TypeOK
  BY DEF Protocol
<1>1. UNCHANGED config /\ \A k : Orderly(k)' <=> Orderly(k)
  BY <1>0, ActFacts DEF Orderly
<1>2. CASE ~Ask(m)
  <2>1. request' = request
    BY <1>2 DEF Acts, Leaves, Cancel, Reset, AppendUser, Concludes, Overflows, RollsBack
  <2> QED
    BY <1>1, <2>1 DEF RequestWellFormed, Key
<1>3. CASE Ask(m)
  <2> DEFINE h == history[Key(m)]
             q == Normalise(h)
  <2>1. Key(m) \in Sender /\ h \in Seq(Turn) /\ Len(h) \in Nat /\ Len(h) <= MaxHistory
    <3>1. Key(m) \in Sender
      BY DispatchAssumption DEF Key
    <3> QED
      BY <3>1, LenProperties DEF HistoryType
  <2>2. request' = [request EXCEPT ![m] = q] /\ stage[m] \in Stored
    BY <1>3, Classes DEF Ask
  <2>3. Gathered(q, h, Len(h))
    BY <2>1, NormaliseFacts
  <2> HIDE DEF q
  <2>4. /\ q \in Seq(Turn) /\ Len(q) \in Nat /\ Len(q) <= MaxHistory
        /\ DOMAIN q = 1 .. Len(q) /\ Alternates(q)
    BY <2>1, <2>3, LenProperties, DispatchAssumption DEF Gathered
  <2>5. ASSUME Orderly(Key(m)) PROVE Last(q).role = "user" /\ Last(Last(q).of) = m
    <3>1. h # <<>> /\ h[Len(h)] = User(m) /\ Len(h) > 0
      BY <2>1, <2>2, <2>5, EmptySeq DEF Current
    <3>2. /\ h[Len(h)].role = "user" /\ h[Len(h)].of = <<m>>
          /\ <<m>> # <<>> /\ Len(<<m>>) = 1 /\ <<m>>[1] = m
      BY <3>1 DEF User
    <3> QED
      BY <2>3, <3>1, <3>2 DEF Gathered, Last
  <2>6. \A x \in Message : request'[x] = IF x = m THEN q ELSE request[x]
    BY <2>2 DEF HistoryType
  <2> SUFFICES ASSUME NEW x \in Message
               PROVE  /\ Len(request'[x]) <= MaxHistory
                      /\ \A i \in DOMAIN request'[x] :
                            request'[x][i].role = IF i % 2 = 1 THEN "user" ELSE "assistant"
                      /\ Orderly(Key(x))' /\ request'[x] # <<>> =>
                            Last(request'[x]).role = "user" /\ Last(Last(request'[x]).of) = x
    BY DEF RequestWellFormed, Key
  <2>7. CASE x = m
    BY <1>1, <2>4, <2>5, <2>6, <2>7 DEF Alternates, Key
  <2>8. CASE x # m
    BY <1>1, <2>6, <2>8 DEF RequestWellFormed, Key
  <2> QED
    BY <2>7, <2>8
<1> QED
  BY <1>2, <1>3

LEMMA WaitingStep ==
    ASSUME Protocol, HistoryType, Settled, Own, Current, Waiting, NEW m \in Message, Acts(m)
    PROVE  Waiting'
<1> SUFFICES ASSUME NEW k \in Sender, Orderly(k)', NEW x \in Message, Waits(history'[k], x)
             PROVE  outcome'[x] \in {"none", "cancelled", "compacted"}
  BY DEF Waiting
<1>0. TypeOK
  BY DEF Protocol
<1>1. /\ Orderly(k) /\ Key(m) \in Sender /\ stage[m] \notin Over
      /\ \A n \in Message : n # m => outcome'[n] = outcome[n]
      /\ k # Key(m) => history'[k] = history[k]
      /\ stage'[m] \in Over \/ outcome'[m] = outcome[m]
  <2>1. stage[m] \notin Over
    BY <1>0, ActFacts, Classes
  <2> QED
    BY <1>0, <2>1, ActFacts DEF Orderly
<1>2. Waits(history[k], x) \/ (k = Key(m) /\ x = m /\ AppendUser(m))
  BY <1>0, <1>1, HistoryFacts
<1>3. outcome[m] = "none"
  BY <1>1 DEF Settled
<1>4. CASE x # m
  BY <1>1, <1>2, <1>4 DEF Waiting
<1>5. CASE x = m /\ outcome'[m] = outcome[m]
  BY <1>3, <1>5
<1>6. CASE x = m /\ outcome'[m] # outcome[m]
  <2>1. ~AppendUser(m) /\ ~Ask(m)
    BY <1>6 DEF AppendUser, Ask
  <2>2. In(history[k], m)
    BY <1>2, <1>6, <2>1 DEF Waits, In
  <2>3. Key(m) = k /\ stage[m] \in Stored
    BY <1>1, <2>2 DEF Own
  <2>4. Alone(history[k], m)
    BY <1>1, <2>3 DEF Current
  <2>5. ~Concludes(m) /\ ~RollsBack(m)
    BY <1>0, <1>6, <2>3, <2>4, HistoryFacts
  <2>6. ~Leaves(m) /\ ~Reset(m)
    BY <2>3, Classes DEF Leaves, Reset
  <2>7. Cancel(m) \/ Overflows(m)
    BY <2>1, <2>5, <2>6 DEF Acts
  <2>8. \A o : Settle(m, o) => outcome'[m] = o
    BY DEF Settle, HistoryType
  <2> QED
    BY <1>6, <2>7, <2>8 DEF Cancel, Overflows
<1> QED
  BY <1>4, <1>5, <1>6

Later(m) == {n \in Message : rank[n] > rank[m]}

SlackBounded ==
    \A x \in Message :
       /\ IsFiniteSet(OverAfter(x)) /\ Cardinality(OverAfter(x)) \in Nat
       /\ IsFiniteSet(Later(x)) /\ Cardinality(Later(x)) \in Nat
       /\ Slack(x) \in Nat
       /\ 2 * Cardinality(OverAfter(x)) <= Slack(x)
       /\ Slack(x) <= 2 * Cardinality(OverAfter(x)) + 1
       /\ Slack(x) <= 2 * Cardinality(Later(x))

LEMMA SlackFacts == TypeOK => SlackBounded
<1> SUFFICES ASSUME TypeOK, NEW x \in Message
             PROVE  /\ IsFiniteSet(OverAfter(x)) /\ Cardinality(OverAfter(x)) \in Nat
                    /\ IsFiniteSet(Later(x)) /\ Cardinality(Later(x)) \in Nat
                    /\ Slack(x) \in Nat
                    /\ 2 * Cardinality(OverAfter(x)) <= Slack(x)
                    /\ Slack(x) <= 2 * Cardinality(OverAfter(x)) + 1
                    /\ Slack(x) <= 2 * Cardinality(Later(x))
  BY DEF SlackBounded
<1>1. IsFiniteSet(Message) /\ OverAfter(x) \in SUBSET Message /\ Later(x) \in SUBSET Message
  BY DispatchAssumption DEF OverAfter, Later
<1>2. /\ IsFiniteSet(OverAfter(x)) /\ Cardinality(OverAfter(x)) \in Nat
      /\ IsFiniteSet(Later(x)) /\ Cardinality(Later(x)) \in Nat
  BY <1>1, FS_Subset, FS_CardinalityType
<1>3. OverAfter(x) \in SUBSET Later(x)
  BY DEF OverAfter, Later
<1>4. Cardinality(OverAfter(x)) <= Cardinality(Later(x))
  BY <1>2, <1>3, FS_Subset
<1>5. /\ Slack(x) \in Nat
      /\ 2 * Cardinality(OverAfter(x)) <= Slack(x)
      /\ Slack(x) <= 2 * Cardinality(OverAfter(x)) + 1
      /\ ~StoredAfter(x) => Slack(x) = 2 * Cardinality(OverAfter(x))
  BY <1>2 DEF Slack
<1>6. ASSUME StoredAfter(x) PROVE Cardinality(OverAfter(x)) + 1 <= Cardinality(Later(x))
  <2>1. PICK n \in Message : rank[n] > rank[x] /\ stage[n] \in Stored
    BY <1>6 DEF StoredAfter
  <2>2. n \notin OverAfter(x)
    BY <2>1, Classes DEF OverAfter
  <2>3. OverAfter(x) \cup {n} \in SUBSET Later(x)
    BY <1>3, <2>1 DEF Later
  <2>4. Cardinality(OverAfter(x) \cup {n}) = Cardinality(OverAfter(x)) + 1
    BY <1>2, <2>2, FS_AddElement
  <2>5. Cardinality(OverAfter(x) \cup {n}) <= Cardinality(Later(x))
    BY <1>2, <2>3, FS_Subset
  <2> QED
    BY <2>4, <2>5
<1> QED
  BY <1>2, <1>4, <1>5, <1>6

\* Where a turn is stored behind that of x, x has the slack for it.
LEMMA SlackGrows ==
    ASSUME Protocol, TypeOK', HistoryType, NEW m \in Message, Acts(m), NEW x \in Message
    PROVE  /\ Slack(x) <= Slack(x)'
           /\ /\ Orderly(Key(x)) /\ Key(m) = Key(x) /\ rank[x] < rank[m]
              /\ AppendUser(m) \/ Concludes(m)
              => Slack(x) + 1 <= Slack(x)'
<1> DEFINE C == Cardinality(OverAfter(x))
<1>0. TypeOK
  BY DEF Protocol
<1>a. SlackBounded /\ SlackBounded'
  <2>1. TypeOK' => SlackBounded'
    BY SlackFacts, PTL
  <2> QED
    BY <1>0, <2>1, SlackFacts
<1>1. /\ rank' = rank /\ stage[m] \notin Over /\ stage'[m] \in Stored \cup Over
      /\ \A n \in Message : n # m => stage'[n] = stage[n]
  <2>1. stage[m] \notin Over
    BY <1>0, ActFacts, Classes
  <2> QED
    BY <1>0, <2>1, ActFacts
<1>2. /\ IsFiniteSet(OverAfter(x)) /\ C \in Nat /\ Slack(x) \in Nat
      /\ 2 * C <= Slack(x) /\ Slack(x) <= 2 * C + 1
      /\ Slack(x)' \in Nat /\ 2 * C' <= Slack(x)' /\ C' \in Nat
  <2>1. /\ Slack(x)' \in Nat /\ 2 * C' <= Slack(x)' /\ C' \in Nat
    BY <1>a DEF SlackBounded
  <2> QED
    BY <1>0, <1>a, <2>1 DEF SlackBounded
<1>3. CASE stage'[m] \in Over /\ rank[x] < rank[m]
  <2>1. m \notin OverAfter(x) /\ OverAfter(x)' = OverAfter(x) \cup {m}
    BY <1>1, <1>3 DEF OverAfter
  <2>2. C' = C + 1
    BY <1>2, <2>1, FS_AddElement
  <2> HIDE DEF C
  <2> QED
    BY <1>2, <2>2
<1>4. CASE stage'[m] \in Over /\ ~(rank[x] < rank[m])
  <2>1. OverAfter(x)' = OverAfter(x) /\ (StoredAfter(x)' <=> StoredAfter(x))
    BY <1>0, <1>1, <1>4 DEF OverAfter, StoredAfter, Key, TypeOK
  <2>2. Slack(x)' = Slack(x)
    BY <2>1 DEF Slack
  <2> QED
    BY <1>2, <1>4, <2>2
<1>5. CASE stage'[m] \in Stored
  <2>1. OverAfter(x)' = OverAfter(x) /\ (StoredAfter(x) => StoredAfter(x)')
    BY <1>1, <1>5, Classes DEF OverAfter, StoredAfter, Key
  <2>2. Slack(x) <= Slack(x)'
    BY <1>2, <2>1 DEF Slack
  <2>3. ASSUME Orderly(Key(x)), Key(m) = Key(x), rank[x] < rank[m], AppendUser(m) \/ Concludes(m)
        PROVE  Slack(x) + 1 <= Slack(x)'
    <3>1. AppendUser(m)
      BY <1>0, <1>5, <2>3 DEF Concludes, Settle, Go, TypeOK, Stored
    <3>2. ~StoredAfter(x)
      <4>1. SUFFICES ASSUME NEW n \in Message, Key(n) = Key(x), stage[n] \in Stored PROVE FALSE
        BY DEF StoredAfter
      <4>2. stage[n] \in Running /\ stage[m] \in Running /\ stage[m] \notin Stored
        BY <3>1, <4>1, Classes DEF AppendUser
      <4>3. m = n
        BY <2>3, <4>1, <4>2, Exclusive
      <4> QED
        BY <4>1, <4>2, <4>3
    <3>3. StoredAfter(x)'
      BY <1>1, <1>5, <2>3 DEF StoredAfter, Key
    <3> QED
      BY <1>2, <2>1, <3>2, <3>3 DEF Slack
  <2> QED
    BY <2>2, <2>3
<1> QED
  BY <1>1, <1>3, <1>4, <1>5

LEMMA KeptStep ==
    ASSUME Protocol, TypeOK', Histories, NEW m \in Message, Acts(m)
    PROVE  Kept'
<1> SUFFICES ASSUME NEW x \in Message, outcome'[x] = "cancelled", Orderly(Key(x))',
                    NothingForgotten(x)', NEW g, g = history'[Key(x)]
             PROVE  \E i \in 1 .. Len(g) : g[i] = User(x) /\ Len(g) - i <= Slack(x)'
  BY DEF Kept, Key, User
<1> DEFINE h == history[Key(x)]
<1>0. /\ TypeOK /\ HistoryType /\ Settled /\ Current /\ Over_first /\ Kept /\ Key(x) \in Sender
      /\ h \in Seq(Turn) /\ Len(h) \in Nat /\ Len(h) <= MaxHistory
  <2>1. Key(x) \in Sender
    BY DispatchAssumption DEF Key
  <2> QED
    BY <2>1, LenProperties DEF Protocol, Histories, HistoryType
<1>a. SlackBounded /\ SlackBounded'
  <2>1. TypeOK' => SlackBounded'
    BY SlackFacts, PTL
  <2> QED
    BY <1>0, <2>1, SlackFacts
<1>1. /\ rank' = rank /\ Orderly(Key(x)) /\ stage[m] \notin Over /\ Open(m)
      /\ \A n \in Message : n # m => stage'[n] = stage[n] /\ outcome'[n] = outcome[n]
      /\ Key(x) # Key(m) => g = h /\ before'[Key(x)] = before[Key(x)]
  <2>1. stage[m] \notin Over
    BY <1>0, ActFacts, Classes
  <2> QED
    BY <1>0, <2>1, ActFacts DEF Orderly, Key
<1>2. Slack(x) \in Nat /\ Slack(x)' \in Nat /\ Slack(x)' <= 2 * Cardinality(Later(x)')
      /\ Cardinality(Later(x)') \in Nat /\ Slack(x) <= Slack(x)'
  <2>1. Slack(x)' \in Nat /\ Slack(x)' <= 2 * Cardinality(Later(x)') /\ Cardinality(Later(x)') \in Nat
    BY <1>a DEF SlackBounded
  <2> QED
    BY <1>0, <1>a, <2>1, SlackGrows DEF SlackBounded
<1>3. /\ x \notin before'[Key(x)] /\ 2 * Cardinality(Later(x)') < MaxHistory
      /\ \A n \in Later(x)' : outcome'[n] # "compacted"
  BY DEF NothingForgotten, Later, Key
<1>4. outcome[m] = "none"
  BY <1>0, <1>1 DEF Settled
<1>5. \A o : Settle(m, o) => outcome'[m] = o
  BY <1>0 DEF Settle, HistoryType
<1>6. CASE x = m
  <2>1. Cancel(m)
    <3>1. ~Leaves(m)
      BY <1>5, <1>6 DEF Leaves
    <3>2. ~Concludes(m)
      BY <1>5, <1>6 DEF Concludes
    <3>3. ~Reset(m) /\ ~Overflows(m) /\ ~RollsBack(m)
      BY <1>5, <1>6 DEF Reset, Overflows, RollsBack
    <3>4. ~AppendUser(m) /\ ~Ask(m)
      BY <1>4, <1>6 DEF AppendUser, Ask
    <3> QED
      BY <3>1, <3>2, <3>3, <3>4 DEF Acts
  <2>2. g = h /\ stage[m] \in Stored
    BY <1>6, <2>1, Classes DEF Cancel
  <2>3. h # <<>> /\ h[Len(h)] = User(m)
    BY <1>0, <1>1, <1>6, <2>2 DEF Current
  <2>4. Len(h) \in 1 .. Len(h) /\ Len(h) - Len(h) <= Slack(x)'
    BY <1>0, <1>2, <2>3, EmptySeq
  <2> QED
    BY <1>6, <2>2, <2>3, <2>4
<1>7. CASE x # m
  <2>1. outcome[x] = "cancelled" /\ stage[x] \in Over
    BY <1>0, <1>1, <1>7 DEF Settled
  <2>2. ~(Reset(m) /\ Key(m) = Key(x))
    <3>1. SUFFICES ASSUME Reset(m), Key(m) = Key(x) PROVE x \in before'[Key(x)]
      BY <1>3
    <3> QED
      BY <1>0, <2>1, <3>1 DEF Reset, HistoryType, Over
  <2>3. before'[Key(x)] = before[Key(x)]
    <3>1. CASE Reset(m)
      BY <1>1, <2>2, <3>1
    <3>2. CASE ~Reset(m)
      BY <3>2 DEF Acts, Leaves, Cancel, AppendUser, Ask, Concludes, Overflows, RollsBack
    <3> QED
      BY <3>1, <3>2
  <2>4. Later(x)' = Later(x)
    BY <1>1 DEF Later
  <2>5. NothingForgotten(x)
    <3>1. \A n \in Later(x) : outcome[n] # "compacted"
      <4>1. SUFFICES ASSUME NEW n \in Later(x), outcome[n] = "compacted" PROVE FALSE
        OBVIOUS
      <4>2. n \in Message /\ n # m /\ n \in Later(x)'
        BY <1>4, <2>4, <4>1 DEF Later
      <4> QED
        BY <1>1, <1>3, <4>1, <4>2
    <3> QED
      BY <1>3, <2>3, <2>4, <3>1 DEF NothingForgotten, Later
  <2>6. PICK i \in 1 .. Len(h) : h[i] = User(x) /\ Len(h) - i <= Slack(x)
    BY <1>0, <1>1, <2>1, <2>5 DEF Kept
  <2>7. CASE g = h
    BY <1>0, <1>2, <2>6, <2>7
  <2>8. CASE g # h
    <3>1. Key(m) = Key(x)
      BY <1>1, <2>8
    <3>2. rank[x] < rank[m] /\ m \in Later(x)'
      <4>1. Together(x, m) /\ Interrupts(x)
        BY <1>1, <3>1, OneChat
      <4>2. rank[x] < rank[m] /\ rank[x] \in Nat /\ rank[m] \in Nat
        BY <1>0, <1>1, <1>7, <2>1, <4>1 DEF Over_first, TypeOK
      <4> QED
        BY <2>4, <4>2 DEF Later
    <3>3. ~Overflows(m)
      BY <1>3, <1>5, <3>2 DEF Overflows
    <3>4. ~Leaves(m) /\ ~Cancel(m) /\ ~Ask(m)
      BY <2>8, <3>1 DEF Leaves, Cancel, Ask
    <3>5. CASE AppendUser(m) \/ Concludes(m)
      <4>1. Slack(x) + 1 <= Slack(x)'
        BY <1>0, <1>1, <3>1, <3>2, <3>5, SlackGrows
      <4>2. PICK d \in {0, 1}, t \in Turn : Stores(h, g, t, d)
        BY <1>0, <3>1, <3>5, UserTurn, HistoryFacts
      <4>3. d = 1 => i > 1
        BY <1>0, <1>2, <1>3, <2>6, <4>1, <4>2, DispatchAssumption DEF Stores
      <4>4. Len(g) = Len(h) + 1 - d /\ d \in {0, 1} /\ \A j \in 1 .. Len(g) - 1 : g[j] = h[j + d]
        BY <4>2 DEF Stores
      <4>5. i - d \in 1 .. Len(g) - 1 /\ i - d \in 1 .. Len(g) /\ (i - d) + d = i
            /\ Len(g) - (i - d) = Len(h) - i + 1
        BY <1>0, <4>3, <4>4
      <4>6. g[i - d] = User(x)
        BY <2>6, <4>4, <4>5
      <4>7. Len(g) - (i - d) <= Slack(x)'
        BY <1>0, <1>2, <2>6, <4>1, <4>5
      <4> QED
        BY <4>5, <4>6, <4>7
    <3>6. CASE RollsBack(m)
      <4>1. /\ h[Len(h)] = User(m) /\ Len(g) = Len(h) - 1
            /\ \A j \in 1 .. Len(g) : g[j] = h[j]
        BY <1>0, <3>1, <3>6, HistoryFacts
      <4>2. User(x) # User(m)
        BY <1>7 DEF User
      <4>3. i \in 1 .. Len(g) /\ Len(g) - i <= Slack(x)'
        BY <1>0, <1>2, <2>6, <4>1, <4>2
      <4> QED
        BY <2>6, <4>1, <4>3
    <3> QED
      BY <2>2, <3>1, <3>3, <3>4, <3>5, <3>6 DEF Acts
  <2> QED
    BY <2>7, <2>8
<1> QED
  BY <1>6, <1>7

LEMMA QuietStep ==
    ASSUME Protocol, TypeOK', Histories, Quiet
    PROVE  Histories'
<1>0. /\ TypeOK /\ HistoryType /\ Settled /\ Own /\ Current /\ Aside /\ Over_first
      /\ Fresh /\ RequestWellFormed /\ Waiting /\ Kept
  BY DEF Histories, Protocol
<1>1. /\ UNCHANGED <<config, history, request, outcome, before>>
      /\ \A k : Orderly(k)' <=> Orderly(k)
  BY DEF Quiet, Orderly
<1>2. \A n \in Message : /\ (stage'[n] \in Stored <=> stage[n] \in Stored)
                         /\ (stage'[n] \in Over <=> stage[n] \in Over)
                         /\ rank[n] <= rank'[n]
                         /\ (stage[n] \in Stored \cup Over => rank'[n] = rank[n])
                         /\ rank[n] \in Nat /\ rank'[n] \in Nat
  BY <1>0, Classes DEF Quiet, TypeOK
<1>3. HistoryType' /\ Settled' /\ Own' /\ Current' /\ Aside' /\ Fresh' /\ Waiting'
  <2>1. HistoryType' /\ Settled' /\ Own'
    BY <1>0, <1>1, <1>2 DEF HistoryType, Settled, Own, Key
  <2>2. Current' /\ Aside'
    <3>1. \A k \in Sender : before[k] \in SUBSET Message
      BY <1>0 DEF HistoryType
    <3> QED
      BY <1>0, <1>1, <1>2, <3>1 DEF Current, Aside, Key
  <2>3. Fresh' /\ Waiting'
    BY <1>0, <1>1 DEF Fresh, Waiting
  <2> QED
    BY <2>1, <2>2, <2>3
<1>4. RequestWellFormed'
  BY <1>0, <1>1 DEF RequestWellFormed, Key
<1>5. Over_first'
  <2> SUFFICES ASSUME NEW m \in Message, NEW n \in Message, Together(m, n), Interrupts(m)',
                      stage'[m] \in Over, Open(n)', m # n
               PROVE  rank'[m] < rank'[n]
    BY DEF Over_first, Together
  <2>1. stage[m] \in Over /\ rank'[m] = rank[m] /\ Interrupts(m) /\ Interrupts(n)
    BY <1>1, <1>2 DEF Interrupts, Together
  <2>2. CASE Open(n)
    BY <1>0, <1>2, <2>1, <2>2 DEF Over_first
  <2>3. CASE ~Open(n)
    BY <2>1, <2>3 DEF Quiet
  <2> QED
    BY <2>2, <2>3
<1>6. Kept'
  <2> SUFFICES ASSUME NEW x \in Message, outcome'[x] = "cancelled", Orderly(Key(x))',
                      NothingForgotten(x)', NEW h, h = history'[Key(x)]
               PROVE  \E i \in 1 .. Len(h) : h[i] = User(x) /\ Len(h) - i <= Slack(x)'
    BY DEF Kept, Key, User
  <2>1. outcome[x] = "cancelled" /\ Orderly(Key(x)) /\ h = history[Key(x)] /\ rank'[x] = rank[x]
    BY <1>0, <1>1, <1>2 DEF Settled, Key
  <2>2. Later(x) \in SUBSET Later(x)'
    BY <1>2, <2>1 DEF Later
  <2>3. Cardinality(Later(x)) <= Cardinality(Later(x)')
    <3>1. TypeOK' => SlackBounded'
      BY SlackFacts, PTL
    <3>2. IsFiniteSet(Later(x)')
      BY <3>1 DEF SlackBounded
    <3> QED
      BY <2>2, <3>2, FS_Subset
  <2>4. Cardinality(Later(x)) \in Nat /\ Cardinality(Later(x)') \in Nat
    <3>1. SlackBounded /\ (TypeOK' => SlackBounded')
      <4>1. TypeOK' => SlackBounded'
        BY SlackFacts, PTL
      <4> QED
        BY <1>0, <4>1, SlackFacts
    <3> QED
      BY <3>1 DEF SlackBounded
  <2>5. NothingForgotten(x)
    <3>1. /\ x \notin before[Key(x)] /\ 2 * Cardinality(Later(x)') < MaxHistory
          /\ \A n \in Later(x)' : outcome[n] # "compacted"
      BY <1>1 DEF NothingForgotten, Later, Key
    <3>2. 2 * Cardinality(Later(x)) < MaxHistory
      BY <2>3, <2>4, <3>1, DispatchAssumption
    <3> QED
      BY <2>2, <3>1, <3>2 DEF NothingForgotten, Later
  <2>6. Slack(x)' = Slack(x)
    <3>1. OverAfter(x)' = OverAfter(x)
      BY <1>2, <2>1 DEF OverAfter
    <3>2. StoredAfter(x)' <=> StoredAfter(x)
      BY <1>2, <2>1 DEF StoredAfter, Key
    <3> QED
      BY <3>1, <3>2 DEF Slack
  <2> QED
    BY <1>0, <2>1, <2>5, <2>6 DEF Kept
<1> QED
  BY <1>3, <1>4, <1>5, <1>6 DEF Histories

LEMMA HistoriesStep == Protocol /\ TypeOK' /\ Histories /\ [Next]_vars => Histories'
<1> SUFFICES ASSUME Protocol, TypeOK', Histories, [Next]_vars PROVE Histories'
  OBVIOUS
<1>1. Quiet \/ \E m \in Message : Acts(m)
  BY Kinds DEF Acts
<1>2. ASSUME NEW m \in Message, Acts(m) PROVE Histories'
  <2>1. /\ TypeOK /\ HistoryType /\ Settled /\ Own /\ Current /\ Aside /\ Over_first
        /\ Fresh /\ RequestWellFormed /\ Waiting
    BY DEF Histories, Protocol
  <2>2. HistoryType' /\ Settled' /\ Own'
    BY <1>2, <2>1, HistoryTypeStep, SettledStep, OwnStep
  <2>3. Current' /\ Aside' /\ Over_first'
    BY <1>2, <2>1, CurrentStep, AsideStep, Over_firstStep
  <2>4. Fresh' /\ RequestWellFormed' /\ Waiting'
    BY <1>2, <2>1, FreshStep, RequestStep, WaitingStep
  <2>5. Kept'
    BY <1>2, KeptStep
  <2> QED
    BY <2>2, <2>3, <2>4, <2>5 DEF Histories
<1> QED
  BY <1>1, <1>2, QuietStep

LEMMA HistoriesHold == Spec => []Histories
<1>1. Protocol => TypeOK
  BY DEF Protocol
<1> QED
  BY <1>1, ProtocolHolds, HistoriesInit, HistoriesStep, PTL DEF Spec

(* After /new, no turn of a message that was processed before it comes back  *)
(* into the conversation, however long a request for one was still running.  *)
THEOREM FreshCorrect == Spec => []FreshAfterReset
<1>1. Histories => FreshAfterReset
  <2> SUFFICES ASSUME Histories, NEW k \in Sender, Orderly(k), NEW i \in DOMAIN history[k],
                      NEW j \in DOMAIN history[k][i].of
               PROVE  history[k][i].of[j] \notin before[k]
    BY DEF FreshAfterReset
  <2>1. history[k] \in Seq(Turn) /\ i \in 1 .. Len(history[k])
    BY LenProperties DEF Histories, HistoryType
  <2>2. j \in 1 .. Len(history[k][i].of)
    BY <2>1, TurnFacts, LenProperties
  <2>3. In(history[k], history[k][i].of[j])
    BY <2>1, <2>2 DEF In
  <2> QED
    BY <2>3 DEF Histories, Fresh
<1> QED
  BY <1>1, HistoriesHold, PTL

(* Every request to the model alternates, starting with the user, stays      *)
(* within the limit of the history and, where messages interrupt, ends with  *)
(* the turn of its own message, whatever interleavings and evictions made of *)
(* the history it was read from.                                             *)
THEOREM RequestCorrect == Spec => []RequestWellFormed
<1>1. Histories => RequestWellFormed
  BY DEF Histories
<1> QED
  BY <1>1, HistoriesHold, PTL

(* A user's turn without an answer is that of a request that is running, was *)
(* interrupted or overflowed the context: one that failed is closed.         *)
THEOREM OrphansCorrect == Spec => []OrphansAreUnfinished
<1>1. Histories => OrphansAreUnfinished
  <2> SUFFICES ASSUME Histories, NEW k \in Sender, Orderly(k), NEW i \in DOMAIN history[k],
                      history[k][i].role = "user",
                      i = Len(history[k]) \/ history[k][i + 1].role = "user",
                      NEW j \in DOMAIN history[k][i].of
               PROVE  outcome[history[k][i].of[j]] \in {"none", "cancelled", "compacted"}
    BY DEF OrphansAreUnfinished
  <2>1. history[k] \in Seq(Turn) /\ i \in 1 .. Len(history[k])
    BY LenProperties DEF Histories, HistoryType
  <2>2. j \in 1 .. Len(history[k][i].of) /\ history[k][i].of[j] \in Message
    BY <2>1, TurnFacts, LenProperties, ElementOfSeq
  <2>3. Waits(history[k], history[k][i].of[j])
    BY <2>1, <2>2 DEF Waits, Unanswered
  <2> QED
    BY <2>2, <2>3 DEF Histories, Waiting
<1> QED
  BY <1>1, HistoriesHold, PTL

(* The turn of an interrupted request stays in the conversation until a      *)
(* reset, a compaction or the limit of the history takes it.                 *)
THEOREM KeptCorrect == Spec => []InterruptedTurnKept
<1>1. Histories => InterruptedTurnKept
  <2> SUFFICES ASSUME Histories, NEW m \in Message, outcome[m] = "cancelled", Orderly(Key(m)),
                      NothingForgotten(m)
               PROVE  InHistory(m)
    BY DEF InterruptedTurnKept
  <2> DEFINE h == history[Key(m)]
  <2>1. PICK i \in 1 .. Len(h) : h[i] = User(m)
    BY DEF Histories, Kept
  <2>2. h \in Seq(Turn) /\ i \in DOMAIN h
    <3>1. Key(m) \in Sender
      BY DispatchAssumption DEF Key
    <3> QED
      BY <2>1, <3>1, LenProperties DEF Histories, HistoryType
  <2>3. h[i].role = "user" /\ h[i].of = <<m>> /\ m \in ToSet(<<m>>)
    BY <2>1 DEF User, ToSet
  <2> QED
    BY <2>2, <2>3 DEF InHistory
<1> QED
  BY <1>1, HistoriesHold, PTL
------------------------------------------------------------------------------
(* What a worker waits for. Only a queued message and a listening worker     *)
(* ever wait: every other stage has a step that asks nothing of the others.  *)
HasPermit(m) ==
    /\ \A n \in Message : n < m => stage[n] # "queued"
    /\ Cardinality(InFlight) < config.limit

CanGoOn(m) ==
    /\ stage[m] \notin {"waiting", "ended"}
    /\ stage[m] = "queued" => HasPermit(m)

NobodyStuck ==
    \/ \A m \in Message : stage[m] = "ended"
    \/ \E m \in Message : CanGoOn(m)
    \/ \E m \in Message : MissedWakeUp(m)

\* Only messages of interrupting chats park, and who ended has set its flag.
Flags ==
    /\ \A m \in Message : stage[m] \in Parked => Interrupts(m)
    /\ \A m \in Message : stage[m] = "ended" => m \in done

LEMMA FlagsInit == Init => Flags
BY StageKinds DEF Init, Flags

LEMMA FlagsStep == TypeOK /\ Flags /\ [Next]_vars => Flags'
<1> SUFFICES ASSUME TypeOK, Flags, [Next]_vars PROVE Flags'
  OBVIOUS
<1>1. CASE UNCHANGED vars
  BY <1>1 DEF Flags, Interrupts, vars
<1>2. ASSUME NEW m \in Message, NEW s \in Stages, Go(m, s), s # "ended",
             UNCHANGED <<config, done>>, s \in Parked => Interrupts(m)
      PROVE  Flags'
  BY <1>2 DEF Flags, Interrupts, Go, TypeOK
<1>3. ASSUME NEW m \in Message, Register(m) PROVE Flags'
  <2>1. CASE Interrupts(m)
    <3>1. \E s \in {"starting", "cancelling"} : Go(m, s)
      BY <1>3, <2>1 DEF Register
    <3> QED
      BY <1>2, <1>3, <2>1, <3>1, StageKinds DEF Register, Stages
  <2>2. CASE ~Interrupts(m)
    <3>1. Go(m, "starting")
      BY <1>3, <2>2 DEF Register
    <3> QED
      BY <1>2, <1>3, <3>1, StageKinds DEF Register
  <2> QED
    BY <2>1, <2>2
<1>4. ASSUME NEW m \in Message, CancelPrevious(m) \/ CheckDone(m) \/ Listen(m) PROVE Flags'
  <2>1. stage[m] \in Parked /\ Interrupts(m) /\ UNCHANGED <<config, done>>
    BY <1>4, StageKinds DEF CancelPrevious, CheckDone, Listen, Flags
  <2>2. \E s \in {"checking", "starting", "listening", "waiting"} : Go(m, s)
    BY <1>4 DEF CancelPrevious, CheckDone, Listen
  <2> QED
    BY <1>2, <2>1, <2>2, StageKinds DEF Stages
<1>5. ASSUME NEW m \in Message,
             \/ Spawn(m) \/ Start(m) \/ Reset(m) \/ Reply(m) \/ AppendUser(m) \/ Ask(m)
             \/ Cancel(m) \/ Answer(m) \/ Fail(m) \/ TimeOut(m) \/ Close(m)
      PROVE  Flags'
  <2>1. UNCHANGED <<config, done>>
    BY <1>5 DEF Spawn, Start, Reset, Reply, AppendUser, Ask, Cancel, Answer, Fail, TimeOut, Close
  <2>2. \E s \in {"spawned", "processing", "appended", "asking", "closing", "marking"} : Go(m, s)
    BY <1>5 DEF Spawn, Start, Reset, Reply, AppendUser, Ask, Cancel, Answer, Fail, TimeOut, Close,
                Settle
  <2>3. \A s \in {"spawned", "processing", "appended", "asking", "closing", "marking"} :
           s \in Stages /\ s \notin Parked /\ s # "ended"
    BY DEF Stages, Parked, Running, Busy
  <2> QED
    BY <1>2, <2>1, <2>2, <2>3
<1>6. ASSUME NEW m \in Message, MarkDone(m) PROVE Flags'
  BY <1>6, StageKinds DEF MarkDone, Flags, Interrupts, TypeOK
<1> QED
  BY <1>1, <1>3, <1>4, <1>5, <1>6 DEF Next, Work, Ended

LEMMA FlagsHold == Spec => []Flags
<1>1. Protocol => TypeOK
  BY DEF Protocol
<1> QED
  BY <1>1, ProtocolHolds, FlagsInit, FlagsStep, PTL DEF Spec

(* Somebody can always go on until every message is worked off, except when  *)
(* a worker listens for a notification that was given before: neither the    *)
(* limit on the workers, which those that wait use up, nor the chain of      *)
(* workers that wait for one another brings everything to a halt.            *)
THEOREM OnlyLostWakeUpsHalt == Spec => []NobodyStuck
<1>1. Protocol /\ Flags => NobodyStuck
  <2> SUFFICES ASSUME Protocol, Flags, \A m \in Message : ~MissedWakeUp(m),
                      \A m \in Message : ~CanGoOn(m),
                      NEW z \in Message, stage[z] # "ended"
               PROVE  FALSE
    BY DEF NobodyStuck
  <2>1. TypeOK /\ \A m \in Message : stage[m] \in {"queued", "waiting", "ended"}
    BY DEF CanGoOn, Protocol
  <2>2. \A m \in Message : stage[m] # "waiting"
    <3> DEFINE R == {rank[m] : m \in {n \in Message : stage[n] = "waiting"}}
    <3> SUFFICES ASSUME NEW m \in Message, stage[m] = "waiting" PROVE FALSE
      OBVIOUS
    <3>1. R \in SUBSET Nat /\ R # {}
      BY <2>1 DEF TypeOK
    <3>2. PICK r \in R : \A s \in R : ~(s < r)
      BY <3>1, NatMin
    <3>3. PICK w \in Message : stage[w] = "waiting" /\ rank[w] = r
      BY <3>2
    <3>4. prev[w] \in Message /\ 0 < rank[prev[w]] /\ rank[prev[w]] < rank[w]
      <4>1. stage[w] \in Parked /\ Interrupts(w)
        BY <3>3, StageKinds DEF Flags
      <4> QED
        BY <4>1 DEF Protocol, Parked_behind
    <3>5. stage[prev[w]] # "waiting"
      BY <3>2, <3>3, <3>4
    <3>6. stage[prev[w]] # "queued"
      BY <3>4 DEF Protocol, Ranked
    <3>7. prev[w] \in done
      BY <2>1, <3>4, <3>5, <3>6 DEF Flags
    <3> QED
      BY <3>3, <3>7 DEF MissedWakeUp
  <2>3. Cardinality(InFlight) < config.limit
    <3>1. InFlight = {}
      BY <2>1, <2>2 DEF InFlight
    <3>2. config.limit \in Nat \ {0}
      BY <2>1, DispatchAssumption DEF TypeOK, Config
    <3> QED
      BY <3>1, <3>2, FS_EmptySet
  <2> DEFINE Q == {m \in Message : stage[m] = "queued"}
  <2>4. Q \in SUBSET Nat /\ z \in Q
    BY <2>1, <2>2, DispatchAssumption
  <2>5. PICK q \in Q : \A n \in Q : ~(n < q)
    <3>1. Q # {}
      BY <2>4
    <3> QED
      BY <2>4, <3>1, NatMin
  <2> QED
    BY <2>3, <2>5 DEF CanGoOn, HasPermit
<1> QED
  BY <1>1, ProtocolHolds, FlagsHold, PTL
==============================================================================
