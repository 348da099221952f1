-------------------------------- MODULE MCSop --------------------------------
(* A small instance of SopEngine for TLC: an urgent procedure that always    *)
(* asks for its second step, and an ordinary one that asks before its first  *)
(* and has a cooldown.                                                       *)
EXTENDS SopEngine, TLC

Deploy == "deploy"
Clean  == "clean"

Procedures  == {Deploy, Clean}
StepCount   == [s \in Procedures |-> 2]
Confirmed   == [s \in Procedures |-> IF s = Deploy THEN {2} ELSE {}]
ModeOf      == [s \in Procedures |-> IF s = Deploy THEN "priority_based" ELSE "supervised"]
UrgentOnes  == {Deploy}
Concurrency == [s \in Procedures |-> 1]
CallerSymmetry == Permutations(Caller)

CooldownOf  == [s \in Procedures |-> IF s = Deploy THEN 0 ELSE 1]
==============================================================================
