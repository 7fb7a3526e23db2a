------------------------- MODULE MCActivityDelivery -------------------------
(***************************************************************************)
(* Small instances of ActivityDelivery for TLC.                            *)
(***************************************************************************)
EXTENDS ActivityDelivery, TLC

OneRun == [a \in Acts |-> CHOOSE r \in Runs : TRUE]
OneKey == [a \in Acts |-> "key"]
EveryAct == Acts
NoneUnroutable == {}
Interchangeable == Permutations(Invocations) \cup Permutations(Acts)

-----------------------------------------------------------------------------
(* The behaviours of Spec that start once every attempt has been offered, in *)
(* which the workflow function does not come back before the workers have    *)
(* answered: for the runs that are about workers and permits.                *)
WorkersInit ==
  /\ delivery = [a \in Acts |-> [k \in Deliveries |->
       IF k = 0 THEN Pending(0) ELSE NoDelivery]]
  /\ step = [a \in Acts |-> "offered"]
  /\ \E last \in [Runs -> Acts] :
       /\ \A r \in Runs : RunOf[last[r]] = r
       /\ run = [r \in Runs |-> [state |-> "waiting", control |-> "run", wait |-> last[r]]]
  /\ dead = [a \in Acts |-> [k \in Deliveries |-> "none"]]
  /\ claim = [a \in Acts |-> NoClaim]
  /\ permit = [a \in Acts |-> NoPermit]
  /\ ended = [r \in Runs |-> "none"]
  /\ answer = [a \in Acts |-> "none"]
  /\ worker = [i \in Invocations |-> Idle]

WorkersNext ==
  \/ \E a \in Acts, k \in Deliveries : Exhausted(a, k)
  \/ \E i \in Invocations : Take(i) \/ Turn(i) \/ Renew(i) \/ Crash(i) \/ Unwind(i)
  \/ Tick

WorkersSpec == WorkersInit /\ [][WorkersNext]_vars
FairWorkersSpec == WorkersSpec /\ Fairness
=============================================================================
