-------------------------- MODULE RetentionProofs ---------------------------
(***************************************************************************)
(* Retention, for any chains, identifiers, operators and limits: what is   *)
(* left refers to nothing that was removed, links outlive the chains they  *)
(* join, and keys stay reserved. The argument is about the locks that      *)
(* prune and the acceptances hold while they decide.                       *)
(***************************************************************************)
EXTENDS Retention, TLAPS

USE DEF journal, vars

-----------------------------------------------------------------------------
(* The chains: every execution has a place of its own in one of them. *)

Mates(e, f) == ChainOf(e) = ChainOf(f)

\* The chain and the position of an execution lead back to it.
LEMMA PlaceOf ==
  ASSUME NEW e \in Executions
  PROVE  /\ ChainOf(e) \in Chains
         /\ Chain[ChainOf(e)] \in Seq(Nat)
         /\ Position(e) \in 1..Len(Chain[ChainOf(e)])
         /\ Chain[ChainOf(e)][Position(e)] = e
<1>1. PICK c \in Chains : e \in ToSet(Chain[c])
  BY DEF Executions
<1>2. ChainOf(e) \in Chains /\ e \in ToSet(Chain[ChainOf(e)])
  BY <1>1 DEF ChainOf
<1>3. Chain[ChainOf(e)] \in Seq(Nat)
  BY <1>2, ChainAssumption
<1>4. PICK i \in DOMAIN Chain[ChainOf(e)] : Chain[ChainOf(e)][i] = e
  BY <1>2 DEF ToSet
<1>5. Position(e) \in DOMAIN Chain[ChainOf(e)] /\ Chain[ChainOf(e)][Position(e)] = e
  BY <1>4 DEF Position
<1> QED
  BY <1>2, <1>3, <1>5

\* The execution at a place has that chain and that position.
LEMMA AtPlace ==
  ASSUME NEW c \in Chains, NEW i \in 1..Len(Chain[c])
  PROVE  Chain[c][i] \in Executions /\ ChainOf(Chain[c][i]) = c /\ Position(Chain[c][i]) = i
<1> DEFINE e == Chain[c][i]
<1>1. Chain[c] \in Seq(Nat) /\ i \in DOMAIN Chain[c]
  BY ChainAssumption
<1>2. e \in ToSet(Chain[c])
  BY <1>1 DEF ToSet
<1>3. e \in Executions
  BY <1>2 DEF Executions
<1>4. ChainOf(e) \in Chains /\ e \in ToSet(Chain[ChainOf(e)])
  BY <1>2 DEF ChainOf
<1>5. ChainOf(e) = c
  BY <1>2, <1>4, ChainAssumption
<1>6. Position(e) \in DOMAIN Chain[c] /\ Chain[c][Position(e)] = e
  BY <1>3, <1>5, PlaceOf
<1>7. Position(e) = i
  BY <1>1, <1>6, ChainAssumption DEF IsInjective
<1> QED
  BY <1>3, <1>5, <1>7

\* The members of a chain are the mates of any of them.
LEMMA MembersAreMates ==
  ASSUME NEW e \in Executions
  PROVE  ToSet(Chain[ChainOf(e)]) = {f \in Executions : Mates(e, f)}
<1>1. ASSUME NEW f \in ToSet(Chain[ChainOf(e)])
      PROVE  f \in Executions /\ Mates(e, f)
  <2>1. ChainOf(e) \in Chains /\ Chain[ChainOf(e)] \in Seq(Nat)
    BY PlaceOf
  <2>2. PICK i \in 1..Len(Chain[ChainOf(e)]) : Chain[ChainOf(e)][i] = f
    BY <1>1, <2>1 DEF ToSet
  <2> QED
    BY <2>1, <2>2, AtPlace DEF Mates
<1>2. ASSUME NEW f \in Executions, Mates(e, f)
      PROVE  f \in ToSet(Chain[ChainOf(e)])
  BY <1>2, PlaceOf DEF Mates, ToSet
<1> QED
  BY <1>1, <1>2

\* Mates at one position are one execution.
LEMMA OnePlace ==
  ASSUME NEW e \in Executions, NEW f \in Executions, Mates(e, f), Position(e) = Position(f)
  PROVE  e = f
  BY PlaceOf DEF Mates

\* The first of a chain, and the next of an execution.
LEMMA FirstPlace ==
  ASSUME NEW c \in Chains
  PROVE  /\ First(c) \in Executions /\ ChainOf(First(c)) = c /\ Position(First(c)) = 1
         /\ \A e \in Executions : Mates(First(c), e) => e = First(c) \/ 1 < Position(e)
<1>1. 1 \in 1..Len(Chain[c])
  BY ChainAssumption
<1>2. First(c) \in Executions /\ ChainOf(First(c)) = c /\ Position(First(c)) = 1
  BY <1>1, AtPlace DEF First
<1>3. ASSUME NEW e \in Executions, Mates(First(c), e), e # First(c)
      PROVE  1 < Position(e)
  <2>1. Position(e) # 1
    BY <1>2, <1>3, OnePlace
  <2> QED
    BY <2>1, PlaceOf
<1> QED
  BY <1>2, <1>3

LEMMA NextPlace ==
  ASSUME NEW e \in Executions, HasNext(e)
  PROVE  /\ NextOf(e) \in Executions /\ Mates(e, NextOf(e)) /\ NextOf(e) # e
         /\ Position(NextOf(e)) = Position(e) + 1
<1>1. ChainOf(e) \in Chains /\ Chain[ChainOf(e)] \in Seq(Nat) /\ Position(e) \in 1..Len(Chain[ChainOf(e)])
  BY PlaceOf
<1>2. Position(e) + 1 \in 1..Len(Chain[ChainOf(e)])
  BY <1>1 DEF HasNext
<1>3. NextOf(e) \in Executions /\ ChainOf(NextOf(e)) = ChainOf(e) /\ Position(NextOf(e)) = Position(e) + 1
  BY <1>1, <1>2, AtPlace DEF NextOf
<1> QED
  BY <1>1, <1>3 DEF Mates

\* The two ends of a link are executions of two chains.
LEMMA EndsOf ==
  ASSUME NEW l \in {<<Caller[c], First(c)>> : c \in Children}
  PROVE  l[1] \in Executions /\ l[2] \in Executions /\ ~Mates(l[1], l[2])
<1>1. PICK c \in Children : l = <<Caller[c], First(c)>>
  OBVIOUS
<1>2. c \in Chains /\ Caller[c] \in Executions \ ToSet(Chain[c])
  BY ChainAssumption
<1>3. First(c) \in Executions /\ ChainOf(First(c)) = c
  BY <1>2, FirstPlace
<1>4. ToSet(Chain[c]) = {f \in Executions : Mates(First(c), f)}
  BY <1>3, MembersAreMates
<1> QED
  BY <1>1, <1>2, <1>3, <1>4 DEF Mates

-----------------------------------------------------------------------------
(* The inductive invariant. *)

Record(r) == r \in [pc : {r.pc}, old : {r.old}, rest : {r.rest}, read : {r.read}, picked : {r.picked},
                    plan : {r.plan}, todo : {r.todo}]
ActorsShape ==
  /\ op = [o \in Operators |-> op[o]] /\ \A o \in Operators : Record(op[o])
  /\ held = [a \in Actors |-> held[a]]

\* Generations come in order, and are removed together.
InOrder ==
  \A e, f \in Executions :
    Mates(e, f) /\ Position(e) < Position(f) /\ run[f] # "none" => run[e] \in {"continued", "pruned"}
RemovedWhole ==
  \A e, f \in Executions : Mates(e, f) /\ run[e] = "pruned" => run[f] \in {"pruned", "none"}
HasGeneration ==
  \A e \in Executions : run[e] = "continued" => HasNext(e) /\ Exists(NextOf(e))
LinksHold == \A l \in links : Exists(l[1]) /\ Exists(l[2])
ChainInv == InOrder /\ RemovedWhole /\ HasGeneration /\ LinksHold

\* A chain that has ended, or was removed, for good.
Dead(e) == run[e] # "none" /\ \A f \in Executions : Mates(e, f) => run[f] # "active"

\* What an acceptance has found holds while it goes on.
StartSound(c) ==
  /\ start[c] \in {"tombstone", "insert"} => Key(First(c)) \in held[c]
  /\ start[c] = "insert" => run[First(c)] # "pruned"
  /\ c \in Children /\ start[c] # "idle" =>
       Row(Caller[c]) \in held[c] \/ run[Caller[c]] = "pruned"
StartInv == \A c \in Chains : StartSound(c)

\* What prune has checked: the candidates it is through with.
Checked(o) == (Selected(o) \ op[o].todo) \cap Executions
Settled(e) ==
  /\ Terminal(e)
  /\ \A l \in links : (l[1] = e => Dead(l[2])) /\ (l[2] = e => Dead(l[1]))
PruneSound(o) ==
  op[o].pc \in {"key", "row", "check"} =>
    /\ op[o].pc \in {"row", "check"} /\ Candidate(o) \in Executions =>
         Key(Candidate(o)) \in held[o] /\ run[Candidate(o)] # "none"
    /\ op[o].pc = "check" /\ Candidate(o) \in Executions /\ Exists(Candidate(o)) =>
         Row(Candidate(o)) \in held[o]
    /\ \A e \in Checked(o) : Key(e) \in held[o] /\ Row(e) \in held[o] /\ Settled(e)
PruneInv == \A o \in Operators : PruneSound(o)

Inv == TypeOK /\ ActorsShape /\ ChainInv /\ StartInv /\ PruneInv

-----------------------------------------------------------------------------
(* What a step writes to the executions and their links. *)

Opened(c) == run[First(c)] = "none" /\ run' = [run EXCEPT ![First(c)] = "active"]
Found(c) == Exists(First(c)) /\ run' = run
Joined(c) ==
  /\ c \in Children /\ Exists(Caller[c])
  /\ Row(Caller[c]) \in held[c] /\ Key(First(c)) \in held[c]
  /\ Opened(c) \/ Found(c)
  /\ links' = links \cup {<<Caller[c], First(c)>>}
Continued(e) ==
  /\ run[e] = "active" /\ HasNext(e)
  /\ run' = [run EXCEPT ![e] = "continued", ![NextOf(e)] = "active"]
Ended(e) == run[e] = "active" /\ run' = [run EXCEPT ![e] = "ended"]
Removed(o) ==
  /\ op[o].pc = "key" /\ op[o].todo = {} /\ Whole(o)
  /\ run' = [e \in Executions |-> IF e \in Selected(o) THEN "pruned" ELSE run[e]]
  /\ links' = {l \in links : l[1] \notin Selected(o) /\ l[2] \notin Selected(o)}
  /\ op' = [op EXCEPT ![o] = NoOp]

Writes ==
  \/ run' = run /\ links' = links
  \/ \E c \in Chains : Opened(c) /\ links' = links
  \/ \E c \in Chains : Joined(c)
  \/ \E e \in Executions : Continued(e) /\ links' = links
  \/ \E e \in Executions : Ended(e) /\ links' = links
  \/ \E o \in Operators : Removed(o)

\* Apply removes, or changes nothing.
LEMMA ApplyWrites ==
  ASSUME NEW o \in Operators, Apply(o)
  PROVE  Writes
BY DEF Apply, Writes, Removed

\* An insert opens the first generation, unless it is there.
LEMMA InsertWrites ==
  ASSUME TypeOK, StartInv, NEW c \in Chains, Insert(c)
  PROVE  Writes
<1>1. First(c) \in Executions
  BY FirstPlace
<1>2. links' = links /\ run[First(c)] # "pruned"
  BY DEF Insert, StartInv, StartSound
<1>3. CASE Exists(First(c))
  BY <1>2, <1>3 DEF Insert, Accepted, Writes
<1>4. CASE ~Exists(First(c))
  BY <1>2, <1>4 DEF Insert, Accepted, Writes, Opened, Exists
<1> QED
  BY <1>3, <1>4

LEMMA LinkWrites ==
  ASSUME TypeOK, StartInv, NEW c \in Chains, Link(c)
  PROVE  Writes
<1>1. c \in Children /\ start[c] = "insert" /\ Caller[c] \in Executions
  BY ChainAssumption DEF Link
<1>2. Key(First(c)) \in held[c] /\ run[First(c)] # "pruned"
  BY <1>1 DEF StartInv, StartSound
<1>3. CASE run' = run /\ links' = links
  BY <1>3 DEF Writes
<1>4. CASE /\ Exists(Caller[c]) /\ Accepted(c)
           /\ links' = links \cup {<<Caller[c], First(c)>>}
  <2>1. Row(Caller[c]) \in held[c]
    BY <1>1, <1>4 DEF StartInv, StartSound, Exists
  <2>2. Opened(c) \/ Found(c)
    BY <1>2, <1>4 DEF Accepted, Opened, Found, Exists
  <2> QED
    BY <1>1, <1>2, <1>4, <2>1, <2>2 DEF Joined, Writes
<1> QED
  BY <1>3, <1>4 DEF Link

\* Every step writes in one of these ways.
LEMMA StepWrites ==
  ASSUME TypeOK, StartInv, Next
  PROVE  Writes
<1>1. ASSUME NEW o \in Operators, Review(o)
      PROVE  Writes
  BY <1>1 DEF Review, Preview, ReadChain, AskReason, Planned, Writes
<1>2. ASSUME NEW o \in Operators, Prune(o)
      PROVE  Writes
  <2>1. CASE Apply(o)
    BY <2>1, ApplyWrites
  <2>2. CASE ~Apply(o)
    BY <1>2, <2>2 DEF Prune, Confirm, Vanished, Stale, LockKey, LockRow, Refuse, Select, Writes
  <2> QED
    BY <2>1, <2>2
<1>3. ASSUME NEW c \in Chains, Accept(c)
      PROVE  Writes
  <2>1. CASE LockParent(c) \/ AcceptKey(c) \/ Tombstone(c)
    BY <2>1 DEF LockParent, AcceptKey, Tombstone, Writes
  <2> QED
    BY <1>3, <2>1, InsertWrites, LinkWrites DEF Accept
<1>4. ASSUME NEW e \in Executions, ContinueAsNew(e) \/ Complete(e) \/ Drain(e) \/ LateEvent(e)
      PROVE  Writes
  BY <1>4 DEF ContinueAsNew, Complete, Drain, LateEvent, Writes, Continued, Ended
<1>5. ASSUME NEW a \in Actors, Victim(a)
      PROVE  Writes
  BY <1>5 DEF Victim, Writes
<1> QED
  BY <1>1, <1>2, <1>3, <1>4, <1>5 DEF Next

-----------------------------------------------------------------------------
(* The chains keep their order. *)

OrderInv == InOrder /\ RemovedWhole /\ HasGeneration

RunStates == {"none", "active", "continued", "ended", "pruned"}

LEMMA OpenedKeepsOrder ==
  ASSUME TypeOK, OrderInv, NEW c \in Chains, Opened(c)
  PROVE  OrderInv'
<1> DEFINE x == First(c)
<1>1. x \in Executions /\ \A e \in Executions : Mates(x, e) => e = x \/ Position(x) < Position(e)
  BY FirstPlace
<1>2. \A e \in Executions : run'[e] = IF e = x THEN "active" ELSE run[e]
  BY <1>1 DEF TypeOK, Opened
<1>3. run[x] = "none"
  BY DEF Opened
<1>4. \A e \in Executions : Mates(x, e) => run[e] = "none"
  BY <1>1, <1>3 DEF OrderInv, InOrder
<1> HIDE DEF x
<1>5. InOrder'
  <2> SUFFICES ASSUME NEW e \in Executions, NEW f \in Executions,
                      Mates(e, f), Position(e) < Position(f), run'[f] # "none"
               PROVE  run'[e] \in {"continued", "pruned"}
    BY DEF InOrder, Mates, ChainOf, Position
  <2>1. f # x
    <3> SUFFICES ASSUME f = x PROVE FALSE
      OBVIOUS
    <3>1. Mates(x, e)
      BY DEF Mates
    <3> QED
      BY <1>1, <3>1, PlaceOf
  <2> QED
    BY <1>2, <1>3, <2>1 DEF OrderInv, InOrder
<1>6. RemovedWhole'
  <2> SUFFICES ASSUME NEW e \in Executions, NEW f \in Executions, Mates(e, f), run'[e] = "pruned"
               PROVE  run'[f] \in {"pruned", "none"}
    BY DEF RemovedWhole, Mates, ChainOf
  <2>1. e # x /\ run[e] = "pruned"
    BY <1>2
  <2>2. f # x
    BY <1>4, <2>1 DEF Mates
  <2> QED
    BY <1>2, <2>1, <2>2 DEF OrderInv, RemovedWhole
<1>7. HasGeneration'
  <2> SUFFICES ASSUME NEW e \in Executions, run'[e] = "continued"
               PROVE  HasNext(e) /\ run'[NextOf(e)] \notin {"none", "pruned"}
    BY DEF HasGeneration, HasNext, Exists, NextOf, ChainOf, Position
  <2>1. run[e] = "continued"
    BY <1>2
  <2>2. HasNext(e) /\ Exists(NextOf(e))
    BY <2>1 DEF OrderInv, HasGeneration
  <2> QED
    BY <1>2, <2>2, NextPlace DEF Exists
<1> QED
  BY <1>5, <1>6, <1>7 DEF OrderInv

LEMMA ContinuedKeepsOrder ==
  ASSUME TypeOK, OrderInv, NEW x \in Executions, Continued(x)
  PROVE  /\ OrderInv' /\ run[NextOf(x)] = "none"
<1> DEFINE n == NextOf(x)
<1>1. n \in Executions /\ Mates(x, n) /\ n # x /\ Position(n) = Position(x) + 1
  BY NextPlace DEF Continued
<1>2. run[x] = "active"
  BY DEF Continued
<1>3. Position(x) < Position(n)
  BY <1>1, PlaceOf
<1>4. run[n] = "none"
  BY <1>1, <1>2, <1>3 DEF OrderInv, InOrder
<1>5. \A e \in Executions : run'[e] = IF e = n THEN "active" ELSE IF e = x THEN "continued" ELSE run[e]
  BY <1>1 DEF TypeOK, Continued
<1> HIDE DEF n
<1>6. InOrder'
  <2> SUFFICES ASSUME NEW e \in Executions, NEW f \in Executions,
                      Mates(e, f), Position(e) < Position(f), run'[f] # "none"
               PROVE  run'[e] \in {"continued", "pruned"}
    BY DEF InOrder, Mates, ChainOf, Position
  <2>1. CASE f = n
    <3>1. Mates(e, x) /\ Position(e) <= Position(x)
      BY <1>1, <2>1, PlaceOf DEF Mates
    <3>2. CASE Position(e) = Position(x)
      <4>1. e = x
        BY <3>1, <3>2, OnePlace
      <4> QED
        BY <1>1, <1>5, <4>1
    <3>3. CASE Position(e) # Position(x)
      <4>1. Position(e) < Position(x)
        BY <3>1, <3>3, PlaceOf
      <4>2. run[e] \in {"continued", "pruned"}
        BY <1>2, <3>1, <4>1 DEF OrderInv, InOrder
      <4> QED
        BY <1>2, <1>4, <1>5, <4>2
    <3> QED
      BY <3>2, <3>3
  <2>2. CASE f # n
    <3>1. run[f] # "none"
      BY <1>2, <1>5, <2>2
    <3>2. run[e] \in {"continued", "pruned"}
      BY <3>1 DEF OrderInv, InOrder
    <3> QED
      BY <1>2, <1>4, <1>5, <3>2
  <2> QED
    BY <2>1, <2>2
<1>7. RemovedWhole'
  <2> SUFFICES ASSUME NEW e \in Executions, NEW f \in Executions, Mates(e, f), run'[e] = "pruned"
               PROVE  run'[f] \in {"pruned", "none"}
    BY DEF RemovedWhole, Mates, ChainOf
  <2>1. run[e] = "pruned"
    BY <1>5
  <2>2. f # x
    BY <1>2, <2>1 DEF OrderInv, RemovedWhole
  <2>3. f # n
    <3> SUFFICES ASSUME f = n PROVE FALSE
      OBVIOUS
    <3>1. Mates(e, x)
      BY <1>1 DEF Mates
    <3> QED
      BY <1>2, <2>1, <3>1 DEF OrderInv, RemovedWhole
  <2> QED
    BY <1>5, <2>1, <2>2, <2>3 DEF OrderInv, RemovedWhole
<1>8. HasGeneration'
  <2> SUFFICES ASSUME NEW e \in Executions, run'[e] = "continued"
               PROVE  HasNext(e) /\ run'[NextOf(e)] \notin {"none", "pruned"}
    BY DEF HasGeneration, HasNext, Exists, NextOf, ChainOf, Position
  <2>1. CASE e = x
    BY <1>1, <1>5, <2>1 DEF n, Continued
  <2>2. CASE e # x
    <3>1. run[e] = "continued"
      BY <1>5, <2>2
    <3>2. HasNext(e) /\ Exists(NextOf(e))
      BY <3>1 DEF OrderInv, HasGeneration
    <3> QED
      BY <1>5, <3>2, NextPlace DEF Exists
  <2> QED
    BY <2>1, <2>2
<1> QED
  BY <1>4, <1>6, <1>7, <1>8 DEF OrderInv, n

LEMMA EndedKeepsOrder ==
  ASSUME TypeOK, OrderInv, NEW x \in Executions, Ended(x)
  PROVE  OrderInv'
<1>1. run[x] = "active" /\ \A e \in Executions : run'[e] = IF e = x THEN "ended" ELSE run[e]
  BY DEF TypeOK, Ended
<1>2. InOrder'
  <2> SUFFICES ASSUME NEW e \in Executions, NEW f \in Executions,
                      Mates(e, f), Position(e) < Position(f), run'[f] # "none"
               PROVE  run'[e] \in {"continued", "pruned"}
    BY DEF InOrder, Mates, ChainOf, Position
  <2>1. run[f] # "none"
    BY <1>1
  <2>2. run[e] \in {"continued", "pruned"}
    BY <2>1 DEF OrderInv, InOrder
  <2> QED
    BY <1>1, <2>2
<1>3. RemovedWhole'
  <2> SUFFICES ASSUME NEW e \in Executions, NEW f \in Executions, Mates(e, f), run'[e] = "pruned"
               PROVE  run'[f] \in {"pruned", "none"}
    BY DEF RemovedWhole, Mates, ChainOf
  <2>1. run[e] = "pruned"
    BY <1>1
  <2> QED
    BY <1>1, <2>1 DEF OrderInv, RemovedWhole
<1>4. HasGeneration'
  <2> SUFFICES ASSUME NEW e \in Executions, run'[e] = "continued"
               PROVE  HasNext(e) /\ run'[NextOf(e)] \notin {"none", "pruned"}
    BY DEF HasGeneration, HasNext, Exists, NextOf, ChainOf, Position
  <2>1. HasNext(e) /\ Exists(NextOf(e))
    BY <1>1 DEF OrderInv, HasGeneration
  <2> QED
    BY <1>1, <2>1, NextPlace DEF Exists
<1> QED
  BY <1>2, <1>3, <1>4 DEF OrderInv

\* A removal takes executions that were found settled under their locks, and
\* leaves no other member of their chains.
LEMMA RemovedTakes ==
  ASSUME PruneInv, NEW o \in Operators, Removed(o)
  PROVE  /\ \A e \in Executions : run'[e] = IF e \in Selected(o) THEN "pruned" ELSE run[e]
         /\ \A e, f \in Executions : e \in Selected(o) /\ Mates(e, f) /\ Exists(f) => f \in Selected(o)
         /\ \A e \in Executions : e \in Selected(o) => Settled(e) /\ Key(e) \in held[o]
<1>1. ASSUME NEW e \in Executions, NEW f \in Executions, e \in Selected(o), Mates(e, f), Exists(f)
      PROVE  f \in Selected(o)
  <2>1. f \in ToSet(Chain[ChainOf(e)])
    BY <1>1, MembersAreMates
  <2> QED
    BY <1>1, <2>1 DEF Removed, Whole
<1>2. ASSUME NEW e \in Executions, e \in Selected(o)
      PROVE  Settled(e) /\ Key(e) \in held[o]
  <2>1. e \in Checked(o) /\ op[o].pc = "key"
    BY <1>2 DEF Removed, Checked
  <2> QED
    BY <2>1 DEF PruneInv, PruneSound
<1> QED
  BY <1>1, <1>2 DEF Removed

LEMMA RemovedKeepsOrder ==
  ASSUME TypeOK, OrderInv, PruneInv, NEW o \in Operators, Removed(o)
  PROVE  OrderInv'
<1> DEFINE S == Selected(o)
<1>1. /\ \A e \in Executions : run'[e] = IF e \in S THEN "pruned" ELSE run[e]
      /\ \A e, f \in Executions : e \in S /\ Mates(e, f) /\ Exists(f) => f \in S
      /\ \A e \in Executions : e \in S => run[e] \in {"continued", "ended"}
  BY RemovedTakes DEF Settled, Terminal
<1>2. \A e \in Executions : run[e] \in RunStates
  BY DEF TypeOK, RunStates
<1> HIDE DEF S
<1>3. InOrder'
  <2> SUFFICES ASSUME NEW e \in Executions, NEW f \in Executions,
                      Mates(e, f), Position(e) < Position(f), run'[f] # "none"
               PROVE  run'[e] \in {"continued", "pruned"}
    BY DEF InOrder, Mates, ChainOf, Position
  <2>1. run[f] # "none"
    BY <1>1
  <2>2. run[e] \in {"continued", "pruned"}
    BY <2>1 DEF OrderInv, InOrder
  <2> QED
    BY <1>1, <2>2
<1>4. RemovedWhole'
  <2> SUFFICES ASSUME NEW e \in Executions, NEW f \in Executions, Mates(e, f), run'[e] = "pruned"
               PROVE  run'[f] \in {"pruned", "none"}
    BY DEF RemovedWhole, Mates, ChainOf
  <2>1. CASE e \in S
    <3>1. Exists(f) => f \in S
      BY <1>1, <2>1
    <3> QED
      BY <1>1, <3>1 DEF Exists
  <2>2. CASE e \notin S
    <3>1. run[f] \in {"pruned", "none"}
      BY <1>1, <2>2 DEF OrderInv, RemovedWhole
    <3> QED
      BY <1>1, <3>1
  <2> QED
    BY <2>1, <2>2
<1>5. HasGeneration'
  <2> SUFFICES ASSUME NEW e \in Executions, run'[e] = "continued"
               PROVE  HasNext(e) /\ run'[NextOf(e)] \notin {"none", "pruned"}
    BY DEF HasGeneration, HasNext, Exists, NextOf, ChainOf, Position
  <2>1. run[e] = "continued" /\ e \notin S
    BY <1>1
  <2>2. HasNext(e) /\ Exists(NextOf(e))
    BY <2>1 DEF OrderInv, HasGeneration
  <2>3. NextOf(e) \in Executions /\ Mates(NextOf(e), e)
    BY <2>2, NextPlace DEF Mates
  <2>4. NextOf(e) \notin S
    BY <1>1, <2>1, <2>3 DEF Exists
  <2> QED
    BY <1>1, <2>2, <2>3, <2>4 DEF Exists
<1> QED
  BY <1>3, <1>4, <1>5 DEF OrderInv

LEMMA WritesKeepOrder ==
  ASSUME TypeOK, OrderInv, PruneInv, Writes
  PROVE  OrderInv'
<1>1. ASSUME run' = run
      PROVE  OrderInv'
  BY <1>1 DEF OrderInv, InOrder, RemovedWhole, HasGeneration, Mates, ChainOf, Position, HasNext, NextOf, Exists
<1>2. ASSUME NEW c \in Chains, Joined(c)
      PROVE  OrderInv'
  BY <1>1, <1>2, OpenedKeepsOrder DEF Joined, Found
<1> QED
  BY <1>1, <1>2, OpenedKeepsOrder, ContinuedKeepsOrder, EndedKeepsOrder, RemovedKeepsOrder DEF Writes

-----------------------------------------------------------------------------
(* What lasts: tombstones, generations, the ends of chains. *)

\* A tombstone stays; an execution does not go back to "none".
Lasting ==
  \A e \in Executions :
    /\ run[e] = "pruned" => run'[e] = "pruned"
    /\ run[e] # "none" => run'[e] # "none"

LEMMA WritesLast ==
  ASSUME TypeOK, OrderInv, PruneInv, Writes
  PROVE  Lasting
<1>1. ASSUME NEW c \in Chains, Opened(c)
      PROVE  Lasting
  <2>1. First(c) \in Executions
    BY FirstPlace
  <2> QED
    BY <1>1, <2>1 DEF Opened, Lasting, TypeOK
<1>2. ASSUME NEW c \in Chains, Joined(c)
      PROVE  Lasting
  BY <1>1, <1>2 DEF Joined, Found, Lasting
<1>3. ASSUME NEW e \in Executions, Continued(e)
      PROVE  Lasting
  <2>1. NextOf(e) \in Executions /\ run[NextOf(e)] = "none" /\ NextOf(e) # e
    BY <1>3, ContinuedKeepsOrder, NextPlace DEF Continued
  <2>2. \A f \in Executions : run'[f] = IF f = NextOf(e) THEN "active" ELSE IF f = e THEN "continued" ELSE run[f]
    BY <1>3, <2>1 DEF Continued, TypeOK
  <2>3. run[e] = "active"
    BY <1>3 DEF Continued
  <2> QED
    BY <2>1, <2>2, <2>3 DEF Lasting
<1>4. ASSUME NEW e \in Executions, Ended(e)
      PROVE  Lasting
  BY <1>4 DEF Ended, Lasting, TypeOK
<1>5. ASSUME NEW o \in Operators, Removed(o)
      PROVE  Lasting
  BY <1>5 DEF Removed, Lasting
<1> QED
  BY <1>1, <1>2, <1>3, <1>4, <1>5 DEF Writes, Lasting

\* A chain that has ended opens no generation again.
LEMMA DeadStaysDead ==
  ASSUME TypeOK, OrderInv, PruneInv, Writes, NEW e \in Executions, Dead(e)
  PROVE  Dead(e)'
<1>1. run'[e] # "none"
  BY WritesLast DEF Lasting, Dead
<1>2. SUFFICES ASSUME NEW f \in Executions, Mates(e, f)
               PROVE  run'[f] # "active"
  BY <1>1 DEF Dead, Mates, ChainOf
<1>3. run[f] # "active" /\ run[e] # "none"
  BY <1>2 DEF Dead
<1>4. ASSUME NEW c \in Chains, Opened(c)
      PROVE  run'[f] # "active"
  <2>1. First(c) \in Executions /\ run[First(c)] = "none"
        /\ \A g \in Executions : Mates(First(c), g) => g = First(c) \/ Position(First(c)) < Position(g)
    BY <1>4, FirstPlace DEF Opened
  <2>2. ~Mates(First(c), e)
    BY <1>3, <2>1 DEF OrderInv, InOrder
  <2>3. f # First(c)
    BY <1>2, <2>2 DEF Mates
  <2> QED
    BY <1>3, <1>4, <2>1, <2>3 DEF Opened, TypeOK
<1>5. ASSUME NEW c \in Chains, Joined(c)
      PROVE  run'[f] # "active"
  BY <1>3, <1>4, <1>5 DEF Joined, Found
<1>6. ASSUME NEW x \in Executions, Continued(x)
      PROVE  run'[f] # "active"
  <2>1. run[x] = "active" /\ NextOf(x) \in Executions /\ Mates(x, NextOf(x))
    BY <1>6, NextPlace DEF Continued
  <2>2. ~Mates(e, x)
    BY <2>1 DEF Dead
  <2>3. f # x /\ f # NextOf(x)
    BY <1>2, <2>1, <2>2 DEF Mates
  <2> QED
    BY <1>3, <1>6, <2>1, <2>3 DEF Continued, TypeOK
<1>7. ASSUME NEW x \in Executions, Ended(x)
      PROVE  run'[f] # "active"
  BY <1>3, <1>7 DEF Ended, TypeOK
<1>8. ASSUME NEW o \in Operators, Removed(o)
      PROVE  run'[f] # "active"
  BY <1>3, <1>8 DEF Removed
<1> QED
  BY <1>3, <1>4, <1>5, <1>6, <1>7, <1>8 DEF Writes

-----------------------------------------------------------------------------
(* What prune has settled under its locks stays settled. *)

LEMMA SettledStays ==
  ASSUME TypeOK, OrderInv, PruneInv, Writes,
         NEW o \in Operators, ~Removed(o),
         NEW e \in Executions, Settled(e), Key(e) \in held[o], Row(e) \in held[o]
  PROVE  Settled(e)'
<1>1. \A a \in Actors \ {o} : Key(e) \notin held[a] /\ Row(e) \notin held[a]
  BY DEF TypeOK, Actors
<1>2. run'[e] \in {"continued", "ended"}
  <2>1. run[e] \in {"continued", "ended"}
    BY DEF Settled, Terminal
  <2>2. ASSUME NEW c \in Chains, Opened(c)
        PROVE  run'[e] \in {"continued", "ended"}
    BY <2>1, <2>2, FirstPlace DEF Opened, TypeOK
  <2>3. ASSUME NEW c \in Chains, Joined(c)
        PROVE  run'[e] \in {"continued", "ended"}
    BY <2>1, <2>2, <2>3 DEF Joined, Found
  <2>4. ASSUME NEW x \in Executions, Continued(x)
        PROVE  run'[e] \in {"continued", "ended"}
    <3>1. NextOf(x) \in Executions /\ run[NextOf(x)] = "none" /\ run[x] = "active"
      BY <2>4, ContinuedKeepsOrder, NextPlace DEF Continued
    <3> QED
      BY <2>1, <2>4, <3>1 DEF Continued, TypeOK
  <2>5. ASSUME NEW x \in Executions, Ended(x)
        PROVE  run'[e] \in {"continued", "ended"}
    BY <2>1, <2>5 DEF Ended, TypeOK
  <2>6. ASSUME NEW q \in Operators, Removed(q)
        PROVE  run'[e] \in {"continued", "ended"}
    <3>1. q # o
      BY <2>6
    <3>2. e \notin Selected(q)
      BY <1>1, <2>6, <3>1, RemovedTakes DEF Actors
    <3> QED
      BY <2>1, <2>6, <3>2 DEF Removed
  <2> QED
    BY <2>1, <2>2, <2>3, <2>4, <2>5, <2>6 DEF Writes
<1>3. ASSUME NEW l \in links', l[1] = e \/ l[2] = e
      PROVE  l \in links
  <2>1. ASSUME NEW c \in Chains, Joined(c), l = <<Caller[c], First(c)>>
        PROVE  FALSE
    <3>1. c \in Actors /\ c # o
      BY BoundAssumption DEF Actors
    <3>2. Row(Caller[c]) \in held[c] /\ Key(First(c)) \in held[c]
      BY <2>1 DEF Joined
    <3> QED
      BY <1>1, <1>3, <2>1, <3>1, <3>2
  <2> QED
    BY <1>3, <2>1 DEF Writes, Joined, Removed
<1>4. ASSUME NEW l \in links'
      PROVE  (l[1] = e => Dead(l[2])') /\ (l[2] = e => Dead(l[1])')
  <2>1. SUFFICES ASSUME l[1] = e \/ l[2] = e
                 PROVE  (l[1] = e => Dead(l[2])') /\ (l[2] = e => Dead(l[1])')
    OBVIOUS
  <2>2. l \in links
    BY <1>3, <2>1
  <2>3. (l[1] = e => Dead(l[2])) /\ (l[2] = e => Dead(l[1]))
    BY <2>2 DEF Settled
  <2>4. l[1] \in Executions /\ l[2] \in Executions
    BY <2>2, EndsOf DEF TypeOK
  <2> QED
    BY <2>3, <2>4, DeadStaysDead
<1> QED
  BY <1>2, <1>4 DEF Settled, Terminal

\* The links that stay, and those that are new, have both ends.
LEMMA WritesKeepLinks ==
  ASSUME TypeOK, OrderInv, LinksHold, PruneInv, Writes
  PROVE  LinksHold'
<1>1. SUFFICES ASSUME NEW l \in links'
               PROVE  run'[l[1]] \notin {"none", "pruned"} /\ run'[l[2]] \notin {"none", "pruned"}
  BY DEF LinksHold, Exists
<1>2. ASSUME l \in links
      PROVE  l[1] \in Executions /\ l[2] \in Executions /\ Exists(l[1]) /\ Exists(l[2])
  BY <1>2, EndsOf DEF TypeOK, LinksHold
<1>3. Lasting
  BY WritesLast
<1>4. ASSUME NEW c \in Chains, Opened(c)
      PROVE  \A e \in Executions : run'[e] = IF e = First(c) THEN "active" ELSE run[e]
  BY <1>4, FirstPlace DEF Opened, TypeOK
<1>5. ASSUME NEW c \in Chains, Opened(c), links' = links
      PROVE  run'[l[1]] \notin {"none", "pruned"} /\ run'[l[2]] \notin {"none", "pruned"}
  BY <1>2, <1>4, <1>5 DEF Exists
<1>6. ASSUME NEW c \in Chains, Joined(c)
      PROVE  run'[l[1]] \notin {"none", "pruned"} /\ run'[l[2]] \notin {"none", "pruned"}
  <2>1. First(c) \in Executions /\ Caller[c] \in Executions
    BY <1>6, FirstPlace, ChainAssumption DEF Joined
  <2>2. \A e \in Executions : run'[e] = run[e] \/ run'[e] = "active"
    BY <1>4, <1>6 DEF Joined, Found
  <2>3. run'[First(c)] \notin {"none", "pruned"}
    BY <1>4, <1>6, <2>1 DEF Joined, Found, Exists
  <2>4. CASE l \in links
    BY <1>2, <2>2, <2>4 DEF Exists
  <2>5. CASE l = <<Caller[c], First(c)>>
    BY <1>6, <2>1, <2>2, <2>3, <2>5 DEF Joined, Exists
  <2> QED
    BY <1>6, <2>4, <2>5 DEF Joined
<1>7. ASSUME NEW x \in Executions, Continued(x), links' = links
      PROVE  run'[l[1]] \notin {"none", "pruned"} /\ run'[l[2]] \notin {"none", "pruned"}
  <2>1. NextOf(x) \in Executions
    BY <1>7, NextPlace DEF Continued
  <2>2. \A e \in Executions : run'[e] \in {run[e], "active", "continued"}
    BY <1>7, <2>1 DEF Continued, TypeOK
  <2> QED
    BY <1>2, <1>7, <2>2 DEF Exists
<1>8. ASSUME NEW x \in Executions, Ended(x), links' = links
      PROVE  run'[l[1]] \notin {"none", "pruned"} /\ run'[l[2]] \notin {"none", "pruned"}
  <2>1. \A e \in Executions : run'[e] \in {run[e], "ended"}
    BY <1>8 DEF Ended, TypeOK
  <2> QED
    BY <1>2, <1>8, <2>1 DEF Exists
<1>9. ASSUME NEW o \in Operators, Removed(o)
      PROVE  run'[l[1]] \notin {"none", "pruned"} /\ run'[l[2]] \notin {"none", "pruned"}
  BY <1>2, <1>9 DEF Removed, Exists
<1> QED
  BY <1>2, <1>5, <1>6, <1>7, <1>8, <1>9 DEF Writes, Exists

-----------------------------------------------------------------------------
(* Who moves: a step is one actor's, or none's. *)

Acts(a) ==
  /\ \A b \in Actors \ {a} : held'[b] = held[b]
  /\ \A o \in Operators \ {a} : op'[o] = op[o]
  /\ \A c \in Chains \ {a} : start'[c] = start[c]

ShapeOK ==
  /\ ActorsShape
  /\ \A o \in Operators : op[o].pc \in {"idle", "preview", "planned", "key", "row", "check"}
  /\ start \in [Chains -> {"idle", "key", "tombstone", "insert"}]
  /\ \A a, b \in Actors : a # b => held[a] \cap held[b] = {}

\* The operator moves on with its plan, or gives up.
Moved(o) == Record(op'[o]) /\ \A q \in Operators \ {o} : op'[q] = op[q]
Onward(o, pc, todo) ==
  Moved(o) /\ op'[o].pc = pc /\ op'[o].todo = todo /\ op'[o].plan = op[o].plan
Reviewing == {"idle", "preview", "planned"}
Away(o) == Moved(o) /\ op'[o].pc \in Reviewing

LEMMA ActorsApart ==
  Operators \cap Chains = {} /\ Operators \subseteq Actors /\ Chains \subseteq Actors
BY BoundAssumption DEF Actors

ReadOf(o, c) ==
  LET members == SelectSeq(Chain[c], Exists)
      listed == \A i \in DOMAIN members : Terminal(members[i]) /\ Version(members[i]) \in op[o].old
  IN IF listed THEN [i \in DOMAIN members |-> Version(members[i])] ELSE <<>>

LEMMA ReviewMoves ==
  ASSUME ShapeOK, NEW o \in Operators, Review(o)
  PROVE  Away(o) /\ start' = start /\ held' = held
<1>1. op = [q \in Operators |-> op[q]] /\ Record(op[o])
  BY DEF ShapeOK, ActorsShape
<1>2. start' = start /\ held' = held
  BY DEF Review, Preview, ReadChain, AskReason, Planned
<1>3. ASSUME Preview(o)
      PROVE  Away(o)
  <2>1. PICK old, rest : op' = [op EXCEPT ![o] = [NoOp EXCEPT !.pc = "preview", !.old = old, !.rest = rest]]
    BY <1>3 DEF Preview
  <2> QED
    BY <1>1, <2>1 DEF Away, Moved, Reviewing, NoOp, Record
<1>4. ASSUME ReadChain(o)
      PROVE  Away(o)
  <2>1. PICK c \in op[o].rest :
          op' = [op EXCEPT ![o].rest = op[o].rest \ {c}, ![o].picked = {},
                           ![o].old = IF op[o].rest = {c} THEN {} ELSE op[o].old, ![o].read = ReadOf(o, c)]
    BY <1>4 DEF ReadChain, ReadOf
  <2>2. op[o].pc = "preview"
    BY <1>4 DEF ReadChain
  <2> QED
    BY <1>1, <2>1, <2>2 DEF Away, Moved, Reviewing, Record
<1>5. ASSUME AskReason(o)
      PROVE  Away(o)
  <2>1. PICK read, picked, plan :
          \/ op' = [op EXCEPT ![o].read = read]
          \/ op' = [op EXCEPT ![o].read = read, ![o].picked = picked, ![o].plan = plan]
    BY <1>5 DEF AskReason
  <2>2. op[o].pc = "preview"
    BY <1>5 DEF AskReason
  <2> QED
    BY <1>1, <2>1, <2>2 DEF Away, Moved, Reviewing, Record
<1>6. ASSUME Planned(o)
      PROVE  Away(o)
  <2>1. CASE op[o].plan = {}
    BY <1>1, <1>6, <2>1 DEF Planned, Away, Moved, Reviewing, Record, NoOp
  <2>2. CASE op[o].plan # {}
    <3> DEFINE plan == op[o].plan
    <3>1. op' = [op EXCEPT ![o] = [NoOp EXCEPT !.pc = "planned", !.plan = plan]]
      BY <1>6, <2>2 DEF Planned
    <3> HIDE DEF plan
    <3> QED
      BY <1>1, <3>1 DEF Away, Moved, Reviewing, Record, NoOp
  <2> QED
    BY <2>1, <2>2
<1> QED
  BY <1>2, <1>3, <1>4, <1>5, <1>6 DEF Review

LEMMA NoOpIsAway ==
  ASSUME ShapeOK, NEW o \in Operators, op' = [op EXCEPT ![o] = NoOp]
  PROVE  Away(o)
BY DEF ShapeOK, ActorsShape, Away, Moved, Reviewing, Record, NoOp

LEMMA PruneMoves ==
  ASSUME ShapeOK, NEW o \in Operators, Prune(o)
  PROVE  /\ start' = start
         /\ \/ Away(o) /\ Release(o)
            \/ Confirm(o) /\ Onward(o, "key", {m.id : m \in op[o].plan}) /\ held' = held
            \/ LockKey(o) /\ Onward(o, "row", op[o].todo)
            \/ LockRow(o) /\ Onward(o, "check", op[o].todo)
            \/ Select(o) /\ Onward(o, "key", op[o].todo \ {Candidate(o)}) /\ held' = held
<1>1. op = [q \in Operators |-> op[q]] /\ Record(op[o])
  BY DEF ShapeOK, ActorsShape
<1>2. start' = start
  BY DEF Prune, Confirm, Vanished, Stale, LockKey, LockRow, Refuse, Select, Apply
<1>3. CASE Vanished(o) \/ Refuse(o) \/ Apply(o)
  BY <1>2, <1>3, NoOpIsAway DEF Vanished, Refuse, Stale, Apply
<1>4. CASE Confirm(o)
  BY <1>1, <1>2, <1>4 DEF Confirm, Onward, Moved, Record
<1>5. CASE LockKey(o)
  <2>1. op' = [op EXCEPT ![o].pc = "row"]
    BY <1>5 DEF LockKey
  <2> QED
    BY <1>1, <1>2, <1>5, <2>1 DEF Onward, Moved, Record
<1>6. CASE LockRow(o)
  <2>1. op' = [op EXCEPT ![o].pc = "check"]
    BY <1>6 DEF LockRow
  <2> QED
    BY <1>1, <1>2, <1>6, <2>1 DEF Onward, Moved, Record
<1>7. CASE Select(o)
  <2>1. op' = [op EXCEPT ![o].pc = "key", ![o].todo = op[o].todo \ {Candidate(o)}] /\ held' = held
    BY <1>7 DEF Select
  <2> QED
    BY <1>1, <1>2, <1>7, <2>1 DEF Onward, Moved, Record
<1> QED
  BY <1>2, <1>3, <1>4, <1>5, <1>6, <1>7 DEF Prune

\* The functions stay functions.
Functional ==
  /\ DOMAIN op' = Operators /\ op' = [o \in Operators |-> op'[o]]
  /\ held' = [a \in Actors |-> held'[a]]
  /\ start' = [c \in Chains |-> start'[c]]

LEMMA StaysFunctional ==
  ASSUME ShapeOK, Next
  PROVE  Functional
<1>1. op = [o \in Operators |-> op[o]] /\ held = [a \in Actors |-> held[a]] /\ start = [c \in Chains |-> start[c]]
  BY DEF ShapeOK, ActorsShape
<1>2. ASSUME NEW o \in Operators, Review(o)
      PROVE  Functional
  <2>1. held' = held /\ start' = start
    BY <1>2, ReviewMoves
  <2>2. op' = [q \in Operators |-> op'[q]]
    BY <1>1, <1>2 DEF Review, Preview, ReadChain, AskReason, Planned
  <2> QED
    BY <1>1, <2>1, <2>2 DEF Functional
<1>3. ASSUME NEW o \in Operators, Prune(o)
      PROVE  Functional
  <2>1. start' = start
    BY <1>3, PruneMoves
  <2>2. op' = [q \in Operators |-> op'[q]] /\ held' = [a \in Actors |-> held'[a]]
    BY <1>1, <1>3 DEF Prune, Confirm, Vanished, Stale, LockKey, LockRow, Refuse, Select, Apply, Lock, Release
  <2> QED
    BY <1>1, <2>1, <2>2 DEF Functional
<1>4. ASSUME NEW c \in Chains, Accept(c)
      PROVE  Functional
  BY <1>1, <1>4 DEF Accept, LockParent, AcceptKey, Tombstone, Insert, Link, Lock, Release, StartAt, Functional
<1>5. ASSUME NEW e \in Executions, ContinueAsNew(e) \/ Complete(e) \/ Drain(e) \/ LateEvent(e)
      PROVE  Functional
  BY <1>1, <1>5 DEF ContinueAsNew, Complete, Drain, LateEvent, Functional
<1>6. ASSUME NEW a \in Actors, Victim(a)
      PROVE  Functional
  BY <1>1, <1>6 DEF Victim, Release, Functional
<1> QED
  BY <1>2, <1>3, <1>4, <1>5, <1>6 DEF Next

-----------------------------------------------------------------------------
(* The invariant of prune. *)

\* followContinuation finds the generation that is active, if there is one:
\* the owner of an ended chain says that the chain has ended.
LEMMA OwnerTells ==
  ASSUME TypeOK, OrderInv, NEW e \in Executions, Exists(e), Terminal(Owner(e))
  PROVE  Dead(e)
<1> DEFINE C == Chain[ChainOf(e)]
           S == {i \in Position(e)..Len(C) : \A j \in Position(e)..(i - 1) : run[C[j]] = "continued"}
<1>1. ChainOf(e) \in Chains /\ C \in Seq(Nat) /\ Position(e) \in 1..Len(C)
  BY PlaceOf
<1>2. run[e] # "none" /\ run[e] # "pruned"
  BY DEF Exists
<1>3. SUFFICES ASSUME NEW f \in Executions, Mates(e, f), run[f] = "active"
               PROVE  FALSE
  BY <1>2 DEF Dead
<1> DEFINE p == Position(f)
<1>4. p \in 1..Len(C) /\ C[p] = f
  BY <1>3, PlaceOf DEF Mates
<1>5. Position(e) <= p
  <2> SUFFICES ASSUME p < Position(e) PROVE FALSE
    BY <1>1, <1>4
  <2> QED
    BY <1>2, <1>3 DEF OrderInv, InOrder, Mates
<1>6. p \in S
  <2> SUFFICES ASSUME NEW j \in Position(e)..(p - 1)
               PROVE  run[C[j]] = "continued"
    BY <1>1, <1>4, <1>5
  <2>1. j \in 1..Len(C) /\ j < p
    BY <1>1, <1>4
  <2>2. C[j] \in Executions /\ ChainOf(C[j]) = ChainOf(e) /\ Position(C[j]) = j
    BY <1>1, <2>1, AtPlace
  <2>3. run[C[j]] \in {"continued", "pruned"}
    BY <1>3, <2>1, <2>2 DEF OrderInv, InOrder, Mates
  <2>4. run[C[j]] # "pruned"
    BY <1>2, <2>2 DEF OrderInv, RemovedWhole, Mates
  <2> QED
    BY <2>3, <2>4
<1>7. ASSUME NEW i \in S
      PROVE  i <= p
  <2> SUFFICES ASSUME p < i PROVE FALSE
    BY <1>1, <1>4
  <2>1. p \in Position(e)..(i - 1)
    BY <1>1, <1>4, <1>5
  <2>2. run[C[p]] = "continued"
    BY <1>7, <2>1
  <2> QED
    BY <1>3, <1>4, <2>2
<1>8. \A i \in S : i \in Int
  BY <1>1
<1>9. Max(S) = p
  <2> HIDE DEF S, p
  <2>1. Max(S) \in S /\ Max(S) >= p
    BY <1>6, <1>7, <1>8 DEF Max
  <2> QED
    BY <1>6, <1>7, <1>8, <2>1
<1>10. Owner(e) = C[Max(S)]
  BY DEF Owner
<1> QED
  BY <1>3, <1>4, <1>9, <1>10 DEF Terminal

\* What has no reason to stay is settled.
LEMMA NoReasonSettles ==
  ASSUME TypeOK, OrderInv, LinksHold, NEW e \in Executions, ~Reason(e)
  PROVE  Settled(e)
<1>1. Terminal(e) /\ \A f \in Linked(e) : Terminal(Owner(f))
  BY DEF Reason
<1>2. ASSUME NEW l \in links
      PROVE  (l[1] = e => Dead(l[2])) /\ (l[2] = e => Dead(l[1]))
  <2>1. l[1] \in Executions /\ l[2] \in Executions /\ Exists(l[1]) /\ Exists(l[2])
    BY EndsOf DEF TypeOK, LinksHold
  <2>2. (l[1] = e => l[2] \in Linked(e)) /\ (l[2] = e => l[1] \in Linked(e))
    BY DEF Linked
  <2> QED
    BY <1>1, <2>1, <2>2, OwnerTells
<1> QED
  BY <1>1, <1>2 DEF Settled

Pruning == {"key", "row", "check"}

LEMMA CheckedStays ==
  ASSUME TypeOK, OrderInv, PruneInv, Writes, NEW o \in Operators, ~Removed(o),
         op[o].pc \in Pruning, held[o] \subseteq held'[o]
  PROVE  \A e \in Checked(o) : Key(e) \in held'[o] /\ Row(e) \in held'[o] /\ Settled(e)'
<1> SUFFICES ASSUME NEW e \in Checked(o)
             PROVE  Key(e) \in held'[o] /\ Row(e) \in held'[o] /\ Settled(e)'
  OBVIOUS
<1>1. e \in Executions /\ Key(e) \in held[o] /\ Row(e) \in held[o] /\ Settled(e)
  BY DEF PruneInv, PruneSound, Checked, Pruning
<1> QED
  BY <1>1, SettledStays

\* An operator who moves does not remove, unless its transaction ends.
LEMMA NotRemoving ==
  ASSUME ShapeOK, NEW o \in Operators, op'[o].pc # "idle"
  PROVE  ~Removed(o)
BY DEF ShapeOK, ActorsShape, Removed, NoOp

\* The parts of PruneSound, in the next state.
LEMMA PruneSoundParts ==
  ASSUME NEW o \in Operators,
         op'[o].pc \in Pruning =>
           /\ op'[o].pc \in {"row", "check"} /\ Candidate(o)' \in Executions =>
                Key(Candidate(o)') \in held'[o] /\ run'[Candidate(o)'] # "none"
           /\ op'[o].pc = "check" /\ Candidate(o)' \in Executions /\ Exists(Candidate(o))' =>
                Row(Candidate(o)') \in held'[o]
           /\ \A e \in Checked(o)' : Key(e) \in held'[o] /\ Row(e) \in held'[o] /\ Settled(e)'
  PROVE  PruneSound(o)'
BY DEF PruneSound, Pruning, Candidate, Exists, Key, Row, Checked, Selected, Executions, Chains

LEMMA BystanderPrunes ==
  ASSUME TypeOK, ShapeOK, OrderInv, PruneInv, Writes,
         NEW o \in Operators, op'[o] = op[o], held'[o] = held[o]
  PROVE  PruneSound(o)'
<1>1. SUFFICES ASSUME op'[o].pc \in Pruning
               PROVE  PruneSound(o)'
  BY PruneSoundParts
<1>2. op[o].pc \in Pruning /\ ~Removed(o)
  BY <1>1, NotRemoving DEF Pruning
<1>3. \A e \in Checked(o) : Key(e) \in held'[o] /\ Row(e) \in held'[o] /\ Settled(e)'
  BY <1>2, CheckedStays
<1>4. Checked(o)' = Checked(o) /\ Candidate(o)' = Candidate(o)
  BY DEF Checked, Selected, Candidate
<1>5. PruneSound(o) /\ Lasting
  BY WritesLast DEF PruneInv
<1>6. Candidate(o) \in Executions /\ run'[Candidate(o)] \notin {"none", "pruned"} /\ run[Candidate(o)] # "none" => Exists(Candidate(o))
  BY <1>5 DEF Lasting, Exists
<1>7. op[o].pc \in {"row", "check"} /\ Candidate(o) \in Executions =>
        Key(Candidate(o)) \in held[o] /\ run[Candidate(o)] # "none"
  BY <1>5 DEF PruneSound
<1>8. op[o].pc = "check" /\ Candidate(o) \in Executions /\ Exists(Candidate(o)) => Row(Candidate(o)) \in held[o]
  BY <1>5 DEF PruneSound
<1>9. Exists(Candidate(o))' <=> run'[Candidate(o)] \notin {"none", "pruned"}
  BY <1>4 DEF Exists
<1>10. op'[o].pc \in {"row", "check"} /\ Candidate(o)' \in Executions =>
        Key(Candidate(o)') \in held'[o] /\ run'[Candidate(o)'] # "none"
  BY <1>4, <1>5, <1>7 DEF Lasting
<1>11. op'[o].pc = "check" /\ Candidate(o)' \in Executions /\ Exists(Candidate(o))' =>
        Row(Candidate(o)') \in held'[o]
  BY <1>4, <1>6, <1>7, <1>8, <1>9
<1>12. \A e \in Checked(o)' : Key(e) \in held'[o] /\ Row(e) \in held'[o] /\ Settled(e)'
  BY <1>3, <1>4
<1> QED
  BY <1>10, <1>11, <1>12, PruneSoundParts

LEMMA AwayPrunes ==
  ASSUME NEW o \in Operators, op'[o].pc \in Reviewing
  PROVE  PruneSound(o)'
BY PruneSoundParts DEF Reviewing, Pruning

LEMMA ConfirmPrunes ==
  ASSUME NEW o \in Operators, Onward(o, "key", {m.id : m \in op[o].plan})
  PROVE  PruneSound(o)'
<1>1. Checked(o)' = {}
  BY DEF Onward, Checked, Selected
<1>2. op'[o].pc = "key"
  BY DEF Onward
<1> QED
  BY <1>1, <1>2, PruneSoundParts

LEMMA LockKeyPrunes ==
  ASSUME TypeOK, ShapeOK, OrderInv, PruneInv, Writes,
         NEW o \in Operators, LockKey(o), Onward(o, "row", op[o].todo)
  PROVE  PruneSound(o)'
<1>1. op[o].pc = "key" /\ op'[o].pc = "row" /\ Exists(Candidate(o)) /\ run' = run
  BY DEF LockKey, Onward
<1>2. held'[o] = held[o] \cup {Key(Candidate(o))}
  BY ActorsApart DEF LockKey, Lock, ShapeOK, ActorsShape
<1>3. Checked(o)' = Checked(o) /\ Candidate(o)' = Candidate(o)
  BY DEF Onward, Checked, Selected, Candidate
<1>4. \A e \in Checked(o) : Key(e) \in held'[o] /\ Row(e) \in held'[o] /\ Settled(e)'
  BY <1>1, <1>2, NotRemoving, CheckedStays DEF Pruning
<1> QED
  BY <1>1, <1>2, <1>3, <1>4, PruneSoundParts DEF Exists

LEMMA LockRowPrunes ==
  ASSUME TypeOK, ShapeOK, OrderInv, PruneInv, Writes,
         NEW o \in Operators, LockRow(o), Onward(o, "check", op[o].todo)
  PROVE  PruneSound(o)'
<1>1. op[o].pc = "row" /\ op'[o].pc = "check" /\ run' = run
  BY DEF LockRow, Onward
<1>2. /\ Exists(Candidate(o)) => held'[o] = held[o] \cup {Row(Candidate(o))}
      /\ ~Exists(Candidate(o)) => held'[o] = held[o]
  <2>1. CASE Exists(Candidate(o))
    <3>1. Lock(o, Row(Candidate(o)))
      BY <2>1 DEF LockRow
    <3> QED
      BY <2>1, <3>1, ActorsApart DEF Lock, ShapeOK, ActorsShape
  <2>2. CASE ~Exists(Candidate(o))
    BY <2>2 DEF LockRow
  <2> QED
    BY <2>1, <2>2
<1>3. Checked(o)' = Checked(o) /\ Candidate(o)' = Candidate(o)
  BY DEF Onward, Checked, Selected, Candidate
<1>4. \A e \in Checked(o) : Key(e) \in held'[o] /\ Row(e) \in held'[o] /\ Settled(e)'
  BY <1>1, <1>2, NotRemoving, CheckedStays DEF Pruning
<1>5. Candidate(o) \in Executions => Key(Candidate(o)) \in held[o] /\ run[Candidate(o)] # "none"
  BY <1>1 DEF PruneInv, PruneSound
<1>6. Exists(Candidate(o))' <=> Exists(Candidate(o))
  BY <1>1, <1>3 DEF Exists
<1> QED
  BY <1>1, <1>2, <1>3, <1>4, <1>5, <1>6, PruneSoundParts

LEMMA SelectPrunes ==
  ASSUME TypeOK, ShapeOK, OrderInv, LinksHold, PruneInv, Writes,
         NEW o \in Operators, Select(o), Onward(o, "key", op[o].todo \ {Candidate(o)}), held' = held
  PROVE  PruneSound(o)'
<1>0. PICK x : x = Candidate(o)
  OBVIOUS
<1>1. op[o].pc = "check" /\ op'[o].pc = "key" /\ Exists(x) /\ ~Reason(x)
  BY <1>0 DEF Select, Onward
<1>2. \A e \in Checked(o)' : e \in Checked(o) \/ (e = x /\ x \in Executions)
  <2>1. Selected(o)' = Selected(o) /\ op'[o].todo = op[o].todo \ {x}
    BY <1>0 DEF Onward, Selected
  <2> QED
    BY <2>1 DEF Checked
<1>3. \A e \in Checked(o) : Key(e) \in held'[o] /\ Row(e) \in held'[o] /\ Settled(e)'
  BY <1>1, NotRemoving, CheckedStays DEF Pruning
<1>4. ASSUME x \in Executions
      PROVE  Key(x) \in held'[o] /\ Row(x) \in held'[o] /\ Settled(x)'
  <2>1. Settled(x)
    BY <1>1, <1>4, NoReasonSettles
  <2>2. Key(x) \in held[o] /\ Row(x) \in held[o]
    BY <1>0, <1>1, <1>4 DEF PruneInv, PruneSound
  <2>3. ~Removed(o)
    BY <1>1, NotRemoving
  <2>4. Settled(x)'
    BY <1>4, <2>1, <2>2, <2>3, SettledStays
  <2> QED
    BY <2>2, <2>4
<1> QED
  BY <1>1, <1>2, <1>3, <1>4, PruneSoundParts

LEMMA PruneKeeps ==
  ASSUME TypeOK, ShapeOK, OrderInv, LinksHold, PruneInv, Writes,
         NEW o \in Operators, Review(o) \/ Prune(o)
  PROVE  PruneSound(o)' /\ \A q \in Operators \ {o} : op'[q] = op[q]
<1>1. CASE Review(o)
  BY <1>1, ReviewMoves, AwayPrunes DEF Away, Moved
<1>2. CASE Prune(o)
  <2>1. CASE Away(o)
    BY <2>1, AwayPrunes DEF Away, Moved
  <2>2. CASE Onward(o, "key", {m.id : m \in op[o].plan})
    BY <2>2, ConfirmPrunes DEF Onward, Moved
  <2>3. CASE LockKey(o) /\ Onward(o, "row", op[o].todo)
    BY <2>3, LockKeyPrunes DEF Onward, Moved
  <2>4. CASE LockRow(o) /\ Onward(o, "check", op[o].todo)
    BY <2>4, LockRowPrunes DEF Onward, Moved
  <2>5. CASE Select(o) /\ Onward(o, "key", op[o].todo \ {Candidate(o)}) /\ held' = held
    BY <2>5, SelectPrunes DEF Onward, Moved
  <2> QED
    BY <1>2, <2>1, <2>2, <2>3, <2>4, <2>5, PruneMoves
<1> QED
  BY <1>1, <1>2

\* The other actors of a step.
LEMMA OthersHeld ==
  ASSUME ShapeOK, NEW o \in Operators, Review(o) \/ Prune(o)
  PROVE  /\ start' = start /\ \A b \in Actors \ {o} : held'[b] = held[b]
<1>1. held = [a \in Actors |-> held[a]] /\ o \in Actors
  BY ActorsApart DEF ShapeOK, ActorsShape
<1>2. CASE Review(o)
  BY <1>2, ReviewMoves
<1>3. CASE Prune(o)
  <2>1. start' = start
    BY <1>3, PruneMoves
  <2>2. \A b \in Actors \ {o} : held'[b] = held[b]
    BY <1>1, <1>3, PruneMoves DEF Release, LockKey, LockRow, Lock
  <2> QED
    BY <2>1, <2>2
<1> QED
  BY <1>2, <1>3

LEMMA AcceptMoves ==
  ASSUME ShapeOK, NEW c \in Chains, Accept(c)
  PROVE  /\ op' = op
         /\ \A b \in Actors \ {c} : held'[b] = held[b]
         /\ \A d \in Chains \ {c} : start'[d] = start[d]
<1>1. held = [a \in Actors |-> held[a]] /\ c \in Actors /\ start = [d \in Chains |-> start[d]]
  BY ActorsApart DEF ShapeOK, ActorsShape
<1> QED
  BY <1>1 DEF Accept, LockParent, AcceptKey, Tombstone, Insert, Link, Lock, Release, StartAt

LEMMA VictimMoves ==
  ASSUME ShapeOK, NEW a \in Actors, Victim(a)
  PROVE  /\ \A b \in Actors \ {a} : held'[b] = held[b]
         /\ \A o \in Operators \ {a} : op'[o] = op[o]
         /\ \A c \in Chains \ {a} : start'[c] = start[c]
         /\ a \in Operators => op'[a].pc = "idle" /\ Record(op'[a])
         /\ a \in Chains => start'[a] = "idle"
         /\ held'[a] = {}
<1>1. held = [b \in Actors |-> held[b]] /\ start = [d \in Chains |-> start[d]] /\ op = [o \in Operators |-> op[o]]
  BY DEF ShapeOK, ActorsShape
<1> QED
  BY <1>1 DEF Victim, Release, NoOp, Record

-----------------------------------------------------------------------------
(* The invariant of acceptance. *)

LEMMA BystanderStarts ==
  ASSUME TypeOK, OrderInv, StartInv, PruneInv, Writes,
         NEW c \in Chains, start'[c] = start[c], held'[c] = held[c]
  PROVE  StartSound(c)'
<1>1. StartSound(c) /\ First(c) \in Executions /\ (c \in Children => Caller[c] \in Executions) /\ Lasting
  BY FirstPlace, ChainAssumption, WritesLast DEF StartInv
<1>2. ASSUME start[c] = "insert"
      PROVE  run'[First(c)] # "pruned"
  <2>1. Key(First(c)) \in held[c] /\ run[First(c)] # "pruned"
    BY <1>1, <1>2 DEF StartSound
  <2>2. ASSUME NEW o \in Operators, Removed(o)
        PROVE  First(c) \notin Selected(o)
    BY <1>1, <2>1, <2>2, RemovedTakes, ActorsApart DEF TypeOK
  <2>3. ASSUME NEW d \in Chains, Opened(d)
        PROVE  run'[First(c)] # "pruned"
    BY <1>1, <2>1, <2>3 DEF Opened, TypeOK
  <2>4. ASSUME NEW e \in Executions, Continued(e)
        PROVE  run'[First(c)] # "pruned"
    BY <1>1, <2>1, <2>4 DEF Continued, TypeOK
  <2>5. ASSUME NEW e \in Executions, Ended(e)
        PROVE  run'[First(c)] # "pruned"
    BY <1>1, <2>1, <2>5 DEF Ended, TypeOK
  <2>6. ASSUME NEW o \in Operators, Removed(o)
        PROVE  run'[First(c)] # "pruned"
    BY <1>1, <2>1, <2>2, <2>6 DEF Removed
  <2> QED
    BY <2>1, <2>3, <2>4, <2>5, <2>6 DEF Writes, Joined, Found
<1> QED
  BY <1>1, <1>2 DEF StartSound, Lasting, First, Key, Row, Children

LEMMA AcceptStarts ==
  ASSUME TypeOK, ShapeOK, OrderInv, StartInv, PruneInv, Writes, NEW c \in Chains, Accept(c)
  PROVE  StartSound(c)'
<1>1. held = [a \in Actors |-> held[a]] /\ c \in Actors /\ start = [d \in Chains |-> start[d]]
  BY ActorsApart DEF ShapeOK, ActorsShape
<1>2. StartSound(c) /\ Lasting /\ (c \in Children => Caller[c] \in Executions)
  BY WritesLast, ChainAssumption DEF StartInv
<1>3. ASSUME LockParent(c)
      PROVE  StartSound(c)'
  <2>1. start'[c] = "key" /\ Ready(c) /\ run' = run
    BY <1>1, <1>3 DEF LockParent, StartAt
  <2>2. c \in Children => Row(Caller[c]) \in held'[c] \/ run[Caller[c]] = "pruned"
    <3>1. CASE c \in Children /\ Exists(Caller[c])
      BY <1>1, <1>3, <3>1 DEF LockParent, Lock
    <3>2. CASE ~Exists(Caller[c])
      BY <2>1, <3>2 DEF Ready, Exists
    <3> QED
      BY <3>1, <3>2
  <2> QED
    BY <2>1, <2>2 DEF StartSound, Row, Children
<1>4. ASSUME AcceptKey(c)
      PROVE  StartSound(c)'
  <2>1. start[c] = "key" /\ start'[c] = "tombstone" /\ run' = run /\ held'[c] = held[c] \cup {Key(First(c))}
    BY <1>1, <1>4 DEF AcceptKey, StartAt, Lock
  <2> QED
    BY <1>2, <2>1 DEF StartSound, Row, Key, First, Children
<1>5. ASSUME Tombstone(c)
      PROVE  StartSound(c)'
  <2>1. start[c] = "tombstone" /\ run' = run
    BY <1>5 DEF Tombstone
  <2>2. CASE run[First(c)] = "pruned"
    <3>1. start'[c] = "idle"
      BY <1>1, <1>5, <2>2 DEF Tombstone, StartAt
    <3> QED
      BY <3>1 DEF StartSound
  <2>3. CASE run[First(c)] # "pruned"
    <3>1. start'[c] = "insert" /\ held' = held
      BY <1>1, <1>5, <2>3 DEF Tombstone, StartAt
    <3> QED
      BY <1>2, <2>1, <2>3, <3>1 DEF StartSound, Row, Key, First, Children
  <2> QED
    BY <2>2, <2>3
<1>6. ASSUME Insert(c) \/ Link(c)
      PROVE  StartSound(c)'
  <2>1. start'[c] = "idle"
    BY <1>1, <1>6 DEF Insert, Link, StartAt
  <2> QED
    BY <2>1 DEF StartSound
<1> QED
  BY <1>3, <1>4, <1>5, <1>6 DEF Accept

\* Every step keeps both.
LEMMA StepKeepsSound ==
  ASSUME TypeOK, ShapeOK, OrderInv, LinksHold, StartInv, PruneInv, Next
  PROVE  StartInv' /\ PruneInv'
<1>1. Writes
  BY StepWrites
<1>2. SUFFICES /\ \A c \in Chains : StartSound(c)'
               /\ \A o \in Operators : PruneSound(o)'
  BY DEF StartInv, PruneInv, Chains
<1>3. ASSUME NEW o \in Operators, Review(o) \/ Prune(o)
      PROVE  (\A c \in Chains : StartSound(c)') /\ (\A q \in Operators : PruneSound(q)')
  <2>1. PruneSound(o)' /\ \A q \in Operators \ {o} : op'[q] = op[q] /\ held'[q] = held[q]
    BY <1>1, <1>3, PruneKeeps, OthersHeld, ActorsApart
  <2>2. \A c \in Chains : start'[c] = start[c] /\ held'[c] = held[c]
    BY <1>3, OthersHeld, ActorsApart
  <2> QED
    BY <1>1, <2>1, <2>2, BystanderPrunes, BystanderStarts
<1>4. ASSUME NEW c \in Chains, Accept(c)
      PROVE  (\A d \in Chains : StartSound(d)') /\ (\A q \in Operators : PruneSound(q)')
  <2>1. \A q \in Operators : op'[q] = op[q] /\ held'[q] = held[q]
    BY <1>4, AcceptMoves, ActorsApart
  <2>2. \A d \in Chains \ {c} : start'[d] = start[d] /\ held'[d] = held[d]
    BY <1>4, AcceptMoves, ActorsApart
  <2> QED
    BY <1>1, <1>4, <2>1, <2>2, BystanderPrunes, BystanderStarts, AcceptStarts
<1>5. ASSUME NEW e \in Executions, ContinueAsNew(e) \/ Complete(e) \/ Drain(e) \/ LateEvent(e)
      PROVE  (\A d \in Chains : StartSound(d)') /\ (\A q \in Operators : PruneSound(q)')
  <2>1. op' = op /\ start' = start /\ held' = held
    BY <1>5 DEF ContinueAsNew, Complete, Drain, LateEvent
  <2> QED
    BY <1>1, <2>1, BystanderPrunes, BystanderStarts
<1>6. ASSUME NEW a \in Actors, Victim(a)
      PROVE  (\A d \in Chains : StartSound(d)') /\ (\A q \in Operators : PruneSound(q)')
  <2>1. ASSUME NEW q \in Operators
        PROVE  PruneSound(q)'
    <3>1. CASE q = a
      BY <1>6, <3>1, VictimMoves, AwayPrunes DEF Reviewing
    <3>2. CASE q # a
      BY <1>1, <1>6, <3>2, VictimMoves, BystanderPrunes, ActorsApart
    <3> QED
      BY <3>1, <3>2
  <2>2. ASSUME NEW c \in Chains
        PROVE  StartSound(c)'
    <3>1. CASE c = a
      <4>1. start'[c] = "idle"
        BY <1>6, <3>1, VictimMoves
      <4> QED
        BY <4>1 DEF StartSound
    <3>2. CASE c # a
      BY <1>1, <1>6, <3>2, VictimMoves, BystanderStarts, ActorsApart
    <3> QED
      BY <3>1, <3>2
  <2> QED
    BY <2>1, <2>2
<1> QED
  BY <1>3, <1>4, <1>5, <1>6 DEF Next

-----------------------------------------------------------------------------
(* The shape of the actors, and the types. *)

ExclusiveLocks == \A a, b \in Actors : a # b => held[a] \cap held[b] = {}

LEMMA StepKeepsExclusive ==
  ASSUME ShapeOK, Next
  PROVE  ExclusiveLocks'
<1>1. held = [a \in Actors |-> held[a]] /\ \A a, b \in Actors : a # b => held[a] \cap held[b] = {}
  BY DEF ShapeOK, ActorsShape
<1>2. ASSUME NEW a \in Actors, NEW lock, Lock(a, lock)
      PROVE  ExclusiveLocks'
  <2>1. \A b \in Actors \ {a} : lock \notin held[b]
    BY <1>2 DEF Lock, Free
  <2>2. \A b \in Actors : held'[b] = IF b = a THEN held[b] \cup {lock} ELSE held[b]
    BY <1>1, <1>2 DEF Lock
  <2>3. ASSUME NEW b \in Actors, NEW d \in Actors, b # d
        PROVE  held'[b] \cap held'[d] = {}
    <3>1. held[b] \cap held[d] = {}
      BY <1>1, <2>3
    <3>2. CASE b = a
      BY <2>1, <2>2, <2>3, <3>1, <3>2
    <3>3. CASE d = a
      BY <2>1, <2>2, <2>3, <3>1, <3>3
    <3>4. CASE b # a /\ d # a
      BY <2>2, <3>1, <3>4
    <3> QED
      BY <3>2, <3>3, <3>4
  <2> QED
    BY <2>3 DEF ExclusiveLocks, Actors, Chains
<1>3. ASSUME NEW a \in Actors, Release(a)
      PROVE  ExclusiveLocks'
  <2>1. \A b \in Actors : held'[b] = IF b = a THEN {} ELSE held[b]
    BY <1>1, <1>3 DEF Release
  <2>2. \A b, d \in Actors : b # d => held'[b] \cap held'[d] = {}
    BY <1>1, <2>1
  <2> QED
    BY <2>2 DEF ExclusiveLocks, Actors, Chains
<1>4. ASSUME held' = held
      PROVE  ExclusiveLocks'
  BY <1>1, <1>4 DEF ExclusiveLocks, Actors, Chains
<1>5. ASSUME NEW o \in Operators, Review(o) \/ Prune(o)
      PROVE  held' = held \/ (\E lock : Lock(o, lock)) \/ Release(o)
  <2>1. CASE Review(o)
    BY <2>1, ReviewMoves
  <2>2. CASE Prune(o)
    BY <2>2, PruneMoves DEF LockKey, LockRow
  <2> QED
    BY <1>5, <2>1, <2>2
<1>6. ASSUME NEW c \in Chains, Accept(c)
      PROVE  held' = held \/ (\E lock : Lock(c, lock)) \/ Release(c)
  BY <1>6 DEF Accept, LockParent, AcceptKey, Tombstone, Insert, Link
<1>7. ASSUME NEW e \in Executions, ContinueAsNew(e) \/ Complete(e) \/ Drain(e) \/ LateEvent(e)
      PROVE  held' = held
  BY <1>7 DEF ContinueAsNew, Complete, Drain, LateEvent
<1>8. ASSUME NEW a \in Actors, Victim(a)
      PROVE  Release(a)
  BY <1>8 DEF Victim
<1> QED
  BY <1>2, <1>3, <1>4, <1>5, <1>6, <1>7, <1>8, ActorsApart DEF Next

LEMMA StepKeepsShape ==
  ASSUME ShapeOK, Next
  PROVE  ShapeOK'
<1>1. Functional /\ ExclusiveLocks'
  BY StaysFunctional, StepKeepsExclusive
<1>2. ASSUME NEW o \in Operators
      PROVE  Record(op'[o]) /\ op'[o].pc \in {"idle", "preview", "planned", "key", "row", "check"}
  <2>1. Record(op[o]) /\ op[o].pc \in {"idle", "preview", "planned", "key", "row", "check"}
    BY DEF ShapeOK, ActorsShape
  <2>2. ASSUME NEW q \in Operators, Review(q) \/ Prune(q)
        PROVE  Record(op'[o]) /\ op'[o].pc \in {"idle", "preview", "planned", "key", "row", "check"}
    <3>1. Away(q) \/ \E pc \in Pruning : \E todo : Onward(q, pc, todo)
      BY <2>2, ReviewMoves, PruneMoves DEF Pruning
    <3> QED
      BY <2>1, <3>1 DEF Away, Onward, Moved, Reviewing, Pruning
  <2>3. ASSUME NEW a \in Actors, Victim(a)
        PROVE  Record(op'[o]) /\ op'[o].pc \in {"idle", "preview", "planned", "key", "row", "check"}
    BY <2>1, <2>3, VictimMoves
  <2>4. ASSUME NEW c \in Chains, Accept(c)
        PROVE  op' = op
    BY <2>4, AcceptMoves
  <2>5. ASSUME NEW e \in Executions, ContinueAsNew(e) \/ Complete(e) \/ Drain(e) \/ LateEvent(e)
        PROVE  op' = op
    BY <2>5 DEF ContinueAsNew, Complete, Drain, LateEvent
  <2> QED
    BY <2>1, <2>2, <2>3, <2>4, <2>5 DEF Next
<1>3. ASSUME NEW d \in Chains
      PROVE  start'[d] \in {"idle", "key", "tombstone", "insert"}
  <2>1. start[d] \in {"idle", "key", "tombstone", "insert"} /\ start = [c \in Chains |-> start[c]]
    BY DEF ShapeOK
  <2>2. ASSUME NEW c \in Chains, Accept(c)
        PROVE  start'[d] \in {"idle", "key", "tombstone", "insert"}
    BY <2>1, <2>2 DEF Accept, LockParent, AcceptKey, Tombstone, Insert, Link, StartAt
  <2>3. ASSUME NEW q \in Operators, Review(q) \/ Prune(q)
        PROVE  start' = start
    BY <2>3, OthersHeld
  <2>4. ASSUME NEW a \in Actors, Victim(a)
        PROVE  start'[d] \in {"idle", "key", "tombstone", "insert"}
    BY <2>1, <2>4, VictimMoves
  <2>5. ASSUME NEW e \in Executions, ContinueAsNew(e) \/ Complete(e) \/ Drain(e) \/ LateEvent(e)
        PROVE  start' = start
    BY <2>5 DEF ContinueAsNew, Complete, Drain, LateEvent
  <2> QED
    BY <2>1, <2>2, <2>3, <2>4, <2>5 DEF Next
<1>4. ActorsShape'
  BY <1>1, <1>2 DEF ActorsShape, Functional, Record, Actors, Chains
<1>5. start' \in [Chains -> {"idle", "key", "tombstone", "insert"}]
  BY <1>1, <1>3 DEF Functional
<1> QED
  BY <1>1, <1>2, <1>4, <1>5 DEF ShapeOK, ExclusiveLocks, Chains

LEMMA WritesKeepTypes ==
  ASSUME TypeOK, Writes
  PROVE  run' \in [Executions -> RunStates] /\ links' \subseteq {<<Caller[c], First(c)>> : c \in Children}
<1>1. run \in [Executions -> RunStates] /\ links \subseteq {<<Caller[c], First(c)>> : c \in Children}
  BY DEF TypeOK, RunStates
<1>2. links' \subseteq {<<Caller[c], First(c)>> : c \in Children}
  BY <1>1 DEF Writes, Joined, Removed
<1>3. ASSUME NEW c \in Chains, Opened(c)
      PROVE  run' \in [Executions -> RunStates]
  BY <1>1, <1>3 DEF Opened, RunStates
<1>4. ASSUME NEW e \in Executions, Continued(e)
      PROVE  run' \in [Executions -> RunStates]
  BY <1>1, <1>4 DEF Continued, RunStates
<1>5. ASSUME NEW e \in Executions, Ended(e)
      PROVE  run' \in [Executions -> RunStates]
  BY <1>1, <1>5 DEF Ended, RunStates
<1>6. ASSUME NEW o \in Operators, Removed(o)
      PROVE  run' \in [Executions -> RunStates]
  BY <1>1, <1>6 DEF Removed, RunStates
<1> QED
  BY <1>1, <1>2, <1>3, <1>4, <1>5, <1>6 DEF Writes, Joined, Found

LEMMA StepKeepsTypes ==
  ASSUME TypeOK, ShapeOK, StartInv, Next
  PROVE  TypeOK'
<1>1. run' \in [Executions -> RunStates] /\ links' \subseteq {<<Caller[c], First(c)>> : c \in Children}
  BY StepWrites, WritesKeepTypes
<1>2. updated \in [Executions -> Nat] /\ late \in 0..MaxLate /\ busy \subseteq Executions
  BY DEF TypeOK
<1>3. ASSUME NEW S, Event(S)
      PROVE  updated' \in [Executions -> Nat]
  BY <1>2, <1>3 DEF Event
<1>4. updated' \in [Executions -> Nat] /\ late' \in 0..MaxLate /\ busy' \subseteq Executions
  <2>1. ASSUME NEW o \in Operators, Review(o) \/ Prune(o)
        PROVE  updated' = updated /\ late' = late /\ busy' = busy
    BY <2>1 DEF Review, Preview, ReadChain, AskReason, Planned, Prune, Confirm, Vanished, Stale, LockKey,
      LockRow, Refuse, Select, Apply
  <2>2. ASSUME NEW c \in Chains, Accept(c)
        PROVE  (updated' = updated \/ \E S : Event(S)) /\ late' = late /\ busy' = busy
    BY <2>2 DEF Accept, LockParent, AcceptKey, Tombstone, Insert, Link
  <2>3. ASSUME NEW e \in Executions, ContinueAsNew(e) \/ Complete(e) \/ Drain(e) \/ LateEvent(e)
        PROVE  (updated' = updated \/ \E S : Event(S)) /\ late' \in 0..MaxLate /\ busy' \subseteq Executions
    BY <1>2, <2>3, BoundAssumption DEF ContinueAsNew, Complete, Drain, LateEvent
  <2>4. ASSUME NEW a \in Actors, Victim(a)
        PROVE  updated' = updated /\ late' = late /\ busy' = busy
    BY <2>4 DEF Victim
  <2> QED
    BY <1>2, <1>3, <2>1, <2>2, <2>3, <2>4 DEF Next
<1>5. ShapeOK'
  BY StepKeepsShape
<1> QED
  BY <1>1, <1>4, <1>5 DEF TypeOK, ShapeOK, RunStates

-----------------------------------------------------------------------------
(* The theorems. *)

LEMMA InitHolds ==
  ASSUME Init
  PROVE  Inv
<1>1. TypeOK /\ ActorsShape
  BY BoundAssumption DEF Init, TypeOK, ActorsShape, NoOp, Record
<1>2. ChainInv
  BY DEF Init, ChainInv, InOrder, RemovedWhole, HasGeneration, LinksHold
<1>3. StartInv /\ PruneInv
  BY DEF Init, StartInv, StartSound, PruneInv, PruneSound, NoOp
<1> QED
  BY <1>1, <1>2, <1>3 DEF Inv

LEMMA ShapeOfInv ==
  ASSUME Inv
  PROVE  TypeOK /\ ShapeOK /\ OrderInv /\ LinksHold /\ StartInv /\ PruneInv
BY DEF Inv, TypeOK, ShapeOK, ChainInv, OrderInv

LEMMA StepHolds ==
  ASSUME Inv, [Next]_vars
  PROVE  Inv'
<1>1. CASE Next
  <2>1. TypeOK' /\ ShapeOK' /\ StartInv' /\ PruneInv'
    BY <1>1, ShapeOfInv, StepKeepsTypes, StepKeepsShape, StepKeepsSound
  <2>2. OrderInv' /\ LinksHold'
    BY <1>1, ShapeOfInv, StepWrites, WritesKeepOrder, WritesKeepLinks
  <2> QED
    BY <2>1, <2>2 DEF Inv, ShapeOK, ChainInv, OrderInv
<1>2. CASE UNCHANGED vars
  <2> USE <1>2 DEF Executions, Chains, Children, Actors, First, Exists, Key, Row, Mates, ChainOf, Position
  <2>1. TypeOK' /\ ActorsShape'
    BY DEF Inv, TypeOK, ActorsShape, Record
  <2>2. ChainInv'
    BY DEF Inv, ChainInv, InOrder, RemovedWhole, HasGeneration, LinksHold, HasNext, NextOf
  <2>3. StartInv'
    BY DEF Inv, StartInv, StartSound
  <2>4. ASSUME NEW e
        PROVE  Settled(e)' <=> Settled(e)
    BY DEF Settled, Terminal, Dead
  <2>5. PruneInv'
    <3> SUFFICES ASSUME NEW o \in Operators
                 PROVE  PruneSound(o)'
      BY DEF PruneInv
    <3>1. PruneSound(o)
      BY DEF Inv, PruneInv
    <3>2. Checked(o)' = Checked(o) /\ Candidate(o)' = Candidate(o)
      BY DEF Checked, Selected, Candidate
    <3> QED
      BY <2>4, <3>1, <3>2 DEF PruneSound
  <2> QED
    BY <2>1, <2>2, <2>3, <2>5 DEF Inv
<1> QED
  BY <1>1, <1>2

LEMMA Invariant == Spec => []Inv
<1>1. Init => Inv
  BY InitHolds
<1>2. Inv /\ [Next]_vars => Inv'
  BY StepHolds
<1> QED
  BY <1>1, <1>2, PTL DEF Spec

\* The states are well formed, and no lock has two holders: neither the key nor
\* the row of an execution is locked by two of the transactions of prune
\* (execution-retention.ts) and of acceptance (acceptance.ts).
THEOREM RetentionTypes == Spec => []TypeOK
<1>1. Inv => TypeOK
  BY DEF Inv
<1> QED
  BY <1>1, Invariant, PTL

\* Nothing that is left refers to something that was removed: a continued run
\* keeps its next generation, a link its parent and its child. So
\* followContinuation never meets a gap.
THEOREM NothingDangles == Spec => []ReferencesHold
<1>1. Inv => ReferencesHold
  BY DEF Inv, ChainInv, HasGeneration, LinksHold, ReferencesHold
<1> QED
  BY <1>1, Invariant, PTL

\* A link is removed only when no generation is active in either of the chains
\* it joins, although both can continue, and be linked, between the preview and
\* the removal.
LEMMA LinksGoLate ==
  ASSUME Inv, Next, NEW l \in links \ links'
  PROVE  ~Going(l[1]) /\ ~Going(l[2])
<1>1. TypeOK /\ PruneInv /\ Writes
  BY ShapeOfInv, StepWrites
<1>2. PICK o \in Operators : Removed(o)
  BY <1>1 DEF Writes, Joined
<1>3. l[1] \in Executions /\ l[2] \in Executions
  BY <1>1, EndsOf DEF TypeOK
<1>4. l[1] \in Selected(o) \/ l[2] \in Selected(o)
  BY <1>2 DEF Removed
<1>5. ASSUME NEW e \in Executions, Dead(e)
      PROVE  ~Going(e)
  BY <1>5, MembersAreMates DEF Dead, Going
<1>6. ASSUME NEW e \in Executions, e \in Selected(o)
      PROVE  ~Going(e) /\ Settled(e)
  <2>1. \A f \in Executions : Mates(e, f) /\ Exists(f) => f \in Selected(o)
    BY <1>1, <1>2, <1>6, RemovedTakes
  <2>2. \A f \in Executions : f \in Selected(o) => Settled(f)
    BY <1>1, <1>2, RemovedTakes
  <2>3. \A f \in Executions : Mates(e, f) => run[f] # "active"
    BY <2>1, <2>2 DEF Exists, Settled, Terminal
  <2> QED
    BY <1>6, <2>2, <2>3, MembersAreMates DEF Going
<1> QED
  BY <1>3, <1>4, <1>5, <1>6 DEF Settled

\* A link goes only when both of its chains have ended, in their last
\* generations: prune decides on executions whose keys and rows it holds
\* (reason and the checks of prune in execution-retention.ts).
THEOREM LinksOutliveChains == Spec => LinksOutlive
<1>1. Inv /\ [Next]_vars => [\A l \in links \ links' : ~Going(l[1]) /\ ~Going(l[2])]_vars
  BY LinksGoLate
<1> QED
  BY <1>1, Invariant, PTL DEF Spec, LinksOutlive

\* The key of a removed execution stays reserved: an acceptance that looks for
\* the tombstone holds the key from that moment until its insert.
THEOREM KeysStayReserved == Spec => KeyIsReserved
<1>1. Inv /\ [Next]_vars => [\A e \in Executions : run[e] = "pruned" => run'[e] = "pruned"]_vars
  BY ShapeOfInv, StepWrites, WritesLast DEF Lasting
<1> QED
  BY <1>1, Invariant, PTL DEF Spec, KeyIsReserved
=============================================================================
