------------------------------ MODULE Retention ------------------------------
(***************************************************************************)
(* Retention of executions: an operator previews what may be removed,      *)
(* reviews the plan, and prunes it in one transaction. Meanwhile chains    *)
(* continue and end, work drains, late rounds link children, clients start *)
(* executions again, and another operator prunes as well.                  *)
(*                                                                         *)
(* The statements of preview and prune are steps. A transaction waits for  *)
(* the locks of others, under PostgreSQL; SQLite, with one writer at a     *)
(* time, allows a part of these behaviours. Executions are numbered in the *)
(* order of their identifiers.                                             *)
(***************************************************************************)
EXTENDS Integers, SequencesExt

CONSTANTS
  Operators,   \* those who preview and prune
  Chain,       \* of each chain: the identifiers of its generations, in order
  Caller,      \* of each child chain: the execution that starts it
  Limit,       \* limit of a preview
  MaxLate      \* bound of the model: late events

Chains == DOMAIN Chain
Children == DOMAIN Caller
Executions == UNION {ToSet(Chain[c]) : c \in Chains}

ASSUME ChainAssumption ==
  /\ Executions \subseteq Nat
  /\ \A c \in Chains : Chain[c] \in Seq(Nat) \ {<<>>} /\ IsInjective(Chain[c])
  /\ \A c, d \in Chains : c # d => ToSet(Chain[c]) \cap ToSet(Chain[d]) = {}
  /\ Children \subseteq Chains /\ \A c \in Children : Caller[c] \in Executions \ ToSet(Chain[c])
ASSUME BoundAssumption == Limit \in Nat \ {0} /\ MaxLate \in Nat /\ Operators \cap Chains = {}

VARIABLES
  run,      \* better_workflows_runs, or "pruned": a tombstone
  updated,  \* their updated_at
  late,     \* history: late events so far
  busy,     \* executions with live work: deliveries, claims, permits, dead letters, ...
  links,    \* better_workflows_children
  op,       \* the operators
  start,    \* the acceptance that goes on for each chain: "idle", "key", "tombstone", "insert"
  held      \* the locks of each transaction

journal == <<run, updated, late, busy, links>>
vars == <<run, updated, late, busy, links, op, start, held>>

Terminal(e) == run[e] \in {"continued", "ended"}
Exists(e) == run[e] \notin {"none", "pruned"}
ChainOf(e) == CHOOSE c \in Chains : e \in ToSet(Chain[c])
First(c) == Chain[c][1]
Position(e) == CHOOSE i \in DOMAIN Chain[ChainOf(e)] : Chain[ChainOf(e)][i] = e
HasNext(e) == Position(e) < Len(Chain[ChainOf(e)])
NextOf(e) == Chain[ChainOf(e)][Position(e) + 1]

\* lockDedupe and lockRun.
Key(e) == <<"key", e>>
Row(e) == <<"row", e>>
Actors == Operators \cup Chains
Free(a, lock) == \A b \in Actors \ {a} : lock \notin held[b]
Unlocked(e) == \A a \in Actors : Row(e) \notin held[a]
Lock(a, lock) == Free(a, lock) /\ held' = [held EXCEPT ![a] = @ \cup {lock}]
Release(a) == held' = [held EXCEPT ![a] = {}]

\* pc: "idle", "preview", "planned" or the next statement of prune. old: what is
\* before the cutoff; rest: chains to read; read, picked: members read and
\* passed of the present one; plan: the candidates; todo: those not yet locked.
NoOp == [pc |-> "idle", old |-> {}, rest |-> {}, read |-> <<>>, picked |-> {}, plan |-> {}, todo |-> {}]

Init ==
  /\ run = [e \in Executions |-> "none"]
  /\ updated = [e \in Executions |-> 0]
  /\ late = 0 /\ busy = {} /\ links = {}
  /\ op = [o \in Operators |-> NoOp]
  /\ start = [c \in Chains |-> "idle"]
  /\ held = [a \in Actors |-> {}]
-----------------------------------------------------------------------------
\* Preview.

Version(e) == [id |-> e, updated |-> updated[e]]

\* followContinuation.
OwnerUnfollowed(e) == e  \* mutant
Owner(e) ==
  LET c == Chain[ChainOf(e)]
  IN c[Max({i \in Position(e)..Len(c) : \A j \in Position(e)..(i - 1) : run[c[j]] = "continued"})]

\* reason: why an execution must stay.
Linked(e) == {l[1] : l \in {k \in links : k[2] = e}} \cup {l[2] : l \in {k \in links : k[1] = e}}
Reason(e) ==
  \/ ~Terminal(e)
  \/ \E f \in Linked(e) : ~Terminal(Owner(f))
  \/ e \in busy

\* The first of the expired ones. The cutoff falls between the ends of chains.
FirstOf(S) == {e \in S : Cardinality({f \in S : f < e}) < Limit}
Preview(o) ==
  /\ op[o].pc = "idle"
  /\ \E C \in SUBSET Chains :
       LET S == {e \in UNION {ToSet(Chain[c]) : c \in C} : Terminal(e)}
       IN /\ S # {}
          /\ op' = [op EXCEPT ![o] = [NoOp EXCEPT !.pc = "preview", !.old = {Version(e) : e \in S},
                                  !.rest = {ChainOf(e) : e \in FirstOf(S)}]]
  /\ UNCHANGED <<journal, start, held>>

\* A chain is listed as a unit, or blocked.
ReadChain(o) ==
  /\ op[o].pc = "preview" /\ op[o].read = <<>> /\ op[o].rest # {}
  /\ \E c \in op[o].rest :
       LET members == SelectSeq(Chain[c], Exists)
           listed == \A i \in DOMAIN members : Terminal(members[i]) /\ Version(members[i]) \in op[o].old
       IN op' = [op EXCEPT ![o].rest = @ \ {c}, ![o].picked = {}, ![o].old = IF op[o].rest = {c} THEN {} ELSE @,
                           ![o].read = IF listed THEN [i \in DOMAIN members |-> Version(members[i])] ELSE <<>>]
  /\ UNCHANGED <<journal, start, held>>

AskReason(o) ==
  /\ op[o].pc = "preview" /\ op[o].read # <<>>
  /\ LET m == Head(op[o].read)
         picked == op[o].picked \cup {m}
     IN op' = IF Reason(m.id) THEN [op EXCEPT ![o].read = <<>>]
              ELSE [op EXCEPT ![o].read = Tail(@), ![o].picked = picked,
                              ![o].plan = IF Len(op[o].read) = 1 THEN @ \cup picked ELSE @]
  /\ UNCHANGED <<journal, start, held>>

Planned(o) ==
  /\ op[o].pc = "preview" /\ op[o].read = <<>> /\ op[o].rest = {}
  /\ op' = [op EXCEPT ![o] = IF op[o].plan = {} THEN NoOp ELSE [NoOp EXCEPT !.pc = "planned", !.plan = op[o].plan]]
  /\ UNCHANGED <<journal, start, held>>
-----------------------------------------------------------------------------
\* Prune: one transaction.

Confirm(o) ==
  /\ op[o].pc = "planned"
  /\ op' = [op EXCEPT ![o].pc = "key", ![o].todo = {m.id : m \in op[o].plan}]
  /\ UNCHANGED <<journal, start, held>>

Stale(o) ==
  /\ op' = [op EXCEPT ![o] = NoOp]
  /\ Release(o)
  /\ UNCHANGED <<journal, start>>

\* The candidate whose turn it is: prune sorts those of a plan.
Candidate(o) == Min(op[o].todo)

Vanished(o) ==
  /\ op[o].pc \in {"key", "check"} /\ op[o].todo # {}
  /\ ~Exists(Candidate(o))
  /\ Stale(o)

\* mutant
SkipKey(o) ==
  /\ op[o].pc = "key" /\ op[o].todo # {} /\ Exists(Candidate(o))
  /\ op' = [op EXCEPT ![o].pc = "row"]
  /\ UNCHANGED <<journal, start, held>>
LockKey(o) ==
  /\ op[o].pc = "key" /\ op[o].todo # {} /\ Exists(Candidate(o))
  /\ Lock(o, Key(Candidate(o)))
  /\ op' = [op EXCEPT ![o].pc = "row"]
  /\ UNCHANGED <<journal, start>>

\* A row that is gone locks nothing.
LockRow(o) ==
  /\ op[o].pc = "row"
  /\ IF Exists(Candidate(o)) THEN Lock(o, Row(Candidate(o))) ELSE UNCHANGED held
  /\ op' = [op EXCEPT ![o].pc = "check"]
  /\ UNCHANGED <<journal, start>>

Changed(o) == Version(Candidate(o)) \notin op[o].plan
Refuse(o) ==
  /\ op[o].pc = "check" /\ Exists(Candidate(o))
  /\ Changed(o) \/ Reason(Candidate(o))
  /\ Stale(o)

Select(o) ==
  /\ op[o].pc = "check" /\ Exists(Candidate(o))
  /\ ~(Changed(o) \/ Reason(Candidate(o)))
  /\ op' = [op EXCEPT ![o].pc = "key", ![o].todo = @ \ {Candidate(o)}]
  /\ UNCHANGED <<journal, start, held>>

Selected(o) == {m.id : m \in op[o].plan}
Whole(o) == \A e \in Selected(o) : \A f \in ToSet(Chain[ChainOf(e)]) : Exists(f) => f \in Selected(o)

Apply(o) ==
  /\ op[o].pc = "key" /\ op[o].todo = {}
  /\ IF Whole(o)
     THEN /\ run' = [e \in Executions |-> IF e \in Selected(o) THEN "pruned" ELSE run[e]]
          /\ links' = {l \in links : l[1] \notin Selected(o) /\ l[2] \notin Selected(o)}
     ELSE UNCHANGED <<run, links>>
  /\ op' = [op EXCEPT ![o] = NoOp]
  /\ Release(o)
  /\ UNCHANGED <<updated, late, busy, start>>
-----------------------------------------------------------------------------
\* Acceptance of the first generation of a chain, by a client or, with the link
\* of the child, by a round of its caller, however late that round is.

StartAt(c, pc) == start' = [start EXCEPT ![c] = pc]
Ready(c) == c \in Children => run[Caller[c]] # "none"

\* linkChild locks the row of the parent, if it is there.
LockParent(c) ==
  /\ start[c] = "idle" /\ Ready(c)
  /\ IF c \in Children /\ Exists(Caller[c]) THEN Lock(c, Row(Caller[c])) ELSE UNCHANGED held
  /\ StartAt(c, "key")
  /\ UNCHANGED <<journal, op>>

AcceptKey(c) ==
  /\ start[c] = "key"
  /\ Lock(c, Key(First(c)))
  /\ StartAt(c, "tombstone")
  /\ UNCHANGED <<journal, op>>

Tombstone(c) ==
  /\ start[c] = "tombstone"
  /\ IF run[First(c)] = "pruned" THEN StartAt(c, "idle") /\ Release(c)
     ELSE StartAt(c, "insert") /\ UNCHANGED held
  /\ UNCHANGED <<journal, op>>

\* ON CONFLICT DO NOTHING: a row that is there is found.
Accepted(c) ==
  LET e == First(c)
  IN run' = IF Exists(e) THEN run ELSE [run EXCEPT ![e] = "active"]
Event(S) ==
  updated' = [e \in Executions |-> IF e \in S THEN updated[e] + 1 ELSE updated[e]]

Insert(c) ==
  /\ start[c] = "insert" /\ c \notin Children
  /\ Accepted(c)
  /\ Event(IF Exists(First(c)) THEN {} ELSE {First(c)})
  /\ StartAt(c, "idle") /\ Release(c)
  /\ UNCHANGED <<late, busy, links, op>>

\* mutant
LinkAnyway(c) ==
  /\ start[c] = "insert" /\ c \in Children
  /\ Accepted(c)
  /\ links' = links \cup {<<Caller[c], First(c)>>}
  /\ UNCHANGED updated
  /\ StartAt(c, "idle") /\ Release(c)
  /\ UNCHANGED <<late, busy, op>>

\* The event of a new link fails when the parent is gone, and the child with it.
Link(c) ==
  /\ start[c] = "insert" /\ c \in Children
  /\ LET link == <<Caller[c], First(c)>>
     IN \/ /\ link \in links
           /\ UNCHANGED <<run, updated, links>>
        \/ /\ link \notin links /\ Exists(Caller[c])
           /\ Accepted(c)
           /\ links' = links \cup {link}
           /\ Event({Caller[c]} \cup (IF Exists(First(c)) THEN {} ELSE {First(c)}))
        \/ /\ link \notin links /\ ~Exists(Caller[c])
           /\ UNCHANGED <<run, updated, links>>
  /\ StartAt(c, "idle") /\ Release(c)
  /\ UNCHANGED <<late, busy, op>>
-----------------------------------------------------------------------------
\* The executions.

ContinueAsNew(e) ==
  /\ run[e] = "active" /\ HasNext(e) /\ Unlocked(e)
  /\ run' = [run EXCEPT ![e] = "continued", ![NextOf(e)] = "active"]
  /\ Event({e, NextOf(e)})
  /\ UNCHANGED <<late, busy, links, op, start, held>>

\* A failed run may leave deliveries, claims and dead letters behind.
Complete(e) ==
  /\ run[e] = "active" /\ Unlocked(e)
  /\ run' = [run EXCEPT ![e] = "ended"]
  /\ Event({e})
  /\ \E B \in SUBSET {e} : busy' = busy \cup B
  /\ UNCHANGED <<late, links, op, start, held>>

Drain(e) ==
  /\ e \in busy
  /\ busy' = busy \ {e}
  /\ UNCHANGED <<run, updated, late, links, op, start, held>>

\* A late claim or dead letter adds to the history of an ended run.
LateEvent(e) ==
  /\ Terminal(e) /\ Unlocked(e)
  /\ late < MaxLate /\ late' = late + 1
  /\ Event({e})
  /\ UNCHANGED <<run, busy, links, op, start, held>>

-----------------------------------------------------------------------------
\* The database ends a deadlock: one transaction of the cycle is rolled back.

Wants(a) ==
  IF a \in Operators
  THEN CASE op[a].pc = "key" /\ op[a].todo # {} -> {Key(Candidate(a))}
         [] op[a].pc = "row"                    -> {Row(Candidate(a))}
         [] OTHER                               -> {}
  ELSE CASE start[a] = "key"                    -> {Key(First(a))}
         [] start[a] = "idle" /\ a \in Children -> {Row(Caller[a])}
         [] OTHER                               -> {}
WaitsFor(a, b) == a # b /\ Wants(a) \cap held[b] # {}

Victim(a) ==
  /\ \E S \in SUBSET Actors : a \in S /\ \A b \in S : \E d \in S : WaitsFor(b, d)
  /\ Release(a)
  /\ op' = IF a \in Operators THEN [op EXCEPT ![a] = NoOp] ELSE op
  /\ start' = IF a \in Chains THEN [start EXCEPT ![a] = "idle"] ELSE start
  /\ UNCHANGED journal

Review(o) == Preview(o) \/ ReadChain(o) \/ AskReason(o) \/ Planned(o)
Prune(o) == Confirm(o) \/ Vanished(o) \/ LockKey(o) \/ LockRow(o) \/ Refuse(o) \/ Select(o) \/ Apply(o)
Accept(c) == LockParent(c) \/ AcceptKey(c) \/ Tombstone(c) \/ Insert(c) \/ Link(c)

Next ==
  \/ \E o \in Operators : Review(o) \/ Prune(o)
  \/ \E c \in Chains : Accept(c)
  \/ \E e \in Executions : ContinueAsNew(e) \/ Complete(e) \/ Drain(e) \/ LateEvent(e)
  \/ \E a \in Actors : Victim(a)

Spec == Init /\ [][Next]_vars
-----------------------------------------------------------------------------
\* The states are well formed, and two transactions never hold one lock.
TypeOK ==
  /\ run \in [Executions -> {"none", "active", "continued", "ended", "pruned"}]
  /\ updated \in [Executions -> Nat] /\ late \in 0..MaxLate
  /\ busy \subseteq Executions
  /\ links \subseteq {<<Caller[c], First(c)>> : c \in Children}
  /\ \A o \in Operators : op[o].pc \in {"idle", "preview", "planned", "key", "row", "check"}
  /\ start \in [Chains -> {"idle", "key", "tombstone", "insert"}]
  /\ \A a, b \in Actors : a # b => held[a] \cap held[b] = {}

\* Nothing that is left refers to something that was removed: a continued run
\* has its next generation, a link its parent and its child. Otherwise
\* followContinuation fails with STORAGE_INTEGRITY or EXECUTION_NOT_FOUND for good.
ReferencesHold ==
  /\ \A e \in Executions : run[e] = "continued" => Exists(NextOf(e))
  /\ \A l \in links : Exists(l[1]) /\ Exists(l[2])

\* A link goes only when both chains have ended, in their last generations: an
\* active parent does not lose the result of its child, and an active child
\* not the close policy of its parent, whatever was linked or continued
\* between the preview and the removal.
Going(e) == \E f \in ToSet(Chain[ChainOf(e)]) : run[f] = "active"
LinksOutlive == [][\A l \in links \ links' : ~Going(l[1]) /\ ~Going(l[2])]_vars

\* The key of a removed execution stays reserved: no start that overlaps its
\* removal accepts it again.
KeyIsReserved == [][\A e \in Executions : run[e] = "pruned" => run'[e] = "pruned"]_vars
=============================================================================
