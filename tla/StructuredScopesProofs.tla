----------------------- MODULE StructuredScopesProofs -----------------------
(***************************************************************************)
(* A saga of any number of steps, branches and attempts, over any number   *)
(* of crashes: its groups stay within their limit and settle, what took    *)
(* effect is undone, retries wait for their deadlines, and the scope       *)
(* implements Rollback. The argument is that of replay: what a round has   *)
(* recorded leads every later round the same way.                          *)
(***************************************************************************)
EXTENDS StructuredScopes, FiniteSetTheorems, WellFoundedInduction, TLAPS

USE DEF leaves, scopes, vars

-----------------------------------------------------------------------------
(* The inductive invariant. *)

\* How a step ends by what is recorded: every part of it succeeded, or c failed
\* first, in source order.
AllOk(s) ==
  IF Body[s] = "group" THEN Rows("completed") = 1..Branches
  ELSE \A c \in Forward : c[2] = s => command[c] = "completed"
FailedBy(s, c) ==
  IF Body[s] = "group"
  THEN Settled /\ Rows("failed") # {} /\ c = <<"branch", Least(Rows("failed"))>>
  ELSE /\ c \in Forward /\ c[2] = s /\ command[c] = "failed"
       /\ c[1] = "also" => command[<<"forward", s>>] = "completed"

\* A replay gets past the step; an earlier round got to it.
Past(s) == undo[s] # "none" \/ \E c \in Caught[s] : FailedBy(s, c)
Touched(s) ==
  \/ undo[s] # "none"
  \/ \E c \in Forward : c[2] = s /\ command[c] # "none"
  \/ Body[s] = "group" /\ \E b \in 1..Branches : branch[b] # "none"

Works == [attempt: Nat, answer: {"none", "ok", "retryable", "fatal"}, heard: BOOLEAN, rung: BOOLEAN]
Endings == Leaves \cup {CompensationFailed, NonDeterministic, Ok, None}
Sagas == [state: {"none", "running", "compensating"} \cup Final, failure: Endings \ {Ok}]
Places ==
  {"open", "step", "leaf", "group", "admit", "branches", "body", "close", "undo", "undoing", "return"}
Rounds ==
  [at: Places, row: Sagas \cup {None}, called: 0..Steps, outcome: Endings, tried: SUBSET (1..Branches),
   commands: Seq(Forward), leaf: [Leaves -> {"off", "begin", "offer", "await", "ok", "failed"}]]
TypeInv ==
  /\ command \in [Leaves -> {"none", "scheduled", "completed", "failed"}]
  /\ work \in [Leaves -> Works]
  /\ alarm \in [Leaves -> {"none", "armed", "due", "delivered"}]
  /\ branch \in [1..Branches -> {"none", "pending", "running", "completed", "failed"}]
  /\ saga \in Sagas
  /\ undo \in [1..Steps -> {"none", "registered", "completed", "failed"}]
  /\ round \in Rounds \cup {Idle}
  /\ result \in Endings
  /\ crashes \in 0..MaxCrashes

\* What the journal says of a leaf, the engine still says.
AttemptSound(c) ==
  /\ work[c].attempt <= MaxAttempts[c]
  /\ command[c] = "none" => work[c] = Unasked /\ alarm[c] = "none"
  /\ command[c] = "completed" => Succeeds(c)
  /\ command[c] = "failed" => Fails(c)
AlarmSound(c) ==
  c \notin Timers =>
    /\ alarm[c] # "none" => work[c].answer = "retryable"
    /\ work[c].rung = TRUE => alarm[c] \in {"due", "delivered"}
PhaseSound(c) ==
  ~At("idle") =>
    /\ round.leaf[c] \notin {"off", "begin"} => command[c] # "none"
    /\ round.leaf[c] = "ok" => command[c] = "completed"
    /\ round.leaf[c] = "failed" => command[c] = "failed"
LeafSound(c) == AttemptSound(c) /\ AlarmSound(c) /\ PhaseSound(c)
LeafInv == \A c \in Leaves : LeafSound(c)

\* Where a round is, and the saga it has read.
Alone(c) == \A d \in Leaves : round.leaf[d] # "off" => d = c
Last(s) == s \in Registered /\ \A t \in Registered : t <= s
Running == {"leaf", "group", "admit", "branches"}
Reading == {"step", "body", "close"} \cup Running
ControlInv ==
  ~At("idle") =>
    /\ round.at \notin {"leaf", "branches", "undoing"} => round.leaf = Off
    /\ round.at = "open" => round.called = 0
    /\ round.at \in Reading => round.row = saga /\ saga.state \in {"running", "compensating"}
    /\ round.at \in Running => saga.state = "running"
    /\ round.at \in {"body"} \cup Running => Called \in 1..Steps
    /\ round.at \in Running \ {"leaf"} => Body[Called] = "group"
    /\ round.at = "leaf" =>
         /\ Body[Called] # "group"
         /\ \/ /\ Alone(<<"forward", Called>>)
               /\ round.commands = IF Body[Called] = "all" THEN <<<<"also", Called>>>> ELSE <<>>
            \/ /\ Alone(<<"also", Called>>) /\ Body[Called] = "all"
               /\ round.commands = <<>> /\ command[<<"forward", Called>>] = "completed"
    /\ round.at = "branches" => \A d \in Leaves : round.leaf[d] # "off" => d \in Branch
    /\ round.at \in {"body", "close"} =>
         round.outcome # None /\ (round.at = "body" /\ saga.state = "compensating" => round.outcome # Ok)
    /\ round.at \in {"undo", "undoing"} => saga.state = "compensating" /\ round.outcome = saga.failure
    /\ round.at = "undoing" => \E s \in 1..Steps : Last(s) /\ Alone(<<"undo", s>>)
    /\ round.at = "return" =>
         \/ saga.state = "compensating" /\ round.outcome = NonDeterministic
         \/ saga.state \in Final /\ round.outcome = IF saga.failure = None THEN Ok ELSE saga.failure

\* While the scope goes forward, every replay gets as far as an earlier round.
ReplayInv ==
  saga.state \in {"none", "running"} =>
    /\ \A s, t \in 1..Steps : t < s /\ Touched(s) => Past(t)
    /\ round.at \in {"body", "close"} \cup Running => \A t \in 1..Steps : t < Called => Past(t)
    /\ round.at = "step" => \A t \in 1..Steps : t <= Called => Past(t)
    /\ round.at = "body" => IF round.outcome = Ok THEN AllOk(Called) ELSE FailedBy(Called, round.outcome)
    /\ round.at = "close" /\ round.outcome # Ok =>
         Called \in 1..Steps /\ FailedBy(Called, round.outcome) /\ round.outcome \notin Caught[Called]

ScopeInv ==
  /\ \A s \in 1..Steps : undo[s] # "none" => AllOk(s)
  /\ saga.state \in {"none", "running", "completed"} <=> saga.failure = None
  /\ saga.state \in {"compensating", "compensated", "compensation-failed"} =>
       \A s \in 1..Steps : TookEffect(s) => undo[s] # "none"
  /\ saga.state \in {"compensated", "compensation-failed"} => Registered = {}
  /\ saga.failure \in Branch => Settled /\ saga.failure[2] = Least(Rows("failed"))
  /\ result \notin {None, Ok, NonDeterministic} => saga.state \in {"compensated", "compensation-failed"}

Inv == TypeInv /\ LeafInv /\ ControlInv /\ ReplayInv /\ ScopeInv /\ AdmissionBound

-----------------------------------------------------------------------------
(* Leaves, branches and numbers. *)

\* The kinds of leaves are apart.
LEMMA LeafKinds ==
  /\ Forward \subseteq Leaves /\ Branch \subseteq Leaves /\ Undo \subseteq Leaves
  /\ \A c \in Forward :
       /\ c[2] \in 1..Steps /\ Body[c[2]] # "group"
       /\ c = <<"forward", c[2]>> \/ (c = <<"also", c[2]>> /\ Body[c[2]] = "all")
  /\ \A s \in 1..Steps : Body[s] # "group" => <<"forward", s>> \in Forward
  /\ \A s \in 1..Steps : Body[s] = "all" => <<"also", s>> \in Forward
  /\ \A b \in 1..Branches : <<"branch", b>> \in Branch
  /\ \A s \in 1..Steps : <<"undo", s>> \in Undo
  /\ \A c \in Branch : c \notin Forward /\ c = <<"branch", c[2]>> /\ c[2] \in 1..Branches
  /\ \A c \in Undo : c \notin Forward /\ c \notin Branch
  /\ Timers \subseteq Forward
BY StepAssumption DEF Forward, Branch, Undo, Leaves, Timers

\* The failures of the scope are no leaves, and nothing that ends is None.
LEMMA EndingKinds ==
  /\ Ok \notin Leaves /\ CompensationFailed \notin Leaves /\ NonDeterministic \notin Leaves
  /\ Ok # CompensationFailed /\ Ok # NonDeterministic
  /\ None \notin Leaves /\ None \notin {Ok, CompensationFailed, NonDeterministic}
  /\ Leaves \subseteq Endings /\ {Ok, None, CompensationFailed, NonDeterministic} \subseteq Endings
BY NullAssumption DEF Ok, CompensationFailed, NonDeterministic, Leaves, Forward, Branch, Undo, Endings

Less == {s \in Nat \X Nat : s[1] < s[2]}

\* A set of naturals that is not empty has a least element.
LEMMA LeastExists ==
  ASSUME NEW T, T \subseteq Nat, T # {}
  PROVE  \E m \in T : \A n \in T : m <= n
<1>1. Less = OpToRel(<, Nat)
  BY DEF Less, OpToRel
<1>2. IsWellFoundedOn(Less, Nat)
  BY <1>1, NatLessThanWellFounded
<1>3. PICK m \in T : \A n \in T : <<n, m>> \notin Less
  BY <1>2, WFMin
<1>4. \A n \in T : ~(n < m)
  BY <1>3 DEF Less
<1> QED
  BY <1>4

\* If it is bounded, it has a greatest, too.
LEMMA GreatestExists ==
  ASSUME NEW T, T \subseteq Nat, T # {}, NEW b \in Nat, \A n \in T : n <= b
  PROVE  \E m \in T : \A n \in T : n <= m
<1> DEFINE U == {m \in Nat : \A n \in T : n <= m}
<1>1. PICK m \in U : \A n \in U : m <= n
  <2>1. b \in U
    OBVIOUS
  <2> QED
    BY <2>1, LeastExists
<1>2. m \in T
  <2> SUFFICES ASSUME m \notin T PROVE FALSE
    OBVIOUS
  <2>1. \A n \in T : n <= m - 1 /\ m - 1 \in Nat
    BY <1>1
  <2>2. m - 1 \in U
    BY <2>1
  <2> QED
    BY <1>1, <2>2
<1> QED
  BY <1>1, <1>2

LEMMA LeastRow ==
  ASSUME NEW T, T \subseteq 1..Branches, T # {}
  PROVE  Least(T) \in T
<1>1. T \subseteq Nat
  BY StepAssumption
<1>2. \E m \in T : \A n \in T : m <= n
  BY <1>1, LeastExists
<1> QED
  BY <1>2 DEF Least

\* The stack of registered steps has a top.
LEMMA NextIsLast ==
  ASSUME Registered # {}
  PROVE  NextUndo \in 1..Steps /\ Last(NextUndo)
<1>1. Registered \subseteq Nat /\ Registered \subseteq 1..Steps /\ \A n \in Registered : n <= Steps
  BY StepAssumption DEF Registered
<1>2. \E m \in Registered : \A n \in Registered : n <= m
  BY <1>1, GreatestExists, StepAssumption
<1> QED
  BY <1>1, <1>2 DEF NextUndo, Last

-----------------------------------------------------------------------------
(* Replay: how a step ends, once recorded, stays. *)

LEMMA Exclusive ==
  ASSUME NEW s \in 1..Steps, AllOk(s), NEW c
  PROVE  ~FailedBy(s, c)
<1>1. CASE Body[s] = "group"
  <2>1. Rows("completed") \cap Rows("failed") = {} /\ Rows("failed") \subseteq 1..Branches
    BY DEF Rows
  <2> QED
    BY <1>1, <2>1 DEF AllOk, FailedBy
<1>2. CASE Body[s] # "group"
  BY <1>2 DEF AllOk, FailedBy
<1> QED
  BY <1>1, <1>2

LEMMA FailsOnce ==
  ASSUME NEW s \in 1..Steps, NEW c, NEW d, FailedBy(s, c), FailedBy(s, d)
  PROVE  c = d
<1>1. CASE Body[s] = "group"
  BY <1>1 DEF FailedBy
<1>2. CASE Body[s] # "group"
  BY <1>2, LeafKinds DEF FailedBy
<1> QED
  BY <1>1, <1>2

\* Only what was touched may take effect.
LEMMA EffectTouches ==
  ASSUME NEW s \in 1..Steps, TookEffect(s)
  PROVE  AllOk(s) /\ Touched(s)
<1>1. CASE Body[s] = "group"
  <2>1. 1 \in 1..Branches
    BY <1>1, StepAssumption DEF TookEffect
  <2>2. branch[1] # "none"
    BY <1>1, <2>1 DEF TookEffect, Rows
  <2> QED
    BY <1>1, <2>1, <2>2 DEF TookEffect, AllOk, Touched
<1>2. CASE Body[s] # "group"
  <2>1. <<"forward", s>> \in Forward /\ <<"forward", s>>[2] = s
    BY <1>2, LeafKinds
  <2> QED
    BY <1>2, <2>1 DEF TookEffect, AllOk, Touched
<1> QED
  BY <1>1, <1>2

Grows ==
  /\ \A c \in Leaves : command[c] \in {"completed", "failed"} => command'[c] = command[c]
  /\ \A b \in 1..Branches : branch[b] \in {"completed", "failed"} => branch'[b] = branch[b]
  /\ \A s \in 1..Steps : undo[s] # "none" => undo'[s] # "none"

LEMMA SettledStays ==
  ASSUME Grows, Settled
  PROVE  Settled' /\ Rows("failed")' = Rows("failed")
<1>1. Rows("completed") \subseteq Rows("completed")' /\ Rows("failed") \subseteq Rows("failed")'
  BY DEF Grows, Rows
<1>2. Rows("completed")' \cup Rows("failed")' \subseteq 1..Branches /\ Rows("completed")' \cap Rows("failed")' = {}
  BY DEF Rows
<1> QED
  BY <1>1, <1>2 DEF Settled

LEMMA RecordsStay ==
  ASSUME Grows, NEW s \in 1..Steps
  PROVE  /\ AllOk(s) => AllOk(s)'
         /\ \A c : FailedBy(s, c) => FailedBy(s, c)'
         /\ Past(s) => Past(s)'
<1>1. AllOk(s) => AllOk(s)'
  <2>1. CASE Body[s] = "group"
    BY <2>1 DEF Grows, AllOk, Rows
  <2>2. CASE Body[s] # "group"
    BY <2>2, LeafKinds DEF Grows, AllOk
  <2> QED
    BY <2>1, <2>2
<1>2. ASSUME NEW c, FailedBy(s, c)
      PROVE  FailedBy(s, c)'
  <2>1. CASE Body[s] = "group"
    BY <1>2, <2>1, SettledStays DEF FailedBy
  <2>2. CASE Body[s] # "group"
    BY <1>2, <2>2, LeafKinds DEF FailedBy, Grows
  <2> QED
    BY <2>1, <2>2
<1>3. Past(s) => Past(s)'
  BY <1>2 DEF Past, Grows
<1> QED
  BY <1>1, <1>2, <1>3

-----------------------------------------------------------------------------
(* Leaves: what the engine, the workers and a round do to one of them. *)

LEMMA SameScopes ==
  ASSUME ControlInv, ReplayInv, ScopeInv, AdmissionBound, UNCHANGED <<command, scopes, round, result>>
  PROVE  ControlInv' /\ ReplayInv' /\ ScopeInv' /\ AdmissionBound'
<1>1. /\ Called' = Called /\ Registered' = Registered /\ Settled' = Settled
      /\ \A p : Rows(p)' = Rows(p)
  BY DEF Called, Registered, Settled, Rows
<1>2. \A s \in 1..Steps : /\ AllOk(s)' <=> AllOk(s)
                          /\ TookEffect(s)' <=> TookEffect(s)
                          /\ Touched(s)' <=> Touched(s)
                          /\ \A c : FailedBy(s, c)' <=> FailedBy(s, c)
  BY <1>1 DEF AllOk, TookEffect, Touched, FailedBy
<1>3. \A s \in 1..Steps : (Past(s)' <=> Past(s)) /\ (Last(s)' <=> Last(s))
  BY <1>1, <1>2 DEF Past, Last
<1>4. ControlInv'
  BY <1>1, <1>3 DEF ControlInv, At, Alone
<1>5. ReplayInv'
  <2> SUFFICES ASSUME saga.state \in {"none", "running"}
               PROVE  ReplayInv'
    BY DEF ReplayInv
  <2>1. (\A s, t \in 1..Steps : t < s /\ Touched(s) => Past(t))'
    BY <1>2, <1>3 DEF ReplayInv
  <2>2. round'.at = "body" =>
          IF round'.outcome = Ok THEN AllOk(Called)' ELSE FailedBy(Called, round.outcome)'
    BY <1>1, <1>2 DEF ReplayInv, ControlInv, At
  <2>3. round'.at = "close" /\ round'.outcome # Ok =>
          Called \in 1..Steps /\ FailedBy(Called, round.outcome)' /\ round.outcome \notin Caught[Called]
    BY <1>1, <1>2 DEF ReplayInv
  <2> QED
    BY <1>1, <1>3, <2>1, <2>2, <2>3 DEF ReplayInv
<1>6. ScopeInv'
  BY <1>1, <1>2 DEF ScopeInv
<1> QED
  BY <1>1, <1>4, <1>5, <1>6 DEF AdmissionBound

\* A leaf nobody writes stays sound while the round does not say more of it.
LEMMA SameLeaf ==
  ASSUME NEW d \in Leaves, LeafSound(d),
         work'[d] = work[d], alarm'[d] = alarm[d], command'[d] = command[d],
         At("idle")' \/ round'.leaf[d] \in {"off", "begin"} \/ (~At("idle") /\ round'.leaf[d] = round.leaf[d])
  PROVE  LeafSound(d)'
BY DEF LeafSound, AttemptSound, AlarmSound, PhaseSound, Succeeds, Fails, At

\* A step writes the engine's side of one leaf at most.
Alarms == {"none", "armed", "due", "delivered"}
OnlyAt(c) ==
  /\ work' \in [Leaves -> Works] /\ alarm' \in [Leaves -> Alarms]
  /\ \A d \in Leaves \ {c} : work'[d] = work[d] /\ alarm'[d] = alarm[d]

\* Answers, deferreds, deadlines and retries are about the engine's side only.
LEMMA OutsideIsSound ==
  ASSUME Inv, NEW c \in Leaves, Outside(c) \/ Retry(c)
  PROVE  OnlyAt(c) /\ LeafSound(c)'
<1>1. /\ UNCHANGED <<command, round>>
      /\ work \in [Leaves -> Works] /\ alarm \in [Leaves -> Alarms] /\ work[c] \in Works
      /\ MaxAttempts[c] \in Nat /\ LeafSound(c)
  BY AttemptAssumption DEF Outside, Retry, Answer, Tell, Elapse, Deliver, Delivered, Inv, TypeInv, LeafInv, Alarms
<1>2. PhaseSound(c)'
  BY <1>1 DEF LeafSound, PhaseSound, At
<1>3. ASSUME Answer(c)
      PROVE  OnlyAt(c) /\ LeafSound(c)'
  <2>1. PICK a \in {"ok", "retryable", "fatal"} :
          /\ work' = [work EXCEPT ![c].answer = a]
          /\ alarm' = IF a = "retryable" /\ work[c].attempt < MaxAttempts[c]
                      THEN [alarm EXCEPT ![c] = "armed"] ELSE alarm
    BY <1>3 DEF Answer
  <2>2. work[c].attempt > 0 /\ work[c].answer = "none"
    BY <1>3 DEF Answer
  <2>3. /\ work'[c] \in Works /\ work'[c].answer = a /\ work'[c].attempt = work[c].attempt
        /\ work'[c].heard = work[c].heard /\ work'[c].rung = work[c].rung
    BY <1>1, <2>1 DEF Works
  <2>4. alarm'[c] = alarm[c] \/ (alarm'[c] = "armed" /\ a = "retryable")
    BY <1>1, <2>1 DEF Alarms
  <2>5. OnlyAt(c)
    BY <1>1, <2>1, <2>3 DEF OnlyAt, Alarms
  <2>6. command[c] # "none"
    BY <1>1, <2>2 DEF LeafSound, AttemptSound, Unasked
  <2>7. c \notin Timers => alarm[c] = "none" /\ work[c].rung = FALSE
    BY <1>1, <2>2 DEF LeafSound, AlarmSound, Works
  <2>8. command[c] # "failed" /\ (command[c] = "completed" => c \in Timers)
    BY <1>1, <2>2 DEF LeafSound, AttemptSound, Succeeds, Fails
  <2> QED
    <3>1. AttemptSound(c)'
      BY <1>1, <2>3, <2>6, <2>8 DEF LeafSound, AttemptSound, Succeeds
    <3>2. AlarmSound(c)'
      BY <2>3, <2>4, <2>7 DEF AlarmSound
    <3> QED
      BY <1>2, <2>5, <3>1, <3>2 DEF LeafSound
<1>4. ASSUME Tell(c) \/ Deliver(c)
      PROVE  OnlyAt(c) /\ LeafSound(c)'
  <2>1. PICK h \in BOOLEAN, g \in BOOLEAN :
          /\ work' = [work EXCEPT ![c] = [work[c] EXCEPT !.heard = h, !.rung = g]]
          /\ alarm' = alarm
          /\ work[c].heard => h
          /\ work[c].rung => g
          /\ g => work[c].rung \/ alarm[c] = "due"
          /\ alarm[c] = "none" => work[c].answer # "none"
    <3>1. CASE Tell(c)
      <4>1. work' = [work EXCEPT ![c] = [work[c] EXCEPT !.heard = TRUE, !.rung = work[c].rung]]
        BY <1>1, <3>1 DEF Tell, Works
      <4> QED
        BY <1>1, <3>1, <4>1 DEF Tell, Works
    <3>2. CASE Deliver(c)
      <4>1. work' = [work EXCEPT ![c] = [work[c] EXCEPT !.heard = work[c].heard, !.rung = TRUE]]
        BY <1>1, <3>2 DEF Deliver, Works
      <4> QED
        BY <1>1, <3>2, <4>1 DEF Deliver, Works, DueTimers, PendingRetries
    <3> QED
      BY <1>4, <3>1, <3>2
  <2>2. /\ work'[c] \in Works /\ work'[c].answer = work[c].answer /\ work'[c].attempt = work[c].attempt
        /\ work'[c].heard = h /\ work'[c].rung = g
    BY <1>1, <2>1 DEF Works
  <2>3. OnlyAt(c)
    BY <1>1, <2>1, <2>2 DEF OnlyAt
  <2>4. command[c] # "none"
    BY <1>1, <2>1 DEF LeafSound, AttemptSound, Unasked
  <2>5. c \notin Timers /\ work'[c].rung = TRUE => alarm[c] \in {"due", "delivered"}
    BY <1>1, <2>1, <2>2 DEF LeafSound, AlarmSound, Works
  <2>6. (command[c] = "completed" => Succeeds(c)') /\ (command[c] = "failed" => Fails(c)')
    BY <1>1, <2>1, <2>2 DEF LeafSound, AttemptSound, Succeeds, Fails
  <2> QED
    <3>1. AttemptSound(c)'
      BY <1>1, <2>2, <2>4, <2>6 DEF LeafSound, AttemptSound
    <3>2. AlarmSound(c)'
      BY <1>1, <2>1, <2>2, <2>5 DEF LeafSound, AlarmSound
    <3> QED
      BY <1>2, <2>3, <3>1, <3>2 DEF LeafSound
<1>5. ASSUME Elapse(c) \/ Delivered(c)
      PROVE  OnlyAt(c) /\ LeafSound(c)'
  <2>1. PICK a \in {"due", "delivered"} :
          alarm' = [alarm EXCEPT ![c] = a] /\ work' = work /\ alarm[c] # "none"
    BY <1>5 DEF Elapse, Delivered
  <2>2. alarm'[c] = a
    BY <1>1, <2>1
  <2>3. OnlyAt(c)
    BY <1>1, <2>1 DEF OnlyAt, Alarms
  <2> QED
    <3>1. AttemptSound(c)'
      BY <1>1, <2>1 DEF LeafSound, AttemptSound, Succeeds, Fails
    <3>2. AlarmSound(c)'
      BY <1>1, <2>1, <2>2 DEF LeafSound, AlarmSound
    <3> QED
      BY <1>2, <2>3, <3>1, <3>2 DEF LeafSound
<1>6. ASSUME Retry(c)
      PROVE  OnlyAt(c) /\ LeafSound(c)'
  <2>1. /\ work' = [work EXCEPT ![c] = [Unasked EXCEPT !.attempt = work[c].attempt + 1]]
        /\ alarm' = [alarm EXCEPT ![c] = "none"]
        /\ ~At("idle") /\ round.leaf[c] = "await" /\ MayRetry(c)
    BY <1>6 DEF Retry, In
  <2>2. /\ work'[c] \in Works /\ work'[c].attempt = work[c].attempt + 1 /\ work'[c].rung = FALSE
    <3>1. Unasked \in Works /\ work[c].attempt + 1 \in Nat
      BY <1>1 DEF Works, Unasked
    <3>2. work'[c] = [Unasked EXCEPT !.attempt = work[c].attempt + 1]
      BY <1>1, <2>1
    <3>3. work'[c].rung = FALSE
      BY <3>2 DEF Unasked
    <3> QED
      BY <3>1, <3>2, <3>3 DEF Works
  <2>3. OnlyAt(c)
    BY <1>1, <2>1, <2>2 DEF OnlyAt, Alarms
  <2>4. command[c] \notin {"none", "completed", "failed"}
    BY <1>1, <2>1 DEF LeafSound, AttemptSound, MayRetry, Succeeds, Fails, Unasked
  <2>5. c \notin Timers /\ alarm'[c] = "none" /\ work'[c].attempt <= MaxAttempts[c]
    BY <1>1, <2>1, <2>2 DEF MayRetry, Works
  <2> QED
    <3>1. AttemptSound(c)'
      BY <1>1, <2>4, <2>5 DEF AttemptSound
    <3>2. AlarmSound(c)'
      BY <2>2, <2>5 DEF AlarmSound
    <3> QED
      BY <1>2, <2>3, <3>1, <3>2 DEF LeafSound
<1> QED
  BY <1>3, <1>4, <1>5, <1>6 DEF Outside

LEMMA OutsideKeeps ==
  ASSUME Inv, NEW c \in Leaves, Outside(c) \/ Retry(c)
  PROVE  Inv'
<1>1. UNCHANGED <<command, scopes, round, result, crashes>>
  BY DEF Outside, Retry, Answer, Tell, Elapse, Deliver, Delivered
<1>2. OnlyAt(c) /\ LeafSound(c)'
  BY OutsideIsSound
<1>3. ASSUME NEW d \in Leaves \ {c}
      PROVE  LeafSound(d)'
  <2>1. /\ LeafSound(d) /\ work'[d] = work[d] /\ alarm'[d] = alarm[d] /\ command'[d] = command[d]
        /\ At("idle")' \/ (~At("idle") /\ round'.leaf[d] = round.leaf[d])
    BY <1>1, <1>2 DEF Inv, LeafInv, OnlyAt, At
  <2> QED
    BY <2>1, SameLeaf
<1>4. TypeInv' /\ LeafInv'
  BY <1>1, <1>2, <1>3 DEF Inv, TypeInv, LeafInv, OnlyAt, Alarms
<1> QED
  BY <1>1, <1>4, SameScopes DEF Inv

Phases == {"off", "begin", "offer", "await", "ok", "failed"}

LEMMA InRound ==
  ASSUME TypeInv, ~At("idle")
  PROVE  round \in Rounds /\ round.at \in Places /\ Called \in 0..Steps /\ round.outcome \in Endings
         /\ round.leaf \in [Leaves -> Phases] /\ round.commands \in Seq(Forward)
<1>1. round \in Rounds
  BY DEF TypeInv, At, Idle
<1> QED
  BY <1>1 DEF Rounds, Called, Phases

LEMMA RoundLeaf ==
  ASSUME round \in Rounds, NEW c \in Leaves, NEW p \in Phases, Leaf(c, p)
  PROVE  /\ round' \in Rounds /\ round'.at = round.at /\ round'.row = round.row /\ round'.called = round.called
         /\ round'.outcome = round.outcome /\ round'.commands = round.commands
         /\ round'.leaf = [round.leaf EXCEPT ![c] = p]
         /\ round'.leaf[c] = p /\ \A d \in Leaves \ {c} : round'.leaf[d] = round.leaf[d]
<1>1. round' = [round EXCEPT !.leaf = [round.leaf EXCEPT ![c] = p]]
  BY DEF Leaf, Rounds
<1>2. round.leaf \in [Leaves -> Phases] /\ [round.leaf EXCEPT ![c] = p] \in [Leaves -> Phases]
  BY DEF Rounds, Phases
<1>3. round' \in Rounds
  BY <1>1, <1>2 DEF Rounds, Phases
<1> QED
  BY <1>1, <1>2, <1>3 DEF Rounds

\* A round is at a leaf that is neither off nor of another place.
LEMMA WhereLeaf ==
  ASSUME Inv, NEW c \in Leaves, ~At("idle"), round.leaf[c] # "off"
  PROVE  /\ round.at \in {"leaf", "branches", "undoing"}
         /\ c \in Forward => round.at = "leaf" /\ saga.state = "running" /\ c[2] = Called
         /\ round.at = "leaf" => c \in Forward
         /\ round.at = "undoing" => c \in Undo
<1>1. round.leaf # Off
  BY DEF Off
<1>2. round.at \in {"leaf", "branches", "undoing"}
  BY <1>1 DEF Inv, ControlInv
<1>3. CASE round.at = "leaf"
  <2>1. saga.state = "running" /\ Called \in 1..Steps /\ Body[Called] # "group"
    BY <1>3 DEF Inv, ControlInv, Running
  <2>2. c = <<"forward", Called>> \/ (c = <<"also", Called>> /\ Body[Called] = "all")
    BY <1>3 DEF Inv, ControlInv, Alone
  <2>3. c \in Forward /\ c[2] = Called
    BY <2>1, <2>2, LeafKinds
  <2> QED
    BY <1>3, <2>1, <2>3
<1>4. CASE round.at = "branches"
  <2>1. c \in Branch
    BY <1>4 DEF Inv, ControlInv
  <2> QED
    BY <1>4, <2>1, LeafKinds
<1>5. CASE round.at = "undoing"
  <2>1. PICK s \in 1..Steps : c = <<"undo", s>>
    BY <1>5 DEF Inv, ControlInv, Alone
  <2> QED
    BY <1>5, <2>1, LeafKinds
<1> QED
  BY <1>2, <1>3, <1>4, <1>5

\* The round goes on with one leaf, and writes its command.
CommandStep(c, p) ==
  /\ ~At("idle") /\ round.leaf[c] # "off"
  /\ p \in Phases \ {"off"} /\ Leaf(c, p)
  /\ command' \in [Leaves -> {"none", "scheduled", "completed", "failed"}]
  /\ \A d \in Leaves \ {c} : command'[d] = command[d]
  /\ command[c] \in {"completed", "failed"} => command'[c] = command[c]
  /\ OnlyAt(c) /\ LeafSound(c)'
  /\ UNCHANGED <<scopes, result, crashes>>

LEMMA CommandStepKeeps ==
  ASSUME Inv, NEW c \in Leaves, NEW p, CommandStep(c, p)
  PROVE  Inv'
<1>1. /\ round \in Rounds /\ Called \in 0..Steps
      /\ UNCHANGED <<scopes, result, crashes>> /\ round.leaf[c] # "off" /\ ~At("idle")
      /\ \A d \in Leaves \ {c} : command'[d] = command[d]
  BY InRound DEF CommandStep, Inv
<1>2. /\ round' \in Rounds /\ round'.at = round.at /\ round'.row = round.row /\ round'.called = round.called
      /\ round'.outcome = round.outcome /\ round'.commands = round.commands
      /\ round'.leaf[c] = p /\ \A d \in Leaves \ {c} : round'.leaf[d] = round.leaf[d]
  BY <1>1, RoundLeaf DEF CommandStep
<1>3. /\ round.at \in {"leaf", "branches", "undoing"}
      /\ c \in Forward => round.at = "leaf" /\ saga.state = "running" /\ c[2] = Called
  BY <1>1, WhereLeaf
<1>4. TypeInv'
  BY <1>1, <1>2 DEF Inv, TypeInv, CommandStep, OnlyAt, Alarms
<1>5. LeafInv'
  <2> SUFFICES ASSUME NEW d \in Leaves \ {c} PROVE LeafSound(d)'
    BY DEF LeafInv, CommandStep
  <2>1. LeafSound(d) /\ work'[d] = work[d] /\ alarm'[d] = alarm[d] /\ command'[d] = command[d]
    BY <1>1 DEF Inv, LeafInv, CommandStep, OnlyAt
  <2> QED
    BY <1>1, <1>2, <2>1, SameLeaf
<1>6. Grows
  BY <1>1 DEF Grows, CommandStep
<1>7. /\ Called' = Called /\ Registered' = Registered /\ Settled' = Settled /\ (At("idle")' <=> At("idle"))
      /\ \A q : Rows(q)' = Rows(q)
  BY <1>1, <1>2 DEF Called, Registered, Settled, Rows, At
<1>8. \A d : Alone(d) => Alone(d)'
  BY <1>1, <1>2 DEF Alone
<1>9. ControlInv'
  <2>1. round.at = "leaf" => /\ Alone(<<"forward", Called>>) => Alone(<<"forward", Called>>)'
                             /\ Alone(<<"also", Called>>) => Alone(<<"also", Called>>)'
                             /\ Body[Called] # "group" /\ Called \in 1..Steps
    <3>1. round.at = "leaf" => Body[Called] # "group" /\ Called \in 1..Steps
      BY <1>1 DEF Inv, ControlInv, Running
    <3> QED
      BY <1>7, <1>8, <3>1
  <2>2. round.at = "leaf" /\ command[<<"forward", Called>>] = "completed" =>
          command'[<<"forward", Called>>] = "completed"
    BY <1>6, <2>1, LeafKinds DEF Grows
  <2>3. \A s \in 1..Steps : (Last(s)' <=> Last(s)) /\ (Alone(<<"undo", s>>) => Alone(<<"undo", s>>)')
    BY <1>7, <1>8 DEF Last
  <2>4. round.at = "leaf" =>
          /\ Body[Called] # "group"
          /\ \/ /\ Alone(<<"forward", Called>>)'
                /\ round.commands = IF Body[Called] = "all" THEN <<<<"also", Called>>>> ELSE <<>>
             \/ /\ Alone(<<"also", Called>>)' /\ Body[Called] = "all"
                /\ round.commands = <<>> /\ command'[<<"forward", Called>>] = "completed"
    BY <1>1, <2>1, <2>2 DEF Inv, ControlInv
  <2>5. round.at = "branches" => \A d \in Leaves : round'.leaf[d] # "off" => d \in Branch
    BY <1>1, <1>2 DEF Inv, ControlInv
  <2>6. round.at = "undoing" => \E s \in 1..Steps : Last(s)' /\ Alone(<<"undo", s>>)'
    BY <1>1, <2>3 DEF Inv, ControlInv
  <2>7. /\ round.at \in Reading => round.row = saga /\ saga.state \in {"running", "compensating"}
        /\ round.at \in Running => saga.state = "running"
        /\ round.at \in {"body"} \cup Running => Called \in 1..Steps
        /\ round.at \in Running \ {"leaf"} => Body[Called] = "group"
        /\ round.at \in {"undo", "undoing"} => saga.state = "compensating" /\ round.outcome = saga.failure
    BY <1>1 DEF Inv, ControlInv
  <2> QED
    BY <1>1, <1>2, <1>3, <1>7, <2>4, <2>5, <2>6, <2>7 DEF ControlInv
<1>10. ASSUME NEW s \in 1..Steps, Touched(s)', ~Touched(s)
       PROVE  s = Called /\ round.at = "leaf"
  <2>1. PICK d \in Forward : d[2] = s /\ command'[d] # "none" /\ command[d] = "none"
    BY <1>1, <1>10 DEF Touched
  <2>2. d = c
    BY <1>1, <2>1, LeafKinds
  <2> QED
    BY <1>3, <2>1, <2>2
<1>11. ReplayInv'
  <2> SUFFICES ASSUME saga.state \in {"none", "running"}
               PROVE  /\ \A s, t \in 1..Steps : t < s /\ Touched(s)' => Past(t)'
                      /\ round.at \in Running => \A t \in 1..Steps : t < Called => Past(t)'
    BY <1>1, <1>2, <1>3, <1>7 DEF ReplayInv
  <2>1. \A t \in 1..Steps : Past(t) => Past(t)'
    BY <1>6, RecordsStay
  <2>2. round.at \in Running => \A t \in 1..Steps : t < Called => Past(t)
    BY DEF Inv, ReplayInv
  <2>3. ASSUME NEW s \in 1..Steps, NEW t \in 1..Steps, t < s, Touched(s)'
        PROVE  Past(t)
    <3>1. CASE Touched(s)
      BY <2>3, <3>1 DEF Inv, ReplayInv
    <3>2. CASE ~Touched(s)
      BY <1>10, <2>2, <2>3, <3>2 DEF Running
    <3> QED
      BY <3>1, <3>2
  <2> QED
    BY <2>1, <2>2, <2>3
<1>12. ScopeInv'
  <2>1. \A s \in 1..Steps : AllOk(s) => AllOk(s)'
    BY <1>6, RecordsStay
  <2>2. ASSUME saga.state \in {"compensating", "compensated", "compensation-failed"},
               NEW s \in 1..Steps, TookEffect(s)'
        PROVE  undo[s] # "none"
    <3>1. c \notin Forward
      BY <1>3, <2>2
    <3>2. \A d \in Forward : command'[d] = command[d]
      BY <1>1, <3>1, LeafKinds
    <3>3. TookEffect(s)
      BY <1>7, <2>2, <3>2 DEF TookEffect
    <3> QED
      BY <2>2, <3>3 DEF Inv, ScopeInv
  <2> QED
    BY <1>1, <1>7, <2>1, <2>2 DEF Inv, ScopeInv
<1>13. AdmissionBound'
  BY <1>7 DEF Inv, AdmissionBound
<1> QED
  BY <1>4, <1>5, <1>9, <1>11, <1>12, <1>13 DEF Inv

LEMMA PerformKeeps ==
  ASSUME Inv, NEW c \in Leaves, Perform(c)
  PROVE  Inv'
<1>1. /\ command \in [Leaves -> {"none", "scheduled", "completed", "failed"}]
      /\ work \in [Leaves -> Works] /\ alarm \in [Leaves -> Alarms] /\ work[c] \in Works
      /\ MaxAttempts[c] \in Nat \ {0} /\ LeafSound(c)
  BY AttemptAssumption DEF Inv, TypeInv, LeafInv, Alarms
<1>2. ASSUME NEW q \in {"begin", "offer", "await"}, In(c, q), NEW p \in Phases, Leaf(c, p)
      PROVE  ~At("idle") /\ round.leaf[c] # "off" /\ round'.leaf[c] = p /\ ~At("idle")'
  <2>1. round \in Rounds
    BY <1>2, InRound DEF In, Inv
  <2>2. round'.leaf[c] = p /\ round'.at = round.at
    BY <1>2, <2>1, RoundLeaf
  <2> QED
    BY <1>2, <2>2 DEF In, At
<1>3. ASSUME BeginCommand(c)
      PROVE  CommandStep(c, "offer")
  <2>1. /\ In(c, "begin") /\ Leaf(c, "offer") /\ UNCHANGED <<work, alarm, scopes, wake, result, crashes>>
        /\ command' = [command EXCEPT ![c] = IF @ = "none" THEN "scheduled" ELSE @]
    BY <1>3 DEF BeginCommand
  <2>2. ~At("idle") /\ round.leaf[c] # "off" /\ round'.leaf[c] = "offer"
    BY <1>2, <2>1 DEF Phases
  <2>3. command'[c] = IF command[c] = "none" THEN "scheduled" ELSE command[c]
    BY <1>1, <2>1
  <2>4. LeafSound(c)'
    <3>1. PhaseSound(c)'
      BY <2>2, <2>3 DEF PhaseSound
    <3>2. AttemptSound(c)' /\ AlarmSound(c)'
      BY <1>1, <2>1, <2>3 DEF LeafSound, AttemptSound, AlarmSound, Succeeds, Fails
    <3> QED
      BY <3>1, <3>2 DEF LeafSound
  <2> QED
    BY <1>1, <2>1, <2>2, <2>3, <2>4 DEF CommandStep, OnlyAt, Phases
<1>4. ASSUME Offer(c)
      PROVE  CommandStep(c, "await")
  <2>1. /\ In(c, "offer") /\ Leaf(c, "await") /\ UNCHANGED <<command, scopes, wake, result, crashes>>
        /\ IF c \in Timers THEN Arm(c) ELSE Hand(c)
    BY <1>4 DEF Offer
  <2>2. ~At("idle") /\ round.leaf[c] = "offer" /\ round'.leaf[c] = "await"
    BY <1>2, <2>1 DEF Phases, In
  <2>3. command[c] # "none"
    BY <1>1, <2>2 DEF LeafSound, PhaseSound
  <2>4. ASSUME c \in Timers
        PROVE  OnlyAt(c) /\ AttemptSound(c)' /\ AlarmSound(c)'
    <3>1. work' = work /\ alarm' = [alarm EXCEPT ![c] = IF @ = "none" THEN "armed" ELSE @]
      BY <2>1, <2>4 DEF Arm
    <3> QED
      BY <1>1, <2>1, <2>3, <2>4, <3>1 DEF LeafSound, AttemptSound, AlarmSound, Succeeds, Fails, OnlyAt, Alarms
  <2>5. ASSUME c \notin Timers
        PROVE  OnlyAt(c) /\ AttemptSound(c)' /\ AlarmSound(c)'
    <3>1. /\ work' = [work EXCEPT ![c] = [work[c] EXCEPT !.attempt = IF work[c].attempt = 0 THEN 1 ELSE work[c].attempt]]
          /\ alarm' = alarm
      BY <1>1, <2>1, <2>5 DEF Hand, Works
    <3>2. /\ work'[c] \in Works /\ work'[c].answer = work[c].answer /\ work'[c].heard = work[c].heard
          /\ work'[c].rung = work[c].rung
          /\ work'[c].attempt = IF work[c].attempt = 0 THEN 1 ELSE work[c].attempt
      BY <1>1, <3>1 DEF Works
    <3>3. OnlyAt(c)
      BY <1>1, <3>1, <3>2 DEF OnlyAt
    <3>4. work[c].attempt = 0 => ~(command[c] = "failed" /\ work[c].answer = "retryable")
      BY <1>1 DEF LeafSound, AttemptSound, Fails
    <3>5. AttemptSound(c)'
      BY <1>1, <2>1, <2>3, <2>5, <3>1, <3>2, <3>4 DEF LeafSound, AttemptSound, Succeeds, Fails
    <3>6. AlarmSound(c)'
      BY <1>1, <3>1, <3>2 DEF LeafSound, AlarmSound
    <3> QED
      BY <3>3, <3>5, <3>6
  <2>6. PhaseSound(c)'
    BY <2>1, <2>2, <2>3 DEF PhaseSound
  <2> QED
    BY <1>1, <2>1, <2>2, <2>4, <2>5, <2>6 DEF CommandStep, LeafSound, Phases
<1>5. ASSUME FinishCommand(c)
      PROVE  \E p : CommandStep(c, p)
  <2>2. PICK p \in {"ok", "failed"} :
          /\ Leaf(c, p) /\ command' = [command EXCEPT ![c] = IF p = "ok" THEN "completed" ELSE "failed"]
          /\ IF p = "ok" THEN Succeeds(c) ELSE Fails(c) /\ ~Succeeds(c)
    BY <1>5 DEF FinishCommand
  <2>3. ~At("idle") /\ round.leaf[c] = "await" /\ round'.leaf[c] = p
    BY <1>2, <1>5, <2>2 DEF Phases, In, FinishCommand
  <2>4. command'[c] = IF p = "ok" THEN "completed" ELSE "failed"
    BY <1>1, <2>2
  <2>5. Succeeds(c) => ~Fails(c)
    BY DEF Succeeds, Fails
  <2>6. command[c] \in {"completed", "failed"} => command'[c] = command[c]
    BY <1>1, <2>2, <2>4, <2>5 DEF LeafSound, AttemptSound
  <2>7. UNCHANGED <<work, alarm, scopes, result, crashes>>
    BY <1>5 DEF FinishCommand
  <2>8. LeafSound(c)'
    <3>1. PhaseSound(c)'
      BY <2>3, <2>4 DEF PhaseSound
    <3>2. AttemptSound(c)' /\ AlarmSound(c)'
      BY <1>1, <2>2, <2>4, <2>7 DEF LeafSound, AttemptSound, AlarmSound, Succeeds, Fails
    <3> QED
      BY <3>1, <3>2 DEF LeafSound
  <2>9. CommandStep(c, p)
    BY <1>1, <2>2, <2>3, <2>4, <2>6, <2>7, <2>8 DEF CommandStep, OnlyAt, Phases
  <2> QED
    BY <2>9
<1> QED
  BY <1>3, <1>4, <1>5, CommandStepKeeps, OutsideKeeps DEF Perform

-----------------------------------------------------------------------------
(* Rounds: steps that write nothing but the round. *)

LEMMA Yields ==
  ASSUME round \in Rounds, NEW p \in Places, NEW o \in Endings, Yield(p, o)
  PROVE  /\ round' \in Rounds /\ round'.at = p /\ round'.outcome = o /\ round'.commands = <<>>
         /\ round'.leaf = Off /\ round'.row = round.row /\ round'.called = round.called
<1>1. Off \in [Leaves -> {"off", "begin", "offer", "await", "ok", "failed"}] /\ <<>> \in Seq(Forward)
  BY DEF Off
<1>2. round' = [round EXCEPT !.at = p, !.outcome = o, !.commands = <<>>, !.leaf = Off]
  BY DEF Yield
<1>3. round' \in Rounds
  BY <1>1, <1>2 DEF Rounds
<1> QED
  BY <1>2, <1>3 DEF Rounds

LEMMA Goes ==
  ASSUME round \in Rounds, NEW p \in Places, Goto(p)
  PROVE  /\ round' \in Rounds /\ round'.at = p /\ round'.outcome = round.outcome
         /\ round'.commands = round.commands
         /\ round'.leaf = round.leaf /\ round'.row = round.row /\ round'.called = round.called
BY DEF Goto, Rounds

\* The round says no more of a leaf than before.
Quiet ==
  round' = Idle \/ \A c \in Leaves : round'.leaf[c] \in {"off", "begin"}
                                     \/ (~At("idle") /\ round'.leaf[c] = round.leaf[c])

LEMMA QuietLeaves ==
  ASSUME Inv, UNCHANGED leaves, Quiet
  PROVE  LeafInv'
<1> SUFFICES ASSUME NEW c \in Leaves PROVE LeafSound(c)'
  BY DEF LeafInv
<1>1. LeafSound(c)
  BY DEF Inv, LeafInv
<1>2. At("idle")' \/ round'.leaf[c] \in {"off", "begin"} \/ (~At("idle") /\ round'.leaf[c] = round.leaf[c])
  BY DEF Quiet, Idle, At
<1> QED
  BY <1>1, <1>2, SameLeaf

LEMMA OffIsQuiet ==
  ASSUME round'.leaf = Off
  PROVE  Quiet
BY DEF Quiet, Off

LEMMA SameRecords ==
  ASSUME UNCHANGED <<command, branch, undo>>
  PROVE  /\ Registered' = Registered /\ Settled' = Settled /\ \A p : Rows(p)' = Rows(p)
         /\ \A s \in 1..Steps :
              /\ AllOk(s)' <=> AllOk(s)
              /\ TookEffect(s)' <=> TookEffect(s)
              /\ Touched(s)' <=> Touched(s)
              /\ Past(s)' <=> Past(s)
              /\ Last(s)' <=> Last(s)
              /\ \A c : FailedBy(s, c)' <=> FailedBy(s, c)
<1>1. Registered' = Registered /\ Settled' = Settled /\ \A p : Rows(p)' = Rows(p)
  BY DEF Registered, Settled, Rows
<1>2. \A s \in 1..Steps : /\ AllOk(s)' <=> AllOk(s)
                          /\ TookEffect(s)' <=> TookEffect(s)
                          /\ Touched(s)' <=> Touched(s)
                          /\ \A c : FailedBy(s, c)' <=> FailedBy(s, c)
  BY <1>1 DEF AllOk, TookEffect, Touched, FailedBy
<1>3. \A s \in 1..Steps : (Past(s)' <=> Past(s)) /\ (Last(s)' <=> Last(s))
  BY <1>1, <1>2 DEF Past, Last
<1> QED
  BY <1>1, <1>2, <1>3

RoundStep ==
  /\ UNCHANGED <<leaves, scopes, result>> /\ crashes' \in 0..MaxCrashes
  /\ round' \in Rounds \cup {Idle}
  /\ Quiet

LEMMA RoundKeeps ==
  ASSUME Inv, RoundStep, ControlInv', ReplayInv'
  PROVE  Inv'
<1>1. LeafInv'
  BY QuietLeaves DEF RoundStep
<1>2. TypeInv'
  BY DEF Inv, TypeInv, RoundStep
<1>3. ScopeInv' /\ AdmissionBound'
  BY SameRecords DEF Inv, ScopeInv, AdmissionBound, RoundStep
<1> QED
  BY <1>1, <1>2, <1>3 DEF Inv

\* A suspension or a crash takes the round away.
LEMMA EndOfRoundKeeps ==
  ASSUME Inv, UNCHANGED <<leaves, scopes, result>>, crashes' \in 0..MaxCrashes, round' = Idle
  PROVE  Inv'
<1>1. RoundStep
  BY DEF RoundStep, Quiet
<1>2. round'.at = "idle"
  BY DEF Idle
<1>3. ControlInv'
  BY <1>2 DEF ControlInv, At
<1>4. ReplayInv'
  BY <1>2, SameRecords DEF ReplayInv, Running, Inv
<1> QED
  BY <1>1, <1>3, <1>4, RoundKeeps

LEMMA StartRoundKeeps ==
  ASSUME Inv, StartRound
  PROVE  Inv'
<1>1. round' = Round /\ UNCHANGED <<leaves, scopes, result, crashes>>
  BY DEF StartRound
<1>2. /\ round' \in Rounds /\ round'.at = "open" /\ round'.called = 0 /\ round'.leaf = Off
  <2>1. /\ Off \in [Leaves -> {"off", "begin", "offer", "await", "ok", "failed"}] /\ <<>> \in Seq(Forward)
        /\ 0 \in 0..Steps /\ None \in Endings /\ "open" \in Places
    BY StepAssumption, EndingKinds DEF Off, Places
  <2> QED
    BY <1>1, <2>1 DEF Round, Rounds
<1>3. RoundStep
  BY <1>1, <1>2, OffIsQuiet DEF RoundStep, Inv, TypeInv
<1>4. ControlInv'
  BY <1>2 DEF ControlInv, Running, Reading
<1>5. ReplayInv'
  BY <1>1, <1>2, SameRecords DEF ReplayInv, Running, Inv
<1> QED
  BY <1>3, <1>4, <1>5, RoundKeeps

\* The handler calls its next step.
LEMMA CallStepKeeps ==
  ASSUME Inv, CallStep
  PROVE  Inv'
<1> DEFINE s == Called + 1
           enter == [round EXCEPT !.called = s]
<1>1. /\ round.at = "step" /\ ~At("idle") /\ Called < Steps /\ UNCHANGED <<leaves, scopes, wake, result, crashes>>
      /\ round' = IF undo[s] # "none" THEN enter
                  ELSE IF round.row.state # "running"
                  THEN [enter EXCEPT !.at = "body", !.outcome = round.row.failure]
                  ELSE IF Body[s] = "group" THEN CallGroup(enter)
                  ELSE Take(Submit(enter, Calls(s)))
  BY DEF CallStep, At
<1>2. /\ round \in Rounds /\ Called \in 0..Steps /\ s \in 1..Steps /\ s - 1 = Called
      /\ round.leaf = Off /\ round.row = saga /\ saga.state \in {"running", "compensating"}
      /\ saga \in Sagas
  BY <1>1, InRound, StepAssumption DEF Inv, ControlInv, Reading, TypeInv
<1>3. saga.state \in {"none", "running"} => \A t \in 1..Steps : t < s => Past(t)
  BY <1>1, <1>2 DEF Inv, ReplayInv
<1>4. enter \in Rounds /\ enter.at = "step" /\ enter.called = s /\ enter.leaf = Off /\ enter.row = saga
  <2> HIDE DEF s
  <2> QED
    BY <1>1, <1>2 DEF Rounds
<1> HIDE DEF s
<1>5. ASSUME RoundStep, ControlInv', ReplayInv'
      PROVE  Inv'
  BY <1>5, RoundKeeps
<1>6. crashes \in 0..MaxCrashes
  BY DEF Inv, TypeInv
<1>7. /\ \A t \in 1..Steps : Past(t)' <=> Past(t)
      /\ saga.state \in {"none", "running"} => \A q, t \in 1..Steps : t < q /\ Touched(q)' => Past(t)'
  BY <1>1, SameRecords DEF Inv, ReplayInv
<1>8. CASE undo[s] # "none"
  <2>1. round' = enter
    BY <1>1, <1>8
  <2> HIDE DEF enter
  <2>2. RoundStep
    BY <1>1, <1>4, <1>6, <2>1, OffIsQuiet DEF RoundStep
  <2>3. ControlInv'
    BY <1>1, <1>2, <1>4, <2>1 DEF ControlInv, Reading, Running
  <2>4. Past(s)
    BY <1>8 DEF Past
  <2>5. saga.state \in {"none", "running"} => \A t \in 1..Steps : t <= s => Past(t)
    BY <1>2, <1>3, <2>4
  <2>6. ReplayInv'
    BY <1>1, <1>4, <1>7, <2>1, <2>5 DEF ReplayInv, Running, Called
  <2> QED
    BY <2>2, <2>3, <2>6, RoundKeeps
<1>9. CASE undo[s] = "none" /\ saga.state # "running"
  <2>1. round' = [enter EXCEPT !.at = "body", !.outcome = saga.failure]
    BY <1>1, <1>2, <1>9
  <2> HIDE DEF enter
  <2>2. saga.failure \in Endings /\ saga.failure # None /\ saga.failure # Ok /\ saga.state = "compensating"
    BY <1>2, <1>9 DEF Inv, ScopeInv, Sagas
  <2>3. /\ round' \in Rounds /\ round'.at = "body" /\ round'.outcome = saga.failure /\ round'.called = s
        /\ round'.leaf = Off /\ round'.row = saga
    BY <1>4, <2>1, <2>2 DEF Rounds, Places
  <2>4. RoundStep
    BY <1>1, <1>6, <2>3, OffIsQuiet DEF RoundStep
  <2>5. ControlInv'
    BY <1>1, <1>2, <2>2, <2>3 DEF ControlInv, Reading, Running, Called
  <2>6. ReplayInv'
    BY <1>1, <2>2 DEF ReplayInv
  <2> QED
    BY <2>4, <2>5, <2>6, RoundKeeps
<1>10. CASE undo[s] = "none" /\ saga.state = "running" /\ Body[s] = "group"
  <2>1. round' = [enter EXCEPT !.at = "group"]
    BY <1>1, <1>2, <1>10 DEF CallGroup
  <2> HIDE DEF enter
  <2>2. /\ round' \in Rounds /\ round'.at = "group" /\ round'.called = s /\ round'.leaf = Off /\ round'.row = saga
    BY <1>4, <2>1 DEF Rounds, Places
  <2>3. RoundStep
    BY <1>1, <1>6, <2>2, OffIsQuiet DEF RoundStep
  <2>4. ControlInv'
    BY <1>1, <1>2, <1>10, <2>2 DEF ControlInv, Reading, Running, Called
  <2>5. ReplayInv'
    BY <1>1, <1>3, <1>7, <1>10, <2>2 DEF ReplayInv, Running, Called
  <2> QED
    BY <2>3, <2>4, <2>5, RoundKeeps
<1>11. CASE undo[s] = "none" /\ saga.state = "running" /\ Body[s] # "group"
  <2> DEFINE c == <<"forward", s>>
             rest == IF Body[s] = "all" THEN <<<<"also", s>>>> ELSE <<>>
             phases == [Off EXCEPT ![c] = "begin"]
  <2>1. round' = Take(Submit(enter, Calls(s)))
    BY <1>1, <1>2, <1>11
  <2>2. c \in Forward /\ c \in Leaves /\ rest \in Seq(Forward)
    BY <1>2, <1>11, LeafKinds
  <2>3. Calls(s) # <<>> /\ Head(Calls(s)) = c /\ Tail(Calls(s)) = rest /\ Calls(s) \in Seq(Forward)
    BY <1>2, <1>11, LeafKinds DEF Calls
  <2>4. phases \in [Leaves -> {"off", "begin", "offer", "await", "ok", "failed"}]
        /\ phases[c] = "begin" /\ \A d \in Leaves \ {c} : phases[d] = "off"
    BY <2>2 DEF Off
  <2>5. round' = [enter EXCEPT !.at = "leaf", !.commands = rest, !.leaf = phases]
    <3> DEFINE calls == Calls(s)
               state == [enter EXCEPT !.at = "leaf", !.commands = calls]
    <3>1. round' = [state EXCEPT !.commands = Tail(state.commands), !.leaf = [Off EXCEPT ![Head(state.commands)] = "begin"]]
      <4> HIDE DEF enter
      <4> QED
        BY <2>1 DEF Take, Submit
    <3> HIDE DEF enter, calls
    <3>2. state.commands = calls /\ state \in [at : {"leaf"}, row : {enter.row}, called : {enter.called}, outcome : {enter.outcome},
             tried : {enter.tried}, commands : {calls}, leaf : {enter.leaf}]
      BY <1>4 DEF Rounds
    <3>3. round' = [state EXCEPT !.commands = rest, !.leaf = phases]
      BY <2>3, <3>1, <3>2 DEF calls
    <3> QED
      BY <1>4, <3>3 DEF Rounds
  <2> HIDE DEF enter, rest, phases
  <2>6. /\ round' \in Rounds /\ round'.at = "leaf" /\ round'.called = s /\ round'.row = saga
        /\ round'.commands = rest /\ round'.leaf = phases
    BY <1>4, <2>2, <2>4, <2>5 DEF Rounds, Places
  <2>7. RoundStep
    BY <1>1, <1>6, <2>2, <2>4, <2>6 DEF RoundStep, Quiet
  <2>8. Alone(<<"forward", Called>>)'
    BY <2>4, <2>6 DEF Alone, Called
  <2>9. ControlInv'
    BY <1>1, <1>2, <1>11, <2>6, <2>8 DEF ControlInv, Reading, Running, Called, rest
  <2>10. ReplayInv'
    BY <1>1, <1>3, <1>7, <1>11, <2>6 DEF ReplayInv, Running, Called
  <2> QED
    BY <2>7, <2>9, <2>10, RoundKeeps
<1> QED
  BY <1>8, <1>9, <1>10, <1>11

\* A leaf of the step ends: the next is taken up, or the step ends.
LEMMA LeafEndsKeeps ==
  ASSUME Inv, NEW c \in Forward, LeafEnds(c)
  PROVE  Inv'
<1>1. /\ round.at = "leaf" /\ ~At("idle") /\ UNCHANGED <<leaves, scopes, wake, result, crashes>>
      /\ round.leaf[c] \in {"ok", "failed"}
      /\ \/ round.leaf[c] = "ok" /\ round.commands # <<>> /\ round' = Take(round)
         \/ round.leaf[c] = "ok" /\ round.commands = <<>> /\ Yield("body", Ok)
         \/ round.leaf[c] = "failed" /\ Yield("body", c)
  BY DEF LeafEnds, At, In
<1>2. /\ round \in Rounds /\ Called \in 1..Steps /\ Body[Called] # "group"
      /\ round.row = saga /\ saga.state = "running" /\ crashes \in 0..MaxCrashes
      /\ \A t \in 1..Steps : t < Called => Past(t)
  BY <1>1, InRound DEF Inv, ControlInv, ReplayInv, Reading, Running, TypeInv
<1>3. /\ c \in Leaves /\ c[2] = Called /\ c # Ok /\ c # None
      /\ c = <<"forward", Called>> \/ (c = <<"also", Called>> /\ Body[Called] = "all")
      /\ round.leaf[c] = "ok" => command[c] = "completed"
      /\ round.leaf[c] = "failed" => command[c] = "failed"
  <2>1. c \in Leaves /\ c # Ok /\ c # None
    BY LeafKinds, EndingKinds
  <2>2. c[2] = Called
    BY <1>1, <2>1, WhereLeaf
  <2>3. LeafSound(c)
    BY <2>1 DEF Inv, LeafInv
  <2> QED
    BY <1>1, <2>1, <2>2, <2>3, LeafKinds DEF LeafSound, PhaseSound
<1>4. \/ /\ Alone(<<"forward", Called>>) /\ c = <<"forward", Called>>
         /\ round.commands = IF Body[Called] = "all" THEN <<<<"also", Called>>>> ELSE <<>>
      \/ /\ Alone(<<"also", Called>>) /\ Body[Called] = "all" /\ c = <<"also", Called>>
         /\ round.commands = <<>> /\ command[<<"forward", Called>>] = "completed"
  BY <1>1, <1>3 DEF Inv, ControlInv, Alone
<1>5. /\ \A t \in 1..Steps : (Past(t)' <=> Past(t)) /\ (AllOk(t)' <=> AllOk(t)) /\ \A d : FailedBy(t, d)' <=> FailedBy(t, d)
      /\ \A q, t \in 1..Steps : t < q /\ Touched(q)' => Past(t)'
  BY <1>1, <1>2, SameRecords DEF Inv, ReplayInv
<1>6. ASSUME NEW o \in Endings, Yield("body", o), o # None, IF o = Ok THEN AllOk(Called) ELSE FailedBy(Called, o)
      PROVE  Inv'
  <2>1. /\ round' \in Rounds /\ round'.at = "body" /\ round'.outcome = o
        /\ round'.leaf = Off /\ round'.row = round.row /\ round'.called = round.called
    BY <1>2, <1>6, Yields DEF Places
  <2>2. RoundStep
    BY <1>1, <1>2, <2>1, OffIsQuiet DEF RoundStep
  <2>3. ControlInv'
    BY <1>1, <1>2, <1>6, <2>1 DEF ControlInv, Reading, Running, Called
  <2>4. ReplayInv'
    BY <1>1, <1>2, <1>5, <1>6, <2>1 DEF ReplayInv, Running, Called
  <2> QED
    BY <2>2, <2>3, <2>4, RoundKeeps
<1>7. CASE round.leaf[c] = "ok" /\ round.commands # <<>> /\ round' = Take(round)
  <2> DEFINE next == <<"also", Called>>
             phases == [Off EXCEPT ![next] = "begin"]
  <2>1. /\ c = <<"forward", Called>> /\ Body[Called] = "all" /\ round.commands = <<next>>
        /\ command[<<"forward", Called>>] = "completed"
    BY <1>3, <1>4, <1>7
  <2>2. next \in Leaves
    BY <1>2, <2>1, LeafKinds
  <2>3. phases \in [Leaves -> {"off", "begin", "offer", "await", "ok", "failed"}]
        /\ phases[next] = "begin" /\ \A d \in Leaves \ {next} : phases[d] = "off"
    BY <2>2 DEF Off
  <2>4. Head(round.commands) = next /\ Tail(round.commands) = <<>>
    BY <2>1
  <2>5. round' = [round EXCEPT !.commands = <<>>, !.leaf = phases]
    <3>1. round' = [round EXCEPT !.commands = Tail(round.commands), !.leaf = [Off EXCEPT ![Head(round.commands)] = "begin"]]
      BY <1>2, <1>7 DEF Take, Rounds
    <3> QED
      BY <2>4, <3>1
  <2> HIDE DEF next, phases
  <2>6. <<>> \in Seq(Forward)
    OBVIOUS
  <2>7. /\ round' \in Rounds /\ round'.at = "leaf" /\ round'.called = round.called /\ round'.row = round.row
        /\ round'.commands = <<>> /\ round'.leaf = phases
    BY <1>1, <1>2, <2>3, <2>5, <2>6 DEF Rounds
  <2>8. RoundStep
    BY <1>1, <1>2, <2>2, <2>3, <2>7 DEF RoundStep, Quiet
  <2>9. Alone(<<"also", Called>>)' /\ Called' = Called
    BY <2>3, <2>7 DEF Alone, Called, next
  <2>10. ControlInv'
    BY <1>1, <1>2, <2>1, <2>7, <2>9 DEF ControlInv, Reading, Running, Called
  <2>11. ReplayInv'
    BY <1>1, <1>2, <1>5, <2>7 DEF ReplayInv, Running, Called
  <2> QED
    BY <2>8, <2>10, <2>11, RoundKeeps
<1>8. CASE round.leaf[c] = "ok" /\ round.commands = <<>> /\ Yield("body", Ok)
  <2>1. Body[Called] = "all" => c = <<"also", Called>> /\ command[<<"forward", Called>>] = "completed"
    BY <1>4, <1>8
  <2>2. ASSUME NEW d \in Forward, d[2] = Called
        PROVE  command[d] = "completed"
    BY <1>3, <1>8, <2>1, <2>2, LeafKinds
  <2>3. AllOk(Called)
    BY <1>2, <2>2 DEF AllOk
  <2> QED
    BY <1>6, <1>8, <2>3, EndingKinds
<1>9. CASE round.leaf[c] = "failed" /\ Yield("body", c)
  <2>1. c[1] = "also" => command[<<"forward", Called>>] = "completed"
    BY <1>4
  <2>2. FailedBy(Called, c)
    BY <1>2, <1>3, <1>9, <2>1 DEF FailedBy
  <2>3. c \in Endings
    BY <1>3, EndingKinds
  <2> QED
    BY <1>3, <1>6, <1>9, <2>2, <2>3
<1> QED
  BY <1>1, <1>7, <1>8, <1>9

\* The handler catches the failure of a step, or lets it out.
LEMMA StepFailsKeeps ==
  ASSUME Inv, StepFails
  PROVE  Inv'
<1>1. /\ round.at = "body" /\ ~At("idle") /\ round.outcome # Ok /\ UNCHANGED <<leaves, scopes, wake, result, crashes>>
      /\ IF round.outcome \in Caught[Called] THEN Yield("step", None) ELSE Goto("close")
  BY DEF StepFails, At
<1>2. /\ round \in Rounds /\ Called \in 1..Steps /\ round.leaf = Off /\ round.outcome # None
      /\ round.row = saga /\ saga.state \in {"running", "compensating"} /\ crashes \in 0..MaxCrashes
  BY <1>1, InRound DEF Inv, ControlInv, Reading, TypeInv
<1>3. saga.state = "running" => /\ FailedBy(Called, round.outcome)
                                /\ \A t \in 1..Steps : t < Called => Past(t)
  BY <1>1 DEF Inv, ReplayInv
<1>4. /\ \A t \in 1..Steps : (Past(t)' <=> Past(t)) /\ \A d : FailedBy(t, d)' <=> FailedBy(t, d)
      /\ saga.state \in {"none", "running"} => \A q, t \in 1..Steps : t < q /\ Touched(q)' => Past(t)'
  BY <1>1, SameRecords DEF Inv, ReplayInv
<1>5. CASE round.outcome \in Caught[Called] /\ Yield("step", None)
  <2>1. /\ round' \in Rounds /\ round'.at = "step"
        /\ round'.leaf = Off /\ round'.row = round.row /\ round'.called = round.called
    BY <1>2, <1>5, Yields, EndingKinds DEF Places
  <2>2. RoundStep
    BY <1>1, <1>2, <2>1, OffIsQuiet DEF RoundStep
  <2>3. ControlInv'
    BY <1>1, <1>2, <2>1 DEF ControlInv, Reading, Running, Called
  <2>4. saga.state = "running" => \A t \in 1..Steps : t <= Called => Past(t)
    <3>1. saga.state = "running" => Past(Called)
      BY <1>3, <1>5 DEF Past
    <3> QED
      BY <1>2, <1>3, <3>1
  <2>5. ReplayInv'
    BY <1>1, <1>2, <1>4, <2>1, <2>4 DEF ReplayInv, Running, Called
  <2> QED
    BY <2>2, <2>3, <2>5, RoundKeeps
<1>6. CASE round.outcome \notin Caught[Called] /\ Goto("close")
  <2>1. /\ round' \in Rounds /\ round'.at = "close" /\ round'.outcome = round.outcome
        /\ round'.leaf = Off /\ round'.row = round.row /\ round'.called = round.called
    BY <1>2, <1>6, Goes DEF Places
  <2>2. RoundStep
    BY <1>1, <1>2, <2>1, OffIsQuiet DEF RoundStep
  <2>3. ControlInv'
    BY <1>1, <1>2, <2>1 DEF ControlInv, Reading, Running, Called
  <2>4. ReplayInv'
    BY <1>1, <1>2, <1>3, <1>4, <1>6, <2>1 DEF ReplayInv, Running, Called
  <2> QED
    BY <2>2, <2>3, <2>4, RoundKeeps
<1> QED
  BY <1>1, <1>5, <1>6

LEMMA HandlerReturnsKeeps ==
  ASSUME Inv, HandlerReturns
  PROVE  Inv'
<1>1. /\ round.at = "step" /\ ~At("idle") /\ Yield("close", Ok) /\ UNCHANGED <<leaves, scopes, wake, result, crashes>>
  BY DEF HandlerReturns, At
<1>2. /\ round \in Rounds /\ Called \in 0..Steps
      /\ round.row = saga /\ saga.state \in {"running", "compensating"} /\ crashes \in 0..MaxCrashes
  BY <1>1, InRound DEF Inv, ControlInv, Reading, TypeInv
<1>3. /\ round' \in Rounds /\ round'.at = "close" /\ round'.outcome = Ok
      /\ round'.leaf = Off /\ round'.row = round.row /\ round'.called = round.called
  BY <1>1, <1>2, Yields, EndingKinds DEF Places
<1>4. RoundStep
  BY <1>1, <1>2, <1>3, OffIsQuiet DEF RoundStep
<1>5. ControlInv'
  BY <1>1, <1>2, <1>3, EndingKinds DEF ControlInv, Reading, Running, Called
<1>6. /\ \A t \in 1..Steps : Past(t)' <=> Past(t)
      /\ saga.state \in {"none", "running"} =>
           /\ \A q, t \in 1..Steps : t < q /\ Touched(q)' => Past(t)'
           /\ \A t \in 1..Steps : t < Called => Past(t)
  BY <1>1, <1>2, SameRecords DEF Inv, ReplayInv
<1>7. ReplayInv'
  BY <1>1, <1>3, <1>6 DEF ReplayInv, Running, Called
<1> QED
  BY <1>4, <1>5, <1>7, RoundKeeps

\* A rollback that lacks a callback ends the round; one that does not goes on
\* with the undo of the last step.
LEMMA UndoRoundKeeps ==
  ASSUME Inv, MissingCallback \/ Compensate
  PROVE  Inv'
<1>1. /\ round.at = "undo" /\ ~At("idle") /\ UNCHANGED <<leaves, scopes, wake, result, crashes>>
  BY DEF MissingCallback, Compensate, At
<1>2. /\ round \in Rounds /\ saga.state = "compensating" /\ round.outcome = saga.failure /\ round.leaf = Off
      /\ crashes \in 0..MaxCrashes
  BY <1>1, InRound DEF Inv, ControlInv, TypeInv
<1>3. ReplayInv'
  BY <1>1, <1>2 DEF ReplayInv
<1>4. CASE MissingCallback
  <2>1. /\ round' \in Rounds /\ round'.at = "return" /\ round'.outcome = NonDeterministic /\ round'.leaf = Off
    BY <1>2, <1>4, Yields, EndingKinds DEF MissingCallback, Places
  <2>2. RoundStep
    BY <1>1, <1>2, <2>1, OffIsQuiet DEF RoundStep
  <2>3. ControlInv'
    BY <1>1, <1>2, <2>1 DEF ControlInv, Reading, Running
  <2> QED
    BY <1>3, <2>2, <2>3, RoundKeeps
<1>5. CASE Compensate
  <2> DEFINE s == NextUndo
             c == <<"undo", s>>
             phases == [Off EXCEPT ![c] = "begin"]
  <2>1. s \in 1..Steps /\ Last(s)
    BY <1>5, NextIsLast DEF Compensate
  <2>2. round' = [round EXCEPT !.at = "undoing", !.leaf = phases]
    BY <1>2, <1>5 DEF Compensate, Rounds
  <2>3. c \in Leaves
    BY <2>1, LeafKinds
  <2> HIDE DEF s
  <2>4. phases \in [Leaves -> {"off", "begin", "offer", "await", "ok", "failed"}]
        /\ phases[c] = "begin" /\ \A d \in Leaves \ {c} : phases[d] = "off"
    BY <2>3 DEF Off
  <2>5. PICK q \in 1..Steps : q = s
    BY <2>1
  <2> HIDE DEF phases
  <2>6. /\ round' \in Rounds /\ round'.at = "undoing" /\ round'.outcome = round.outcome /\ round'.leaf = phases
    BY <1>2, <2>2, <2>4 DEF Rounds, Places
  <2>7. RoundStep
    BY <1>1, <1>2, <2>3, <2>4, <2>6 DEF RoundStep, Quiet
  <2>8. Last(q)' /\ Alone(<<"undo", q>>)'
    <3>1. Last(q)'
      BY <1>1, <2>1, <2>5, SameRecords
    <3>2. \A d \in Leaves : phases[d] # "off" => d = <<"undo", q>>
      BY <2>3, <2>4, <2>5
    <3> QED
      BY <2>6, <3>1, <3>2 DEF Alone
  <2>9. ControlInv'
    BY <1>1, <1>2, <2>6, <2>8 DEF ControlInv, Reading, Running
  <2> QED
    BY <1>3, <2>7, <2>9, RoundKeeps
<1> QED
  BY <1>4, <1>5

-----------------------------------------------------------------------------
(* Groups of branches. *)

\* All branches have ended, or a round asks for more.
LEMMA GroupRoundKeeps ==
  ASSUME Inv, ReturnGroup \/ AdmitMore \/ \E c \in Branch : LeaveBranch(c)
  PROVE  Inv'
<1>1. round.at = "branches" /\ ~At("idle") /\ UNCHANGED <<leaves, scopes, wake, result, crashes>>
  BY DEF ReturnGroup, AdmitMore, LeaveBranch, Observed, At
<1>2. /\ round \in Rounds /\ Called \in 1..Steps /\ Body[Called] = "group"
      /\ round.row = saga /\ saga.state = "running" /\ crashes \in 0..MaxCrashes
      /\ \A t \in 1..Steps : t < Called => Past(t)
      /\ \A d \in Leaves : round.leaf[d] # "off" => d \in Branch
  BY <1>1, InRound DEF Inv, ControlInv, ReplayInv, Reading, Running, TypeInv
<1>3. /\ \A t \in 1..Steps : (Past(t)' <=> Past(t)) /\ (AllOk(t)' <=> AllOk(t)) /\ \A d : FailedBy(t, d)' <=> FailedBy(t, d)
      /\ \A q, t \in 1..Steps : t < q /\ Touched(q)' => Past(t)'
  BY <1>1, <1>2, SameRecords DEF Inv, ReplayInv
<1>4. CASE ReturnGroup
  <2> DEFINE o == IF Rows("failed") = {} THEN Ok ELSE <<"branch", Least(Rows("failed"))>>
  <2>1. Settled /\ Yield("body", o)
    BY <1>4 DEF ReturnGroup, ReturnsGroup
  <2>2. Rows("failed") # {} => Least(Rows("failed")) \in 1..Branches
    BY LeastRow DEF Rows
  <2>3. Rows("failed") # {} => o \in Branch /\ o \in Leaves
    BY <2>2, LeafKinds
  <2>4. o \in Endings /\ o # None /\ (o = Ok <=> Rows("failed") = {})
    BY <2>3, EndingKinds
  <2>5. IF o = Ok THEN AllOk(Called) ELSE FailedBy(Called, o)
    <3>1. Rows("failed") = {} => Rows("completed") = 1..Branches
      BY <2>1 DEF Settled
    <3> QED
      BY <1>2, <2>1, <2>4, <3>1 DEF AllOk, FailedBy
  <2> HIDE DEF o
  <2>6. /\ round' \in Rounds /\ round'.at = "body" /\ round'.outcome = o
        /\ round'.leaf = Off /\ round'.row = round.row /\ round'.called = round.called
    BY <1>2, <2>1, <2>4, Yields DEF Places
  <2>7. RoundStep
    BY <1>1, <1>2, <2>6, OffIsQuiet DEF RoundStep
  <2>8. ControlInv'
    BY <1>1, <1>2, <2>4, <2>6 DEF ControlInv, Reading, Running, Called
  <2>9. ReplayInv'
    BY <1>1, <1>2, <1>3, <2>5, <2>6 DEF ReplayInv, Running, Called
  <2> QED
    BY <2>7, <2>8, <2>9, RoundKeeps
<1>5. CASE AdmitMore
  <2>1. /\ round' \in Rounds /\ round'.at = "admit" /\ round'.outcome = round.outcome
        /\ round'.leaf = Off /\ round'.row = round.row /\ round'.called = round.called
    BY <1>2, <1>5, Goes DEF AdmitMore, Observed, Places
  <2>2. RoundStep
    BY <1>1, <1>2, <2>1, OffIsQuiet DEF RoundStep
  <2>3. ControlInv'
    BY <1>1, <1>2, <2>1 DEF ControlInv, Reading, Running, Called
  <2>4. ReplayInv'
    BY <1>1, <1>2, <1>3, <2>1 DEF ReplayInv, Running, Called
  <2> QED
    BY <2>2, <2>3, <2>4, RoundKeeps
<1>6. ASSUME NEW c \in Branch, LeaveBranch(c)
      PROVE  Inv'
  <2>1. /\ round' \in Rounds /\ round'.at = "branches" /\ round'.outcome = round.outcome
        /\ round'.row = round.row /\ round'.called = round.called
        /\ round'.leaf[c] = "off" /\ \A d \in Leaves \ {c} : round'.leaf[d] = round.leaf[d]
    BY <1>1, <1>2, <1>6, RoundLeaf, LeafKinds DEF LeaveBranch, Phases
  <2>2. RoundStep
    BY <1>1, <1>2, <2>1 DEF RoundStep, Quiet
  <2>3. ControlInv'
    BY <1>1, <1>2, <2>1 DEF ControlInv, Reading, Running, Called
  <2>4. ReplayInv'
    BY <1>1, <1>2, <1>3, <2>1 DEF ReplayInv, Running, Called
  <2> QED
    BY <2>2, <2>3, <2>4, RoundKeeps
<1> QED
  BY <1>4, <1>5, <1>6

\* A group writes its branches.
BranchStep ==
  /\ round.at \in Running \ {"leaf"} /\ ~At("idle")
  /\ UNCHANGED <<leaves, saga, undo, result, crashes>>
  /\ branch' \in [1..Branches -> {"none", "pending", "running", "completed", "failed"}]
  /\ \A b \in 1..Branches : branch[b] \in {"completed", "failed"} => branch'[b] = branch[b]
  /\ round' \in Rounds /\ round'.at \in Running \ {"leaf"}
  /\ round'.row = round.row /\ round'.called = round.called
  /\ round'.at # "branches" => round'.leaf = Off
  /\ \A d \in Leaves : round'.leaf[d] # "off" => d \in Branch
  /\ Quiet

LEMMA BranchStepKeeps ==
  ASSUME Inv, BranchStep, AdmissionBound'
  PROVE  Inv'
<1>1. /\ UNCHANGED <<leaves, saga, undo, result, crashes>> /\ ~At("idle")
      /\ round.at \in Running \ {"leaf"} /\ round'.at \in Running \ {"leaf"} /\ round'.called = round.called
      /\ round'.row = round.row
  BY DEF BranchStep
<1>2. /\ Called \in 1..Steps /\ Body[Called] = "group" /\ round.row = saga /\ saga.state = "running"
      /\ \A t \in 1..Steps : t < Called => Past(t)
  BY <1>1 DEF Inv, ControlInv, ReplayInv, Reading, Running
<1>3. Grows
  BY DEF BranchStep, Grows
<1>4. LeafInv'
  BY QuietLeaves DEF BranchStep
<1>5. TypeInv'
  BY DEF Inv, TypeInv, BranchStep
<1>6. ControlInv'
  <2>1. /\ round'.at \notin {"leaf", "branches", "undoing"} => round'.leaf = Off
        /\ round'.at = "branches" => \A d \in Leaves : round'.leaf[d] # "off" => d \in Branch
    BY DEF BranchStep
  <2> QED
    BY <1>1, <1>2, <2>1 DEF ControlInv, Reading, Running, Called
<1>7. \A t \in 1..Steps : (Past(t) => Past(t)') /\ (AllOk(t) => AllOk(t)')
  BY <1>3, RecordsStay
<1>8. ASSUME NEW s \in 1..Steps, Touched(s)', ~Touched(s)
      PROVE  s = Called
  <2>1. Body[s] = "group"
    BY <1>1, <1>8 DEF Touched
  <2> QED
    BY <1>2, <2>1, StepAssumption
<1>9. ReplayInv'
  <2>1. ASSUME NEW s \in 1..Steps, NEW t \in 1..Steps, t < s, Touched(s)'
        PROVE  Past(t)
    BY <1>2, <1>8, <2>1 DEF Inv, ReplayInv
  <2> QED
    BY <1>1, <1>2, <1>7, <2>1 DEF ReplayInv, Running, Called
<1>10. ScopeInv'
  <2>1. saga.failure = None /\ saga.failure \notin Branch
    BY <1>2, EndingKinds, LeafKinds DEF Inv, ScopeInv
  <2>2. result \in {None, Ok, NonDeterministic}
    BY <1>2 DEF Inv, ScopeInv
  <2> QED
    BY <1>1, <1>2, <1>7, <2>1, <2>2 DEF Inv, ScopeInv
<1> QED
  BY <1>4, <1>5, <1>6, <1>9, <1>10 DEF Inv

LEMMA RowsFinite ==
  ASSUME NEW T, T \subseteq 1..Branches
  PROVE  IsFiniteSet(T) /\ Cardinality(T) \in Nat
<1>1. IsFiniteSet(1..Branches)
  BY StepAssumption, FS_Interval
<1>2. IsFiniteSet(T)
  BY <1>1, FS_Subset
<1> QED
  BY <1>2, FS_CardinalityType

\* What fits is admitted, in the order of the branches.
LEMMA AdmitsBound ==
  ASSUME NEW n \in Nat
  PROVE  Admits(n) \subseteq Rows("pending") /\ Cardinality(Admits(n)) <= n
<1>1. Admits(n) \subseteq Rows("pending") /\ Rows("pending") \subseteq 1..Branches
  BY DEF Admits, Rows
<1>2. CASE Admits(n) = {}
  BY <1>1, <1>2, FS_EmptySet
<1>3. CASE Admits(n) # {}
  <2>1. Admits(n) \subseteq Nat /\ \A d \in Admits(n) : d <= Branches
    BY <1>1, StepAssumption
  <2>2. PICK m \in Admits(n) : \A d \in Admits(n) : d <= m
    BY <1>3, <2>1, GreatestExists, StepAssumption
  <2> DEFINE T == {d \in Rows("pending") : d <= m}
  <2>3. Admits(n) \subseteq T /\ T \subseteq 1..Branches
    BY <1>1, <2>2
  <2>4. Cardinality(T) <= n
    BY <2>2 DEF Admits
  <2> HIDE DEF T
  <2>5. Cardinality(Admits(n)) <= Cardinality(T)
    BY <2>3, RowsFinite, FS_Subset
  <2>6. Cardinality(Admits(n)) \in Nat /\ Cardinality(T) \in Nat
    BY <1>1, <2>3, RowsFinite
  <2> QED
    BY <1>1, <2>4, <2>5, <2>6
<1> QED
  BY <1>2, <1>3

\* A group gets its rows, admits, and settles branch by branch.
LEMMA GroupKeeps ==
  ASSUME Inv, InitializeBranches \/ AdmitBranches \/ \E c \in Branch : FinishBranch(c)
  PROVE  Inv'
<1>1. branch \in [1..Branches -> {"none", "pending", "running", "completed", "failed"}]
  BY DEF Inv, TypeInv
<1>2. Concurrency \in Nat /\ Cardinality(Rows("running")) \in Nat /\ Cardinality(Rows("running")) <= Concurrency
  BY RowsFinite, StepAssumption DEF Inv, AdmissionBound, Rows
<1>3. CASE InitializeBranches
  <2>1. /\ round.at = "group" /\ ~At("idle") /\ UNCHANGED <<leaves, saga, undo, wake, result, crashes>>
        /\ branch' = [b \in 1..Branches |-> IF branch[b] = "none" THEN "pending" ELSE branch[b]]
        /\ Goto("admit")
    BY <1>3 DEF InitializeBranches, At
  <2>2. round \in Rounds /\ round.leaf = Off
    BY <2>1, InRound DEF Inv, ControlInv
  <2>3. /\ round' \in Rounds /\ round'.at = "admit"
        /\ round'.leaf = Off /\ round'.row = round.row /\ round'.called = round.called
    BY <2>1, <2>2, Goes DEF Places
  <2>4. BranchStep
    BY <1>1, <2>1, <2>3, OffIsQuiet DEF BranchStep, Running, Off
  <2>5. Rows("running")' = Rows("running")
    BY <1>1, <2>1 DEF Rows
  <2>6. AdmissionBound'
    BY <2>5 DEF Inv, AdmissionBound
  <2> QED
    BY <2>4, <2>6, BranchStepKeeps
<1>4. CASE AdmitBranches
  <2> DEFINE phases == [c \in Leaves |-> IF c \in Branch /\ c[2] \in Admission \ round.tried THEN "begin" ELSE "off"]
             new == Admits(Concurrency - Cardinality(Rows("running")))
  <2>1. /\ round.at = "admit" /\ ~At("idle") /\ UNCHANGED <<leaves, saga, undo, wake, result, crashes>>
        /\ branch' = [b \in 1..Branches |-> IF b \in Admission THEN "running" ELSE branch[b]]
        /\ round' = [round EXCEPT !.at = "branches", !.tried = round.tried \cup Admission, !.leaf = phases]
    <3>1. round.at = "admit" /\ ~At("idle") /\ UNCHANGED <<leaves, saga, undo, wake, result, crashes>>
          /\ branch' = [b \in 1..Branches |-> IF b \in Admission THEN "running" ELSE branch[b]]
      BY <1>4 DEF AdmitBranches, At
    <3>2. round \in Rounds
      BY <3>1, InRound DEF Inv
    <3> QED
      BY <1>4, <3>1, <3>2 DEF AdmitBranches, Rounds
  <2>2. round \in Rounds
    BY <2>1, InRound DEF Inv
  <2>3. /\ phases \in [Leaves -> {"off", "begin", "offer", "await", "ok", "failed"}]
        /\ \A d \in Leaves : phases[d] \in {"off", "begin"} /\ (phases[d] # "off" => d \in Branch)
    OBVIOUS
  <2>4. Admission = Rows("running") \cup new /\ new \subseteq Rows("pending") /\ Cardinality(new) <= Concurrency - Cardinality(Rows("running"))
    <3>1. Concurrency - Cardinality(Rows("running")) \in Nat
      BY <1>2
    <3>2. new \subseteq Rows("pending") /\ Cardinality(new) <= Concurrency - Cardinality(Rows("running"))
      BY <3>1, AdmitsBound
    <3>3. Admission = Rows("running") \cup new
      BY <3>2 DEF Admission, Admitted, Rows
    <3> QED
      BY <3>2, <3>3
  <2> HIDE DEF phases, new
  <2>5. Admission \subseteq 1..Branches
    BY DEF Admission
  <2>6. /\ round' \in Rounds /\ round'.at = "branches" /\ round'.leaf = phases
        /\ round'.row = round.row /\ round'.called = round.called
    <3>1. round.tried \cup Admission \in SUBSET (1..Branches)
      BY <2>2, <2>5 DEF Rounds
    <3> QED
      BY <2>1, <2>2, <2>3, <3>1 DEF Rounds, Places
  <2>7. Quiet
    BY <2>3, <2>6 DEF Quiet
  <2>8. \A b \in 1..Branches : branch[b] \in {"completed", "failed"} => b \notin Admission
    BY <2>4 DEF Rows
  <2>9. BranchStep
    BY <1>1, <2>1, <2>3, <2>6, <2>7, <2>8 DEF BranchStep, Running
  <2>10. Rows("running")' = Rows("running") \cup new
    BY <1>1, <2>1, <2>4 DEF Rows
  <2>11. AdmissionBound'
    <3>1. /\ IsFiniteSet(Rows("running")) /\ IsFiniteSet(new)
          /\ Cardinality(new) \in Nat /\ Cardinality(Rows("running") \cap new) \in Nat
          /\ Cardinality(Rows("running") \cup new) \in Nat
      <4>1. Rows("running") \subseteq 1..Branches /\ new \subseteq 1..Branches
        BY <2>4 DEF Rows
      <4>2. Rows("running") \cap new \subseteq 1..Branches /\ Rows("running") \cup new \subseteq 1..Branches
        BY <4>1
      <4> QED
        BY <4>1, <4>2, RowsFinite
    <3>2. Cardinality(Rows("running") \cup new)
            = Cardinality(Rows("running")) + Cardinality(new) - Cardinality(Rows("running") \cap new)
      BY <3>1, FS_Union
    <3>3. Cardinality(Rows("running") \cup new) <= Concurrency
      BY <1>2, <2>4, <3>1, <3>2
    <3> QED
      BY <2>10, <3>3 DEF AdmissionBound
  <2> QED
    BY <2>9, <2>11, BranchStepKeeps
<1>5. ASSUME NEW c \in Branch, FinishBranch(c)
      PROVE  Inv'
  <2>1. PICK p \in {"completed", "failed"} :
          /\ round.at = "branches" /\ ~At("idle") /\ UNCHANGED <<leaves, saga, undo, wake, result, crashes>>
          /\ branch' = [branch EXCEPT ![c[2]] = IF branch[c[2]] # "running" THEN branch[c[2]] ELSE p]
          /\ Leaf(c, "off")
    BY <1>1, <1>5, LeafKinds DEF FinishBranch, At
  <2>2. round \in Rounds /\ \A d \in Leaves : round.leaf[d] # "off" => d \in Branch
    BY <2>1, InRound DEF Inv, ControlInv
  <2>3. /\ round' \in Rounds /\ round'.at = "branches" /\ round'.row = round.row /\ round'.called = round.called
        /\ round'.leaf[c] = "off" /\ \A d \in Leaves \ {c} : round'.leaf[d] = round.leaf[d]
    BY <2>1, <2>2, RoundLeaf, LeafKinds DEF Phases
  <2>4. Quiet
    BY <2>1, <2>3 DEF Quiet
  <2>5. BranchStep
    BY <1>1, <2>1, <2>2, <2>3, <2>4, LeafKinds DEF BranchStep, Running
  <2>6. Rows("running")' \subseteq Rows("running") /\ Rows("running") \subseteq 1..Branches
    BY <1>1, <2>1, LeafKinds DEF Rows
  <2>7. Cardinality(Rows("running")') <= Cardinality(Rows("running")) /\ Cardinality(Rows("running")') \in Nat
    <3>1. Rows("running")' \subseteq 1..Branches
      BY <2>6
    <3> QED
      BY <2>6, <3>1, RowsFinite, FS_Subset
  <2>8. AdmissionBound'
    BY <1>2, <2>7 DEF AdmissionBound
  <2> QED
    BY <2>5, <2>8, BranchStepKeeps
<1> QED
  BY <1>3, <1>4, <1>5

-----------------------------------------------------------------------------
(* The saga: steps that write its row, its compensations or the result. *)

LEMMA SagaStepKeeps ==
  ASSUME Inv, UNCHANGED <<leaves, branch, crashes>>, saga' \in Sagas,
         undo' \in [1..Steps -> {"none", "registered", "completed", "failed"}],
         round' \in Rounds \cup {Idle}, result' \in Endings, Quiet,
         ControlInv', ReplayInv', ScopeInv'
  PROVE  Inv'
<1>1. LeafInv'
  BY QuietLeaves
<1>2. TypeInv'
  BY DEF Inv, TypeInv
<1>3. AdmissionBound'
  BY DEF Inv, AdmissionBound, Rows
<1> QED
  BY <1>1, <1>2, <1>3 DEF Inv

\* The scope is opened, or answers as it has ended.
LEMMA OpenSagaKeeps ==
  ASSUME Inv, OpenSaga
  PROVE  Inv'
<1>1. /\ round.at = "open" /\ ~At("idle") /\ UNCHANGED <<leaves, branch, undo, wake, result, crashes>>
      /\ saga' = Opened
      /\ round' = IF Opened.state \in Final
                  THEN [round EXCEPT !.at = "return", !.outcome = IF saga.failure = None THEN Ok ELSE saga.failure]
                  ELSE [round EXCEPT !.at = "step", !.row = Opened]
  BY DEF OpenSaga, At
<1>2. /\ round \in Rounds /\ round.leaf = Off /\ round.called = 0 /\ saga \in Sagas
      /\ undo \in [1..Steps -> {"none", "registered", "completed", "failed"}] /\ result \in Endings
  BY <1>1, InRound DEF Inv, ControlInv, TypeInv
<1>3. /\ Opened \in Sagas /\ Opened.failure = saga.failure
      /\ Opened.state = IF saga.state = "none" THEN "running" ELSE saga.state
  BY <1>2 DEF Opened, Sagas
<1>4. ScopeInv'
  BY <1>1, <1>3, SameRecords DEF Inv, ScopeInv
<1>5. CASE Opened.state \in Final
  <2> DEFINE o == IF saga.failure = None THEN Ok ELSE saga.failure
  <2>1. o \in Endings /\ saga.state \in Final /\ saga.state \notin {"none", "running", "compensating"}
    BY <1>2, <1>3, <1>5, EndingKinds DEF Sagas, Final
  <2>2. round' = [round EXCEPT !.at = "return", !.outcome = o]
    BY <1>1, <1>5
  <2> HIDE DEF o
  <2>3. round' \in Rounds /\ round'.at = "return" /\ round'.outcome = o /\ round'.leaf = Off
    BY <1>2, <2>1, <2>2 DEF Rounds, Places
  <2>4. ControlInv'
    BY <1>1, <1>3, <2>1, <2>3 DEF ControlInv, Reading, Running, o
  <2>5. ReplayInv'
    BY <1>1, <1>3, <2>1 DEF ReplayInv
  <2> QED
    BY <1>1, <1>2, <1>3, <1>4, <2>3, <2>4, <2>5, OffIsQuiet, SagaStepKeeps
<1>6. CASE Opened.state \notin Final
  <2>1. round' = [round EXCEPT !.at = "step", !.row = Opened]
    BY <1>1, <1>6
  <2>2. /\ round' \in Rounds /\ round'.at = "step" /\ round'.row = Opened /\ round'.called = 0 /\ round'.leaf = Off
    BY <1>2, <1>3, <2>1 DEF Rounds, Places
  <2>3. Opened.state \in {"running", "compensating"}
    BY <1>3, <1>6 DEF Sagas
  <2>4. ControlInv'
    BY <1>1, <2>2, <2>3 DEF ControlInv, Reading, Running
  <2>5. ReplayInv'
    <3> SUFFICES ASSUME saga'.state \in {"none", "running"}
                 PROVE  ReplayInv'
      BY DEF ReplayInv
    <3>1. saga.state \in {"none", "running"}
      BY <1>1, <1>3
    <3>2. \A q, t \in 1..Steps : t < q /\ Touched(q)' => Past(t)'
      BY <1>1, <3>1, SameRecords DEF Inv, ReplayInv
    <3> QED
      BY <2>2, <3>2 DEF ReplayInv, Running, Called
  <2> QED
    BY <1>1, <1>2, <1>3, <1>4, <2>2, <2>4, <2>5, OffIsQuiet, SagaStepKeeps
<1> QED
  BY <1>5, <1>6

\* A step that succeeded is registered, and the handler goes on.
LEMMA RegisterKeeps ==
  ASSUME Inv, RegisterCompensation
  PROVE  Inv'
<1>1. /\ round.at = "body" /\ ~At("idle") /\ round.outcome = Ok /\ UNCHANGED <<leaves, branch, saga, wake, result, crashes>>
      /\ undo' = [undo EXCEPT ![Called] = IF undo[Called] = "none" THEN "registered" ELSE undo[Called]]
      /\ Yield("step", None)
  BY DEF RegisterCompensation, At
<1>2. /\ round \in Rounds /\ Called \in 1..Steps /\ round.row = saga /\ saga.state = "running" /\ saga \in Sagas
      /\ undo \in [1..Steps -> {"none", "registered", "completed", "failed"}] /\ result \in Endings
  BY <1>1, InRound DEF Inv, ControlInv, TypeInv, Reading
<1>3. AllOk(Called) /\ \A t \in 1..Steps : t < Called => Past(t)
  BY <1>1, <1>2 DEF Inv, ReplayInv
<1>4. /\ round' \in Rounds /\ round'.at = "step" /\ round'.leaf = Off /\ round'.row = round.row /\ round'.called = round.called
  BY <1>1, <1>2, Yields, EndingKinds DEF Places
<1>5. /\ undo' \in [1..Steps -> {"none", "registered", "completed", "failed"}]
      /\ undo'[Called] # "none" /\ \A t \in 1..Steps : t # Called => undo'[t] = undo[t]
  BY <1>1, <1>2
<1>6. Grows
  BY <1>1, <1>2, <1>5 DEF Grows
<1>7. \A t \in 1..Steps : (Past(t) => Past(t)') /\ (AllOk(t) => AllOk(t)')
  BY <1>6, RecordsStay
<1>8. ControlInv'
  BY <1>1, <1>2, <1>4 DEF ControlInv, Reading, Running
<1>9. ReplayInv'
  <2>1. \A t \in 1..Steps : t <= Called => Past(t)'
    BY <1>2, <1>3, <1>5, <1>7 DEF Past
  <2>2. ASSUME NEW s \in 1..Steps, NEW t \in 1..Steps, t < s, Touched(s)'
        PROVE  Past(t)'
    <3>1. CASE s = Called
      BY <1>2, <2>1, <2>2, <3>1
    <3>2. CASE s # Called
      <4>1. Touched(s)
        BY <1>1, <1>5, <2>2, <3>2 DEF Touched
      <4> QED
        BY <1>2, <1>7, <2>2, <4>1 DEF Inv, ReplayInv
    <3> QED
      BY <3>1, <3>2
  <2> QED
    BY <1>4, <2>1, <2>2 DEF ReplayInv, Running, Called
<1>10. ScopeInv'
  <2>1. \A s \in 1..Steps : undo'[s] # "none" => AllOk(s)'
    BY <1>3, <1>5, <1>7 DEF Inv, ScopeInv
  <2>2. saga.failure = None /\ saga.failure \notin Branch /\ result \in {None, Ok, NonDeterministic}
    BY <1>2, EndingKinds, LeafKinds DEF Inv, ScopeInv
  <2> QED
    BY <1>1, <1>2, <2>1, <2>2 DEF ScopeInv
<1> QED
  BY <1>1, <1>2, <1>4, <1>5, <1>8, <1>9, <1>10, OffIsQuiet, SagaStepKeeps

\* The handler is through: the scope commits.
LEMMA CommitsKeeps ==
  ASSUME Inv, Commits
  PROVE  Inv'
<1>1. /\ round.at = "close" /\ ~At("idle") /\ UNCHANGED <<leaves, branch, undo, wake, result, crashes>>
      /\ round.outcome = Ok /\ round.row.state = "running" /\ Goto("return")
      /\ SagaState("completed", None)
  BY DEF Commits, At
<1>2. /\ round \in Rounds /\ round.leaf = Off /\ round.row = saga /\ saga.state = "running"
      /\ undo \in [1..Steps -> {"none", "registered", "completed", "failed"}] /\ result \in Endings
  BY <1>1, InRound DEF Inv, ControlInv, TypeInv, Reading
<1>3. saga' = [state |-> "completed", failure |-> None] /\ saga' \in Sagas
  BY <1>1, <1>2, EndingKinds DEF SagaState, Sagas, Final
<1>4. round' \in Rounds /\ round'.at = "return" /\ round'.outcome = Ok /\ round'.leaf = Off
  BY <1>1, <1>2, Goes DEF Places
<1>5. ControlInv'
  BY <1>3, <1>4 DEF ControlInv, Reading, Running, Final
<1>6. ReplayInv'
  BY <1>3 DEF ReplayInv
<1>7. ScopeInv'
  <2>1. result \in {None, Ok, NonDeterministic} /\ None \notin Branch
    BY <1>2, EndingKinds, LeafKinds DEF Inv, ScopeInv
  <2> QED
    BY <1>1, <1>3, <2>1, SameRecords DEF Inv, ScopeInv
<1> QED
  BY <1>1, <1>2, <1>3, <1>4, <1>5, <1>6, <1>7, OffIsQuiet, SagaStepKeeps

\* A scope that lets a failure out has every step that took effect registered:
\* what comes before the failed step was got past, and nothing comes after.
LEMMA EffectsRegistered ==
  ASSUME Inv, saga.state = "running", Called \in 1..Steps, NEW o, FailedBy(Called, o), o \notin Caught[Called],
         NEW s \in 1..Steps, TookEffect(s), \A t \in 1..Steps : t < Called => Past(t)
  PROVE  undo[s] # "none"
<1>1. AllOk(s) /\ Touched(s)
  BY EffectTouches
<1>2. \A c : ~FailedBy(s, c)
  BY <1>1, Exclusive
<1>3. CASE s < Called
  BY <1>2, <1>3 DEF Past
<1>4. CASE s = Called
  BY <1>2, <1>4
<1>5. CASE Called < s
  <2>1. Past(Called)
    BY <1>1, <1>5 DEF Inv, ReplayInv
  <2>2. undo[Called] = "none"
    BY Exclusive DEF Inv, ScopeInv
  <2>3. PICK c \in Caught[Called] : FailedBy(Called, c)
    BY <2>1, <2>2 DEF Past
  <2> QED
    BY <2>3, FailsOnce
<1> QED
  BY <1>3, <1>4, <1>5, StepAssumption

LEMMA RollsBackKeeps ==
  ASSUME Inv, RollsBack
  PROVE  Inv'
<1> DEFINE original == IF round.row.failure # None THEN round.row.failure ELSE round.outcome
<1>1. /\ round.at = "close" /\ ~At("idle") /\ UNCHANGED <<leaves, branch, undo, wake, result, crashes>>
      /\ ~(round.outcome = Ok /\ round.row.state = "running")
      /\ SagaState("compensating", original) /\ Yield("undo", original)
  BY DEF RollsBack, At
<1>2. /\ round \in Rounds /\ round.row = saga /\ saga.state \in {"running", "compensating"} /\ saga \in Sagas
      /\ round.outcome \in Endings /\ round.outcome # None
      /\ undo \in [1..Steps -> {"none", "registered", "completed", "failed"}] /\ result \in Endings
  BY <1>1, InRound DEF Inv, ControlInv, TypeInv, Reading
<1>3. /\ saga.state = "running" => saga.failure = None
      /\ saga.state = "compensating" => saga.failure # None
      /\ saga.failure \in Endings \ {Ok}
      /\ result \in {None, Ok, NonDeterministic}
  BY <1>2 DEF Inv, ScopeInv, Sagas
<1>4. original \in Endings \ {Ok, None}
  BY <1>1, <1>2, <1>3
<1>5. saga' = [state |-> "compensating", failure |-> original] /\ saga' \in Sagas
  <2>1. saga.state = "compensating" => saga = [state |-> "compensating", failure |-> original]
    BY <1>2, <1>3 DEF Sagas
  <2> QED
    BY <1>1, <1>2, <1>4, <2>1 DEF SagaState, Sagas
<1>6. /\ saga.state = "running" =>
           /\ Called \in 1..Steps /\ FailedBy(Called, original) /\ original \notin Caught[Called]
           /\ \A t \in 1..Steps : t < Called => Past(t)
  BY <1>1, <1>2, <1>3 DEF Inv, ReplayInv
<1>7. saga.state = "compensating" => original = saga.failure
  BY <1>2, <1>3
<1> HIDE DEF original
<1>8. round' \in Rounds /\ round'.at = "undo" /\ round'.outcome = original /\ round'.leaf = Off
  BY <1>1, <1>2, <1>4, Yields DEF Places
<1>9. ControlInv'
  BY <1>5, <1>8 DEF ControlInv, Reading, Running
<1>10. ReplayInv'
  BY <1>5 DEF ReplayInv
<1>11. \A s \in 1..Steps : TookEffect(s) => undo[s] # "none"
  BY <1>2, <1>6, EffectsRegistered DEF Inv, ScopeInv
<1>12. original \in Branch => Settled /\ original[2] = Least(Rows("failed"))
  <2>1. CASE saga.state = "running"
    BY <1>6, <2>1, LeafKinds DEF FailedBy
  <2>2. CASE saga.state = "compensating"
    BY <1>7, <2>2 DEF Inv, ScopeInv
  <2> QED
    BY <1>2, <2>1, <2>2
<1>13. ScopeInv'
  <2>1. /\ \A s \in 1..Steps : undo[s] # "none" => AllOk(s)
        /\ original # None /\ saga'.state = "compensating" /\ saga'.failure = original
    BY <1>4, <1>5 DEF Inv, ScopeInv
  <2> QED
    BY <1>1, <1>3, <1>11, <1>12, <2>1, SameRecords DEF ScopeInv
<1> QED
  BY <1>1, <1>2, <1>5, <1>8, <1>9, <1>10, <1>13, OffIsQuiet, SagaStepKeeps

\* The undo of a step has ended. Only the last registered step is at it.
LEMMA FinishCompensationKeeps ==
  ASSUME Inv, NEW s \in 1..Steps, FinishCompensation(s)
  PROVE  Inv' /\ Last(s) /\ Registered' = Registered \ {s}
<1>1. PICK p \in {"completed", "failed"} :
        /\ round.at = "undoing" /\ ~At("idle") /\ round.leaf[<<"undo", s>>] # "off"
        /\ UNCHANGED <<leaves, branch, saga, wake, result, crashes>>
        /\ undo' = [undo EXCEPT ![s] = IF undo[s] = "registered" THEN p ELSE undo[s]]
        /\ Yield("undo", round.outcome)
  BY DEF FinishCompensation, At, In, Outcome
<1>2. /\ round \in Rounds /\ saga \in Sagas /\ round.outcome \in Endings
      /\ saga.state = "compensating" /\ round.outcome = saga.failure
      /\ undo \in [1..Steps -> {"none", "registered", "completed", "failed"}] /\ result \in Endings
  BY <1>1, InRound DEF Inv, ControlInv, TypeInv
<1>3. Last(s) /\ undo[s] = "registered"
  <2>1. PICK q \in 1..Steps : Last(q) /\ Alone(<<"undo", q>>)
    BY <1>1 DEF Inv, ControlInv
  <2>2. q = s
    BY <1>1, <2>1, LeafKinds DEF Alone
  <2> QED
    BY <2>1, <2>2 DEF Last, Registered
<1>4. /\ undo' \in [1..Steps -> {"none", "registered", "completed", "failed"}]
      /\ undo'[s] = p /\ \A t \in 1..Steps : t # s => undo'[t] = undo[t]
  BY <1>1, <1>2, <1>3
<1>5. Registered' = Registered \ {s}
  BY <1>4 DEF Registered
<1>6. round' \in Rounds /\ round'.at = "undo" /\ round'.outcome = round.outcome /\ round'.leaf = Off
  BY <1>1, <1>2, Yields DEF Places
<1>7. ControlInv'
  BY <1>1, <1>2, <1>6 DEF ControlInv, Reading, Running
<1>8. ReplayInv'
  BY <1>1, <1>2 DEF ReplayInv
<1>9. ScopeInv'
  <2>1. \A t \in 1..Steps : undo'[t] # "none" <=> undo[t] # "none"
    BY <1>3, <1>4
  <2>2. Settled' = Settled /\ \A q : Rows(q)' = Rows(q)
    BY <1>1 DEF Settled, Rows
  <2>3. \A t \in 1..Steps : (AllOk(t)' <=> AllOk(t)) /\ (TookEffect(t)' <=> TookEffect(t))
    BY <1>1, <2>2 DEF AllOk, TookEffect
  <2> QED
    BY <1>1, <1>2, <2>1, <2>2, <2>3 DEF Inv, ScopeInv
<1>10. Inv'
  BY <1>1, <1>2, <1>4, <1>6, <1>7, <1>8, <1>9, OffIsQuiet, SagaStepKeeps
<1> QED
  BY <1>3, <1>5, <1>10

\* Nothing is left to undo: the scope has ended.
LEMMA ConcludeKeeps ==
  ASSUME Inv, Conclude
  PROVE  Inv' /\ saga.state = "compensating" /\ saga'.state \in {"compensated", "compensation-failed"}
<1>1. /\ round.at = "undo" /\ ~At("idle") /\ UNCHANGED <<leaves, branch, undo, wake, result, crashes>>
      /\ Registered = {} /\ Yield("return", saga'.failure)
      /\ SagaState("compensation-failed", CompensationFailed) \/ SagaState("compensated", round.outcome)
  BY DEF Conclude, At
<1>2. /\ round \in Rounds /\ saga \in Sagas
      /\ saga.state = "compensating" /\ round.outcome = saga.failure /\ saga.failure \in Endings \ {Ok, None}
      /\ undo \in [1..Steps -> {"none", "registered", "completed", "failed"}] /\ result \in Endings
  BY <1>1, InRound DEF Inv, ControlInv, TypeInv, Sagas, ScopeInv
<1>3. PICK st \in {"compensated", "compensation-failed"}, f \in {CompensationFailed, saga.failure} :
        saga' = [state |-> st, failure |-> f]
  BY <1>1, <1>2 DEF SagaState
<1>4. f \in Endings \ {Ok, None} /\ (f \in Branch => f = saga.failure)
  BY <1>2, EndingKinds, LeafKinds
<1>5. saga' \in Sagas /\ saga'.failure = f /\ saga'.state = st
  BY <1>3, <1>4 DEF Sagas, Final
<1>6. round' \in Rounds /\ round'.at = "return" /\ round'.outcome = f /\ round'.leaf = Off
  BY <1>1, <1>2, <1>4, <1>5, Yields DEF Places
<1>7. ControlInv'
  BY <1>4, <1>5, <1>6 DEF ControlInv, Reading, Running, Final
<1>8. ReplayInv'
  BY <1>5 DEF ReplayInv
<1>9. ScopeInv'
  <2>1. \A s \in 1..Steps : TookEffect(s) => undo[s] # "none"
    BY <1>2 DEF Inv, ScopeInv
  <2> QED
    BY <1>1, <1>2, <1>4, <1>5, <2>1, SameRecords DEF Inv, ScopeInv
<1>10. Inv'
  BY <1>1, <1>2, <1>5, <1>6, <1>7, <1>8, <1>9, OffIsQuiet, SagaStepKeeps
<1> QED
  BY <1>2, <1>5, <1>10

\* The engine records how the execution ended.
LEMMA ReturnKeeps ==
  ASSUME Inv, Return
  PROVE  Inv'
<1>1. /\ round.at = "return" /\ ~At("idle") /\ UNCHANGED <<leaves, scopes, wake, crashes>>
      /\ round' = Idle /\ result' = round.outcome
  BY DEF Return, At
<1>2. /\ round.outcome \in Endings /\ saga \in Sagas
      /\ undo \in [1..Steps -> {"none", "registered", "completed", "failed"}]
      /\ \/ saga.state = "compensating" /\ round.outcome = NonDeterministic
         \/ saga.state \in Final /\ round.outcome = IF saga.failure = None THEN Ok ELSE saga.failure
  BY <1>1, InRound DEF Inv, ControlInv, TypeInv
<1>3. saga.state \in {"compensated", "compensation-failed"} \/ round.outcome \in {Ok, NonDeterministic}
  BY <1>2 DEF Inv, ScopeInv, Final
<1>4. round'.at = "idle" /\ Quiet
  BY <1>1 DEF Idle, Quiet
<1>5. ControlInv'
  BY <1>4 DEF ControlInv, At
<1>6. ReplayInv'
  BY <1>1, <1>4, SameRecords DEF Inv, ReplayInv, Running
<1>7. ScopeInv'
  BY <1>1, <1>3, SameRecords DEF Inv, ScopeInv
<1> QED
  BY <1>1, <1>2, <1>4, <1>5, <1>6, <1>7, SagaStepKeeps

-----------------------------------------------------------------------------
(* The invariant. *)

LEMMA SagaKeeps ==
  ASSUME Inv, Saga
  PROVE  Inv'
<1>1. ASSUME SuspendLeaf
      PROVE  Inv'
  BY <1>1, EndOfRoundKeeps DEF SuspendLeaf, Suspend, Inv, TypeInv
<1> QED
  BY <1>1, OpenSagaKeeps, CallStepKeeps, RegisterKeeps, StepFailsKeeps, HandlerReturnsKeeps, CommitsKeeps,
     RollsBackKeeps, UndoRoundKeeps, ConcludeKeeps, ReturnKeeps, LeafEndsKeeps, FinishCompensationKeeps DEF Saga

LEMMA GroupsKeep ==
  ASSUME Inv, Group
  PROVE  Inv'
<1>1. ASSUME SuspendGroup
      PROVE  Inv'
  BY <1>1, EndOfRoundKeeps DEF SuspendGroup, Suspend, Inv, TypeInv
<1> QED
  BY <1>1, GroupRoundKeeps, GroupKeeps DEF Group

LEMMA CrashKeeps ==
  ASSUME Inv, Crash
  PROVE  Inv'
<1>1. crashes' \in 0..MaxCrashes
  BY AttemptAssumption DEF Inv, TypeInv, Crash
<1> QED
  BY <1>1, EndOfRoundKeeps DEF Crash

LEMMA InitInv ==
  ASSUME Init
  PROVE  Inv
<1>1. round.at = "idle" /\ round = Idle /\ saga = [state |-> "none", failure |-> None]
  BY DEF Init, Idle
<1>2. TypeInv
  <2>1. Unasked \in Works
    BY DEF Unasked, Works
  <2>2. saga \in Sagas
    BY <1>1, EndingKinds DEF Sagas
  <2> QED
    BY <1>1, <2>1, <2>2, EndingKinds, AttemptAssumption DEF Init, TypeInv
<1>3. LeafInv
  <2> SUFFICES ASSUME NEW c \in Leaves PROVE LeafSound(c)
    BY DEF LeafInv
  <2>1. /\ work[c] = Unasked /\ alarm[c] = "none" /\ command[c] = "none" /\ MaxAttempts[c] \in Nat
        /\ work[c].attempt = 0 /\ work[c].rung = FALSE
    BY AttemptAssumption DEF Init, Unasked
  <2> QED
    BY <1>1, <2>1 DEF LeafSound, AttemptSound, AlarmSound, PhaseSound, At
<1>4. /\ \A s \in 1..Steps : ~Touched(s) /\ undo[s] = "none"
      /\ Registered = {} /\ result = None
  BY LeafKinds DEF Init, Touched, Registered
<1>5. ControlInv /\ ReplayInv
  BY <1>1, <1>4 DEF ControlInv, ReplayInv, At, Running
<1>6. ScopeInv
  BY <1>1, <1>4, EndingKinds, LeafKinds DEF ScopeInv
<1>7. AdmissionBound
  <2>1. Rows("running") = {}
    BY DEF Init, Rows
  <2> QED
    BY <2>1, FS_EmptySet, StepAssumption DEF AdmissionBound
<1> QED
  BY <1>2, <1>3, <1>5, <1>6, <1>7 DEF Inv

LEMMA StutterKeeps ==
  ASSUME Inv, UNCHANGED vars
  PROVE  Inv'
<1>1. LeafInv'
  <2> SUFFICES ASSUME NEW c \in Leaves PROVE LeafSound(c)'
    BY DEF LeafInv
  <2> QED
    BY SameLeaf DEF Inv, LeafInv, At
<1>2. TypeInv'
  BY DEF Inv, TypeInv
<1> QED
  BY <1>1, <1>2, SameScopes DEF Inv

LEMMA NextInv ==
  ASSUME Inv, [Next]_vars
  PROVE  Inv'
BY StartRoundKeeps, SagaKeeps, GroupsKeep, CrashKeeps, PerformKeeps, OutsideKeeps, StutterKeeps DEF Next

LEMMA Invariant == Spec => []Inv
BY InitInv, NextInv, PTL DEF Spec

-----------------------------------------------------------------------------
(* What follows. *)

LEMMA InvTypes ==
  ASSUME Inv
  PROVE  TypeOK
<1>1. ASSUME NEW c \in Leaves
      PROVE  /\ work[c] \in [attempt: 0..MaxAttempts[c], answer: {"none", "ok", "retryable", "fatal"},
                             heard: BOOLEAN, rung: BOOLEAN]
             /\ command[c] = "none" => work[c] = Unasked /\ alarm[c] = "none"
  <2>1. LeafSound(c) /\ work[c] \in Works /\ MaxAttempts[c] \in Nat
    BY AttemptAssumption DEF Inv, LeafInv, TypeInv
  <2>2. work[c].attempt <= MaxAttempts[c] /\ (command[c] = "none" => work[c] = Unasked /\ alarm[c] = "none")
    BY <2>1 DEF LeafSound, AttemptSound
  <2>3. work[c].attempt \in 0..MaxAttempts[c]
    BY <2>1, <2>2 DEF Works
  <2> QED
    BY <2>1, <2>2, <2>3 DEF Works
<1>2. round = Idle \/ DOMAIN round = DOMAIN Round
  <2>1. round \in Rounds => DOMAIN round = {"at", "row", "called", "outcome", "tried", "commands", "leaf"}
    BY DEF Rounds
  <2>2. DOMAIN Round = {"at", "row", "called", "outcome", "tried", "commands", "leaf"}
    BY DEF Round
  <2> QED
    BY <2>1, <2>2 DEF Inv, TypeInv
<1>3. /\ saga.state \in {"none", "running", "compensating"} \cup Final /\ saga.failure \in Failures \cup {None}
      /\ result \in Failures \cup {None, Ok}
  BY DEF Inv, TypeInv, Sagas, Endings, Failures
<1> QED
  BY <1>1, <1>2, <1>3 DEF Inv, TypeInv, TypeOK

\* The journal and the engine hold what they should, and no attempt beyond the
\* policy of its leaf is offered.
THEOREM ScopeTypes == Spec => []TypeOK
BY Invariant, InvTypes, PTL

LEMMA InvGroups ==
  ASSUME Inv
  PROVE  GroupIsSound
<1>1. ASSUME NEW s \in 1..Steps, Body[s] = "group", undo[s] # "none"
      PROVE  Rows("completed") = 1..Branches
  <2>1. AllOk(s)
    BY <1>1 DEF Inv, ScopeInv
  <2> QED
    BY <1>1, <2>1 DEF AllOk
<1>2. saga.failure \in Branch => Settled /\ saga.failure[2] = Least(Rows("failed"))
  BY DEF Inv, ScopeInv
<1> QED
  BY <1>1, <1>2 DEF Inv, GroupIsSound, GroupSettles

\* A group never has more branches admitted than its limit, over suspensions,
\* crashes and within a round (admitBranches counts what runs). A step that is a
\* group is registered only when every branch succeeded, and a failure of a group
\* is that of the first failed branch in key order, when all have settled.
THEOREM GroupsAreSound == Spec => []GroupIsSound
BY Invariant, InvGroups, PTL

LEMMA InvEffects ==
  ASSUME Inv
  PROVE  EffectsUndone
<1> SUFFICES ASSUME result \notin {None, Ok, NonDeterministic}, NEW s \in 1..Steps, TookEffect(s)
             PROVE  undo[s] \in {"completed", "failed"}
  BY DEF EffectsUndone
<1>1. undo[s] # "none" /\ Registered = {}
  BY DEF Inv, ScopeInv
<1>2. undo[s] \in {"none", "registered", "completed", "failed"}
  BY DEF Inv, TypeInv
<1> QED
  BY <1>1, <1>2 DEF Registered

\* When a scope has failed, each step that took effect was undone or its undo
\* failed for good, wherever rounds were lost between the result of a step and
\* the row of its compensation.
THEOREM NothingStaysDone == Spec => []EffectsUndone
BY Invariant, InvEffects, PTL

LEMMA OnlyRetryRaises ==
  ASSUME Inv, [Next]_vars, NEW c \in Leaves, work'[c].attempt > work[c].attempt, work[c].attempt > 0
  PROVE  Retry(c)
<1>1. work \in [Leaves -> Works] /\ work[c] \in Works /\ work[c].attempt \in Nat
  BY DEF Inv, TypeInv, Works
<1>2. work'[c] # work[c]
  BY <1>1
<1>3. \E d \in Leaves : Offer(d) \/ Retry(d) \/ Answer(d) \/ Tell(d) \/ Deliver(d)
  <2>1. ~Saga
    BY <1>2 DEF Saga, OpenSaga, CallStep, RegisterCompensation, StepFails, HandlerReturns, Commits, RollsBack,
       MissingCallback, Compensate, Conclude, Return, SuspendLeaf, Suspend, LeafEnds, FinishCompensation
  <2>2. ~Group
    BY <1>2 DEF Group, InitializeBranches, AdmitBranches, LeaveBranch, FinishBranch, ReturnGroup, SuspendGroup,
       Suspend, AdmitMore
  <2>3. ~StartRound /\ ~Crash /\ ~UNCHANGED vars
    BY <1>2 DEF StartRound, Crash
  <2>4. PICK d \in Leaves : Perform(d) \/ Outside(d)
    BY <2>1, <2>2, <2>3 DEF Next
  <2> QED
    BY <1>2, <2>4 DEF Perform, Outside, BeginCommand, FinishCommand, Elapse, Delivered
<1>4. PICK d \in Leaves : Offer(d) \/ Retry(d) \/ Answer(d) \/ Tell(d) \/ Deliver(d)
  BY <1>3
<1>5. work[d] \in Works
  BY <1>1
<1>6. ~Offer(d)
  <2> SUFFICES ASSUME Offer(d) PROVE FALSE
    OBVIOUS
  <2>1. work' = [work EXCEPT ![d] = [work[d] EXCEPT !.attempt = IF work[d].attempt = 0 THEN 1 ELSE work[d].attempt]]
    BY <1>1, <1>2, <1>5 DEF Offer, Hand, Arm, Works
  <2>2. d = c
    BY <1>1, <1>2, <2>1
  <2> QED
    BY <1>1, <2>1, <2>2 DEF Works
<1>7. ~Answer(d) /\ ~Tell(d) /\ ~Deliver(d)
  <2> SUFFICES ASSUME Answer(d) \/ Tell(d) \/ Deliver(d) PROVE FALSE
    OBVIOUS
  <2>1. work'[c].attempt = work[c].attempt
    BY <1>1, <1>5 DEF Answer, Tell, Deliver, Works
  <2> QED
    BY <1>1, <2>1
<1>8. d = c
  BY <1>1, <1>2, <1>4, <1>6, <1>7 DEF Retry
<1> QED
  BY <1>4, <1>6, <1>7, <1>8

\* The next attempt of an activity starts after the deadline that the failure of
\* this one has set: the deferred of a retry carries the number of its attempt, so
\* what woke an earlier attempt cannot start this one.
THEOREM RetriesWait == Spec => BackoffIsWaited
<1>1. ASSUME Inv, [Next]_vars
      PROVE  [\A c \in Leaves : work'[c].attempt > work[c].attempt /\ work[c].attempt > 0 =>
                work[c].answer = "retryable" /\ alarm[c] \in {"due", "delivered"}]_vars
  <2> SUFFICES ASSUME NEW c \in Leaves, work'[c].attempt > work[c].attempt, work[c].attempt > 0
               PROVE  work[c].answer = "retryable" /\ alarm[c] \in {"due", "delivered"}
    OBVIOUS
  <2>1. MayRetry(c)
    BY <1>1, OnlyRetryRaises DEF Retry
  <2>2. AlarmSound(c)
    BY <1>1 DEF Inv, LeafInv, LeafSound
  <2>3. work[c].rung = TRUE /\ c \notin Timers /\ work[c].answer = "retryable"
    <3>1. work[c].rung \in BOOLEAN
      BY <1>1 DEF Inv, TypeInv, Works
    <3> QED
      BY <2>1, <3>1 DEF MayRetry
  <2> QED
    BY <2>2, <2>3 DEF AlarmSound
<1> QED
  BY <1>1, Invariant, PTL DEF Spec, BackoffIsWaited

-----------------------------------------------------------------------------
(* The scope is a stack of steps that commits, or is undone from its top. *)


-----------------------------------------------------------------------------
(* The scope is a stack of steps that commits, or is undone from its top. *)

Phase(state) ==
  CASE state \in {"none", "running"} -> "forward"
    [] state = "compensating" -> "rollback"
    [] state = "completed" -> "committed"
    [] OTHER -> "rolledBack"

LEMMA Phases4 ==
  /\ Phase("none") = "forward" /\ Phase("running") = "forward" /\ Phase("compensating") = "rollback"
  /\ Phase("completed") = "committed" /\ Phase("compensated") = "rolledBack"
  /\ Phase("compensation-failed") = "rolledBack"
BY DEF Phase

\* The steps of Rollback, of the row of the saga and of its registered steps.
StackStep ==
  \/ /\ Phase(saga.state) = "forward" /\ Phase(saga'.state) = Phase(saga.state)
     /\ \E s \in 1..Steps : (\A t \in Registered : t < s) /\ Registered' = Registered \cup {s}
  \/ /\ Phase(saga.state) = "forward" /\ Phase(saga'.state) \in {"committed", "rollback"}
     /\ Registered' = Registered
  \/ /\ Phase(saga.state) = "rollback" /\ Phase(saga'.state) = Phase(saga.state)
     /\ \E s \in Registered : (\A t \in Registered : t <= s) /\ Registered' = Registered \ {s}
  \/ /\ Phase(saga.state) = "rollback" /\ Phase(saga'.state) = "rolledBack"
     /\ Registered = {} /\ Registered' = Registered
  \/ Phase(saga'.state) = Phase(saga.state) /\ Registered' = Registered

LEMMA RegisterPushes ==
  ASSUME Inv, RegisterCompensation
  PROVE  StackStep
<1>1. /\ round.at = "body" /\ ~At("idle") /\ round.outcome = Ok /\ saga' = saga
      /\ undo' = [undo EXCEPT ![Called] = IF undo[Called] = "none" THEN "registered" ELSE undo[Called]]
  BY DEF RegisterCompensation, At
<1>2. /\ Called \in 1..Steps /\ saga.state = "running"
      /\ undo \in [1..Steps -> {"none", "registered", "completed", "failed"}]
  BY <1>1 DEF Inv, ControlInv, TypeInv, Reading
<1>3. CASE undo[Called] # "none"
  <2>1. undo' = undo
    BY <1>1, <1>2, <1>3
  <2> QED
    BY <1>1, <2>1 DEF StackStep, Registered
<1>4. CASE undo[Called] = "none"
  <2>1. Registered' = Registered \cup {Called}
    BY <1>1, <1>2, <1>4 DEF Registered
  <2>2. ASSUME NEW t \in Registered
        PROVE  t < Called
    <3>1. t \in 1..Steps /\ Touched(t) /\ t # Called
      BY <1>4, <2>2 DEF Registered, Touched
    <3>2. Called < t => Past(Called)
      BY <1>2, <3>1 DEF Inv, ReplayInv
    <3>3. AllOk(Called) /\ ~Past(Called)
      BY <1>1, <1>2, <1>4, Exclusive DEF Inv, ReplayInv, Past
    <3> QED
      BY <1>2, <3>1, <3>2, <3>3
  <2> QED
    BY <1>1, <1>2, <2>1, <2>2, Phases4 DEF StackStep
<1> QED
  BY <1>3, <1>4

LEMMA EveryStepStacks ==
  ASSUME Inv, [Next]_vars
  PROVE  StackStep
<1>1. ASSUME UNCHANGED <<saga, undo>>
      PROVE  StackStep
  BY <1>1 DEF StackStep, Registered
<1>2. CASE Saga
  <2>1. ASSUME OpenSaga
        PROVE  StackStep
    <3>1. undo' = undo /\ saga' = Opened /\ saga \in Sagas
      BY <2>1 DEF OpenSaga, Inv, TypeInv
    <3>2. saga' = saga \/ (saga.state = "none" /\ saga'.state = "running")
      BY <3>1 DEF Opened, Sagas
    <3> QED
      BY <3>1, <3>2, Phases4 DEF StackStep, Registered
  <2>2. ASSUME Commits \/ RollsBack
        PROVE  StackStep
    <3>1. /\ round.at = "close" /\ ~At("idle") /\ undo' = undo
          /\ \E f : SagaState("compensating", f) \/ (SagaState("completed", f) /\ round.row.state = "running")
      BY <2>2 DEF Commits, RollsBack, At
    <3>2. round.row = saga /\ saga.state \in {"running", "compensating"}
      BY <3>1 DEF Inv, ControlInv, Reading
    <3>3. \/ saga' = saga \/ (saga.state = "running" /\ saga'.state \in {"completed", "compensating"})
      BY <3>1, <3>2 DEF SagaState
    <3> QED
      BY <3>1, <3>3, Phases4 DEF StackStep, Registered
  <2>3. ASSUME NEW s \in 1..Steps, FinishCompensation(s)
        PROVE  StackStep
    <3>1. Last(s) /\ Registered' = Registered \ {s} /\ saga' = saga
      BY <2>3, FinishCompensationKeeps DEF FinishCompensation
    <3>2. saga.state = "compensating"
      BY <2>3 DEF FinishCompensation, Inv, ControlInv, At
    <3> QED
      BY <3>1, <3>2, Phases4 DEF StackStep, Last
  <2>4. ASSUME Conclude
        PROVE  StackStep
    <3>1. saga.state = "compensating" /\ saga'.state \in {"compensated", "compensation-failed"}
      BY <2>4, ConcludeKeeps
    <3>2. Registered = {} /\ Registered' = Registered
      BY <2>4 DEF Conclude, Registered
    <3> QED
      BY <3>1, <3>2, Phases4 DEF StackStep
  <2>5. ASSUME \/ CallStep \/ StepFails \/ HandlerReturns \/ MissingCallback \/ Compensate \/ Return \/ SuspendLeaf
               \/ \E c \in Forward : LeafEnds(c)
        PROVE  UNCHANGED <<saga, undo>>
    BY <2>5 DEF CallStep, StepFails, HandlerReturns, MissingCallback, Compensate, Return, SuspendLeaf, Suspend, LeafEnds
  <2> QED
    BY <1>1, <1>2, <2>1, <2>2, <2>3, <2>4, <2>5, RegisterPushes DEF Saga
<1>3. CASE StartRound \/ Group \/ Crash \/ UNCHANGED vars \/ \E c \in Leaves : Perform(c) \/ Outside(c)
  <2>1. UNCHANGED <<saga, undo>>
    <3>1. Group => UNCHANGED <<saga, undo>>
      BY DEF Group, InitializeBranches, AdmitBranches, LeaveBranch, FinishBranch, ReturnGroup, SuspendGroup,
         Suspend, AdmitMore
    <3>2. StartRound \/ Crash \/ UNCHANGED vars => UNCHANGED <<saga, undo>>
      BY DEF StartRound, Crash
    <3>3. ASSUME NEW c \in Leaves
          PROVE  Perform(c) \/ Outside(c) => UNCHANGED <<saga, undo>>
      BY DEF Perform, BeginCommand, Offer, Retry, FinishCommand, Outside, Answer, Tell, Elapse, Deliver, Delivered
    <3> QED
      BY <1>3, <3>1, <3>2, <3>3
  <2> QED
    BY <1>1, <2>1
<1> QED
  BY <1>2, <1>3 DEF Next

\* A scope is Rollback: it pushes a step above all that are registered, commits
\* or turns back once, undoes from the top, and ends when nothing is left.
THEOREM ScopeIsRollback == Spec => RollbackSpec
<1>1. Init => Stack!Init
  <2> SUFFICES ASSUME Init PROVE Stack!Init
    OBVIOUS
  <2>1. saga.state = "none" /\ Registered = {}
    BY DEF Init, Registered
  <2> QED
    BY <2>1, Phases4 DEF Stack!Init, Phase
<1>2. StackStep =>
        Stack!Next \/ UNCHANGED <<Phase(saga.state), Registered>>
  BY DEF StackStep, Stack!Next, Stack!Succeed, Stack!Commit, Stack!Fail, Stack!Undo, Stack!Finish, Phase
<1>3. ASSUME Inv, [Next]_vars
      PROVE  Stack!Next \/ UNCHANGED <<Phase(saga.state), Registered>>
  BY <1>2, <1>3, EveryStepStacks
<1> QED
  BY <1>1, <1>3, Invariant, PTL DEF Spec, RollbackSpec, Stack!Spec, Phase
=============================================================================
