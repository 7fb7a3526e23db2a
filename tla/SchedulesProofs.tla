--------------------------- MODULE SchedulesProofs ---------------------------
(***************************************************************************)
(* A schedule, for any policies, bounds, runtimes and clocks: its cursor   *)
(* leaves no instant behind, its history keeps its keys, what a pass       *)
(* decides is decided while the schedule is active, and its timeline fires *)
(* as FiredInstants promises. The argument follows one materialization     *)
(* from its claim to its commit, under the lock of the row.                *)
(***************************************************************************)
EXTENDS Schedules, WellFoundedInduction, TLAPS

USE DEF history, vars

-----------------------------------------------------------------------------
(* The inductive invariant. *)

\* The row is on the timeline that begins at since.
RowInv ==
  row # None =>
    /\ row \in Rows
    /\ \E k \in Nat : row.next = row.since + k * row.def.every

\* Two occurrences differ in their sequences and, if recurring, their instants.
Distinct(S) ==
  \A o, p \in S :
    o # p => o.seq # p.seq /\ ~(o.trigger = "recurring" /\ p.trigger = "recurring" /\ o.at = p.at)

\* Sequences are bounded, so there is a next one; a link leads to a chain.
HistoryInv ==
  /\ occurrences \subseteq Rec
  /\ \E n \in Nat : \A o \in occurrences : o.seq <= n
  /\ Distinct(occurrences)
  /\ \A o \in occurrences : o.run # None => o.state = "started" /\ chains[o.run] # "none"

Transactions ==
  [by: Runtimes, def: Definitions, due: Seq(0..Horizon), done: Nat, seq: Nat \ {0},
   selected: SUBSET Nat, new: SUBSET Rec, accepted: SUBSET Due]

\* The instants of the batch follow the cursor of the row it has locked.
BatchInv ==
  tx # None =>
    /\ tx \in Transactions
    /\ tx.by \in up
    /\ row # None /\ row.state = "active" /\ row.def = tx.def
    /\ tx.due # <<>> /\ tx.done <= Len(tx.due)
    /\ \A i \in 1..Len(tx.due) : tx.due[i] = row.next + (i - 1) * tx.def.every

\* Each instant the batch is through with has its occurrence, once, after those
\* of the history.
Passed(at) == \E j \in 1..tx.done : at = tx.due[j]
NewInv ==
  tx # None =>
    /\ \A j \in 1..tx.done : Recorded(tx.due[j])
    /\ \A o \in tx.new : o.trigger = "recurring" /\ Passed(o.at)
    /\ \A o \in tx.new, p \in occurrences : p.seq < o.seq
    /\ \A o \in Visible : o.seq < tx.seq
    /\ Distinct(Visible)
    /\ \A o \in tx.new : o.run # None => o.state = "started" /\ (o.run \in tx.accepted \/ chains[o.run] # "none")

\* What the batch has accepted is not there yet, and runs alone where the
\* policy says so.
AcceptedInv ==
  tx # None =>
    \A n \in tx.accepted :
      /\ chains[n] = "none"
      /\ Passed(n[2])
      /\ \E o \in tx.new : o.run = n
      /\ tx.def.overlap = "skip" =>
           \A o \in Visible : o.run \notin {n, None} => o.run \notin tx.accepted /\ chains[o.run] \notin Active

\* Where the clock is not set back, the cursor is ahead of every occurrence, and
\* a batch passes its last instant over only if more is due.
LatestInv ==
  /\ \A o \in Recurring : o.at <= clock
  /\ row # None => \A o \in Recurring : o.at < row.next
  /\ LatestIsNotMissed
  /\ tx # None =>
       /\ \A i \in 1..Len(tx.due) : tx.due[i] <= clock
       /\ \A o \in tx.new, j \in 1..Len(tx.due) : o.reason = "misfire" /\ o.at = tx.due[j] => j \notin tx.selected
       /\ tx.def.misfire = "latest" =>
            Len(tx.due) \in tx.selected \/ tx.due[Len(tx.due)] + tx.def.every <= clock

TypeInv ==
  /\ clock \in 0..Horizon
  /\ up \subseteq Runtimes /\ owners \subseteq Runtimes
  /\ keys \in [Keys -> Nat] /\ retired \subseteq Nat
  /\ chains \in [Names -> ChainStates]
  /\ faults \in 0..MaxFaults

Inv ==
  /\ TypeInv /\ RowInv /\ HistoryInv /\ BatchInv /\ NewInv /\ AcceptedInv
  /\ NoInstantLost /\ KeysAreFound
  /\ ~SetsBack => LatestInv

-----------------------------------------------------------------------------
(* Numbers: extremes of sets of naturals, and the instants of a timeline. *)

Less == {s \in Nat \X Nat : s[1] < s[2]}

\* A set of naturals that is not empty has a least element.
LEMMA Least ==
  ASSUME NEW T, T \subseteq Nat, T # {}
  PROVE  \E m \in T : \A n \in T : m <= n
<1>1. Less = OpToRel(<, Nat)
  BY DEF Less, OpToRel
<1>2. IsWellFoundedOn(Less, Nat)
  BY <1>1, NatLessThanWellFounded
<1>3. PICK m \in T : \A n \in T : <<n, m>> \notin Less
  BY <1>2, WFMin
<1>4. \A n \in T : ~(n < m)
  BY <1>3 DEF Less
<1> QED
  BY <1>4

\* If it is bounded, Max is its greatest.
LEMMA Greatest ==
  ASSUME NEW T, T \subseteq Nat, T # {}, NEW b \in Nat, \A n \in T : n <= b
  PROVE  Max(T) \in T /\ \A n \in T : n <= Max(T)
<1> DEFINE U == {m \in Nat : \A n \in T : n <= m}
<1>1. PICK m \in U : \A n \in U : m <= n
  <2>1. b \in U
    OBVIOUS
  <2> QED
    BY <2>1, Least
<1>2. m \in T
  <2> SUFFICES ASSUME m \notin T PROVE FALSE
    OBVIOUS
  <2>1. \A n \in T : n <= m - 1 /\ m - 1 \in Nat
    BY <1>1
  <2>2. m - 1 \in U
    BY <2>1
  <2> QED
    BY <1>1, <2>2
<1> QED
  BY <1>1, <1>2 DEF Max

\* Of two numbers, Min is the lesser.
LEMMA Lesser ==
  ASSUME NEW a \in Nat, NEW b \in Nat
  PROVE  Min({a, b}) = IF a <= b THEN a ELSE b
<1>1. \E x \in {a, b} : \A y \in {a, b} : x <= y
  OBVIOUS
<1>2. Min({a, b}) \in {a, b} /\ \A y \in {a, b} : Min({a, b}) <= y
  BY <1>1 DEF Min
<1> QED
  BY <1>2

\* The next sequence is beyond every sequence of the history.
LEMMA NextIsBeyond ==
  ASSUME HistoryInv
  PROVE  NextSequence \in Nat \ {0} /\ \A o \in occurrences : o.seq < NextSequence
<1> DEFINE S == {0} \cup {o.seq : o \in occurrences}
<1>1. PICK n \in Nat : \A o \in occurrences : o.seq <= n
  BY DEF HistoryInv
<1>2. S \subseteq Nat /\ S # {} /\ \A m \in S : m <= n
  BY <1>1 DEF HistoryInv, Rec
<1>3. Max(S) \in Nat /\ \A m \in S : m <= Max(S)
  <2> HIDE DEF S
  <2> QED
    BY <1>2, Greatest
<1>4. \A o \in occurrences : o.seq \in S
  OBVIOUS
<1> DEFINE m == Max(S)
<1>5. NextSequence = 1 + m
  BY DEF NextSequence
<1>6. m \in Nat /\ \A o \in occurrences : o.seq \in Nat /\ o.seq <= m
  <2> HIDE DEF S
  <2> QED
    BY <1>2, <1>3, <1>4
<1> HIDE DEF m
<1> QED
  BY <1>5, <1>6

LEMMA ElementOf ==
  ASSUME NEW S, NEW s \in Seq(S), NEW i \in 1..Len(s)
  PROVE  s[i] \in S
OBVIOUS

LEMMA DefinitionType ==
  ASSUME NEW d \in Definitions
  PROVE  /\ d.every \in Nat \ {0} /\ d.maxCatchUp \in Nat \ {0}
         /\ d.misfire \in {"skip", "latest", "catch-up"} /\ d.overlap \in {"allow", "skip"}
         /\ Limit(d) \in Nat \ {0}
BY PolicyAssumption, LimitAssumption DEF Limit

\* What a pass takes on is due, from the cursor on; if it leaves more behind,
\* the instant after its last is due, too.
LEMMA BatchIsDue ==
  ASSUME NEW d \in Definitions, NEW next \in Nat, NEW now \in Nat, next <= now
  PROVE  LET due == Batch(d, next, now)
         IN /\ due \in Seq(0..now) /\ Len(due) \in Nat \ {0}
            /\ \A i \in 1..Len(due) : due[i] = next + (i - 1) * d.every
            /\ More(d, next, now) => due[Len(due)] + d.every <= now
<1> DEFINE e == d.every
           c == Count(d, next, now)
           n == Min({c, Limit(d)})
           due == Batch(d, next, now)
<1>1. e \in Nat \ {0} /\ Limit(d) \in Nat \ {0}
  BY DefinitionType
<1>2. now - next \in Nat
  OBVIOUS
<1>3. c \in Nat \ {0} /\ (c - 1) * e <= now - next
  <2>1. (now - next) \div e \in Nat /\ ((now - next) \div e) * e <= now - next
    <3> HIDE DEF e
    <3> QED
      BY <1>1, <1>2
  <2>2. c = (now - next) \div e + 1
    BY DEF Count
  <2> HIDE DEF c, e
  <2> QED
    BY <2>1, <2>2
<1>4. n \in Nat \ {0} /\ n <= c /\ (c > Limit(d) => n + 1 <= c)
  <2> HIDE DEF c
  <2>1. n = IF c <= Limit(d) THEN c ELSE Limit(d)
    BY <1>1, <1>3, Lesser
  <2> HIDE DEF n
  <2> QED
    BY <1>1, <1>3, <2>1
<1>5. due = [i \in 1..n |-> next + (i - 1) * e]
  BY DEF Batch
<1> HIDE DEF e, c, n, due
<1>6. ASSUME NEW i \in 1..n
      PROVE  (i - 1) * e \in Nat /\ (i - 1) * e <= now - next
  <2>1. i - 1 \in Nat /\ c - 1 \in Nat /\ i - 1 <= c - 1
    BY <1>3, <1>4
  <2>2. (i - 1) * e <= (c - 1) * e
    BY <1>1, <2>1
  <2>3. (i - 1) * e \in Nat /\ (c - 1) * e \in Nat
    BY <1>1, <2>1
  <2> QED
    BY <1>2, <1>3, <2>2, <2>3
<1>7. due \in Seq(0..now) /\ Len(due) = n /\ \A i \in 1..n : due[i] = next + (i - 1) * e
  <2>1. \A i \in 1..n : next + (i - 1) * e \in 0..now
    <3> SUFFICES ASSUME NEW i \in 1..n
                 PROVE  next + (i - 1) * e \in 0..now
      OBVIOUS
    <3> DEFINE m == (i - 1) * e
    <3>1. m \in Nat /\ m <= now - next
      BY <1>6
    <3> HIDE DEF m
    <3>2. next + m \in 0..now
      BY <3>1
    <3> QED
      BY <3>2 DEF m
  <2> QED
    BY <1>4, <1>5, <2>1
<1>8. ASSUME More(d, next, now)
      PROVE  due[n] + e <= now
  <2>1. n <= c - 1
    BY <1>1, <1>3, <1>4, <1>8 DEF More, c
  <2>2. n * e <= (c - 1) * e
    BY <1>1, <1>3, <1>4, <2>1
  <2>3. due[n] = next + (n - 1) * e
    BY <1>4, <1>7
  <2>4. (n - 1) * e + e = n * e
    BY <1>1, <1>4
  <2>5. n * e \in Nat /\ (n - 1) * e \in Nat /\ (c - 1) * e \in Nat
    BY <1>1, <1>3, <1>4
  <2> DEFINE x == n * e  y == (n - 1) * e  z == (c - 1) * e
  <2>6. x \in Nat /\ y \in Nat /\ z \in Nat /\ y + e = x /\ x <= z /\ z <= now - next /\ due[n] = next + y
    BY <1>3, <2>2, <2>3, <2>4, <2>5
  <2> HIDE DEF x, y, z
  <2> QED
    BY <1>1, <2>6
<1> QED
  BY <1>4, <1>7, <1>8 DEF due, e, n

\* A pass of n instants from the k-th of a timeline on.
InPass(e, since, k, n, t) ==
  since + k * e <= t /\ t < since + k * e + n * e /\ (t - since) % e = 0
OfBatch(e, since, k, n, t) == \E j \in 1..n : t = since + k * e + (j - 1) * e

\* An instant of the timeline in the range of a pass is one of its batch.
LEMMA InstantsOfPass ==
  ASSUME NEW e \in Nat \ {0}, NEW since \in Nat, NEW k \in Nat, NEW n \in Nat,
         NEW t \in Nat, InPass(e, since, k, n, t)
  PROVE  OfBatch(e, since, k, n, t)
<1> USE DEF InPass, OfBatch
<1> DEFINE q == (t - since) \div e
<1>1. k * e \in Nat /\ n * e \in Nat
  OBVIOUS
<1>2. t - since \in Nat
  BY <1>1
<1>3. q \in Nat /\ t - since = q * e
  BY <1>2
<1> HIDE DEF q
<1>4. k <= q
  <2> SUFFICES ASSUME q + 1 <= k PROVE FALSE
    BY <1>3
  <2>1. q * e + e <= k * e
    BY <1>3
  <2> DEFINE x == q * e  y == k * e
  <2>2. x \in Nat /\ y \in Nat /\ x + e <= y /\ t - since = x /\ since + y <= t
    BY <1>1, <1>3, <2>1
  <2> HIDE DEF x, y
  <2> QED
    BY <2>2
<1>5. q < k + n
  <2> SUFFICES ASSUME k + n <= q PROVE FALSE
    BY <1>3
  <2>1. (k + n) * e <= q * e
    BY <1>3
  <2>2. (k + n) * e = k * e + n * e
    OBVIOUS
  <2> DEFINE x == q * e  y == k * e  z == n * e
  <2>3. x \in Nat /\ y \in Nat /\ z \in Nat /\ y + z <= x /\ t - since = x /\ t < since + y + z
    BY <1>1, <1>3, <2>1, <2>2
  <2> HIDE DEF x, y, z
  <2> QED
    BY <2>3
<1>6. q - k + 1 \in 1..n
  BY <1>3, <1>4, <1>5
<1>7. t = since + k * e + (q - k + 1 - 1) * e
  <2>1. q * e = k * e + (q - k) * e
    BY <1>3, <1>4
  <2>2. (q - k + 1 - 1) * e = (q - k) * e /\ (q - k) * e \in Nat
    BY <1>3, <1>4
  <2> DEFINE x == q * e  y == k * e  z == (q - k) * e
  <2>3. x \in Nat /\ y \in Nat /\ z \in Nat /\ t - since = x /\ x = y + z /\ (q - k + 1 - 1) * e = z
    BY <1>1, <1>3, <2>1, <2>2
  <2>4. t = since + y + z
    <3> HIDE DEF x, y, z
    <3> QED
      BY <2>3
  <2> QED
    BY <2>3, <2>4
<1>8. PICK j \in 1..n : j = q - k + 1
  BY <1>6
<1>9. t = since + k * e + (j - 1) * e
  <2>1. j - 1 = q - k + 1 - 1
    BY <1>3, <1>8
  <2> QED
    BY <1>7, <2>1
<1> QED
  BY <1>9

-----------------------------------------------------------------------------
(* What the parts of the invariant depend on. *)

LEMMA SameHistory ==
  ASSUME HistoryInv, UNCHANGED <<occurrences, chains>>
  PROVE  HistoryInv'
BY DEF HistoryInv, Distinct

LEMMA SameBatch ==
  ASSUME NewInv, AcceptedInv, UNCHANGED <<tx, occurrences, chains>>
  PROVE  NewInv' /\ AcceptedInv'
<1>1. Visible' = Visible /\ \A at : Recorded(at)' <=> Recorded(at)
  BY DEF Visible, Recorded
<1>2. \A at : Passed(at)' <=> Passed(at)
  BY DEF Passed
<1>3. Distinct(Visible)' <=> Distinct(Visible)
  BY <1>1 DEF Distinct
<1> QED
  BY <1>1, <1>2, <1>3 DEF NewInv, AcceptedInv

LEMMA NoBatch ==
  ASSUME tx' = None
  PROVE  BatchInv' /\ NewInv' /\ AcceptedInv'
BY DEF BatchInv, NewInv, AcceptedInv

-----------------------------------------------------------------------------
(* Whoever writes the row: registration, ownership and operators. *)

SameTimeline ==
  /\ row # None /\ row' # None /\ row' \in Rows
  /\ row'.def = row.def /\ row'.next = row.next /\ row'.since = row.since
RowStep ==
  /\ UNCHANGED <<clock, occurrences, keys, retired, chains, tx, faults>>
  /\ up \subseteq up' /\ up' \subseteq Runtimes /\ owners' \subseteq Runtimes
  /\ \/ row' = row
     \/ tx = None /\ SameTimeline
     \/ tx = None /\ row' = None
     \/ tx = None /\ \E d \in Definitions : row' = Row(d, clock)

LEMMA RowType ==
  ASSUME NEW d \in Definitions, NEW now \in Nat
  PROVE  /\ Row(d, now) \in Rows /\ Row(d, now) # None
         /\ Row(d, now).def = d /\ Row(d, now).next = now + d.every /\ Row(d, now).since = now + d.every
<1>1. now + d.every \in Nat
  BY DefinitionType
<1>2. Row(d, now) = [state |-> "active", def |-> d, next |-> now + d.every, since |-> now + d.every, held |-> FALSE]
  BY DEF Row, NextAt
<1>3. Row(d, now) \in Rows
  BY <1>1, <1>2 DEF Rows
<1>4. None \notin Rows
  BY NullAssumption
<1>5. Row(d, now) # None
  BY <1>3, <1>4
<1>6. Row(d, now).def = d /\ Row(d, now).next = now + d.every /\ Row(d, now).since = now + d.every
  BY <1>2
<1> QED
  BY <1>3, <1>5, <1>6

LEMMA NewState ==
  ASSUME RowInv, row # None, NEW s \in {"active", "paused", "orphaned"}, row' = [row EXCEPT !.state = s]
  PROVE  SameTimeline
BY NullAssumption DEF RowInv, SameTimeline, Rows

LEMMA NewHold ==
  ASSUME RowInv, row # None, NEW s \in {"active", "paused", "orphaned"}, NEW h \in BOOLEAN,
         row' = [row EXCEPT !.state = s, !.held = h]
  PROVE  SameTimeline
BY NullAssumption DEF RowInv, SameTimeline, Rows

\* What its owner brings back, no materialization has locked.
LEMMA Reactivates ==
  ASSUME RowInv, BatchInv, row # None, Reactivate
  PROVE  row' = row \/ (tx = None /\ SameTimeline)
<1>1. CASE row.state = "orphaned"
  <2>1. tx = None
    BY <1>1 DEF BatchInv
  <2> QED
    BY <1>1, <2>1, NewState DEF Reactivate
<1>2. CASE row.state # "orphaned"
  BY <1>2 DEF Reactivate
<1> QED
  BY <1>1, <1>2

LEMMA OwnIsRowStep ==
  ASSUME TypeInv, RowInv, BatchInv, NEW r \in Runtimes, Own(r)
  PROVE  RowStep
<1>1. up \subseteq Runtimes /\ owners \subseteq Runtimes
  BY DEF TypeInv
<1>2. ASSUME Orphan, row # None
      PROVE  tx = None /\ SameTimeline
  BY <1>2, NewState DEF Orphan, Unlocked, SetState
<1>3. ASSUME Register(r)
      PROVE  RowStep
  <2>1. UNCHANGED <<clock, occurrences, keys, retired, chains, tx, faults>> /\ up' = up \cup {r}
        /\ owners' \subseteq owners \cup {r}
    BY <1>3 DEF Register
  <2>2. CASE Registered(r) /\ row = None /\ row' = Row(Registers[r], clock)
    <3>1. tx = None /\ Registers[r] \in Definitions
      BY <2>2 DEF BatchInv, Registered, Definitions
    <3> QED
      BY <1>1, <2>1, <2>2, <3>1 DEF RowStep
  <2>3. CASE row # None /\ Reactivate
    BY <1>1, <2>1, <2>3, Reactivates DEF RowStep
  <2>4. CASE row' = row \/ (row # None /\ Orphan)
    BY <1>1, <1>2, <2>1, <2>4 DEF RowStep
  <2> QED
    BY <1>3, <2>2, <2>3, <2>4 DEF Register
<1>4. ASSUME RenewOwnership(r)
      PROVE  RowStep
  BY <1>1, <1>4, Reactivates DEF RenewOwnership, RowStep
<1>5. ASSUME ReconcileMissing(r)
      PROVE  RowStep
  BY <1>1, <1>2, <1>5 DEF ReconcileMissing, RowStep
<1>6. ASSUME LeaseExpires(r)
      PROVE  RowStep
  BY <1>1, <1>6 DEF LeaseExpires, RowStep
<1> QED
  BY <1>3, <1>4, <1>5, <1>6 DEF Own

LEMMA OperatorIsRowStep ==
  ASSUME TypeInv, RowInv, Pause \/ Resume \/ Remove \/ \E d \in Redefined : UpdateDefinition(d)
  PROVE  RowStep
<1>1. up \subseteq Runtimes /\ owners \subseteq Runtimes
  BY DEF TypeInv
<1>2. CASE Pause
  BY <1>1, <1>2, NewHold DEF Pause, Unlocked, RowStep
<1>3. CASE Resume
  BY <1>1, <1>3, NewHold DEF Resume, Unlocked, RowStep
<1>4. CASE Remove
  BY <1>1, <1>4 DEF Remove, Unlocked, RowStep
<1>5. ASSUME NEW d \in Redefined, UpdateDefinition(d)
      PROVE  RowStep
  BY <1>1, <1>5 DEF UpdateDefinition, Unlocked, RowStep, Definitions
<1> QED
  BY <1>2, <1>3, <1>4, <1>5

LEMMA RowStepKeeps ==
  ASSUME Inv, RowStep
  PROVE  Inv'
<1>1. TypeInv'
  BY DEF Inv, RowStep, TypeInv
<1>2. HistoryInv' /\ NewInv' /\ AcceptedInv'
  BY SameHistory, SameBatch DEF Inv, RowStep
<1>3. BatchInv'
  BY DEF Inv, RowStep, BatchInv
<1>4. KeysAreFound'
  BY DEF Inv, RowStep, KeysAreFound
<1>5. \A o \in Recurring : o.at \in Nat
  BY DEF Inv, HistoryInv, Rec, Recurring
<1>6. Recurring' = Recurring
  BY DEF RowStep, Recurring
<1>7. ASSUME row' = row
      PROVE  RowInv' /\ NoInstantLost' /\ (~SetsBack => LatestInv')
  BY <1>6, <1>7 DEF Inv, RowStep, RowInv, NoInstantLost, LatestInv, LatestIsNotMissed
<1>8. ASSUME SameTimeline
      PROVE  RowInv' /\ NoInstantLost' /\ (~SetsBack => LatestInv')
  BY <1>6, <1>8 DEF Inv, RowStep, SameTimeline, RowInv, NoInstantLost, LatestInv, LatestIsNotMissed
<1>9. ASSUME tx = None, row' = None
      PROVE  RowInv' /\ NoInstantLost' /\ (~SetsBack => LatestInv')
  BY <1>6, <1>9 DEF Inv, RowStep, RowInv, NoInstantLost, LatestInv, LatestIsNotMissed
<1>10. ASSUME tx = None, NEW d \in Definitions, row' = Row(d, clock)
       PROVE  RowInv' /\ NoInstantLost' /\ (~SetsBack => LatestInv')
  <2>1. clock \in Nat /\ d.every \in Nat \ {0}
    BY DefinitionType, BoundAssumption DEF Inv, TypeInv
  <2>2. /\ row' \in Rows /\ row' # None /\ row'.def = d
        /\ row'.next = clock + d.every /\ row'.since = clock + d.every
    BY <1>10, <2>1, RowType
  <2>3. RowInv'
    <3>1. row'.next = row'.since + 0 * row'.def.every
      BY <2>1, <2>2
    <3> QED
      BY <2>2, <3>1 DEF RowInv
  <2>4. NoInstantLost'
    <3>1. row'.since..(row'.next - 1) = {}
      BY <2>1, <2>2
    <3> QED
      BY <3>1 DEF NoInstantLost
  <2>5. ASSUME ~SetsBack
        PROVE  LatestInv'
    <3>1. LatestInv /\ clock' = clock /\ tx' = None
      BY <1>10, <2>5 DEF Inv, RowStep
    <3>2. \A o \in Recurring : o.at <= clock /\ o.at < clock + d.every
      BY <1>5, <2>1, <3>1 DEF LatestInv
    <3>3. LatestIsNotMissed'
      BY <2>1, <2>2 DEF LatestIsNotMissed
    <3> QED
      BY <1>6, <2>2, <3>1, <3>2, <3>3 DEF LatestInv
  <2> QED
    BY <2>3, <2>4, <2>5
<1>11. RowInv' /\ NoInstantLost' /\ (~SetsBack => LatestInv')
  BY <1>7, <1>8, <1>9, <1>10 DEF RowStep
<1> QED
  BY <1>1, <1>2, <1>3, <1>4, <1>11 DEF Inv

-----------------------------------------------------------------------------
(* A materialization, from its claim to its commit or its end. *)

LEMMA ClaimKeeps ==
  ASSUME Inv, NEW r \in Runtimes, Claim(r)
  PROVE  Inv'
<1> DEFINE d == row.def
           due == Batch(d, row.next, clock)
           sel == Selected(d, due, More(d, row.next, clock), clock)
<1>1. /\ tx = None /\ row # None /\ row.state = "active" /\ row.next <= clock /\ r \in up
      /\ UNCHANGED <<clock, up, owners, row, history, faults>>
      /\ tx' = [by |-> r, def |-> d, due |-> due, done |-> 0, seq |-> NextSequence,
                selected |-> sel, new |-> {}, accepted |-> {}]
  BY DEF Claim, Unlocked, IsDue
<1>2. /\ d \in Definitions /\ row.next \in Nat /\ clock \in 0..Horizon /\ clock \in Nat /\ Horizon \in Nat
      /\ d.every \in Nat \ {0}
  BY <1>1, DefinitionType, BoundAssumption DEF Inv, TypeInv, RowInv, Rows
<1>3. /\ due \in Seq(0..clock) /\ Len(due) \in Nat \ {0}
      /\ \A i \in 1..Len(due) : due[i] = row.next + (i - 1) * d.every
      /\ More(d, row.next, clock) => due[Len(due)] + d.every <= clock
  BY <1>1, <1>2, BatchIsDue
<1>4. NextSequence \in Nat \ {0} /\ \A o \in occurrences : o.seq < NextSequence
  BY NextIsBeyond DEF Inv
<1>5. sel \in SUBSET Nat
  BY <1>3, DefinitionType, <1>2 DEF Selected
<1>6. ASSUME d.misfire = "latest"
      PROVE  Len(due) \in sel \/ due[Len(due)] + d.every <= clock
  BY <1>3, <1>6 DEF Selected
<1> HIDE DEF due, sel, d
<1>7. due \in Seq(0..Horizon)
  BY <1>2, <1>3
<1>8. due # <<>> /\ \A i \in 1..Len(due) : due[i] <= clock
  BY <1>2, <1>3
<1>9. /\ tx'.by = r /\ tx'.def = d /\ tx'.due = due /\ tx'.done = 0 /\ tx'.seq = NextSequence
      /\ tx'.selected = sel /\ tx'.new = {} /\ tx'.accepted = {}
  BY <1>1
<1>10. tx' \in Transactions
  BY <1>1, <1>2, <1>4, <1>5, <1>7 DEF Transactions
<1>11. TypeInv' /\ RowInv' /\ NoInstantLost' /\ KeysAreFound' /\ HistoryInv'
  BY <1>1, SameHistory DEF Inv, TypeInv, RowInv, NoInstantLost, Recurring, KeysAreFound
<1>12. BatchInv'
  BY <1>1, <1>3, <1>8, <1>9, <1>10 DEF BatchInv, d
<1>13. NewInv'
  <2>1. Visible' = occurrences /\ Distinct(occurrences)
    BY <1>1, <1>9 DEF Visible, Inv, HistoryInv
  <2> QED
    BY <1>4, <1>9, <2>1 DEF NewInv, Distinct
<1>14. AcceptedInv'
  BY <1>9 DEF AcceptedInv
<1>15. ASSUME ~SetsBack
       PROVE  LatestInv'
  <2>1. LatestInv
    BY <1>15 DEF Inv
  <2> QED
    BY <1>1, <1>6, <1>8, <1>9, <2>1 DEF LatestInv, LatestIsNotMissed, Recurring
<1> QED
  BY <1>11, <1>12, <1>13, <1>14, <1>15 DEF Inv

\* The batch goes on to its next instant.
Rest == UNCHANGED <<clock, up, owners, row, history, faults>>

LEMMA PassOver ==
  ASSUME Inv, NEW r \in Runtimes, AlreadyRecorded(r)
  PROVE  Inv'
<1>1. tx # None /\ tx.done < Len(tx.due) /\ Recorded(tx.due[tx.done + 1]) /\ Rest
      /\ tx' = [tx EXCEPT !.done = @ + 1]
  BY DEF AlreadyRecorded, Pending, Instant, Rest
<1>2. tx \in Transactions /\ Len(tx.due) \in Nat /\ tx.done \in Nat
  BY <1>1 DEF Inv, BatchInv, Transactions
<1>3. /\ tx' \in Transactions /\ tx'.done = tx.done + 1 /\ tx'.due = tx.due /\ tx'.new = tx.new
      /\ tx'.accepted = tx.accepted /\ tx'.seq = tx.seq /\ tx'.def = tx.def /\ tx'.by = tx.by
      /\ tx'.selected = tx.selected
  <2>1. tx.done + 1 \in Nat
    BY <1>2
  <2>2. tx' = [tx EXCEPT !.done = tx.done + 1]
    BY <1>1
  <2> QED
    BY <1>2, <2>1, <2>2, SMTT(30) DEF Transactions
<1>4. TypeInv' /\ RowInv' /\ NoInstantLost' /\ KeysAreFound' /\ HistoryInv'
  BY <1>1, SameHistory DEF Inv, Rest, TypeInv, RowInv, NoInstantLost, Recurring, KeysAreFound
<1>5. BatchInv'
  BY <1>1, <1>2, <1>3 DEF Inv, Rest, BatchInv
<1>6. Visible' = Visible /\ (\A at : Recorded(at)' <=> Recorded(at)) /\ (\A at : Passed(at) => Passed(at)')
  BY <1>1, <1>2, <1>3 DEF Rest, Visible, Recorded, Passed
<1>7. NewInv'
  <2>1. \A j \in 1..tx'.done : Recorded(tx.due[j])
    BY <1>1, <1>2, <1>3 DEF Inv, NewInv
  <2>2. Distinct(Visible)'
    BY <1>1, <1>6 DEF Inv, NewInv, Distinct
  <2> QED
    BY <1>1, <1>3, <1>6, <2>1, <2>2 DEF Inv, Rest, NewInv
<1>8. AcceptedInv'
  BY <1>1, <1>3, <1>6 DEF Inv, Rest, AcceptedInv
<1>9. ASSUME ~SetsBack
      PROVE  LatestInv'
  BY <1>1, <1>3, <1>9 DEF Inv, Rest, LatestInv, LatestIsNotMissed, Recurring
<1> QED
  BY <1>4, <1>5, <1>7, <1>8, <1>9 DEF Inv

\* A decision on an instant: its occurrence, and perhaps an acceptance.
Decision(o, S) ==
  /\ tx # None /\ tx.done < Len(tx.due) /\ ~Recorded(tx.due[tx.done + 1])
  /\ o \in Rec /\ o.seq = tx.seq /\ o.at = tx.due[tx.done + 1] /\ o.trigger = "recurring"
  /\ tx' = [tx EXCEPT !.done = @ + 1, !.seq = @ + 1, !.accepted = @ \cup S, !.new = @ \cup {o}]
  /\ S = {} \/ (o.state = "started" /\ S = {o.run} /\ o.run = <<"due", o.at>> /\ chains[o.run] = "none")
  /\ o.run # None => o.state = "started" /\ (o.run \in S \/ chains[o.run] # "none")
  /\ o.run # None /\ tx.def.overlap = "skip" => ~HasActiveExecution
  /\ o.reason = "misfire" => (tx.done + 1) \notin tx.selected

LEMMA DecisionKeeps ==
  ASSUME Inv, Rest, NEW o, NEW S, Decision(o, S)
  PROVE  Inv'
<1>1. tx # None /\ tx \in Transactions /\ Len(tx.due) \in Nat /\ tx.done \in Nat /\ tx.seq \in Nat \ {0}
  BY DEF Inv, BatchInv, Transactions, Decision
<1>2. tx.done + 1 \in 1..Len(tx.due) /\ tx.due[tx.done + 1] \in 0..Horizon
  <2>1. tx.done < Len(tx.due)
    BY DEF Decision
  <2>2. tx.due \in Seq(0..Horizon)
    BY <1>1 DEF Transactions
  <2>3. tx.done + 1 \in 1..Len(tx.due)
    BY <1>1, <2>1
  <2> QED
    BY <2>2, <2>3, ElementOf
<1>3. S \subseteq Due
  <2>1. o.at \in 0..Horizon
    BY <1>2 DEF Decision
  <2>2. <<"due", o.at>> \in Due
    BY <2>1 DEF Due
  <2>3. \A n \in S : n = <<"due", o.at>>
    BY DEF Decision
  <2> QED
    BY <2>2, <2>3
<1>4. /\ tx'.done = tx.done + 1 /\ tx'.due = tx.due /\ tx'.new = tx.new \cup {o}
      /\ tx'.accepted = tx.accepted \cup S /\ tx'.seq = tx.seq + 1 /\ tx'.def = tx.def /\ tx'.by = tx.by
      /\ tx'.selected = tx.selected
  BY <1>1 DEF Decision, Transactions
<1>5. tx' \in Transactions
  <2>1. tx.done + 1 \in Nat /\ tx.seq + 1 \in Nat \ {0} /\ tx.accepted \cup S \in SUBSET Due /\ tx.new \cup {o} \in SUBSET Rec
    BY <1>1, <1>3 DEF Decision, Transactions
  <2> QED
    BY <1>1, <2>1 DEF Decision, Transactions
<1>6. TypeInv' /\ RowInv' /\ NoInstantLost' /\ KeysAreFound' /\ HistoryInv'
  BY SameHistory DEF Inv, Rest, TypeInv, RowInv, NoInstantLost, Recurring, KeysAreFound
<1>7. BatchInv'
  BY <1>1, <1>2, <1>4, <1>5 DEF Inv, Rest, BatchInv
<1>8. Visible' = Visible \cup {o} /\ (\A at : Recorded(at) => Recorded(at)') /\ Recorded(o.at)'
  BY <1>4 DEF Rest, Visible, Recorded, Decision
<1>9. (\A at : Passed(at) => Passed(at)') /\ Passed(o.at)'
  BY <1>1, <1>2, <1>4 DEF Passed, Decision
<1>10. \A p \in Visible : p.seq < o.seq /\ (p.trigger = "recurring" => p.at # o.at)
  BY <1>1 DEF Inv, NewInv, Decision, Recorded
<1>11. \A p \in Visible : p.seq \in Nat
  BY <1>1 DEF Inv, HistoryInv, Visible, Transactions, Rec
<1>12. NewInv'
  <2>1. \A at : \A j \in 1..tx'.done : at = tx'.due[j] => Recorded(at)'
    <3> SUFFICES ASSUME NEW j \in 1..(tx.done + 1), NEW at, at = tx.due[j]
                 PROVE  Recorded(at)'
      BY <1>4
    <3>1. CASE j = tx.done + 1
      BY <1>8, <3>1 DEF Decision
    <3>2. CASE j \in 1..tx.done
      BY <1>1, <1>8, <3>2 DEF Inv, NewInv
    <3> QED
      BY <1>1, <3>1, <3>2
  <2>2. \A p \in tx'.new : p.trigger = "recurring" /\ Passed(p.at)'
    BY <1>1, <1>4, <1>9 DEF Inv, NewInv, Decision
  <2>3. \A p \in tx'.new, q \in occurrences' : q.seq < p.seq
    BY <1>1, <1>4, <1>10 DEF Inv, NewInv, Rest, Visible
  <2>4. \A p \in Visible' : p.seq < tx'.seq
    BY <1>1, <1>4, <1>8, <1>10, <1>11 DEF Inv, NewInv, Decision
  <2>5. Distinct(Visible')
    BY <1>1, <1>8, <1>10, <1>11 DEF Inv, NewInv, Distinct, Decision
  <2>6. \A p \in tx'.new : p.run # None =>
          p.state = "started" /\ (p.run \in tx'.accepted \/ chains'[p.run] # "none")
    BY <1>1, <1>4 DEF Inv, NewInv, Decision, Rest
  <2> QED
    BY <2>1, <2>2, <2>3, <2>4, <2>5, <2>6 DEF NewInv, Distinct, Recorded
<1>13. AcceptedInv'
  <2> SUFFICES ASSUME NEW n \in tx'.accepted
               PROVE  /\ chains[n] = "none" /\ Passed(n[2])' /\ \E p \in tx'.new : p.run = n
                      /\ tx.def.overlap = "skip" =>
                           \A p \in Visible' : p.run \notin {n, None} =>
                             p.run \notin tx'.accepted /\ chains[p.run] \notin Active
    BY <1>4 DEF AcceptedInv, Rest
  <2>1. ASSUME n \in S
        PROVE  n = o.run /\ o.run = <<"due", o.at>> /\ chains[n] = "none" /\ n # None
    BY <1>3, <2>1, NullAssumption DEF Decision, Names
  <2>2. ASSUME n \in tx.accepted
        PROVE  /\ chains[n] = "none" /\ Passed(n[2]) /\ \E p \in tx.new : p.run = n /\ p.state = "started"
               /\ n # None
    <3>1. n # None
      BY <1>1, <2>2, NullAssumption DEF Transactions, Names
    <3> QED
      BY <1>1, <2>2, <3>1 DEF Inv, AcceptedInv, NewInv
  <2>3. chains[n] = "none" /\ Passed(n[2])' /\ \E p \in tx'.new : p.run = n
    <3>1. CASE n \in S
      BY <1>4, <1>9, <2>1, <3>1
    <3>2. CASE n \in tx.accepted
      BY <1>4, <1>9, <2>2, <3>2
    <3> QED
      BY <1>4, <3>1, <3>2
  <2>4. ASSUME tx.def.overlap = "skip", NEW p \in Visible', p.run \notin {n, None}
        PROVE  p.run \notin tx'.accepted /\ chains[p.run] \notin Active
    <3>1. CASE o.run = None
      <4>1. S = {}
        <5>1. S # {} => None \in S
          BY <3>1 DEF Decision
        <5> QED
          BY <1>3, <5>1, NullAssumption DEF Names
      <4>2. p \in Visible /\ n \in tx.accepted
        BY <1>4, <1>8, <2>4, <3>1, <4>1
      <4> QED
        BY <1>1, <1>4, <2>4, <4>1, <4>2 DEF Inv, AcceptedInv
    <3>2. CASE o.run # None
      <4>1. ~HasActiveExecution
        BY <2>4, <3>2 DEF Decision
      <4>2. tx.accepted = {}
        <5> SUFFICES ASSUME NEW m \in tx.accepted PROVE FALSE
          OBVIOUS
        <5>1. PICK q \in tx.new : q.run = m
          BY <1>1 DEF Inv, AcceptedInv
        <5>2. q.run # None
          BY <1>1, <5>1, NullAssumption DEF Transactions, Names
        <5>3. q.state = "started" /\ q \in Visible
          BY <1>1, <5>1, <5>2 DEF Inv, NewInv, Visible
        <5> QED
          BY <4>1, <5>1, <5>2, <5>3 DEF HasActiveExecution
      <4>3. n = o.run
        BY <1>4, <2>1, <4>2
      <4>4. p \in Visible
        BY <1>8, <2>4, <4>3
      <4>5. p.state = "started"
        BY <1>1, <2>4, <4>4 DEF Inv, NewInv, HistoryInv, Visible
      <4>6. chains[p.run] \notin Active
        BY <2>4, <4>1, <4>4, <4>5 DEF HasActiveExecution
      <4>7. p.run \notin S
        BY <2>4, <4>3 DEF Decision
      <4> QED
        BY <1>4, <4>2, <4>6, <4>7
    <3> QED
      BY <3>1, <3>2
  <2> QED
    BY <2>3, <2>4
<1>14. ASSUME ~SetsBack
       PROVE  LatestInv'
  <2>1. LatestInv
    BY <1>14 DEF Inv
  <2>2. \A j \in 1..Len(tx.due) : o.at = tx.due[j] => j = tx.done + 1
    <3> SUFFICES ASSUME NEW j \in 1..Len(tx.due), tx.due[tx.done + 1] = tx.due[j]
                 PROVE  j = tx.done + 1
      BY DEF Decision
    <3> DEFINE e == tx.def.every
               b == tx.done + 1
    <3>1. e \in Nat \ {0} /\ row.next \in Nat
      BY <1>1, DefinitionType DEF Inv, BatchInv, RowInv, Rows, Transactions
    <3>2. row.next + (j - 1) * e = row.next + (b - 1) * e
      BY <1>1, <1>2 DEF Inv, BatchInv
    <3>3. j - 1 \in Nat /\ b - 1 \in Nat
      BY <1>1, <1>2
    <3> HIDE DEF e, b
    <3>4. (j - 1) * e \in Nat /\ (b - 1) * e \in Nat
      BY <3>1, <3>3
    <3>5. (j - 1) * e = (b - 1) * e
      <4> DEFINE x == (j - 1) * e  y == (b - 1) * e
      <4>1. x \in Nat /\ y \in Nat /\ row.next + x = row.next + y
        BY <3>2, <3>4
      <4> HIDE DEF x, y
      <4>2. x = y
        BY <3>1, <4>1
      <4> QED
        BY <4>2 DEF x, y
    <3>6. j - 1 = b - 1
      BY <3>1, <3>3, <3>5
    <3> QED
      BY <1>1, <3>3, <3>6 DEF b
  <2>3. \A p \in tx'.new, j \in 1..Len(tx.due) : p.reason = "misfire" /\ p.at = tx.due[j] => j \notin tx.selected
    BY <1>1, <1>4, <2>1, <2>2 DEF LatestInv, Decision
  <2> QED
    BY <1>1, <1>4, <2>1, <2>3 DEF Rest, LatestInv, LatestIsNotMissed, Recurring
<1> QED
  BY <1>6, <1>7, <1>12, <1>13, <1>14 DEF Inv

\* The decisions of materialize.
LEMMA TakeDecides ==
  ASSUME Inv, NEW r \in Runtimes, Misfire(r) \/ Overlap(r) \/ StartDue(r) \/ FailDue(r)
  PROVE  Inv'
<1>1. /\ tx # None /\ tx.done < Len(tx.due) /\ ~Recorded(tx.due[tx.done + 1]) /\ Rest
  BY DEF Misfire, Overlap, StartDue, FailDue, Pending, Instant, Rest
<1>2. tx \in Transactions /\ Len(tx.due) \in Nat /\ tx.done \in Nat /\ tx.seq \in Nat \ {0}
  BY <1>1 DEF Inv, BatchInv, Transactions
<1>3. Instant \in 0..Horizon /\ Instant \in Nat
  <2>1. tx.due \in Seq(0..Horizon) /\ tx.done + 1 \in 1..Len(tx.due)
    BY <1>1, <1>2 DEF Transactions
  <2> QED
    BY <2>1, ElementOf, BoundAssumption DEF Instant
<1>4. None # "misfire"
  BY NullAssumption
<1> DEFINE at == Instant
           name == <<"due", at>>
<1>5. name \in Due /\ name \in Names /\ name # None
  BY <1>3, NullAssumption DEF Due, Names
<1>6. \A state \in {"started", "skipped", "failed"},
         reason \in {None, "misfire", "overlap", "EXECUTION_PRUNED", "SCHEDULE_INPUT_ERROR"},
         run \in Names \cup {None} :
        LET o == Occurrence(tx.seq, at, "recurring", state, reason, run)
        IN /\ o \in Rec /\ o.seq = tx.seq /\ o.at = at /\ o.trigger = "recurring"
           /\ o.state = state /\ o.reason = reason /\ o.run = run
  BY <1>2, <1>3 DEF Occurrence, Rec
<1>7. ASSUME Misfire(r)
      PROVE  \E o, S : Decision(o, S)
  <2> DEFINE o == Occurrence(tx.seq, at, "recurring", "skipped", "misfire", None)
  <2>1. /\ o \in Rec /\ o.seq = tx.seq /\ o.at = at /\ o.trigger = "recurring" /\ o.run = None
    BY <1>6
  <2>2. (tx.done + 1) \notin tx.selected
    BY <1>7 DEF Misfire, Selects
  <2>3. tx' = [tx EXCEPT !.done = @ + 1, !.seq = @ + 1, !.accepted = @ \cup {}, !.new = @ \cup {o}]
    BY <1>7 DEF Misfire, Take
  <2> HIDE DEF o
  <2>4. Decision(o, {})
    BY <1>1, <2>1, <2>2, <2>3 DEF Decision, Instant
  <2> QED
    BY <2>4
<1>8. ASSUME Overlap(r) \/ FailDue(r) \/ (StartDue(r) /\ chains[name] = "pruned")
      PROVE  \E o, S : Decision(o, S)
  <2>1. PICK state \in {"skipped", "failed"}, reason \in {"overlap", "EXECUTION_PRUNED", "SCHEDULE_INPUT_ERROR"} :
          Take(state, reason, None, {})
    BY <1>8 DEF Overlap, FailDue, StartDue
  <2> DEFINE o == Occurrence(tx.seq, at, "recurring", state, reason, None)
  <2>2. /\ o \in Rec /\ o.seq = tx.seq /\ o.at = at /\ o.trigger = "recurring" /\ o.run = None /\ o.reason # "misfire"
    BY <1>6
  <2>3. tx' = [tx EXCEPT !.done = @ + 1, !.seq = @ + 1, !.accepted = @ \cup {}, !.new = @ \cup {o}]
    BY <2>1 DEF Take
  <2> HIDE DEF o
  <2>4. Decision(o, {})
    BY <1>1, <2>2, <2>3 DEF Decision, Instant
  <2> QED
    BY <2>4
<1>9. ASSUME StartDue(r), chains[name] # "pruned"
      PROVE  \E o, S : Decision(o, S)
  <2> DEFINE o == Occurrence(tx.seq, at, "recurring", "started", None, name)
             S == IF chains[name] = "none" THEN {name} ELSE {}
  <2>1. /\ o \in Rec /\ o.seq = tx.seq /\ o.at = at /\ o.trigger = "recurring" /\ o.run = name /\ o.state = "started"
        /\ o.reason # "misfire"
    BY <1>4, <1>5, <1>6
  <2>2. tx' = [tx EXCEPT !.done = @ + 1, !.seq = @ + 1, !.accepted = @ \cup S, !.new = @ \cup {o}]
    BY <1>9 DEF StartDue, Take
  <2>3. tx.def.overlap = "skip" => ~HasActiveExecution
    BY <1>9 DEF StartDue, Overlaps
  <2>4. S = {} \/ (S = {name} /\ chains[name] = "none")
    OBVIOUS
  <2>5. name \in S \/ chains[name] # "none"
    OBVIOUS
  <2>6. at = tx.due[tx.done + 1] /\ name = <<"due", at>>
    BY DEF Instant
  <2> HIDE DEF o, S, name, at
  <2>7. Decision(o, S)
    BY <1>1, <1>5, <2>1, <2>2, <2>3, <2>4, <2>5, <2>6 DEF Decision
  <2> QED
    BY <2>7
<1> QED
  BY <1>1, <1>7, <1>8, <1>9, DecisionKeeps

LEMMA CommitKeeps ==
  ASSUME Inv, NEW r \in Runtimes, Commit(r)
  PROVE  Inv'
<1> DEFINE e == tx.def.every
           n == Len(tx.due)
           last == tx.due[n]
<1>1. /\ tx # None /\ tx.done = n /\ tx' = None /\ occurrences' = Visible
      /\ row' = [row EXCEPT !.next = last + e]
      /\ chains' = [m \in Names |-> IF m \in tx.accepted THEN "open" ELSE chains[m]]
      /\ UNCHANGED <<clock, up, owners, keys, retired, faults>>
  BY DEF Commit, NextAt
<1>2. tx \in Transactions /\ n \in Nat \ {0} /\ e \in Nat \ {0} /\ tx.seq \in Nat \ {0} /\ tx.def \in Definitions
  BY <1>1, DefinitionType DEF Inv, BatchInv, Transactions
<1>3. row # None /\ row \in Rows /\ row.def = tx.def /\ row.next \in Nat /\ row.since \in Nat
  BY <1>1 DEF Inv, BatchInv, RowInv, Rows
<1>4. PICK k \in Nat : row.next = row.since + k * e
  BY <1>3 DEF Inv, RowInv
<1>5. \A i \in 1..n : tx.due[i] = row.next + (i - 1) * e
  BY <1>1 DEF Inv, BatchInv
<1> HIDE DEF e, n, last
<1>6. last = row.next + (n - 1) * e /\ last \in Nat /\ row.next <= last /\ last + e = row.next + n * e
  <2>1. last = row.next + (n - 1) * e
    BY <1>2, <1>5 DEF last
  <2>2. (n - 1) * e \in Nat /\ n * e = (n - 1) * e + e
    BY <1>2
  <2> DEFINE x == (n - 1) * e  y == n * e
  <2>3. x \in Nat /\ y = x + e /\ last = row.next + x
    BY <2>1, <2>2
  <2>4. last \in Nat /\ row.next <= last /\ last + e = row.next + y
    <3> HIDE DEF x, y
    <3> QED
      BY <1>2, <1>3, <2>3
  <2> QED
    BY <2>1, <2>4
<1>7. \A i \in 1..n : tx.due[i] \in Nat /\ tx.due[i] <= last
  <2> SUFFICES ASSUME NEW i \in 1..n
               PROVE  tx.due[i] \in Nat /\ tx.due[i] <= last
    OBVIOUS
  <2> DEFINE x == (i - 1) * e  y == (n - 1) * e
  <2>1. x \in Nat /\ y \in Nat /\ x <= y
    BY <1>2
  <2>2. tx.due[i] = row.next + x /\ last = row.next + y
    BY <1>5, <1>6
  <2> HIDE DEF x, y
  <2> QED
    BY <1>3, <2>1, <2>2
<1>8. /\ row' \in Rows /\ row' # None /\ row'.def = row.def /\ row'.since = row.since /\ row'.next = last + e
  <2>1. last + e \in Nat
    BY <1>2, <1>6
  <2>2. row' \in Rows /\ row'.def = row.def /\ row'.since = row.since /\ row'.next = last + e
    BY <1>1, <1>3, <2>1 DEF Rows
  <2>3. None \notin Rows
    BY NullAssumption
  <2> QED
    BY <2>2, <2>3
<1>9. row'.next = row.since + k * e + n * e
  BY <1>4, <1>6, <1>8
<1>10. /\ occurrences \subseteq occurrences' /\ occurrences' = occurrences \cup tx.new
       /\ \A at : Passed(at) => \E j \in 1..n : at = tx.due[j]
       /\ \A j \in 1..n : \E o \in occurrences' : o.at = tx.due[j] /\ o.trigger = "recurring"
  BY <1>1 DEF Visible, Passed, Inv, NewInv, Recorded
<1>11. TypeInv'
  <2>1. tx.accepted \subseteq Names
    BY <1>2 DEF Transactions, Names
  <2> QED
    BY <1>1, <2>1 DEF Inv, TypeInv, ChainStates, Active
<1>12. \A m \in Names : chains[m] # "none" => chains'[m] # "none"
  BY <1>1
<1>13. RowInv'
  <2>1. k * e + n * e = (k + n) * e /\ k + n \in Nat
    BY <1>2
  <2>2. row'.next = row'.since + (k + n) * e
    <3> DEFINE x == k * e  y == n * e  z == (k + n) * e
    <3>1. x \in Nat /\ y \in Nat /\ x + y = z /\ row'.next = row.since + x + y
      BY <1>2, <1>9, <2>1
    <3>2. row'.next = row.since + z
      <4> HIDE DEF x, y, z
      <4> QED
        BY <1>3, <3>1
    <3> QED
      BY <1>8, <3>2
  <2> QED
    BY <1>3, <1>8, <2>1, <2>2 DEF RowInv, e
<1>14. HistoryInv'
  <2>1. occurrences' \subseteq Rec
    BY <1>2, <1>10 DEF Inv, HistoryInv, Transactions
  <2>2. \A o \in occurrences' : o.seq <= tx.seq
    BY <1>1, <1>2, <2>1 DEF Inv, NewInv, Rec
  <2>3. Distinct(occurrences')
    BY <1>1 DEF Inv, NewInv
  <2>4. ASSUME NEW o \in occurrences', o.run # None
        PROVE  o.state = "started" /\ chains'[o.run] # "none"
    <3>1. o.run \in Names
      BY <2>1, <2>4 DEF Rec
    <3> QED
      BY <1>1, <1>10, <1>12, <2>4, <3>1 DEF Inv, HistoryInv, NewInv
  <2> QED
    BY <1>2, <2>1, <2>2, <2>3, <2>4 DEF HistoryInv, Distinct
<1>15. KeysAreFound'
  <2> SUFFICES ASSUME NEW q \in Keys, keys[q] # 0
               PROVE  \E o \in occurrences' : /\ o.seq = keys[q] /\ o.trigger = "manual"
                                              /\ o.state = "failed" \/ chains'[<<"manual", q>>] # "none"
    BY <1>1 DEF KeysAreFound
  <2>1. <<"manual", q>> \in Names
    BY DEF Names, Manual
  <2> QED
    BY <1>10, <1>12, <2>1 DEF Inv, KeysAreFound
<1>16. NoInstantLost'
  <2> SUFFICES ASSUME NEW t \in row.since..(row'.next - 1), (t - row.since) % e = 0
               PROVE  t \in retired \/ \E o \in Recurring' : o.at = t
    BY <1>1, <1>3, <1>8 DEF NoInstantLost, e
  <2>1. t \in Nat /\ row.since <= t /\ t < row'.next
    BY <1>2, <1>3, <1>6, <1>8
  <2>2. CASE t < row.next
    <3>1. t \in row.since..(row.next - 1)
      BY <1>3, <2>1, <2>2
    <3>2. t \in retired \/ \E o \in Recurring : o.at = t
      BY <1>3, <3>1 DEF Inv, NoInstantLost, e
    <3> QED
      BY <1>10, <3>2 DEF Recurring
  <2>3. CASE row.next <= t
    <3>1. row.since + k * e <= t /\ t < row.since + k * e + n * e
      BY <1>4, <1>9, <2>1, <2>3
    <3>2. \E j \in 1..n : t = row.since + k * e + (j - 1) * e
      <4> DEFINE since == row.since
      <4>1. since \in Nat /\ t \in Nat /\ InPass(e, since, k, n, t)
        BY <1>3, <2>1, <3>1 DEF InPass
      <4>2. e \in Nat \ {0} /\ n \in Nat /\ k \in Nat
        BY <1>2, <1>4
      <4> HIDE DEF since
      <4>3. OfBatch(e, since, k, n, t)
        BY <4>1, <4>2, InstantsOfPass
      <4> QED
        BY <4>3 DEF since, OfBatch
    <3>3. PICK j \in 1..n : t = tx.due[j]
      BY <1>4, <1>5, <3>2
    <3> QED
      BY <1>10, <3>3 DEF Recurring
  <2> QED
    BY <1>3, <2>1, <2>2, <2>3
<1>17. ASSUME ~SetsBack
       PROVE  LatestInv'
  <2>1. LatestInv
    BY <1>17 DEF Inv
  <2>2. clock' = clock /\ clock \in Nat
    BY <1>1, BoundAssumption DEF Inv, TypeInv
  <2>3. ASSUME NEW o \in Recurring'
        PROVE  /\ o \in Recurring \/ (o \in tx.new /\ \E j \in 1..n : o.at = tx.due[j])
    BY <1>1, <1>10, <2>3 DEF Recurring, Inv, NewInv
  <2>4. \A o \in Recurring : o.at \in Nat /\ o.at <= clock /\ o.at < row.next
    BY <1>3, <2>1 DEF LatestInv, Recurring, Inv, HistoryInv, Rec
  <2>5. \A i \in 1..n : tx.due[i] <= clock
    BY <1>1, <2>1 DEF LatestInv, n
  <2>6. \A o \in Recurring' : o.at <= clock /\ o.at < row'.next
    BY <1>2, <1>3, <1>6, <1>7, <1>8, <2>3, <2>4, <2>5
  <2>7. LatestIsNotMissed'
    <3> SUFFICES ASSUME tx.def.misfire = "latest", NEW o \in Recurring', o.at = row'.next - e, o.reason = "misfire"
                 PROVE  row'.next <= clock
      BY <1>3, <1>8, <2>2 DEF LatestIsNotMissed, e
    <3>1. o.at = last
      BY <1>2, <1>6, <1>8
    <3>2. o \in tx.new
      BY <1>3, <1>6, <2>3, <2>4, <3>1
    <3>3. n \notin tx.selected
      BY <1>1, <1>2, <2>1, <3>1, <3>2 DEF LatestInv, last, n
    <3>4. last + e <= clock
      BY <1>1, <2>1, <3>3 DEF LatestInv, last, n, e
    <3> QED
      BY <1>8, <3>4
  <2> QED
    BY <1>1, <2>2, <2>6, <2>7 DEF LatestInv
<1> QED
  BY <1>1, <1>11, <1>13, <1>14, <1>15, <1>16, <1>17, NoBatch DEF Inv

\* A materialization that is undone leaves everything as it was.
LEMMA UndoneKeeps ==
  ASSUME Inv, NEW r \in Runtimes, Rollback(r) \/ Crash(r)
  PROVE  Inv'
<1>1. /\ UNCHANGED <<clock, owners, row, history>> /\ faults' = faults + 1 /\ faults < MaxFaults
      /\ up' \subseteq up
      /\ tx' = None \/ (tx' = tx /\ (up' = up \/ (up' = up \ {r} /\ ~(tx # None /\ tx.by = r))))
  BY DEF Rollback, Crash
<1>2. TypeInv' /\ RowInv' /\ HistoryInv' /\ NoInstantLost' /\ KeysAreFound'
  <2>1. TypeInv'
    BY <1>1, BoundAssumption DEF Inv, TypeInv
  <2> QED
    BY <1>1, <2>1, SameHistory DEF Inv, RowInv, NoInstantLost, Recurring, KeysAreFound
<1>3. BatchInv' /\ NewInv' /\ AcceptedInv'
  <2>1. ASSUME tx' = tx, up' = up \/ (up' = up \ {r} /\ ~(tx # None /\ tx.by = r))
        PROVE  BatchInv' /\ NewInv' /\ AcceptedInv'
    <3>1. NewInv' /\ AcceptedInv'
      BY <1>1, <2>1, SameBatch DEF Inv
    <3>2. BatchInv'
      BY <1>1, <2>1 DEF Inv, BatchInv
    <3> QED
      BY <3>1, <3>2
  <2> QED
    BY <1>1, <2>1, NoBatch
<1>4. ASSUME ~SetsBack
      PROVE  LatestInv'
  BY <1>1, <1>4 DEF Inv, LatestInv, LatestIsNotMissed, Recurring
<1> QED
  BY <1>2, <1>3, <1>4 DEF Inv

-----------------------------------------------------------------------------
(* Manual triggers, retention, executions and the clock. *)

\* A manual trigger appends to the history, and reserves its key.
LEMMA TriggerKeeps ==
  ASSUME Inv, NEW k \in Keys \cup {None}, Trigger(k) \/ TriggerFails(k)
  PROVE  Inv'
<1> DEFINE s == NextSequence
           name == KeyName(k)
<1>1. s \in Nat \ {0} /\ \A o \in occurrences : o.seq < s
  BY NextIsBeyond DEF Inv
<1>2. /\ tx = None /\ s <= MaxSequence
      /\ UNCHANGED <<clock, up, owners, row, retired, tx, faults>>
  BY DEF Trigger, TriggerFails, Triggerable, Unlocked
<1>3. name \in Names /\ name # None /\ (k # None => name = <<"manual", k>>)
  <2>1. name \in Names
    BY <1>1, <1>2, BoundAssumption DEF KeyName, Names, Manual
  <2>2. None \notin Names
    BY NullAssumption
  <2> QED
    BY <2>1, <2>2 DEF KeyName
<1>4. clock \in Nat /\ chains \in [Names -> ChainStates] /\ keys \in [Keys -> Nat]
  BY BoundAssumption DEF Inv, TypeInv
<1>5. PICK o \in Rec :
        /\ occurrences' = occurrences \cup {o}
        /\ o.seq = s /\ o.trigger = "manual"
        /\ \/ o.state = "started" /\ o.run = name /\ chains' = [chains EXCEPT ![name] = "open"]
           \/ o.state = "failed" /\ o.run = None /\ chains' = chains
  <2>1. CASE Trigger(k)
    <3> DEFINE o == Occurrence(s, clock, "manual", "started", None, name)
    <3>1. /\ o \in Rec /\ o.seq = s /\ o.trigger = "manual" /\ o.state = "started" /\ o.run = name
      BY <1>1, <1>3, <1>4 DEF Occurrence, Rec
    <3>2. occurrences' = occurrences \cup {o} /\ chains' = [chains EXCEPT ![name] = "open"]
      BY <2>1 DEF Trigger
    <3> QED
      BY <3>1, <3>2
  <2>2. CASE TriggerFails(k)
    <3> DEFINE o == Occurrence(s, clock, "manual", "failed", "SCHEDULE_INPUT_ERROR", None)
    <3>1. /\ o \in Rec /\ o.seq = s /\ o.trigger = "manual" /\ o.state = "failed" /\ o.run = None
      BY <1>1, <1>4 DEF Occurrence, Rec
    <3>2. occurrences' = occurrences \cup {o} /\ chains' = chains
      BY <2>2 DEF TriggerFails
    <3> QED
      BY <3>1, <3>2
  <2> QED
    BY <2>1, <2>2
<1>6. /\ chains' \in [Names -> ChainStates]
      /\ \A m \in Names : chains[m] # "none" => chains'[m] # "none"
      /\ o.run # None => o.state = "started" /\ chains'[o.run] # "none"
  BY <1>3, <1>4, <1>5 DEF ChainStates, Active
<1>7. /\ keys' \in [Keys -> Nat]
      /\ \A q \in Keys : keys'[q] = keys[q] \/ (q = k /\ k # None /\ keys'[q] = s)
  BY <1>1, <1>4 DEF Trigger, TriggerFails, Reserve
<1> HIDE DEF s, name
<1>8. Recurring' = Recurring
  BY <1>5 DEF Recurring
<1>9. TypeInv' /\ RowInv' /\ NoInstantLost' /\ (~SetsBack => LatestInv')
  BY <1>2, <1>6, <1>7, <1>8 DEF Inv, TypeInv, RowInv, NoInstantLost, LatestInv, LatestIsNotMissed
<1>10. HistoryInv'
  <2>1. occurrences' \subseteq Rec /\ \A p \in occurrences' : p.seq <= s
    BY <1>1, <1>5 DEF Inv, HistoryInv, Rec
  <2>2. Distinct(occurrences')
    BY <1>1, <1>5 DEF Inv, HistoryInv, Distinct, Rec
  <2>3. ASSUME NEW p \in occurrences', p.run # None
        PROVE  p.state = "started" /\ chains'[p.run] # "none"
    <3>1. CASE p = o
      BY <1>6, <2>3, <3>1
    <3>2. CASE p \in occurrences
      <4>1. p.run \in Names
        BY <2>1, <2>3 DEF Rec
      <4> QED
        BY <1>6, <2>3, <3>2, <4>1 DEF Inv, HistoryInv
    <3> QED
      BY <1>5, <3>1, <3>2
  <2> QED
    BY <1>1, <2>1, <2>2, <2>3 DEF HistoryInv, Distinct
<1>11. KeysAreFound'
  <2> SUFFICES ASSUME NEW q \in Keys, keys'[q] # 0
               PROVE  \E p \in occurrences' : /\ p.seq = keys'[q] /\ p.trigger = "manual"
                                              /\ p.state = "failed" \/ chains'[<<"manual", q>>] # "none"
    BY DEF KeysAreFound
  <2>1. CASE keys'[q] = keys[q]
    <3>1. <<"manual", q>> \in Names
      BY DEF Names, Manual
    <3> QED
      BY <1>5, <1>6, <2>1, <3>1 DEF Inv, KeysAreFound
  <2>2. CASE q = k /\ k # None /\ keys'[q] = s
    BY <1>3, <1>5, <1>6, <2>2
  <2> QED
    BY <1>7, <2>1, <2>2
<1> QED
  BY <1>2, <1>9, <1>10, <1>11, NoBatch DEF Inv

\* Retention takes no sequence a key has reserved, and remembers its instants.
LEMMA PruneOccurrenceKeeps ==
  ASSUME Inv, NEW o \in occurrences, PruneOccurrence(o)
  PROVE  Inv'
<1>1. /\ tx = None /\ (\A k \in Keys : keys[k] # o.seq)
      /\ occurrences' = occurrences \ {o}
      /\ retired' = retired \cup (IF o.trigger = "recurring" THEN {o.at} ELSE {})
      /\ UNCHANGED <<clock, up, owners, row, keys, chains, tx, faults>>
  BY DEF PruneOccurrence, Unlocked, Eligible
<1>2. o.at \in Nat
  BY DEF Inv, HistoryInv, Rec
<1>3. TypeInv' /\ RowInv'
  BY <1>1, <1>2 DEF Inv, TypeInv, RowInv
<1>4. HistoryInv'
  BY <1>1 DEF Inv, HistoryInv, Distinct
<1>5. KeysAreFound'
  BY <1>1 DEF Inv, KeysAreFound
<1>6. \A p \in Recurring : p \in Recurring' \/ p.at \in retired'
  BY <1>1 DEF Recurring
<1>7. NoInstantLost'
  BY <1>1, <1>6 DEF Inv, NoInstantLost
<1>8. ASSUME ~SetsBack
      PROVE  LatestInv'
  <2>1. Recurring' \subseteq Recurring
    BY <1>1 DEF Recurring
  <2> QED
    BY <1>1, <1>8, <2>1 DEF Inv, LatestInv, LatestIsNotMissed
<1> QED
  BY <1>1, <1>3, <1>4, <1>5, <1>7, <1>8, NoBatch DEF Inv

\* What an execution does to the history: it clears links, and a chain neither
\* begins nor comes back to life.
Like(p, o) ==
  /\ p.seq = o.seq /\ p.at = o.at /\ p.trigger = o.trigger /\ p.state = o.state /\ p.reason = o.reason
  /\ p.run \in {o.run, None}
ExecutionStep ==
  /\ UNCHANGED <<clock, up, owners, row, keys, retired, tx, faults>>
  /\ chains' \in [Names -> ChainStates]
  /\ \A m \in Names : (chains'[m] = "none" <=> chains[m] = "none") /\ (chains'[m] \in Active => chains[m] \in Active)
  /\ occurrences' \subseteq Rec
  /\ \A p \in occurrences' : \E o \in occurrences : Like(p, o)
  /\ \A o \in occurrences : \E p \in occurrences' : Like(p, o)
  /\ Distinct(occurrences')

LEMMA ExecuteIsExecutionStep ==
  ASSUME Inv, Execute
  PROVE  ExecutionStep
<1>1. PICK n \in Names : ContinueAsNew(n) \/ End(n) \/ PruneExecution(n)
  BY DEF Execute
<1>2. chains \in [Names -> ChainStates] /\ occurrences \subseteq Rec /\ Distinct(occurrences)
  BY DEF Inv, TypeInv, HistoryInv
<1>3. PICK s \in {"continued", "ended", "pruned"} :
        /\ chains' = [chains EXCEPT ![n] = s]
        /\ chains[n] # "none" /\ (s \in Active => chains[n] \in Active)
        /\ UNCHANGED <<clock, up, owners, row, keys, retired, tx, faults>>
  BY <1>1 DEF ContinueAsNew, End, PruneExecution, SetChain, Active
<1>4. /\ chains' \in [Names -> ChainStates]
      /\ \A m \in Names : (chains'[m] = "none" <=> chains[m] = "none") /\ (chains'[m] \in Active => chains[m] \in Active)
  BY <1>2, <1>3 DEF ChainStates, Active
<1>5. CASE occurrences' = occurrences
  BY <1>2, <1>3, <1>4, <1>5 DEF ExecutionStep, Like
<1>6. ASSUME occurrences' = {[o EXCEPT !.run = IF @ = n THEN None ELSE @] : o \in occurrences}
      PROVE  ExecutionStep
  <2> DEFINE f(o) == [o EXCEPT !.run = IF @ = n THEN None ELSE @]
  <2>1. \A o \in occurrences : f(o) \in Rec /\ Like(f(o), o)
    BY <1>2 DEF Like, Rec
  <2>2. occurrences' = {f(o) : o \in occurrences}
    BY <1>6
  <2> HIDE DEF f
  <2>3. Distinct(occurrences')
    <3> SUFFICES ASSUME NEW p \in occurrences', NEW q \in occurrences', p # q
                 PROVE  p.seq # q.seq /\ ~(p.trigger = "recurring" /\ q.trigger = "recurring" /\ p.at = q.at)
      BY DEF Distinct
    <3>1. PICK a \in occurrences, b \in occurrences : p = f(a) /\ q = f(b)
      BY <2>2
    <3> QED
      BY <1>2, <2>1, <3>1 DEF Distinct, Like
  <2> QED
    BY <1>3, <1>4, <2>1, <2>2, <2>3 DEF ExecutionStep
<1> QED
  BY <1>1, <1>5, <1>6 DEF ContinueAsNew, End, PruneExecution

LEMMA ExecutionStepKeeps ==
  ASSUME Inv, ExecutionStep
  PROVE  Inv'
<1>1. /\ UNCHANGED <<clock, up, owners, row, keys, retired, tx, faults>>
      /\ \A m \in Names : (chains'[m] = "none" <=> chains[m] = "none") /\ (chains'[m] \in Active => chains[m] \in Active)
      /\ occurrences' \subseteq Rec
      /\ \A p \in occurrences' : \E o \in occurrences : Like(p, o)
      /\ \A o \in occurrences : \E p \in occurrences' : Like(p, o)
      /\ Distinct(occurrences')
  BY DEF ExecutionStep
<1>2. \A p \in Recurring' : \E o \in Recurring : Like(p, o)
  BY <1>1 DEF Recurring, Like
<1>3. \A o \in Recurring : \E p \in Recurring' : Like(p, o)
  BY <1>1 DEF Recurring, Like
<1>4. TypeInv' /\ RowInv' /\ BatchInv'
  BY DEF Inv, ExecutionStep, TypeInv, RowInv, BatchInv
<1>5. HistoryInv'
  <2>1. PICK n \in Nat : \A o \in occurrences : o.seq <= n
    BY DEF Inv, HistoryInv
  <2>2. \A p \in occurrences' : p.seq <= n
    BY <1>1, <2>1 DEF Like
  <2>3. ASSUME NEW p \in occurrences', p.run # None
        PROVE  p.state = "started" /\ chains'[p.run] # "none"
    <3>1. PICK o \in occurrences : Like(p, o)
      BY <1>1
    <3>2. o.run = p.run /\ o.state = p.state /\ p.run \in Names
      BY <1>1, <2>3, <3>1 DEF Like, Rec
    <3> QED
      BY <1>1, <2>3, <3>2 DEF Inv, HistoryInv
  <2> QED
    BY <1>1, <2>1, <2>2, <2>3 DEF HistoryInv, Distinct
<1>6. NoInstantLost' /\ KeysAreFound'
  <2>1. NoInstantLost'
    BY <1>1, <1>3 DEF Inv, NoInstantLost, Like
  <2>2. ASSUME NEW k \in Keys, keys[k] # 0
        PROVE  \E p \in occurrences' : /\ p.seq = keys[k] /\ p.trigger = "manual"
                                       /\ p.state = "failed" \/ chains'[<<"manual", k>>] # "none"
    <3>1. PICK o \in occurrences : /\ o.seq = keys[k] /\ o.trigger = "manual"
                                   /\ o.state = "failed" \/ chains[<<"manual", k>>] # "none"
      BY <2>2 DEF Inv, KeysAreFound
    <3>2. <<"manual", k>> \in Names
      BY DEF Names, Manual
    <3> QED
      BY <1>1, <3>1, <3>2 DEF Like
  <2> QED
    BY <1>1, <2>1, <2>2 DEF KeysAreFound
<1>7. ASSUME ~SetsBack
      PROVE  LatestInv'
  <2>1. LatestInv
    BY <1>7 DEF Inv
  <2> QED
    BY <1>1, <1>2, <2>1 DEF LatestInv, LatestIsNotMissed, Like
<1>8. ASSUME tx # None
      PROVE  NewInv' /\ AcceptedInv'
  <2>1. NewInv /\ AcceptedInv /\ tx \in Transactions /\ tx' = tx
    BY <1>1, <1>8 DEF Inv, BatchInv
  <2>2. Visible' = occurrences' \cup tx.new /\ \A at : Passed(at)' <=> Passed(at)
    BY <1>1 DEF Visible, Passed
  <2>3. \A p \in Visible' : \E o \in Visible : Like(p, o)
    <3>1. \A o \in tx.new : Like(o, o)
      BY DEF Like
    <3> QED
      BY <1>1, <2>2, <3>1 DEF Visible
  <2>4. \A at : Recorded(at) => Recorded(at)'
    BY <1>1, <2>2 DEF Visible, Recorded, Like
  <2>5. Distinct(Visible')
    <3> SUFFICES ASSUME NEW p \in Visible', NEW q \in Visible', p # q
                 PROVE  p.seq # q.seq /\ ~(p.trigger = "recurring" /\ q.trigger = "recurring" /\ p.at = q.at)
      BY DEF Distinct
    <3>1. Distinct(Visible) /\ \A o \in occurrences, n \in tx.new : o # n /\ o.seq < n.seq
      <4>1. \A o \in occurrences, n \in tx.new : o.seq < n.seq /\ o.seq \in Nat
        BY <1>8, <2>1 DEF NewInv, Inv, HistoryInv, Rec
      <4> QED
        BY <1>8, <2>1, <4>1 DEF NewInv
    <3>2. \A a \in occurrences', n \in tx.new :
            a.seq # n.seq /\ ~(a.trigger = "recurring" /\ n.trigger = "recurring" /\ a.at = n.at)
      BY <1>1, <3>1 DEF Like, Distinct, Visible
    <3>3. CASE p \in occurrences' /\ q \in occurrences'
      BY <1>1, <3>3 DEF Distinct
    <3>4. CASE p \in tx.new /\ q \in tx.new
      BY <3>1, <3>4 DEF Distinct, Visible
    <3> QED
      BY <2>2, <3>2, <3>3, <3>4
  <2>6. NewInv'
    <3>1. \A j \in 1..tx.done : Recorded(tx.due[j])'
      BY <1>8, <2>1, <2>4 DEF NewInv
    <3>2. \A o \in tx.new, p \in occurrences' : p.seq < o.seq
      BY <1>1, <1>8, <2>1 DEF NewInv, Like
    <3>3. \A p \in Visible' : p.seq < tx.seq
      BY <1>8, <2>1, <2>3 DEF NewInv, Like
    <3>4. \A o \in tx.new : o.run # None =>
            o.state = "started" /\ (o.run \in tx.accepted \/ chains'[o.run] # "none")
      BY <1>1, <1>8, <2>1 DEF NewInv, Transactions, Rec
    <3> QED
      BY <1>8, <2>1, <2>2, <2>5, <3>1, <3>2, <3>3, <3>4 DEF NewInv, Distinct
  <2>7. AcceptedInv'
    <3> SUFFICES ASSUME NEW n \in tx.accepted
                 PROVE  /\ chains'[n] = "none" /\ Passed(n[2]) /\ \E o \in tx.new : o.run = n
                        /\ tx.def.overlap = "skip" =>
                             \A p \in Visible' : p.run \notin {n, None} =>
                               p.run \notin tx.accepted /\ chains'[p.run] \notin Active
      BY <2>1, <2>2 DEF AcceptedInv
    <3>1. n \in Names
      BY <2>1 DEF Transactions, Names
    <3>2. chains'[n] = "none" /\ Passed(n[2]) /\ \E o \in tx.new : o.run = n
      BY <1>1, <1>8, <2>1, <3>1 DEF AcceptedInv
    <3>3. ASSUME tx.def.overlap = "skip", NEW p \in Visible', p.run \notin {n, None}
          PROVE  p.run \notin tx.accepted /\ chains'[p.run] \notin Active
      <4>1. PICK o \in Visible : Like(p, o)
        BY <2>3
      <4>2. o.run = p.run
        BY <3>3, <4>1 DEF Like
      <4>3. o.run \notin tx.accepted /\ chains[o.run] \notin Active
        BY <1>8, <2>1, <3>3, <4>2 DEF AcceptedInv
      <4>4. p.run \in Names
        BY <1>1, <2>1, <2>2, <3>3 DEF Transactions, Rec
      <4> QED
        BY <1>1, <4>2, <4>3, <4>4
    <3> QED
      BY <3>2, <3>3
  <2> QED
    BY <2>6, <2>7
<1>9. NewInv' /\ AcceptedInv'
  BY <1>1, <1>8 DEF NewInv, AcceptedInv
<1> QED
  BY <1>4, <1>5, <1>6, <1>7, <1>9 DEF Inv

\* The clock is set back only where the model says so.
LEMMA TimeKeeps ==
  ASSUME Inv, Tick \/ SetBack
  PROVE  Inv'
<1>1. /\ UNCHANGED <<up, owners, row, history, tx>>
      /\ clock' \in 0..Horizon /\ faults' \in 0..MaxFaults /\ (~SetsBack => clock' = clock + 1)
  BY BoundAssumption DEF Tick, SetBack, Inv, TypeInv
<1>2. TypeInv' /\ RowInv' /\ NoInstantLost' /\ KeysAreFound' /\ BatchInv'
  BY <1>1 DEF Inv, TypeInv, RowInv, NoInstantLost, Recurring, KeysAreFound, BatchInv
<1>3. HistoryInv' /\ NewInv' /\ AcceptedInv'
  BY <1>1, SameHistory, SameBatch DEF Inv
<1>4. ASSUME ~SetsBack
      PROVE  LatestInv'
  <2>1. LatestInv /\ clock' = clock + 1 /\ clock \in Nat /\ Recurring' = Recurring
    BY <1>1, <1>4, BoundAssumption DEF Inv, TypeInv, Recurring
  <2>2. \A o \in Recurring : o.at \in Nat /\ o.at <= clock'
    BY <2>1 DEF Inv, HistoryInv, Recurring, Rec, LatestInv
  <2>3. LatestIsNotMissed'
    BY <1>1, <2>1 DEF LatestInv, LatestIsNotMissed, Inv, RowInv, Rows
  <2>4. ASSUME tx # None
        PROVE  /\ \A i \in 1..Len(tx.due) : tx.due[i] \in Nat /\ tx.due[i] <= clock'
               /\ Len(tx.due) \in 1..Len(tx.due) /\ tx.def.every \in Nat
    <3>1. tx.due \in Seq(0..Horizon) /\ tx.due # <<>> /\ tx.def \in Definitions
      BY <2>4 DEF Inv, BatchInv, Transactions
    <3>2. \A i \in 1..Len(tx.due) : tx.due[i] \in 0..Horizon
      BY <3>1, ElementOf
    <3>3. \A i \in 1..Len(tx.due) : tx.due[i] <= clock
      BY <2>1, <2>4 DEF LatestInv
    <3> QED
      BY <2>1, <3>1, <3>2, <3>3, DefinitionType, BoundAssumption
  <2>5. ASSUME tx # None, tx.def.misfire = "latest"
        PROVE  Len(tx.due) \in tx.selected \/ tx.due[Len(tx.due)] + tx.def.every <= clock'
    BY <2>1, <2>4, <2>5 DEF LatestInv
  <2> QED
    BY <1>1, <2>1, <2>2, <2>3, <2>4, <2>5 DEF LatestInv
<1> QED
  BY <1>2, <1>3, <1>4 DEF Inv

-----------------------------------------------------------------------------
(* The specification. *)

LEMMA InitInv == Init => Inv
<1> SUFFICES ASSUME Init PROVE Inv
  OBVIOUS
<1>1. TypeInv
  BY BoundAssumption DEF Init, TypeInv, ChainStates
<1>2. HistoryInv
  BY DEF Init, HistoryInv, Distinct
<1> QED
  BY <1>1, <1>2 DEF Init, Inv, RowInv, BatchInv, NewInv, AcceptedInv, NoInstantLost, KeysAreFound,
                    LatestInv, LatestIsNotMissed, Recurring

LEMMA NextInv ==
  ASSUME Inv, [Next]_vars
  PROVE  Inv'
<1>1. ASSUME NEW r \in Runtimes, Own(r)
      PROVE  Inv'
  BY <1>1, OwnIsRowStep, RowStepKeeps DEF Inv
<1>2. ASSUME NEW r \in Runtimes, Materialize(r)
      PROVE  Inv'
  BY <1>2, ClaimKeeps, PassOver, TakeDecides, CommitKeeps DEF Materialize
<1>3. ASSUME NEW r \in Runtimes, Rollback(r) \/ Crash(r)
      PROVE  Inv'
  BY <1>3, UndoneKeeps
<1>4. CASE Administer
  <2>1. CASE Pause \/ Resume \/ Remove \/ \E d \in Redefined : UpdateDefinition(d)
    BY <2>1, OperatorIsRowStep, RowStepKeeps DEF Inv
  <2>2. ASSUME NEW k \in Keys \cup {None}, Trigger(k) \/ TriggerFails(k)
        PROVE  Inv'
    BY <2>2, TriggerKeeps
  <2>3. ASSUME NEW o \in occurrences, PruneOccurrence(o)
        PROVE  Inv'
    BY <2>3, PruneOccurrenceKeeps
  <2> QED
    BY <1>4, <2>1, <2>2, <2>3 DEF Administer
<1>5. CASE Execute
  BY <1>5, ExecuteIsExecutionStep, ExecutionStepKeeps
<1>6. CASE Tick \/ SetBack
  BY <1>6, TimeKeeps
<1>7. CASE UNCHANGED vars
  <2>1. RowStep
    BY <1>7 DEF RowStep, Inv, TypeInv
  <2> QED
    BY <2>1, RowStepKeeps
<1> QED
  BY <1>1, <1>2, <1>3, <1>4, <1>5, <1>6, <1>7 DEF Next

LEMMA Invariant == Spec => []Inv
<1>1. Init => Inv
  BY InitInv
<1>2. Inv /\ [Next]_vars => Inv'
  BY NextInv
<1> QED
  BY <1>1, <1>2, PTL DEF Spec

\* The states are well formed, and a materialization works on the row as it is:
\* the lock of materialize keeps ownership and operators from writing it.
THEOREM ScheduleTypes == Spec => []TypeOK
<1>1. Inv => TypeOK
  <2> SUFFICES ASSUME Inv PROVE TypeOK
    OBVIOUS
  <2>1. ASSUME tx # None
        PROVE  /\ tx.by \in up
               /\ tx.new \subseteq Rec /\ tx.accepted \subseteq Due
               /\ tx.done \in 0..Len(tx.due)
               /\ row # None /\ row.state = "active" /\ row.def = tx.def /\ row.next = tx.due[1]
               /\ \A o \in occurrences : o.seq < tx.seq
    <3>1. /\ tx \in Transactions /\ tx.by \in up /\ row # None /\ row.state = "active" /\ row.def = tx.def
          /\ tx.due # <<>> /\ tx.done <= Len(tx.due)
          /\ \A i \in 1..Len(tx.due) : tx.due[i] = row.next + (i - 1) * tx.def.every
      BY <2>1 DEF Inv, BatchInv
    <3>2. tx.new \subseteq Rec /\ tx.accepted \subseteq Due /\ tx.done \in 0..Len(tx.due)
      BY <3>1 DEF Transactions
    <3>3. row.next = tx.due[1]
      <4>1. 1 \in 1..Len(tx.due) /\ row.next \in Nat /\ tx.def.every \in Nat
        BY <3>1, DefinitionType DEF Inv, RowInv, Rows, Transactions
      <4>2. tx.due[1] = row.next + (1 - 1) * tx.def.every
        BY <3>1, <4>1
      <4> QED
        BY <4>1, <4>2
    <3>4. \A o \in occurrences : o.seq < tx.seq
      BY <2>1 DEF Inv, NewInv, Visible
    <3> QED
      BY <3>1, <3>2, <3>3, <3>4
  <2> QED
    BY <2>1 DEF Inv, TypeInv, RowInv, HistoryInv, TypeOK
<1> QED
  BY <1>1, Invariant, PTL

\* The cursor of a schedule leaves no instant behind, for any policy, bound of
\* a pass, redefinition, crash and clock: what it passed has its occurrence, or
\* retention has taken it.
THEOREM CursorLosesNothing == Spec => []NoInstantLost
<1>1. Inv => NoInstantLost
  BY DEF Inv
<1> QED
  BY <1>1, Invariant, PTL

\* Sequences, instants and manual keys stay what the unique constraints of the
\* history take them for; a reserved key finds what it started.
THEOREM HistoryKeepsItsKeys == Spec => []KeysHold
<1>1. Inv => KeysHold
  BY DEF Inv, HistoryInv, Distinct, KeysHold, IdentitiesAreUnique
<1> QED
  BY <1>1, Invariant, PTL

\* With a clock that goes forward, misfire: 'latest' never passes the last
\* instant of a backlog over.
THEOREM LatestStarts == ASSUME ~SetsBack PROVE Spec => []LatestIsNotMissed
<1>1. Inv => LatestIsNotMissed
  BY DEF Inv, LatestInv
<1> QED
  BY <1>1, Invariant, PTL

-----------------------------------------------------------------------------
(* Steps: only a commit writes recurring occurrences and starts instants. *)

ManualStep ==
  /\ \A o \in occurrences' : o \in occurrences \/ o.trigger = "manual"
  /\ \A n \in Due : chains'[n] = chains[n]

\* What the steps other than a commit do to the history.
LEMMA StepShapes ==
  ASSUME Inv, [Next]_vars
  PROVE  (\E r \in Runtimes : Commit(r)) \/ UNCHANGED <<occurrences, chains>> \/ ManualStep \/ ExecutionStep
<1>1. ASSUME NEW r \in Runtimes, Own(r) \/ Rollback(r) \/ Crash(r)
      PROVE  UNCHANGED <<occurrences, chains>>
  BY <1>1 DEF Own, Register, RenewOwnership, ReconcileMissing, LeaseExpires, Rollback, Crash
<1>2. ASSUME NEW r \in Runtimes, Materialize(r)
      PROVE  Commit(r) \/ UNCHANGED <<occurrences, chains>>
  BY <1>2 DEF Materialize, Claim, AlreadyRecorded, Misfire, Overlap, StartDue, FailDue
<1>3. ASSUME Pause \/ Resume \/ Remove \/ \E d \in Redefined : UpdateDefinition(d)
      PROVE  UNCHANGED <<occurrences, chains>>
  BY <1>3 DEF Pause, Resume, Remove, UpdateDefinition
<1>4. ASSUME NEW k \in Keys \cup {None}, Trigger(k)
      PROVE  ManualStep
  <2> DEFINE name == KeyName(k)
             o == Occurrence(NextSequence, clock, "manual", "started", None, name)
  <2>1. occurrences' = occurrences \cup {o} /\ chains' = [chains EXCEPT ![name] = "open"]
    BY <1>4 DEF Trigger
  <2>2. o.trigger = "manual"
    BY DEF Occurrence
  <2>3. \A n \in Due : n # name
    BY DEF Due, KeyName
  <2>4. chains \in [Names -> ChainStates] /\ Due \subseteq Names
    BY DEF Inv, TypeInv, Names
  <2> HIDE DEF o, name
  <2>5. \A n \in Due : chains'[n] = chains[n]
    BY <2>1, <2>3, <2>4
  <2> QED
    BY <2>1, <2>2, <2>5 DEF ManualStep
<1>5. ASSUME NEW k \in Keys \cup {None}, TriggerFails(k)
      PROVE  ManualStep
  <2> DEFINE o == Occurrence(NextSequence, clock, "manual", "failed", "SCHEDULE_INPUT_ERROR", None)
  <2>1. occurrences' = occurrences \cup {o} /\ chains' = chains
    BY <1>5 DEF TriggerFails
  <2>2. o.trigger = "manual"
    BY DEF Occurrence
  <2> HIDE DEF o
  <2> QED
    BY <2>1, <2>2 DEF ManualStep
<1>6. ASSUME NEW o \in occurrences, PruneOccurrence(o)
      PROVE  ManualStep
  <2>1. occurrences' \subseteq occurrences /\ chains' = chains
    BY <1>6 DEF PruneOccurrence
  <2> QED
    BY <2>1 DEF ManualStep
<1>7. ASSUME Execute
      PROVE  ExecutionStep
  BY <1>7, ExecuteIsExecutionStep
<1>8. ASSUME Tick \/ SetBack \/ UNCHANGED vars
      PROVE  UNCHANGED <<occurrences, chains>>
  BY <1>8 DEF Tick, SetBack
<1>9. CASE Administer
  BY <1>3, <1>4, <1>5, <1>6, <1>9 DEF Administer
<1> QED
  BY <1>1, <1>2, <1>7, <1>8, <1>9 DEF Next

\* A step that is no commit decides no instant and starts none.
LEMMA OthersStartNothing ==
  ASSUME Inv, UNCHANGED <<occurrences, chains>> \/ ManualStep \/ ExecutionStep
  PROVE  /\ \A o \in occurrences' : o.trigger = "recurring" => \E p \in occurrences : p.seq = o.seq
         /\ \A n \in Due : chains'[n] = "none" <=> chains[n] = "none"
<1>1. Due \subseteq Names
  BY DEF Names
<1>2. CASE UNCHANGED <<occurrences, chains>>
  BY <1>2
<1>3. CASE ManualStep
  BY <1>3 DEF ManualStep
<1>4. CASE ExecutionStep
  BY <1>1, <1>4 DEF ExecutionStep, Like
<1> QED
  BY <1>2, <1>3, <1>4

\* What a pass decides is decided while the schedule is active with the
\* definition it was computed from, whoever pauses, redefines or removes it.
THEOREM PassesDecideWhileActive == Spec => DecidedWhileActive
<1>1. ASSUME Inv, [Next]_vars,
             NEW o \in occurrences', o.trigger = "recurring", \A p \in occurrences : p.seq # o.seq
      PROVE  row # None /\ row.state = "active" /\ row.def = tx.def
  <2>1. PICK r \in Runtimes : Commit(r)
    BY <1>1, StepShapes, OthersStartNothing
  <2> QED
    BY <1>1, <2>1 DEF Commit, Inv, BatchInv
<1>2. Inv /\ [Next]_vars =>
        (\A o \in occurrences' : o.trigger = "recurring" /\ (\A p \in occurrences : p.seq # o.seq) =>
           row # None /\ row.state = "active" /\ row.def = tx.def)
  BY <1>1
<1> QED
  BY <1>2, Invariant, PTL DEF Spec, DecidedWhileActive

\* Under overlap: 'skip' a pass starts an instant only if every other chain that
\* the history links after its commit is done: those of earlier passes, of triggers,
\* and those the pass has accepted itself. Nothing that happens between its decision
\* and its commit changes that.
THEOREM StartsDoNotOverlap == Spec => OverlapSkipped
<1> DEFINE Linked == {n \in Names : \E o \in occurrences' : o.run = n}
<1>1. ASSUME Inv, [Next]_vars, NEW n \in Due, chains[n] = "none", chains'[n] = "open",
             tx.def.overlap = "skip", NEW m \in Linked \ {n}
      PROVE  chains'[m] \notin Active
  <2>1. PICK r \in Runtimes : Commit(r)
    BY <1>1, StepShapes, OthersStartNothing
  <2>2. /\ tx # None
        /\ occurrences' = Visible
        /\ chains' = [q \in Names |-> IF q \in tx.accepted THEN "open" ELSE chains[q]]
    BY <2>1 DEF Commit
  <2>3. n \in tx.accepted
    BY <1>1, <2>2 DEF Names
  <2>4. PICK o \in occurrences' : o.run = m
    BY <1>1
  <2>5. m \in Names /\ o \in Visible /\ o.run \notin {n, None}
    BY <1>1, <2>2, <2>4, NullAssumption
  <2>6. m \notin tx.accepted /\ chains[m] \notin Active
    BY <1>1, <2>2, <2>3, <2>4, <2>5 DEF Inv, AcceptedInv
  <2> QED
    BY <2>2, <2>5, <2>6
<1>2. Inv /\ [Next]_vars => StartsAlone(Linked)
  BY <1>1 DEF StartsAlone
<1>3. Linked = {n \in Names : \E o \in occurrences' : o.run = n}
  OBVIOUS
<1> QED
  BY <1>2, Invariant, PTL DEF Spec, OverlapSkipped

\* The timeline of a schedule implements FiredInstants: an instant fires once,
\* with the commit that moves the cursor past it.
THEOREM TimelineFires == Spec => TimelineSpec
<1> DEFINE cursor == IF row = None THEN None ELSE row.next
           fired == {t \in 0..Horizon : chains[<<"due", t>>] # "none"}
<1>1. Init => Timeline!Init
  <2>1. \A t \in 0..Horizon : <<"due", t>> \in Names
    BY DEF Names, Due
  <2> QED
    BY <2>1 DEF Init, Timeline!Init
<1>2. ASSUME Inv, [Next]_vars
      PROVE  [Timeline!Next]_<<cursor, fired>>
  <2>1. \A t \in 0..Horizon : <<"due", t>> \in Due /\ <<"due", t>> \in Names
    BY DEF Names, Due
  <2>2. CASE UNCHANGED <<occurrences, chains>> \/ ManualStep \/ ExecutionStep
    <3>1. \A n \in Due : chains'[n] = "none" <=> chains[n] = "none"
      BY <1>2, <2>2, OthersStartNothing
    <3>2. fired' = fired
      BY <2>1, <3>1
    <3> QED
      BY <3>2 DEF Timeline!Next, Timeline!Reset
  <2>3. ASSUME NEW r \in Runtimes, Commit(r)
        PROVE  Timeline!Pass
    <3> DEFINE e == tx.def.every
               n == Len(tx.due)
               last == tx.due[n]
    <3>1. /\ tx # None /\ tx.done = n /\ row # None /\ row \in Rows /\ row.next \in Nat
          /\ row' = [row EXCEPT !.next = last + e]
          /\ chains' = [m \in Names |-> IF m \in tx.accepted THEN "open" ELSE chains[m]]
      BY <1>2, <2>3 DEF Commit, NextAt, Inv, BatchInv, RowInv, Rows
    <3>2. tx \in Transactions /\ n \in Nat \ {0} /\ e \in Nat \ {0}
      BY <1>2, <3>1, DefinitionType DEF Inv, BatchInv, Transactions
    <3>3. \A i \in 1..n : tx.due[i] = row.next + (i - 1) * e
      BY <1>2, <3>1 DEF Inv, BatchInv
    <3>4. ASSUME NEW i \in 1..n
          PROVE  tx.due[i] \in Nat /\ row.next <= tx.due[i] /\ tx.due[i] <= last
      <4> HIDE DEF e, n
      <4> DEFINE x == (i - 1) * e  y == (n - 1) * e
      <4>1. x \in Nat /\ y \in Nat /\ x <= y
        BY <3>2
      <4>2. tx.due[i] = row.next + x /\ last = row.next + y
        BY <3>2, <3>3
      <4> HIDE DEF x, y, last
      <4> QED
        BY <3>1, <4>1, <4>2
    <3> HIDE DEF e, n, last
    <3>5. last \in Nat /\ row.next <= last
      BY <3>2, <3>4 DEF last
    <3>6. row' \in Rows /\ row'.next = last + e
      BY <3>1, <3>2, <3>5 DEF Rows
    <3>7. row' # None /\ row.next # None /\ row'.next # None /\ row'.next > row.next
      <4>1. None \notin Rows /\ None \notin Nat
        BY NullAssumption
      <4>2. row'.next \in Nat /\ row'.next > row.next
        BY <3>1, <3>2, <3>5, <3>6
      <4> QED
        BY <3>1, <3>6, <4>1, <4>2
    <3>8. fired \subseteq fired'
      BY <2>1, <3>1
    <3>9. ASSUME NEW t \in 0..Horizon, chains[<<"due", t>>] = "none", chains'[<<"due", t>>] # "none"
          PROVE  t \in row.next..(row'.next - 1)
      <4>1. <<"due", t>> \in tx.accepted
        BY <2>1, <3>1, <3>9
      <4>2. Passed(<<"due", t>>[2])
        BY <1>2, <3>1, <4>1 DEF Inv, AcceptedInv
      <4>3. PICK j \in 1..n : t = tx.due[j]
        BY <3>1, <4>2 DEF Passed
      <4> QED
        BY <3>1, <3>2, <3>4, <3>5, <3>6, <4>3
    <3>10. fired' \ fired \subseteq row.next..(row'.next - 1)
      BY <3>9
    <3> QED
      BY <3>1, <3>7, <3>8, <3>10 DEF Timeline!Pass
  <2> QED
    BY <1>2, <2>2, <2>3, StepShapes DEF Timeline!Next
<1> QED
  BY <1>1, <1>2, Invariant, PTL DEF Spec, TimelineSpec, Timeline!Spec
=============================================================================
