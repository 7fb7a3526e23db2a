----------------------- MODULE ExecutionResultsProofs -----------------------
(***************************************************************************)
(* A theorem about ExecutionResults, for every number of callers, length   *)
(* of the chain and number of lost connections.                            *)
(***************************************************************************)
EXTENDS ExecutionResults, TLAPS

USE DEF database, connection, vars

-----------------------------------------------------------------------------
(* Types, as far as the hints need them.                                     *)

Kinds == {"open", "continued"} \cup Ended
Steps == {"idle", "check", "describe", "follow", "fetch", "row", "wait", "waiting", "told"}
Caller == [pc : Steps, at : Chain, after : Nat, left : {None} \cup 0..MaxTimeout,
           answer : Answers \cup {None}]
Registration == [after : Nat, reading : BOOLEAN, last : BOOLEAN]
Note == [at : Chain, revision : Nat]

Types ==
  /\ storage \in {"postgres", "sqlite", "shared"}
  /\ run \in [Chain -> States] /\ revision \in [Chain -> Nat]
  /\ tx \in {None} \cup [at : Chain, to : Kinds]
  /\ notes \in Seq(Note)
  /\ listener \in {"down", "joined", "listening"}
  /\ up \in BOOLEAN
  /\ client \in [Clients -> Caller]
  /\ waiter \in [Clients -> {None} \cup Registration]

\* A caller waits while its waiter is registered, and so stays at its generation.
WaitersWait == \A c \in Waiters : At(c, "waiting")

-----------------------------------------------------------------------------
(* The inductive invariant. Only the last generation is open, so nobody      *)
(* waits for one that a commit is about to create; and while a transaction   *)
(* of a process that reads through one connection is open, whoever waits for *)
(* its run was told of it already or has yet to read.                        *)

ChainShape ==
  \A g \in Chain :
    /\ run[g] = "open" => \A h \in Chain : h > g => run[h] = "none"
    /\ run[g] = "continued" => g + 1 \in Chain /\ run[g + 1] # "none"
WriterShape ==
  tx # None => /\ run[tx.at] = "open"
               /\ tx.to = "continued" => tx.at + 1 \in Chain
CallerShape ==
  \A c \in Clients :
    /\ run[client[c].at] # "none"
    /\ At(c, "follow") => client[c].at + 1 \in Chain /\ run[client[c].at + 1] # "none"

EarlyHint ==
  storage = "sqlite" /\ tx # None =>
    \A c \in Waiters :
      client[c].at = tx.at => waiter[c].reading \/ waiter[c].after > revision[tx.at]

ResultInv ==
  /\ Types /\ WaitersWait
  /\ ChainShape /\ WriterShape /\ CallerShape
  /\ EarlyHint /\ HintsSuffice

LEMMA Chains == Chain \subseteq Nat /\ 1 \in Chain
  BY BoundAssumption DEF Chain

LEMMA ResultInit == Init => ResultInv
<1> SUFFICES ASSUME Init PROVE ResultInv OBVIOUS
<1> USE DEF Init
<1>1. Types
  <2>1. Idle \in Caller BY Chains, BoundAssumption DEF Idle, Caller, Steps
  <2> QED BY <2>1, BoundAssumption DEF Types, States
<1>2. Waiters = {} BY DEF Waiters
<1>3. ChainShape /\ WriterShape /\ CallerShape
  BY Chains DEF ChainShape, WriterShape, CallerShape, Idle, At
<1> QED BY <1>1, <1>2, <1>3 DEF ResultInv, WaitersWait, EarlyHint, HintsSuffice

-----------------------------------------------------------------------------
(* The callers. They leave the database and the listener alone.              *)

\* The steps of a caller that has no waiter registered.
Unregistered(d) ==
  \/ Ask(d) \/ Check(d) \/ Refuse(d) \/ NotFound(d) \/ Describe(d) \/ Follow(d) \/ Fetch(d)
  \/ ReadRow(d) \/ TimedOut(d) \/ Turned(d) \/ Elapse(d)

Stepped(d) ==
  \/ \E a \in Answers : Tell(d, a)
  \/ \E pc \in Steps \ {"waiting", "follow"} : Go(d, pc)
  \/ Go(d, "follow") /\ run[client[d].at] = "continued"
  \/ At(d, "follow") /\ client' = [client EXCEPT ![d].pc = "check", ![d].at = @ + 1]
  \/ client' = [client EXCEPT ![d].pc = "wait", ![d].after = revision[client[d].at]]
  \/ ~At(d, "waiting") /\ client' = [client EXCEPT ![d].left = Spend(@)]
  \/ \E t \in {None} \cup 0..MaxTimeout : client' = [client EXCEPT ![d].pc = "check", ![d].left = t]

LEMMA UnregisteredSteps ==
  ASSUME Types, CallerShape, NEW d \in Clients, Unregistered(d)
  PROVE  ~At(d, "waiting") /\ waiter' = waiter /\ Stepped(d)
<1>1. CASE Ask(d)
  <2>1. {None} \cup 1..MaxTimeout \subseteq {None} \cup 0..MaxTimeout OBVIOUS
  <2> QED BY <1>1, <2>1 DEF Ask, At, Stepped
<1>2. CASE Check(d) BY <1>2 DEF Check, At, Stepped, Answers, Steps
<1>3. CASE Refuse(d) BY <1>3 DEF Refuse, Reads, At, Stepped, Answers
<1>4. CASE NotFound(d) BY <1>4 DEF NotFound, Reads, At, Stepped, Answers
<1>5. CASE Describe(d)
  <2> DEFINE state == run[client[d].at]
  <2>1. state \in {"open", "continued", "completed", "failed"}
    BY <1>5 DEF Describe, Found, Gone, Target, At, Types, Caller, CallerShape, States, Ended
  <2>2. At(d, "describe") /\ waiter' = waiter BY <1>5 DEF Describe, Found
  <2>3. CASE state = "open" BY <1>5, <2>2, <2>3 DEF Describe, At, Stepped, Steps
  <2>4. CASE state = "continued" BY <1>5, <2>2, <2>4 DEF Describe, At, Stepped
  <2>5. CASE state = "completed" BY <1>5, <2>2, <2>5 DEF Describe, At, Stepped, Steps
  <2>6. CASE state = "failed" BY <1>5, <2>2, <2>6 DEF Describe, At, Stepped, Answers, Ended
  <2> QED BY <2>1, <2>3, <2>4, <2>5, <2>6
<1>6. CASE Follow(d) BY <1>6 DEF Follow, Found, At, Stepped, Answers
<1>7. CASE Fetch(d) BY <1>7 DEF Fetch, Found, At, Stepped, Answers, Ended
<1>8. CASE ReadRow(d) BY <1>8 DEF ReadRow, Found, At, Stepped, Steps
<1>9. CASE TimedOut(d) BY <1>9 DEF TimedOut, At, Stepped, Answers
<1>10. CASE Turned(d) BY <1>10 DEF Turned, At, Stepped, Answers
<1>11. CASE Elapse(d) BY <1>11 DEF Elapse, At, Stepped
<1> QED BY <1>1, <1>2, <1>3, <1>4, <1>5, <1>6, <1>7, <1>8, <1>9, <1>10, <1>11 DEF Unregistered

LEMMA SpendType == \A t \in {None} \cup 0..MaxTimeout : Spend(t) \in {None} \cup 0..MaxTimeout
  BY BoundAssumption DEF Spend

\* Callers only move along the chain.
Moved(d) ==
  /\ \/ client'[d].at = client[d].at
     \/ At(d, "follow") /\ client'[d].at = client[d].at + 1
  /\ client'[d].pc = "follow" => /\ client'[d].at = client[d].at
                                 /\ At(d, "follow") \/ run[client[d].at] = "continued"

Lands(d) ==
  /\ client' \in [Clients -> Caller]
  /\ \A e \in Clients \ {d} : client'[e] = client[e]
  /\ client'[d].pc # "waiting" /\ Moved(d)

LEMMA SteppedLands == ASSUME Types, CallerShape, NEW d \in Clients, Stepped(d) PROVE Lands(d)
<1> USE DEF Types, Caller, Moved
<1>0. /\ revision[client[d].at] \in Nat
      /\ At(d, "follow") => client[d].at + 1 \in Chain
  BY DEF CallerShape
<1>1. ASSUME NEW a \in Answers, Tell(d, a) PROVE Lands(d)
  BY <1>1 DEF Tell, Answered, Steps, Lands
<1>2. ASSUME NEW pc \in Steps \ {"waiting", "follow"}, Go(d, pc) PROVE Lands(d)
  BY <1>2 DEF Go, Lands
<1>3. CASE Go(d, "follow") /\ run[client[d].at] = "continued" BY <1>3 DEF Go, Lands, Steps
<1>4. CASE At(d, "follow") /\ client' = [client EXCEPT ![d].pc = "check", ![d].at = @ + 1]
  BY <1>0, <1>4 DEF Lands, Steps
<1>5. CASE client' = [client EXCEPT ![d].pc = "wait", ![d].after = revision[client[d].at]]
  BY <1>0, <1>5 DEF Lands, Steps
<1>6. CASE ~At(d, "waiting") /\ client' = [client EXCEPT ![d].left = Spend(@)]
  BY <1>6, SpendType DEF Lands, At
<1>7. ASSUME NEW t \in {None} \cup 0..MaxTimeout,
             client' = [client EXCEPT ![d].pc = "check", ![d].left = t]
      PROVE  Lands(d)
  BY <1>7 DEF Lands, Steps
<1> QED BY <1>1, <1>2, <1>3, <1>4, <1>5, <1>6, <1>7 DEF Stepped

\* What one step does to a caller and its waiter.
Left(c) == waiter'[c] = None
Kept(c) == waiter'[c] = waiter[c] /\ client'[c] = client[c]
Registered(c) == waiter'[c].reading /\ waiter'[c] \in Registration /\ client'[c].pc = "waiting"
HasRead(c) ==
  /\ c \in Waiters /\ client'[c] = client[c]
  /\ waiter'[c].after = waiter[c].after
  /\ waiter[c].after >= revision[client[c].at]
  /\ Readable

Turns(c) == Moved(c) /\ (Left(c) \/ Kept(c) \/ Registered(c) \/ HasRead(c))
CallerTypes == client \in [Clients -> Caller] /\ waiter \in [Clients -> {None} \cup Registration]

\* The waiters of S are settled, the others go on waiting.
Settled(S) ==
  /\ CallerTypes'
  /\ \A c \in S : Left(c) /\ client'[c].at = client[c].at /\ client'[c].pc \in {"check", "told"}
  /\ \A c \in Clients \ S : Kept(c)

LEMMA ResolveSettles ==
  ASSUME Types, NEW S \in SUBSET Waiters, Resolve(S)
  PROVE  Settled(S)
  BY DEF Types, Resolve, Unregister, Settled, CallerTypes, Left, Kept, Caller, Steps, Waiters

LEMMA RejectSettles ==
  ASSUME Types, NEW S \in SUBSET Waiters, NEW a \in Answers, Reject(S, a)
  PROVE  Settled(S)
  BY DEF Types, Reject, Answered, Unregister, Settled, CallerTypes, Left, Kept, Caller, Steps,
     Waiters

LEMMA SettledTurns ==
  ASSUME Types, WaitersWait, NEW S \in SUBSET Waiters, Settled(S), NEW c \in Clients
  PROVE  Turns(c)
  BY DEF Settled, Turns, Moved, Left, Kept, At, WaitersWait, Waiters

CallerSteps == \E c \in Clients : Ask(c) \/ Step(c) \/ Tick(c) \/ Abort(c)

LEMMA CallerStep ==
  ASSUME Types, WaitersWait, CallerShape, CallerSteps
  PROVE  CallerTypes' /\ \A c \in Clients : Turns(c)
<1> USE DEF Types
<1>1. ASSUME NEW d \in Clients, Unregistered(d)
      PROVE  CallerTypes' /\ \A c \in Clients : Turns(c)
  <2>1. ~At(d, "waiting") /\ waiter' = waiter /\ Lands(d)
    BY <1>1, UnregisteredSteps, SteppedLands
  <2>2. waiter[d] = None BY <2>1 DEF WaitersWait, Waiters
  <2>3. \A c \in Clients \ {d} : Moved(c) /\ Kept(c) BY <2>1 DEF Lands, Moved, Kept, At
  <2> QED BY <2>1, <2>2, <2>3 DEF Lands, Turns, Left, CallerTypes
<1>2. ASSUME NEW S \in SUBSET Waiters, Settled(S)
      PROVE  CallerTypes' /\ \A c \in Clients : Turns(c)
  BY <1>2, SettledTurns DEF Settled
<1>3. ASSUME NEW d \in Clients, Wait(d)
      PROVE  CallerTypes' /\ \A c \in Clients : Turns(c)
  <2>1. /\ waiter' = [waiter EXCEPT ![d] = Waiter(d, TRUE)]
        /\ client' = [client EXCEPT ![d].pc = "waiting"]
    BY <1>3 DEF Wait, Go
  <2>2. Waiter(d, TRUE) \in Registration /\ Waiter(d, TRUE).reading
    BY DEF Waiter, Registration, Caller
  <2>3. CallerTypes' BY <2>1, <2>2 DEF CallerTypes, Caller, Steps
  <2>4. \A c \in Clients \ {d} : Moved(c) /\ Kept(c) BY <2>1 DEF Moved, Kept, At
  <2>5. Moved(d) /\ Registered(d) BY <2>1, <2>2 DEF Moved, Registered, Caller
  <2> QED BY <2>3, <2>4, <2>5 DEF Turns
<1>4. ASSUME NEW d \in Clients, ReadRevision(d)
      PROVE  CallerTypes' /\ \A c \in Clients : Turns(c)
  <2>1. {d} \in SUBSET Waiters /\ d \in Waiters /\ Readable BY <1>4 DEF ReadRevision
  <2>2. CASE Reject({d}, "EXECUTION_NOT_FOUND") BY <1>2, <2>1, <2>2, RejectSettles DEF Answers
  <2>3. CASE Resolve({d}) BY <1>2, <2>1, <2>3, ResolveSettles
  <2>4. CASE /\ ~(revision[client[d].at] > waiter[d].after) /\ client' = client
             /\ waiter' = [waiter EXCEPT ![d].reading = FALSE]
    <3>1. waiter[d] \in Registration /\ revision[client[d].at] \in Nat
      BY <2>1 DEF Waiters, Caller
    <3>2. CallerTypes' BY <2>4, <3>1 DEF CallerTypes, Registration
    <3>3. HasRead(d) BY <2>1, <2>4, <3>1 DEF HasRead, Registration
    <3>4. \A c \in Clients \ {d} : Kept(c) BY <2>4 DEF Kept
    <3>5. \A c \in Clients : Moved(c) BY <2>4 DEF Moved, At
    <3> QED BY <3>2, <3>3, <3>4, <3>5 DEF Turns
  <2> QED BY <1>4, <2>2, <2>3, <2>4 DEF ReadRevision
<1>5. ASSUME NEW d \in Clients, Expire(d)
      PROVE  CallerTypes' /\ \A c \in Clients : Turns(c)
  BY <1>2, <1>5, RejectSettles DEF Expire, Answers
<1>6. ASSUME NEW d \in Clients, Fallback(d)
      PROVE  CallerTypes' /\ \A c \in Clients : Turns(c)
  <2>1. /\ d \in Waiters /\ Unregister({d})
        /\ client' = [client EXCEPT ![d].pc = "check", ![d].left = Spend(@)]
    BY <1>6 DEF Fallback
  <2>2. client' \in [Clients -> Caller]
    <3>1. d \in Clients /\ Spend(client[d].left) \in {None} \cup 0..MaxTimeout
      BY <2>1, SpendType DEF Waiters, Caller
    <3>2. client' = [client EXCEPT ![d].pc = "check", ![d].left = Spend(client[d].left)]
      BY <2>1
    <3> HIDE DEF Types
    <3>3. client \in [Clients -> Caller] BY DEF Types
    <3> QED BY <3>1, <3>2, <3>3 DEF Caller, Steps
  <2>3. waiter' \in [Clients -> {None} \cup Registration] BY <2>1 DEF Unregister
  <2>4. Left(d) /\ client'[d].at = client[d].at /\ client'[d].pc = "check"
    BY <2>1 DEF Unregister, Left, Waiters, Caller
  <2>5. \A c \in Clients \ {d} : Kept(c) BY <2>1 DEF Unregister, Kept
  <2>6. Settled({d}) BY <2>2, <2>3, <2>4, <2>5 DEF Settled, CallerTypes
  <2> QED BY <1>2, <2>1, <2>6
<1>7. ASSUME NEW d \in Clients, Abort(d)
      PROVE  CallerTypes' /\ \A c \in Clients : Turns(c)
  <2>1. {d} \cap Waiters \in SUBSET Waiters /\ Reject({d} \cap Waiters, "WAIT_ABORTED")
    BY <1>7 DEF Abort
  <2> QED BY <1>2, <2>1, RejectSettles DEF Answers
<1> QED BY <1>1, <1>3, <1>4, <1>5, <1>6, <1>7 DEF CallerSteps, Step, Tick, Unregistered

-----------------------------------------------------------------------------
(* Each kind of step keeps the invariant.                                    *)

\* Where callers are, after a step that leaves the chain alone.
LEMMA CallersStay ==
  ASSUME Types, WaitersWait, ChainShape, CallerShape, UNCHANGED run, CallerTypes',
         \A c \in Clients : Turns(c)
  PROVE  CallerShape' /\ WaitersWait' /\ ChainShape'
<1>1. ASSUME NEW c \in Clients
      PROVE  /\ run'[client'[c].at] # "none"
             /\ client'[c].pc = "follow" =>
                  client'[c].at + 1 \in Chain /\ run'[client'[c].at + 1] # "none"
  <2>1. Moved(c) /\ client[c].at \in Chain BY DEF Turns, Types, Caller
  <2> QED BY <2>1 DEF Moved, CallerShape, ChainShape
<1>2. CallerShape' BY <1>1 DEF CallerShape, At
<1>3. WaitersWait'
  <2> SUFFICES ASSUME NEW c \in Clients, waiter'[c] # None PROVE client'[c].pc = "waiting"
    BY DEF WaitersWait, Waiters, At
  <2>1. CASE Kept(c) BY <2>1 DEF Kept, WaitersWait, Waiters, At
  <2>2. CASE HasRead(c) BY <2>2 DEF HasRead, WaitersWait, Waiters, At
  <2>3. CASE Left(c) \/ Registered(c) BY <2>3 DEF Left, Registered
  <2> QED BY <2>1, <2>2, <2>3 DEF Turns
<1> QED BY <1>2, <1>3 DEF ChainShape

\* A caller that goes on, registers or has read loses no hint.
LEMMA CallersKeep ==
  ASSUME ResultInv, UNCHANGED <<storage, database, connection>>, up' \in BOOLEAN,
         CallerTypes', \A c \in Clients : Turns(c)
  PROVE  ResultInv'
<1> USE DEF ResultInv
<1>1. Types' BY DEF Types, CallerTypes
<1>2. CallerShape' /\ WaitersWait' /\ ChainShape' BY CallersStay
<1>3. WriterShape' BY DEF WriterShape
<1>4. ASSUME NEW c \in Clients, waiter'[c] # None
      PROVE  waiter'[c].reading \/ (Kept(c) /\ c \in Waiters) \/ HasRead(c)
  <2>1. CASE Kept(c) BY <1>4, <2>1 DEF Kept, Waiters
  <2>2. CASE HasRead(c) BY <2>2
  <2>3. CASE Left(c) BY <1>4, <2>3 DEF Left
  <2>4. CASE Registered(c)
    <3>1. waiter'[c].reading BY <2>4 DEF Registered
    <3> QED BY <3>1
  <2> QED BY <2>1, <2>2, <2>3, <2>4 DEF Turns
<1>5. ASSUME NEW c \in Clients, HasRead(c)
      PROVE  /\ ~(revision[client[c].at] > waiter[c].after)
             /\ storage = "sqlite" => tx = None
  <2>1. revision[client[c].at] \in Nat /\ waiter[c].after \in Nat
    BY <1>5 DEF HasRead, Types, Caller, Waiters, Registration
  <2> QED BY <1>5, <2>1 DEF HasRead, Readable
<1>6. EarlyHint' BY <1>4, <1>5 DEF EarlyHint, Kept, Waiters
<1>7. HintsSuffice'
  <2> SUFFICES ASSUME NEW c \in Clients, waiter'[c] # None,
                      revision[client'[c].at] > waiter'[c].after, ~waiter'[c].reading
               PROVE  \/ storage = "shared"
                      \/ /\ storage = "postgres"
                         /\ \/ listener # "listening"
                            \/ \E i \in DOMAIN notes : /\ notes[i].at = client'[c].at
                                                        /\ notes[i].revision > waiter'[c].after
    BY DEF HintsSuffice, Waiters
  <2>1. ~HasRead(c) BY <1>5 DEF HasRead
  <2>2. Kept(c) /\ c \in Waiters BY <1>4, <2>1
  <2> QED BY <2>2 DEF HintsSuffice, Kept
<1> QED BY <1>1, <1>2, <1>3, <1>6, <1>7

\* A hint that settles nobody it should not, or everybody, loses nobody either.
LEMMA SettlingStays ==
  ASSUME ResultInv, UNCHANGED run, NEW S \in SUBSET Waiters, Settled(S)
  PROVE  /\ CallerShape' /\ WaitersWait' /\ ChainShape' /\ CallerTypes'
         /\ \A c \in Waiters' : c \in Waiters \ S /\ Kept(c)
<1>1. \A c \in Clients : Turns(c) BY SettledTurns DEF ResultInv
<1>2. CallerTypes' BY DEF Settled
<1>3. \A c \in Waiters' : c \in Waiters \ S /\ Kept(c) BY DEF Waiters, Settled, Left, Kept
<1> QED BY <1>1, <1>2, <1>3, CallersStay DEF ResultInv

LEMMA BeginKeeps ==
  ASSUME ResultInv, NEW g \in Chain, NEW to \in Kinds, Begin(g, to)
  PROVE  ResultInv'
<1> DEFINE S == {c \in Waiters : client[c].at = g /\ revision[g] + 1 > waiter[c].after}
<1> USE DEF ResultInv
<1>1. S \in SUBSET Waiters /\ Settled(S) BY ResolveSettles DEF Begin, Publish
<1>2. UNCHANGED <<storage, run, revision, connection, up>> BY DEF Begin
<1>3. /\ CallerShape' /\ WaitersWait' /\ ChainShape' /\ CallerTypes'
      /\ \A c \in Waiters' : c \in Waiters \ S /\ Kept(c)
  BY <1>1, <1>2, SettlingStays
<1>4. tx' = [at |-> g, to |-> to] /\ run[g] = "open" /\ (to = "continued" => g < Generations)
  BY DEF Begin, Writes
<1>5. Types' BY <1>2, <1>3, <1>4 DEF Types, CallerTypes
<1>6. to = "continued" => g + 1 \in Chain BY <1>4, BoundAssumption DEF Chain
<1>7. WriterShape' BY <1>2, <1>4, <1>6 DEF WriterShape
<1>8. \A c \in Waiters' : client[c].at = g => waiter[c].after > revision[g]
  <2> SUFFICES ASSUME NEW c \in Waiters, c \notin S, client[c].at = g
               PROVE  waiter[c].after > revision[g]
    BY <1>3
  <2>1. waiter[c].after \in Nat /\ revision[g] \in Nat
    BY DEF Types, Waiters, Registration
  <2> QED BY <2>1
<1>9. EarlyHint' BY <1>2, <1>3, <1>4, <1>8 DEF EarlyHint, Kept
<1>10. HintsSuffice' BY <1>2, <1>3 DEF HintsSuffice, Kept
<1> QED BY <1>3, <1>5, <1>7, <1>9, <1>10

\* The database changes, and the listener is told if there is one.
LEMMA ApplyKeeps ==
  ASSUME ResultInv, NEW g \in Chain, NEW to \in Kinds, Apply(g, to), Notify(g),
         run[g] = "open", to = "continued" => g + 1 \in Chain,
         storage = "sqlite" => tx # None /\ tx.at = g,
         tx' = None, UNCHANGED <<storage, up, client, waiter, aborted>>
  PROVE  ResultInv'
<1> USE DEF ResultInv
<1> DEFINE new == IF to = "continued" THEN {g + 1} ELSE {}
<1>0. /\ run' = [h \in Chain |-> IF h = g THEN to ELSE IF h \in new THEN "open" ELSE run[h]]
      /\ revision' = [h \in Chain |-> IF h \in {g} \cup new THEN revision[h] + 1 ELSE revision[h]]
  BY DEF Apply
<1>1. \A h \in Chain : h > g => run[h] = "none" BY DEF ChainShape
<1>2. \A h \in new : h \in Chain /\ run[h] = "none" /\ h > g /\ h # g
  BY <1>1, Chains
<1>3. Types'
  <2>1. run' \in [Chain -> States] BY <1>0 DEF States, Kinds, Types
  <2>2. revision' \in [Chain -> Nat] BY <1>0 DEF Types
  <2>3. notes' \in Seq(Note)
    <3>1. [at |-> g, revision |-> revision[g] + 1] \in Note BY DEF Note, Types
    <3> QED BY <3>1 DEF Notify, Types
  <2> QED BY <2>1, <2>2, <2>3 DEF Types, Notify
<1>4. ChainShape'
  <2> SUFFICES ASSUME NEW h \in Chain
               PROVE  /\ run'[h] = "open" => \A k \in Chain : k > h => run'[k] = "none"
                      /\ run'[h] = "continued" => h + 1 \in Chain /\ run'[h + 1] # "none"
    BY DEF ChainShape
  <2>0. g \in Nat /\ h \in Nat /\ Chain \subseteq Nat BY Chains
  <2>1. ASSUME run'[h] = "open", NEW k \in Chain, k > h PROVE run'[k] = "none"
    <3>1. h = g \/ h \in new \/ run[h] = "open" BY <1>0, <2>1
    <3>2. h >= g BY <1>1, <1>2, <2>0, <2>1, <3>1 DEF ChainShape
    <3>3. k > g /\ k # g BY <2>0, <2>1, <3>2
    <3>4. k \notin new BY <1>0, <2>0, <2>1, <3>2
    <3> QED BY <1>0, <1>1, <3>3, <3>4
  <2>2. ASSUME run'[h] = "continued" PROVE h + 1 \in Chain /\ run'[h + 1] # "none"
    <3>1. CASE h = g BY <1>0, <2>0, <2>2, <3>1
    <3>2. CASE h # g
      <4>1. run[h] = "continued" BY <1>0, <2>2, <3>2
      <4>2. h + 1 \in Chain /\ run[h + 1] # "none" BY <4>1 DEF ChainShape
      <4> QED BY <1>0, <4>2 DEF Kinds, Ended
    <3> QED BY <3>1, <3>2
  <2> QED BY <2>1, <2>2
<1>5. \A h \in Chain : run[h] # "none" => run'[h] # "none" BY <1>0 DEF Kinds, Ended
<1>6. CallerShape' BY <1>5 DEF CallerShape, Types, Caller, At
<1>7. WaitersWait' BY DEF WaitersWait, Waiters, At
<1>8. WriterShape' /\ EarlyHint' BY DEF WriterShape, EarlyHint
<1>9. HintsSuffice'
  <2> SUFFICES ASSUME NEW c \in Waiters, revision'[client[c].at] > waiter[c].after,
                      ~waiter[c].reading
               PROVE  \/ storage = "shared"
                      \/ /\ storage = "postgres"
                         /\ \/ listener' # "listening"
                            \/ \E i \in DOMAIN notes' : /\ notes'[i].at = client[c].at
                                                         /\ notes'[i].revision > waiter[c].after
    BY DEF HintsSuffice, Waiters
  <2> DEFINE h == client[c].at
  <2>1. h \in Chain /\ h \notin new BY <1>2 DEF CallerShape, Waiters, Types, Caller
  <2>2. revision'[h] = IF h = g THEN revision[g] + 1 ELSE revision[h] BY <1>0, <2>1
  <2>3. waiter[c].after \in Nat /\ revision[g] \in Nat
    BY DEF Waiters, Types, Registration
  <2>4. CASE storage = "sqlite"
    <3>1. h = g => waiter[c].after > revision[g] BY <2>4 DEF EarlyHint
    <3>2. h = g => FALSE BY <2>2, <2>3, <3>1
    <3> QED BY <2>2, <2>4, <3>2 DEF HintsSuffice
  <2>5. CASE storage = "postgres" /\ listener = "listening"
    <3>1. notes' = Append(notes, [at |-> g, revision |-> revision[g] + 1])
      BY <2>5 DEF Notify
    <3>2. notes \in Seq(Note) BY DEF Types
    <3>3. CASE h = g
      <4>1. Len(notes) + 1 \in DOMAIN notes' /\ notes'[Len(notes) + 1].at = h
            /\ notes'[Len(notes) + 1].revision = revision[g] + 1
        BY <3>1, <3>2, <3>3
      <4> QED BY <2>2, <2>5, <3>3, <4>1
    <3>4. CASE h # g
      <4>1. PICK i \in DOMAIN notes : notes[i].at = h /\ notes[i].revision > waiter[c].after
        BY <2>2, <2>5, <3>4 DEF HintsSuffice
      <4>2. i \in DOMAIN notes' /\ notes'[i] = notes[i] BY <3>1, <3>2
      <4> QED BY <2>5, <4>1, <4>2
    <3> QED BY <3>3, <3>4
  <2>6. CASE storage = "postgres" /\ listener # "listening" BY <2>6 DEF Notify
  <2> QED BY <2>4, <2>5, <2>6 DEF Types
<1> QED BY <1>3, <1>4, <1>6, <1>7, <1>8, <1>9

LEMMA ReceiveKeeps == ASSUME ResultInv, Receive PROVE ResultInv'
<1> DEFINE n == Head(notes)
           S == {c \in Waiters : client[c].at = n.at /\ n.revision > waiter[c].after}
<1> USE DEF ResultInv
<1>1. S \in SUBSET Waiters /\ Settled(S) BY ResolveSettles DEF Receive, Publish
<1>2. /\ UNCHANGED <<storage, database, listener, up>>
      /\ notes # <<>> /\ notes' = Tail(notes)
  BY DEF Receive
<1>3. /\ CallerShape' /\ WaitersWait' /\ ChainShape' /\ CallerTypes'
      /\ \A c \in Waiters' : c \in Waiters \ S /\ Kept(c)
  BY <1>1, <1>2, SettlingStays
<1>4. Types' BY <1>2, <1>3 DEF Types, CallerTypes
<1>5. WriterShape' /\ EarlyHint' BY <1>2, <1>3 DEF WriterShape, EarlyHint, Kept
<1>6. \A c \in Waiters \ S, i \in DOMAIN notes :
        notes[i].at = client[c].at /\ notes[i].revision > waiter[c].after
          => \E j \in DOMAIN Tail(notes) : Tail(notes)[j] = notes[i]
  <2> SUFFICES ASSUME NEW c \in Waiters, c \notin S, NEW i \in DOMAIN notes,
                      notes[i].at = client[c].at, notes[i].revision > waiter[c].after
               PROVE  \E j \in DOMAIN Tail(notes) : Tail(notes)[j] = notes[i]
    OBVIOUS
  <2>1. notes \in Seq(Note) BY DEF Types
  <2>2. i # 1 BY <1>2, <2>1
  <2>3. i - 1 \in DOMAIN Tail(notes) /\ Tail(notes)[i - 1] = notes[i] BY <1>2, <2>1, <2>2
  <2> QED BY <2>3
<1>7. HintsSuffice' BY <1>2, <1>3, <1>6 DEF HintsSuffice, Kept
<1> QED BY <1>3, <1>4, <1>5, <1>7

LEMMA OtherSteps ==
  ASSUME ResultInv, Rollback \/ Prune \/ Join \/ Reconnected \/ Lose \/ Stop
  PROVE  ResultInv'
<1> USE DEF ResultInv
<1>1. ASSUME client' = client, waiter' = waiter
      PROVE  CallerTypes' /\ WaitersWait' /\ Waiters' = Waiters
  BY <1>1 DEF CallerTypes, Types, WaitersWait, Waiters, At
<1>2. ASSUME client' = client, waiter' = waiter, UNCHANGED run PROVE CallerShape' /\ ChainShape'
  BY <1>2 DEF CallerShape, ChainShape, At
<1>3. CASE Rollback
  BY <1>1, <1>2, <1>3 DEF Rollback, Types, WriterShape, EarlyHint, HintsSuffice, CallerTypes
<1>4. CASE Join
  <2>1. UNCHANGED <<storage, database, notes, client, waiter, up>> /\ listener' = "joined"
    BY <1>4 DEF Join
  <2>2. storage = "postgres" BY <1>4 DEF Join
  <2> QED BY <1>1, <1>2, <2>1, <2>2
      DEF Types, WriterShape, EarlyHint, HintsSuffice, CallerTypes, WaitersWait
<1>5. CASE Lose
  <2>1. UNCHANGED <<storage, database, client, waiter, up>> /\ listener' = "down" /\ notes' = <<>>
    BY <1>5 DEF Lose
  <2>2. notes' \in Seq(Note) BY <2>1
  <2>3. Types' BY <2>1, <2>2 DEF Types
  <2>4. HintsSuffice' BY <1>1, <2>1 DEF HintsSuffice
  <2> QED BY <1>1, <1>2, <2>1, <2>3, <2>4 DEF WriterShape, EarlyHint, WaitersWait
<1>6. CASE Prune
  <2>1. /\ UNCHANGED <<storage, revision, tx, connection, up, client, waiter>> /\ tx = None
        /\ run' = [g \in Chain |-> IF run[g] = "none" THEN "none" ELSE "gone"]
    BY <1>6 DEF Prune
  <2>2. Types' BY <2>1 DEF Types, States
  <2>3. ChainShape' BY <2>1 DEF ChainShape
  <2>4. CallerShape' BY <2>1 DEF CallerShape, Types, Caller, At
  <2> QED BY <1>1, <2>1, <2>2, <2>3, <2>4 DEF WriterShape, EarlyHint, HintsSuffice
<1>7. CASE Reconnected \/ Stop
  <2>1. Settled(Waiters)
    BY <1>7, ResolveSettles, RejectSettles DEF Reconnected, Stop, Shutdown, Answers
  <2>2. UNCHANGED <<storage, database>> /\ up' \in BOOLEAN
        /\ listener' \in {"listening", "down"} /\ notes' \in Seq(Note)
    <3>1. CASE Reconnected BY <3>1 DEF Reconnected, Types
    <3>2. CASE Stop
      <4>1. UNCHANGED <<storage, database>> /\ up' = FALSE /\ listener' = "down" /\ notes' = <<>>
        BY <3>2 DEF Stop
      <4>2. notes' \in Seq(Note) BY <4>1
      <4> QED BY <4>1, <4>2
    <3> QED BY <1>7, <3>1, <3>2
  <2>3. /\ CallerShape' /\ WaitersWait' /\ ChainShape' /\ CallerTypes' /\ Waiters' = {}
    BY <2>1, <2>2, SettlingStays
  <2>4. Types' BY <2>2, <2>3 DEF Types, CallerTypes
  <2> QED BY <2>2, <2>3, <2>4 DEF WriterShape, EarlyHint, HintsSuffice
<1> QED BY <1>3, <1>4, <1>5, <1>6, <1>7

LEMMA ResultStep == ResultInv /\ [Next]_vars => ResultInv'
<1> SUFFICES ASSUME ResultInv, [Next]_vars PROVE ResultInv' OBVIOUS
<1>1. CASE CallerSteps
  <2>1. UNCHANGED <<storage, database, connection, up>>
    BY <1>1 DEF CallerSteps, Ask, Step, Tick, Abort, Check, Refuse, NotFound, Describe, Follow,
       Fetch, ReadRow, TimedOut, Turned, Wait, ReadRevision, Expire, Fallback, Elapse
  <2> QED BY <1>1, <2>1, CallerStep, CallersKeep DEF ResultInv, Types
<1>2. ASSUME NEW g \in Chain, NEW to \in Kinds, WriteElsewhere(g, to) PROVE ResultInv'
  <2>1. tx' = None /\ run[g] = "open" /\ (to = "continued" => g < Generations)
    BY <1>2 DEF WriteElsewhere, Writes
  <2>2. to = "continued" => g + 1 \in Chain BY <2>1, BoundAssumption DEF Chain
  <2> QED BY <1>2, <2>1, <2>2, ApplyKeeps DEF WriteElsewhere
<1>3. CASE Commit
  <2>1. tx.at \in Chain /\ tx.to \in Kinds BY <1>3 DEF Commit, ResultInv, Types
  <2>2. run[tx.at] = "open" /\ (tx.to = "continued" => tx.at + 1 \in Chain)
    BY <1>3 DEF Commit, ResultInv, WriterShape
  <2>3. PICK g \in Chain, to \in Kinds : g = tx.at /\ to = tx.to BY <2>1
  <2>4. Apply(g, to) /\ Notify(g) /\ tx' = None BY <1>3, <2>3 DEF Commit
  <2> QED BY <1>3, <2>2, <2>3, <2>4, ApplyKeeps DEF Commit
<1>4. CASE UNCHANGED vars
  <2>1. CallerTypes' BY <1>4 DEF ResultInv, Types, CallerTypes
  <2>2. \A c \in Clients : Turns(c) BY <1>4 DEF Turns, Moved, Kept, At
  <2> QED BY <1>4, <2>1, <2>2, CallersKeep DEF ResultInv, Types
<1> QED BY <1>1, <1>2, <1>3, <1>4, BeginKeeps, ReceiveKeeps, OtherSteps
    DEF Next, Write, CallerSteps, Kinds

\* Unless other processes write an SQLite file, whoever waits for a run that has
\* changed still has a hint to come, in any order of reads, commits, rollbacks, early
\* publications and lost connections.
THEOREM HintsAlwaysSuffice == Spec => []HintsSuffice
<1>1. ResultInv => HintsSuffice BY DEF ResultInv
<1> QED BY <1>1, ResultInit, ResultStep, PTL DEF Spec
=============================================================================
