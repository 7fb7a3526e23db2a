---------------------------- MODULE SignalQueue ----------------------------
(***************************************************************************)
(* What waiting for a signal promises: signals are given out in the order  *)
(* they were accepted, each to one wait; a wait is answered once, with its *)
(* signal or with a timeout; the workflow is told what was decided.        *)
(***************************************************************************)
EXTENDS Naturals

CONSTANTS Waits, Sequences, NoWait, None, TimedOut

VARIABLES
  accepted,   \* how many signals have been accepted
  consumer,   \* the wait each signal was given to
  outcome,    \* what was decided for each wait
  told        \* what the workflow was told
vars == <<accepted, consumer, outcome, told>>

Init ==
  /\ accepted = 0
  /\ consumer = [s \in Sequences |-> NoWait]
  /\ outcome = [w \in Waits |-> None]
  /\ told = [w \in Waits |-> None]

Accept ==
  /\ accepted + 1 \in Sequences
  /\ accepted' = accepted + 1
  /\ UNCHANGED <<consumer, outcome, told>>

Oldest(s) == /\ s \in Sequences /\ s <= accepted /\ consumer[s] = NoWait
             /\ \A t \in Sequences : t < s => consumer[t] # NoWait

Give(w, s) ==
  /\ outcome[w] = None /\ Oldest(s)
  /\ consumer' = [consumer EXCEPT ![s] = w]
  /\ outcome' = [outcome EXCEPT ![w] = s]
  /\ UNCHANGED <<accepted, told>>

Expire(w) ==
  /\ outcome[w] = None
  /\ outcome' = [outcome EXCEPT ![w] = TimedOut]
  /\ UNCHANGED <<accepted, consumer, told>>

Tell(w) ==
  /\ told[w] = None /\ outcome[w] # None
  /\ told' = [told EXCEPT ![w] = outcome[w]]
  /\ UNCHANGED <<accepted, consumer, outcome>>

Next ==
  \/ Accept
  \/ \E w \in Waits : Expire(w) \/ Tell(w) \/ \E s \in Sequences : Give(w, s)

Spec == Init /\ [][Next]_vars
=============================================================================
