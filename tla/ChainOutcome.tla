---------------------------- MODULE ChainOutcome ----------------------------
(***************************************************************************)
(* What running a workflow promises: a chain of executions, at most one of *)
(* them open, that ends once; no execution is added to a chain whose open  *)
(* execution was asked to cancel, and only such a chain ends cancelled; a  *)
(* parent is told how the chain of its child ended, once.                  *)
(***************************************************************************)
EXTENDS Naturals

CONSTANTS Chains, Ends, Cancelled, None

VARIABLES
  generation,  \* executions of each chain so far
  cancelling,  \* the open execution was asked to cancel
  end,         \* how the chain ended
  told         \* what the parent was told
vars == <<generation, cancelling, end, told>>

Init ==
  /\ generation = [c \in Chains |-> 0]
  /\ cancelling = [c \in Chains |-> FALSE]
  /\ end = [c \in Chains |-> None]
  /\ told = [c \in Chains |-> None]

Accept(c) ==
  /\ generation[c] = 0
  /\ generation' = [generation EXCEPT ![c] = 1]
  /\ UNCHANGED <<cancelling, end, told>>

Continue(c) ==
  /\ generation[c] > 0 /\ end[c] = None /\ ~cancelling[c]
  /\ generation' = [generation EXCEPT ![c] = @ + 1]
  /\ UNCHANGED <<cancelling, end, told>>

Cancel(c) ==
  /\ generation[c] > 0 /\ end[c] = None /\ ~cancelling[c]
  /\ cancelling' = [cancelling EXCEPT ![c] = TRUE]
  /\ UNCHANGED <<generation, end, told>>

End(c, e) ==
  /\ generation[c] > 0 /\ end[c] = None
  /\ e = Cancelled => cancelling[c]
  /\ end' = [end EXCEPT ![c] = e]
  /\ UNCHANGED <<generation, cancelling, told>>

Tell(c) ==
  /\ end[c] # None /\ told[c] = None
  /\ told' = [told EXCEPT ![c] = end[c]]
  /\ UNCHANGED <<generation, cancelling, end>>

Next == \E c \in Chains : Accept(c) \/ Continue(c) \/ Cancel(c) \/ Tell(c) \/ \E e \in Ends : End(c, e)

Spec == Init /\ [][Next]_vars
=============================================================================
