--------------------------- MODULE MCRunLifecycle ---------------------------
EXTENDS RunLifecycle, TLC

CONSTANTS top, sub

\* Chains without children.
MCNone == [c \in Chains |-> None]
\* The first execution of the parent starts the child.
MCChild == [c \in Chains |-> IF c = sub THEN <<top, 1>> ELSE None]

\* The first handler does anything; what the second one does is fixed.
MCAny == [r \in Runs |-> IF r[2] < Generations THEN Outcomes ELSE {"completed"}]
\* Families: the child may continue once.
MCFamily == [r \in Runs |-> IF r = <<sub, 1>> THEN {"completed", "continue"} ELSE {"completed"}]

MCDispatchers == Permutations(Dispatchers)
=============================================================================
