------------------------- MODULE MCStructuredScopes -------------------------
EXTENDS StructuredScopes

\* A group, a sleep and two activities at once. The handler goes on without the group if
\* its first branch failed.
MCMixed == <<"group", "timer", "all">>
MCFirstBranch == [s \in 1..Steps |-> IF s = 1 THEN {<<"branch", 1>>} ELSE {}]
\* The first activity of the last step may be tried three times.
MCThrice == [c \in Leaves |-> IF c = <<"forward", Steps>> THEN 3 ELSE 1]
=============================================================================
