---------------------------- MODULE MCRetention -----------------------------
EXTENDS Retention, TLC

CONSTANTS o1, o2, parent, child

\* The identifiers of the two chains interleave; the parent starts its child
\* in its first generation.
MCChain == parent :> <<3, 1>> @@ child :> <<2>>
MCCaller == child :> 3
MCOperators == Permutations({o1, o2})
=============================================================================
