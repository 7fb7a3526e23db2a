--------------------------- MODULE RenewedLeases ----------------------------
(***************************************************************************)
(* ActivityDelivery with a history variable: the invocations that have     *)
(* renewed their lease while running their handler.                        *)
(***************************************************************************)
EXTENDS ActivityDelivery

VARIABLE renewed

HistoryInit == Init /\ renewed = {}

HistoryNext ==
  \/ \E i \in Invocations : Renew(i) /\ renewed' = renewed \cup {i}
  \/ Next /\ renewed' = {i \in renewed : worker'[i].at = "working"}

HistorySpec == HistoryInit /\ [][HistoryNext]_<<vars, renewed>>

\* A worker renews the lease of a running activity automatically
\* (src/types.ts:400-401, docs/architecture.md:48), so its delivery is not handed
\* to another worker while it runs the handler under a renewed, live lease.
RenewedLeaseKeepsDelivery ==
  [][\A i \in renewed :
       worker[i].at = "working" /\ LiveClaim(worker[i].act, i) /\ Holds(i)
         => delivery'[worker[i].act][worker[i].gen].by \in {i, Nobody}]_<<vars, renewed>>
=============================================================================
