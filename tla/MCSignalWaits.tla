-------------------------- MODULE MCSignalWaits --------------------------
(* Small instances of SignalWaits for TLC. *)
EXTENDS SignalWaits, TLC

\* Two parallel branches, the first with a deadline.
Parallel == (1 :> {}) @@ (2 :> {})
FirstExpires == (1 :> 1) @@ (2 :> NoTimeout)
==========================================================================
