---------------------------- MODULE MCLifecycle ----------------------------
(* An old and a new binary, in ticks of ten seconds. *)
EXTENDS Lifecycle, TLC

CONSTANTS old, new, q1

TwoBinaries == old :> 1 @@ new :> 2

\* Replicas meet in the database only, so one of them has requests.
OneRequest == old :> {} @@ new :> {q1}
=============================================================================
