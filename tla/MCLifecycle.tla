----------------------------- MODULE MCLifecycle -----------------------------
(* Instances of Lifecycle for TLC. *)
EXTENDS Lifecycle

CONSTANTS n1, n2

TwoNodes == {n1, n2}
==============================================================================
