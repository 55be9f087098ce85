-------------------------- MODULE MCLocalLifecycle --------------------------
(***************************************************************************)
(* The instance of LocalLifecycle for TLC: one account that connects, one  *)
(* fixture account, and an operation id of each kind.                      *)
(***************************************************************************)
EXTENDS LocalLifecycle, TLC

CONSTANTS a1, sample, d1, x1

\* The disconnect is one of a1.
OneDisconnect == d1 :> a1
=============================================================================
