--------------------- MODULE MCProviderMailLifecycleOwner ---------------------
(* Instances of ProviderMailLifecycleOwner: two accounts, a few calls. *)
EXTENDS ProviderMailLifecycleOwner, TLC

CONSTANTS a1, a2, s1, s2, v1, d1, d2, x1, x2, q1

\* A retry and a disconnect of a1, an activation and a disconnect of a2.
MixedTargets == s1 :> a1 @@ v1 :> a2 @@ d1 :> a1 @@ d2 :> a2

\* A retry and a disconnect, both of a1.
SameTarget == s1 :> a1 @@ d1 :> a1
=============================================================================
