------------------------ MODULE MCMailSyncCoordinator ------------------------
(* Instances of MailSyncCoordinator: three accounts, a few calls. *)
EXTENDS MailSyncCoordinator, TLC

CONSTANTS a1, a2, a3, s1, q1, p1, w1

\* The first account is superseded, the second cancelled.
CallTargets == (p1 :> a1) @@ (w1 :> a2)
=============================================================================
