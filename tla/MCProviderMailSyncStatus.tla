---------------------- MODULE MCProviderMailSyncStatus ----------------------
(* Small instances of ProviderMailSyncStatus for TLC. *)
EXTENDS ProviderMailSyncStatus

CONSTANTS a1, a2

TwoAccounts == {a1, a2}
OneAccount == {a1}

\* One failure of each disposition the policy tells apart.
SomeFailures == {"QUOTA_EXHAUSTED", "OFFLINE", "AUTHENTICATION_EXPIRED", "MALFORMED_PAYLOAD"}
=============================================================================
