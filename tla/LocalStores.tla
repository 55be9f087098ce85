----------------------------- MODULE LocalStores -----------------------------
(***************************************************************************)
(* What the installation holds about its accounts, one set per store, and  *)
(* the deletion each store offers to the lifecycle services.  A row that   *)
(* is deleted leaves its bytes in free pages of the SQLite file until the  *)
(* file has been vacuumed: residue is the set of accounts (and samples)    *)
(* that can still be found there.                                          *)
(***************************************************************************)
CONSTANTS
    Accounts,        \* account ids the installation may ever know
    SampleAccounts   \* the fixture accounts of the sample data set

ASSUME SamplesAssumption == SampleAccounts \subseteq Accounts

VARIABLES
    grants,        \* accounts whose refresh token Google still honours
    credentials,   \* refresh tokens in protected_secrets
    accountState,  \* accounts with rows in encrypted_account_records
    sampleMail,    \* accounts of the data set in encrypted_records
    providerMail,  \* accounts with rows in encrypted_provider_mail_records
    mailMode,      \* mail_data_mode_state: "sample", "live", or "none" (no row)
    cacheStatus,   \* encrypted_cache_state
    residue,       \* accounts whose deleted bytes are still in the file
    dataKey        \* whether the vault holds the cache data key

storeVars == <<grants, credentials, accountState, sampleMail, providerMail,
               mailMode, cacheStatus, residue, dataKey>>

StoresInit ==
    /\ grants = {}
    /\ credentials = {}
    /\ accountState = {}
    /\ sampleMail = {}
    /\ providerMail = {}
    /\ mailMode = "sample"
    /\ cacheStatus = "ready"
    /\ residue = {}
    /\ dataKey = FALSE

-----------------------------------------------------------------------------
(* Provider *)

\* revoke(): the token is read from the vault; without one there is nothing
\* to revoke and the call succeeds.
Revoke(a) == grants' = IF a \in credentials THEN grants \ {a} ELSE grants

(* Vault *)

DeleteCredential(a) ==
    /\ credentials' = credentials \ {a}
    /\ residue' = residue \cup (credentials \cap {a})

DeleteGoogleRefreshTokens ==
    /\ credentials' = {}
    /\ residue' = residue \cup credentials

DeleteDataKey == dataKey' = FALSE

(* Account state *)

DeleteAccountState(a) ==
    /\ accountState' = accountState \ {a}
    /\ residue' = residue \cup (accountState \cap {a})

DeleteAllAccountState ==
    /\ accountState' = {}
    /\ residue' = residue \cup accountState

(* Mail *)

\* AccountDataRemovalService.run: the data set is rewritten without the
\* account, and only when it held the account; a rewrite marks the cache.
RemoveAccountData(a) ==
    /\ sampleMail' = sampleMail \ {a}
    /\ residue' = residue \cup (sampleMail \cap {a})
    /\ cacheStatus' = IF a \in sampleMail THEN "sanitization-pending" ELSE cacheStatus

DeleteProviderMail(a) ==
    /\ providerMail' = providerMail \ {a}
    /\ residue' = residue \cup (providerMail \cap {a})

\* deleteAllEncryptedMailRecords, one transaction.
DeleteAllMail ==
    /\ sampleMail' = {}
    /\ providerMail' = {}
    /\ mailMode' = "none"
    /\ cacheStatus' = "sanitization-pending"
    /\ residue' = residue \cup sampleMail \cup providerMail

\* Mutant: the status row without the VACUUM.
SanitizeStatusOnly ==
    /\ cacheStatus' = "ready"
    /\ UNCHANGED residue

\* VACUUM between two WAL checkpoints, then the status row.
Sanitize ==
    /\ residue' = {}
    /\ cacheStatus' = "ready"

-----------------------------------------------------------------------------
StoresTypeOK ==
    /\ grants \subseteq Accounts
    /\ credentials \subseteq Accounts
    /\ accountState \subseteq Accounts
    /\ sampleMail \subseteq Accounts
    /\ providerMail \subseteq Accounts
    /\ mailMode \in {"sample", "live", "none"}
    /\ cacheStatus \in {"ready", "sanitization-pending"}
    /\ residue \subseteq Accounts
    /\ dataKey \in BOOLEAN
=============================================================================
