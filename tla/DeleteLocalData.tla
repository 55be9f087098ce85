--------------------------- MODULE DeleteLocalData ---------------------------
(***************************************************************************)
(* DeleteLocalDataService: the journaled removal of everything local.      *)
(* Delete all credentials, all account state, all mail and the mail mode,  *)
(* compact, erase the data key.  It runs with the actions of the ready     *)
(* runtime, which also destroy the copies of the key in memory, or with    *)
(* the keyless actions of startup recovery.                                *)
(***************************************************************************)
EXTENDS AccountLifecycle

VARIABLES
    keyHeld,   \* whether this process holds a usable copy of the data key
    receipts,  \* durable confirmation receipts, by the operation they bind
    expired    \* operations whose challenge and receipt have expired

deletionVars == <<keyHeld, receipts, expired>>

NextDeletionPhase ==
    [p \in DeleteLocalDataPhase \ {"completed"} |->
        CASE p = "credentials-delete-pending"   -> "account-state-delete-pending"
          [] p = "account-state-delete-pending" -> "mail-data-delete-pending"
          [] p = "mail-data-delete-pending"     -> "compaction-pending"
          [] p = "compaction-pending"           -> "data-key-delete-pending"
          [] p = "data-key-delete-pending"      -> "completed"]

DeletionFailure ==
    [p \in DeleteLocalDataPhase \ {"completed"} |->
        CASE p = "credentials-delete-pending"   -> "CREDENTIAL_DELETE_FAILED"
          [] p = "account-state-delete-pending" -> "ACCOUNT_STATE_DELETE_FAILED"
          [] p = "mail-data-delete-pending"     -> "MAIL_DATA_DELETE_FAILED"
          [] p = "compaction-pending"           -> "COMPACTION_FAILED"
          [] p = "data-key-delete-pending"      -> "DATA_KEY_DELETE_FAILED"]

-----------------------------------------------------------------------------
(* Entry points.  start() shares a run of the same operation and refuses   *)
(* every other one: a new run begins only when none is active.             *)

NoDeletionActive == DeletionOps \cap Running = {}

\* delete(): an existing row needs a receipt that matches, expired or not.
DeleteExisting(op) ==
    /\ NoDeletionActive
    /\ journal[op] # "absent"
    /\ op \in receipts
    /\ StartLoop(op, journal[op])
    /\ UNCHANGED <<journal, lastError, latestDeletion, storeVars>>

\* delete(): a new row needs an unexpired receipt and an empty journal of
\* pending work.
DeleteNew(op) ==
    /\ NoDeletionActive
    /\ journal[op] = "absent"
    /\ op \in receipts \ expired
    /\ Pending = {}
    /\ InsertRow(op)
    /\ StartLoop(op, FirstPhase(op))
    /\ UNCHANGED storeVars

\* Mutant: the resumption is refused once the confirmation has expired.
ResumeDeletionConfirmed(op) ==
    /\ NoDeletionActive
    /\ journal[op] # "absent"
    /\ IF op \in receipts \ expired THEN StartLoop(op, journal[op])
                                    ELSE UNCHANGED step
    /\ UNCHANGED <<journal, lastError, latestDeletion, storeVars>>

\* resume(): only an existing row, no confirmation.
ResumeDeletion(op) ==
    /\ NoDeletionActive
    /\ journal[op] # "absent"
    /\ StartLoop(op, journal[op])
    /\ UNCHANGED <<journal, lastError, latestDeletion, storeVars>>

-----------------------------------------------------------------------------
(* perform(phase) *)

PerformCredentialsDelete(op) ==
    /\ journal[op] = "credentials-delete-pending"
    /\ DeleteGoogleRefreshTokens
    /\ UNCHANGED <<grants, accountState, sampleMail, providerMail,
                   mailMode, cacheStatus, dataKey, keyHeld>>

PerformAllAccountStateDelete(op) ==
    /\ journal[op] = "account-state-delete-pending"
    /\ DeleteAllAccountState
    /\ UNCHANGED <<grants, credentials, sampleMail, providerMail,
                   mailMode, cacheStatus, dataKey, keyHeld>>

PerformMailDelete(op) ==
    /\ journal[op] = "mail-data-delete-pending"
    /\ DeleteAllMail
    /\ UNCHANGED <<grants, credentials, accountState, dataKey, keyHeld>>

PerformSanitize(op) ==
    /\ journal[op] = "compaction-pending"
    /\ Sanitize
    /\ UNCHANGED <<grants, credentials, accountState, sampleMail, providerMail,
                   mailMode, dataKey, keyHeld>>

\* Mutant: the contexts that hold the key are not destroyed.
PerformVaultKeyErase(op) ==
    /\ journal[op] = "data-key-delete-pending"
    /\ DeleteDataKey
    /\ UNCHANGED <<grants, credentials, accountState, sampleMail, providerMail,
                   mailMode, cacheStatus, residue, keyHeld>>

\* eraseDataKey(): the key in the vault, then every context that holds it.
PerformEraseDataKey(op) ==
    /\ journal[op] = "data-key-delete-pending"
    /\ DeleteDataKey
    /\ keyHeld' = FALSE
    /\ UNCHANGED <<grants, credentials, accountState, sampleMail, providerMail,
                   mailMode, cacheStatus, residue>>

DeletionEffect(op) ==
    /\ step[op] = "perform"
    /\ \/ PerformCredentialsDelete(op)
       \/ PerformAllAccountStateDelete(op)
       \/ PerformMailDelete(op)
       \/ PerformSanitize(op)
       \/ PerformEraseDataKey(op)

\* eraseDataKey() when a context refuses to be destroyed (the read worker
\* has calls in flight): the key is gone from the vault, a copy is not.
PartialEraseDataKey(op) ==
    /\ step[op] = "perform"
    /\ journal[op] = "data-key-delete-pending"
    /\ DeleteDataKey
    /\ UNCHANGED <<grants, credentials, accountState, sampleMail, providerMail,
                   mailMode, cacheStatus, residue, keyHeld>>

DeletionPerform(op) ==
    /\ DeletionEffect(op)
    /\ PhasePerformed(op)
    /\ UNCHANGED <<receipts, expired>>

\* The call fails: before its effect, after it, or between two effects.
DeletionPerformFails(op) ==
    /\ step[op] = "perform"
    /\ \/ DeletionEffect(op)
       \/ PartialEraseDataKey(op)
       \/ UNCHANGED <<storeVars, keyHeld>>
    /\ PhaseFailed(op, DeletionFailure[journal[op]])
    /\ UNCHANGED <<receipts, expired>>

DeletionSave(op) ==
    /\ PhaseSaved(op, NextDeletionPhase[journal[op]])
    /\ UNCHANGED <<storeVars, receipts, expired, keyHeld>>

DeletionSaveFails(op) ==
    /\ PhaseSaveFailed(op)
    /\ UNCHANGED <<storeVars, receipts, expired, keyHeld>>

\* throwIfAborted at the head of the loop: the journal keeps the phase.
DeletionAborted(op) ==
    /\ step[op] = "perform"
    /\ GoTo(op, "idle")
    /\ UNCHANGED <<journal, lastError, latestDeletion, storeVars, deletionVars>>
=============================================================================
