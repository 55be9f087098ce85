-------------------------- MODULE DisconnectAccount --------------------------
(***************************************************************************)
(* DisconnectAccountService: the journaled removal of one account.         *)
(* Revoke at Google, delete the credential, delete the account state,      *)
(* delete the mail (sample data set, then provider mail), compact.         *)
(* Every remote or storage call may fail before or after it took effect.   *)
(***************************************************************************)
EXTENDS AccountLifecycle

NextDisconnectPhase ==
    [p \in DisconnectPhase \ {"completed"} |->
        CASE p = "revocation-pending"           -> "credential-delete-pending"
          [] p = "credential-delete-pending"    -> "account-state-delete-pending"
          [] p = "account-state-delete-pending" -> "mail-data-delete-pending"
          [] p = "mail-data-delete-pending"     -> "compaction-pending"
          [] p = "compaction-pending"           -> "completed"]

DisconnectFailure ==
    [p \in DisconnectPhase \ {"completed"} |->
        CASE p = "revocation-pending"           -> "REVOCATION_FAILED"
          [] p = "credential-delete-pending"    -> "CREDENTIAL_DELETE_FAILED"
          [] p = "account-state-delete-pending" -> "ACCOUNT_STATE_DELETE_FAILED"
          [] p = "mail-data-delete-pending"     -> "MAIL_DATA_DELETE_FAILED"
          [] p = "compaction-pending"           -> "COMPACTION_FAILED"]

-----------------------------------------------------------------------------
(* disconnect(request) *)

\* activeByAccount: a run of the same operation is shared, a run of another
\* operation for the account refuses the call.
ActiveFor(a) == {op \in DisconnectOps \cap Running : AccountOf[op] = a}

\* loadOrCreate refuses a new row beside any pending deletion and beside a
\* pending disconnect of the same account.
DisconnectBlocked(op) ==
    \/ Pending \cap DeletionOps # {}
    \/ \E p \in Pending \cap DisconnectOps : AccountOf[p] = AccountOf[op]

\* Disconnect is called and neither shares nor is refused: the stored row is
\* taken up where it stands, or a new one is inserted.
Disconnect(op) ==
    /\ ActiveFor(AccountOf[op]) = {}
    /\ \/ /\ journal[op] # "absent"
          /\ StartLoop(op, journal[op])
          /\ UNCHANGED <<journal, lastError, latestDeletion>>
       \/ /\ journal[op] = "absent"
          /\ ~DisconnectBlocked(op)
          /\ InsertRow(op)
          /\ StartLoop(op, FirstPhase(op))
    /\ UNCHANGED storeVars

-----------------------------------------------------------------------------
(* perform(phase, accountId) *)

PerformRevocation(op) ==
    /\ journal[op] = "revocation-pending"
    /\ Revoke(AccountOf[op])
    /\ UNCHANGED <<credentials, accountState, sampleMail, providerMail,
                   mailMode, cacheStatus, residue, dataKey>>

PerformCredentialDelete(op) ==
    /\ journal[op] = "credential-delete-pending"
    /\ DeleteCredential(AccountOf[op])
    /\ UNCHANGED <<grants, accountState, sampleMail, providerMail,
                   mailMode, cacheStatus, dataKey>>

PerformAccountStateDelete(op) ==
    /\ journal[op] = "account-state-delete-pending"
    /\ DeleteAccountState(AccountOf[op])
    /\ UNCHANGED <<grants, credentials, sampleMail, providerMail,
                   mailMode, cacheStatus, dataKey>>

PerformCompaction(op) ==
    /\ journal[op] = "compaction-pending"
    /\ Sanitize
    /\ UNCHANGED <<grants, credentials, accountState, sampleMail, providerMail,
                   mailMode, dataKey>>

\* The second half of the mail phase: projection.deleteAccountRecords.
PerformProviderMailDelete(op) ==
    /\ DeleteProviderMail(AccountOf[op])
    /\ UNCHANGED <<grants, credentials, accountState, sampleMail,
                   mailMode, cacheStatus, dataKey>>

\* The calls that are the last effect of their phase.
LastEffect(op) ==
    \/ /\ step[op] = "perform"
       /\ \/ PerformRevocation(op)
          \/ PerformCredentialDelete(op)
          \/ PerformAccountStateDelete(op)
          \/ PerformCompaction(op)
    \/ /\ step[op] = "half"
       /\ PerformProviderMailDelete(op)

\* Mutant: the second half of the mail phase is not awaited.
PerformAccountDataRemovalOnly(op) ==
    /\ step[op] = "perform"
    /\ journal[op] = "mail-data-delete-pending"
    /\ RemoveAccountData(AccountOf[op])
    /\ GoTo(op, "save")
    /\ UNCHANGED <<journal, lastError, latestDeletion, grants, credentials,
                   accountState, providerMail, mailMode, dataKey>>

\* The first half of the mail phase, then the await of the second.
PerformAccountDataRemoval(op) ==
    /\ step[op] = "perform"
    /\ journal[op] = "mail-data-delete-pending"
    /\ RemoveAccountData(AccountOf[op])
    /\ GoTo(op, "half")
    /\ UNCHANGED <<journal, lastError, latestDeletion, grants, credentials,
                   accountState, providerMail, mailMode, dataKey>>

DisconnectPerform(op) == LastEffect(op) /\ PhasePerformed(op)

\* The call fails: nothing happened, or it happened and the answer is lost.
DisconnectPerformFails(op) ==
    /\ step[op] \in {"perform", "half"}
    /\ LastEffect(op) \/ UNCHANGED storeVars
    /\ PhaseFailed(op, DisconnectFailure[journal[op]])

DisconnectSave(op) ==
    /\ PhaseSaved(op, NextDisconnectPhase[journal[op]])
    /\ UNCHANGED storeVars

DisconnectSaveFails(op) ==
    /\ PhaseSaveFailed(op)
    /\ UNCHANGED storeVars

DisconnectStep(op) ==
    \/ PerformAccountDataRemoval(op)
    \/ DisconnectPerform(op)
    \/ DisconnectPerformFails(op)
    \/ DisconnectSave(op)
    \/ DisconnectSaveFails(op)
=============================================================================
