------------------------- MODULE LocalLifecycle_proofs -------------------------
(***************************************************************************)
(* Proofs about LocalLifecycle, in three parts.                            *)
(*                                                                         *)
(* The journal: the types of all variables, no overlap of pending work,    *)
(* error codes and receipts.  Every step of Next is one of six things a    *)
(* step can do to the journal (StepsAreJournalSteps), and each of the six  *)
(* preserves JournalInv, which adds to the properties that a running       *)
(* operation is pending and that the latest deletion row is known.         *)
(*                                                                         *)
(* The stores: the journal is never ahead of them and the data key is      *)
(* erased last.  The properties speak of phases that have been left.  To   *)
(* be inductive they must also speak of the phase that is about to be left *)
(* (its effect is done and the save is due: Left), and of why nothing      *)
(* comes back unless a late write puts it back: an account id is drawn     *)
(* once and its connection is over before an operation can be bound to it  *)
(* (AccountsAreBorn); and of what mode says about running work, the key,   *)
(* and grants without a credential (ModeIsConsistent).  A phase that is    *)
(* left after a step was left before it or is carried out by it            *)
(* (DisconnectLeaves, DeletionLeaves, EffectIsPerformed), and no step      *)
(* brings back what has gone (StoresKeepGone, MailStaysGone).              *)
(*                                                                         *)
(* The contract: LocalLifecycle implements LifecycleContract.  A row that  *)
(* is inserted begins an operation of the contract, the save of            *)
(* "completed" completes it, and every other step changes what is held or  *)
(* stutters.                                                               *)
(***************************************************************************)
EXTENDS LocalLifecycle, TLAPS

-----------------------------------------------------------------------------
(* The journal *)

(* What a step can do to the journal *)

\* What the loop saves next, and what it saves on a failure.
NextPhase(op) == IF op \in DisconnectOps THEN NextDisconnectPhase[journal[op]]
                                         ELSE NextDeletionPhase[journal[op]]

FailureCode(op) == IF op \in DisconnectOps THEN DisconnectFailure[journal[op]]
                                           ELSE DeletionFailure[journal[op]]

\* A row is inserted and its run begins.
InsertStep ==
    \E op \in Ops :
        /\ journal[op] = "absent"
        /\ op \in DisconnectOps => ~DisconnectBlocked(op)
        /\ op \in DeletionOps => Pending = {} /\ op \in receipts
        /\ InsertRow(op)
        /\ StartLoop(op, FirstPhase(op))

\* A stored row is taken up where it stands.
TakeUpStep ==
    \E op \in Ops :
        /\ journal[op] # "absent"
        /\ StartLoop(op, journal[op])
        /\ UNCHANGED <<journal, lastError, latestDeletion>>

\* A run goes on, or ends, without the journal.
MoveStep ==
    \E op \in Ops, s \in Steps :
        /\ step[op] # "idle"
        /\ GoTo(op, s)
        /\ UNCHANGED <<journal, lastError, latestDeletion>>

\* A phase fails, and with it the run.
FailStep == \E op \in Ops : step[op] # "idle" /\ PhaseFailed(op, FailureCode(op))

\* The next phase is saved.
SaveStep == \E op \in Ops : PhaseSaved(op, NextPhase(op))

\* The process ends.
ForgetStep == ForgetRuns /\ UNCHANGED <<journal, lastError, latestDeletion>>

\* The six things, or nothing.
JournalStep ==
    \/ InsertStep \/ TakeUpStep \/ MoveStep \/ FailStep \/ SaveStep \/ ForgetStep
    \/ UNCHANGED journalVars

\* No step takes the receipt of a pending operation.
ReceiptsKept == (receipts \ receipts') \cap Pending' = {}

\* A step of a reauthorization, of a re-protection or of a queued batch.
LateWrite(a) ==
    \/ BeginRenewal(a) \/ RenewalGranted(a) \/ RenewalFails(a) \/ RenewalStored(a)
    \/ BeginReprotection(a) \/ Reprotected(a)
    \/ QueueRetry(a) \/ RetryRuns(a)

\* Every step is one of these, and keeps the receipts of pending work.
LEMMA StepsAreJournalSteps ==
    ASSUME TypeOK, [Next]_vars
    PROVE  JournalStep /\ ReceiptsKept
<1> USE OpsAssumption DEF JournalStep, journalVars, deletionVars, Ops, Steps,
       ReceiptsKept
<1>1. CASE BootReady BY <1>1 DEF BootReady, CleanupExpired, Pending
<1>2. CASE BootRecovering
  BY <1>2
    DEF BootRecovering, ResumeDeletion, TakeUpStep, TypeOK, JournalTypeOK
<1>3. CASE BootDeleted BY <1>3 DEF BootDeleted, CleanupExpired, Pending
<1>4. CASE RecoveryFailed BY <1>4 DEF RecoveryFailed
<1>5. CASE Quit BY <1>5 DEF Quit, ForgetStep
<1>6. ASSUME NEW a \in Accounts,
             StoreCredential(a) \/ StoreAccountState(a) \/ ActivateLive(a) \/ SyncCommit(a)
      PROVE  JournalStep /\ ReceiptsKept
  BY <1>6 DEF StoreCredential, StoreAccountState, ActivateLive, SyncCommit
<1>16. ASSUME NEW a \in Accounts, LateWrite(a)
      PROVE  JournalStep /\ ReceiptsKept
  BY <1>16
    DEF LateWrite, BeginRenewal, RenewalGranted, RenewalFails, RenewalStored,
        BeginReprotection, Reprotected, QueueRetry, RetryRuns, LateCredential
<1>7. ASSUME NEW op \in Ops, Expire(op) PROVE JournalStep /\ ReceiptsKept
  BY <1>7 DEF Expire
<1>8. ASSUME NEW op \in DisconnectOps,
             \/ PrepareDisconnect(op) \/ ExecuteDisconnect(op)
             \/ DisconnectRefused(op) \/ ForgetDisconnectChallenge(op)
      PROVE  JournalStep /\ ReceiptsKept
  BY <1>8
    DEF PrepareDisconnect, ExecuteDisconnect, DisconnectRefused,
        ForgetDisconnectChallenge
<1>9. ASSUME NEW op \in DisconnectOps, StartDisconnect(op) \/ RollbackConnection(op)
      PROVE  JournalStep /\ ReceiptsKept
  BY <1>9
    DEF StartDisconnect, RollbackConnection, Disconnect, TakeUpStep,
        InsertStep
<1>10. ASSUME NEW op \in DisconnectOps,
              RunDisconnect(op)
       PROVE  JournalStep /\ ReceiptsKept
  BY <1>10
    DEF RunDisconnect, DisconnectStep, PerformAccountDataRemoval,
        DisconnectPerform, DisconnectPerformFails, DisconnectSave,
        DisconnectSaveFails, LastEffect, PhasePerformed, PhaseSaveFailed,
        MoveStep, FailStep, SaveStep, NextPhase, FailureCode, PhaseSaved
<1>11. ASSUME NEW op \in DeletionOps,
              PrepareDeletion(op) \/ ConfirmDeletion(op) \/ DeletionRefused(op)
       PROVE  JournalStep /\ ReceiptsKept
  BY <1>11 DEF PrepareDeletion, ConfirmDeletion, DeletionRefused
<1>12. ASSUME NEW op \in DeletionOps,
              StartDeletion(op)
       PROVE  JournalStep /\ ReceiptsKept
  BY <1>12
    DEF StartDeletion, DeleteExisting, DeleteNew, TakeUpStep, InsertStep
<1>13. ASSUME NEW op \in DeletionOps, RunDeletion(op) \/ FinishDeletion(op)
       PROVE  JournalStep /\ ReceiptsKept
  BY <1>13
    DEF RunDeletion, FinishDeletion, DeletionPerform, DeletionPerformFails,
        DeletionSave, DeletionSaveFails, DeletionAborted, DeletionEffect,
        PhasePerformed, PhaseSaveFailed, MoveStep, FailStep, SaveStep,
        NextPhase, FailureCode, PhaseSaved
<1>14. CASE UNCHANGED vars BY <1>14 DEF vars
<1>15. QED
  BY <1>1, <1>2, <1>3, <1>4, <1>5, <1>6, <1>7, <1>8, <1>9, <1>10, <1>11,
     <1>12, <1>13, <1>14, <1>16
    DEF Next, Boot, LateWrite

-----------------------------------------------------------------------------
(* The inductive invariant *)

\* Only a pending operation runs.
RunningIsPending == Running \subseteq Pending

\* The latest deletion row is remembered, and only it can be pending.
LatestDeletionIsKnown ==
    /\ latestDeletion = NoOp => \A x \in DeletionOps : journal[x] = "absent"
    /\ latestDeletion # NoOp => journal[latestDeletion] # "absent"
    /\ \A x \in DeletionOps \cap Pending : x = latestDeletion

\* The invariant of the journal.
JournalInv ==
    /\ JournalTypeOK
    /\ RunningIsPending
    /\ PendingWorkExcludesOverlap
    /\ LatestDeletionIsKnown
    /\ ErrorBelongsToPhase
    /\ PendingDeletionKeepsReceipt

\* The phase tables stay among the phases and codes of the type of the row.
LEMMA NextPhaseType ==
    ASSUME JournalTypeOK, NEW op \in Pending
    PROVE  /\ NextPhase(op) \in PhasesOf(op)
           /\ FailureCode(op) \in LifecycleFailureCode
<1>1. CASE op \in DisconnectOps
  <2>1. journal[op] \in DisconnectPhase \ {"completed"}
    BY <1>1 DEF JournalTypeOK, Pending, PhasesOf
  <2>2. QED
    BY <1>1, <2>1
      DEF NextPhase, FailureCode, PhasesOf, NextDisconnectPhase,
          DisconnectFailure, DisconnectPhase, LifecycleFailureCode
<1>2. CASE op \in DeletionOps
  <2>1. op \notin DisconnectOps BY <1>2, OpsAssumption
  <2>2. journal[op] \in DeleteLocalDataPhase \ {"completed"}
    BY <1>2, <2>1 DEF JournalTypeOK, Pending, PhasesOf, Ops
  <2>3. QED
    BY <2>1, <2>2
      DEF NextPhase, FailureCode, PhasesOf, NextDeletionPhase,
          DeletionFailure, DeleteLocalDataPhase, LifecycleFailureCode
<1>3. QED BY <1>1, <1>2 DEF Pending, Ops

\* A row never returns to "absent", nor begins completed.
LEMMA NoPhaseIsAbsent ==
    ASSUME NEW op \in Ops
    PROVE  /\ "absent" \notin PhasesOf(op)
           /\ FirstPhase(op) \in PhasesOf(op) \ {"completed"}
           /\ PhasesOf(op) \subseteq DisconnectPhase \cup DeleteLocalDataPhase
  BY DEF PhasesOf, FirstPhase, DisconnectPhase, DeleteLocalDataPhase

\* The six things preserve the invariant.
LEMMA JournalInvIsPreserved ==
    ASSUME JournalInv, JournalStep, ReceiptsKept
    PROVE  JournalInv'
<1> USE OpsAssumption DEF JournalInv, Ops, Pending, Running
<1>1. CASE InsertStep
  <2>1. PICK op \in Ops :
           /\ journal[op] = "absent"
           /\ op \in DisconnectOps => ~DisconnectBlocked(op)
           /\ op \in DeletionOps => Pending = {} /\ op \in receipts
           /\ InsertRow(op)
           /\ StartLoop(op, FirstPhase(op))
    BY <1>1 DEF InsertStep
  <2>2. FirstPhase(op) \in PhasesOf(op) \ {"completed", "absent"}
    BY NoPhaseIsAbsent
  <2>3. /\ journal' = [journal EXCEPT ![op] = FirstPhase(op)]
        /\ lastError' = [lastError EXCEPT ![op] = "none"]
        /\ step' = [step EXCEPT ![op] = "perform"]
        /\ latestDeletion' = IF op \in DeletionOps THEN op ELSE latestDeletion
    BY <2>1, <2>2 DEF InsertRow, SavePhase, StartLoop, GoTo
  <2>4. JournalTypeOK'
    BY <2>2, <2>3, NoPhaseIsAbsent DEF JournalTypeOK, Steps, PhasesOf
  <2>5. RunningIsPending'
    BY <2>2, <2>3 DEF JournalTypeOK, RunningIsPending
  <2>6. PendingWorkExcludesOverlap'
    BY <2>1, <2>2, <2>3
      DEF JournalTypeOK, PendingWorkExcludesOverlap, DisconnectBlocked
  <2>7. LatestDeletionIsKnown'
    BY <2>1, <2>2, <2>3
      DEF JournalTypeOK, LatestDeletionIsKnown, DisconnectBlocked
  <2>8. ErrorBelongsToPhase'
    BY <2>1, <2>2, <2>3 DEF JournalTypeOK, ErrorBelongsToPhase
  <2>9. PendingDeletionKeepsReceipt'
    BY <2>1, <2>2, <2>3
      DEF JournalTypeOK, PendingDeletionKeepsReceipt, ReceiptsKept
  <2>10. QED BY <2>4, <2>5, <2>6, <2>7, <2>8, <2>9
<1>2. CASE UNCHANGED <<journal, lastError, latestDeletion>> /\
           (TakeUpStep \/ MoveStep \/ ForgetStep \/ UNCHANGED journalVars)
  <2>1. JournalTypeOK' /\ RunningIsPending'
    BY <1>2
      DEF JournalTypeOK, RunningIsPending, TakeUpStep, MoveStep, ForgetStep,
          ForgetRuns, StartLoop, GoTo, Steps, journalVars
  <2>2. /\ PendingWorkExcludesOverlap' /\ LatestDeletionIsKnown'
        /\ ErrorBelongsToPhase' /\ PendingDeletionKeepsReceipt'
    BY <1>2
      DEF PendingWorkExcludesOverlap, LatestDeletionIsKnown,
          ErrorBelongsToPhase, PendingDeletionKeepsReceipt, ReceiptsKept
  <2>3. QED BY <2>1, <2>2
<1>3. CASE FailStep
  <2>1. PICK op \in Ops : step[op] # "idle" /\ PhaseFailed(op, FailureCode(op))
    BY <1>3 DEF FailStep
  <2>2. op \in Pending /\ FailureCode(op) \in LifecycleFailureCode
    BY <2>1, NextPhaseType DEF RunningIsPending
  <2>3. /\ UNCHANGED <<journal, latestDeletion>>
        /\ step' = [step EXCEPT ![op] = "idle"]
        /\ \/ lastError' = [lastError EXCEPT ![op] = FailureCode(op)]
           \/ UNCHANGED lastError
    BY <2>1 DEF PhaseFailed, SaveFailureCode, GoTo
  <2>4. JournalTypeOK' BY <2>2, <2>3 DEF JournalTypeOK, Steps
  <2>5. RunningIsPending' BY <2>3 DEF RunningIsPending, JournalTypeOK
  <2>6. ErrorBelongsToPhase'
    BY <2>2, <2>3 DEF ErrorBelongsToPhase, FailureCode, JournalTypeOK
  <2>7. PendingWorkExcludesOverlap' /\ LatestDeletionIsKnown' /\ PendingDeletionKeepsReceipt'
    BY <2>3
      DEF PendingWorkExcludesOverlap, LatestDeletionIsKnown,
          PendingDeletionKeepsReceipt, ReceiptsKept
  <2>8. QED BY <2>4, <2>5, <2>6, <2>7
<1>4. CASE SaveStep
  <2>1. PICK op \in Ops : PhaseSaved(op, NextPhase(op))
    BY <1>4 DEF SaveStep
  <2>2. op \in Pending /\ NextPhase(op) \in PhasesOf(op) \ {"absent"}
    BY <2>1, NextPhaseType, NoPhaseIsAbsent DEF RunningIsPending, PhaseSaved
  <2>3. /\ journal' = [journal EXCEPT ![op] = NextPhase(op)]
        /\ lastError' = [lastError EXCEPT ![op] = "none"]
        /\ step' = [step EXCEPT ![op] =
                       IF NextPhase(op) = "completed" THEN "idle" ELSE "perform"]
        /\ UNCHANGED latestDeletion
    BY <2>1 DEF PhaseSaved, SavePhase, StartLoop, GoTo
  <2>4. JournalTypeOK'
    BY <2>2, <2>3, NoPhaseIsAbsent DEF JournalTypeOK, Steps, PhasesOf
  <2>5. RunningIsPending' BY <2>2, <2>3 DEF RunningIsPending, JournalTypeOK
  <2>6. ErrorBelongsToPhase'
    BY <2>2, <2>3 DEF ErrorBelongsToPhase, JournalTypeOK
  <2>7. PendingWorkExcludesOverlap' /\ LatestDeletionIsKnown' /\ PendingDeletionKeepsReceipt'
    BY <2>2, <2>3
      DEF PendingWorkExcludesOverlap, LatestDeletionIsKnown,
          PendingDeletionKeepsReceipt, ReceiptsKept, JournalTypeOK
  <2>8. QED BY <2>4, <2>5, <2>6, <2>7
<1>5. QED
  BY <1>1, <1>2, <1>3, <1>4
    DEF JournalStep, TakeUpStep, MoveStep, ForgetStep, journalVars

-----------------------------------------------------------------------------
(* Types of the other variables *)

\* The conjuncts of TypeOK about these variables.
MemoryTypeOK ==
    /\ keyHeld \in BOOLEAN
    /\ receipts \subseteq DeletionOps
    /\ expired \subseteq Ops
    /\ mode \in {"closed", "recovering", "ready", "erased", "deleted"}
    /\ born \subseteq Accounts
    /\ connecting \subseteq Accounts
    /\ challenges \subseteq Ops
    /\ executing \subseteq Ops
    /\ scope \in [DeletionOps -> SUBSET Accounts]
    /\ renewing \cup storing \cup reprotecting \cup retries \subseteq Accounts

\* The type of the history.
ReturnedTypeOK == returned \subseteq (LocalStoreNames \cup {"grants"}) \X Accounts

\* Stores hold accounts only.
LEMMA StoresTypeIsPreserved ==
    ASSUME StoresTypeOK, TypeOK, [Next]_vars
    PROVE  StoresTypeOK'
<1> USE OpsAssumption, SamplesAssumption DEF StoresTypeOK, storeVars
<1>1. CASE Boot \/ Quit
  BY <1>1
    DEF Boot, BootReady, BootRecovering, BootDeleted, RecoveryFailed, Quit,
        ResumeDeletion
<1>2. ASSUME NEW a \in Accounts,
             StoreCredential(a) \/ StoreAccountState(a) \/ ActivateLive(a) \/ SyncCommit(a)
      PROVE  StoresTypeOK'
  BY <1>2
    DEF StoreCredential, StoreAccountState, ActivateLive, SyncCommit,
        DeleteCredential, Sanitize
<1>10. ASSUME NEW a \in Accounts, LateWrite(a) PROVE StoresTypeOK'
  BY <1>10
    DEF LateWrite, BeginRenewal, RenewalGranted, RenewalFails, RenewalStored,
        BeginReprotection, Reprotected, QueueRetry, RetryRuns, LateCredential
<1>3. ASSUME NEW op \in Ops, Expire(op) PROVE StoresTypeOK'
  BY <1>3 DEF Expire
<1>4. ASSUME NEW op \in DisconnectOps,
             \/ PrepareDisconnect(op) \/ ExecuteDisconnect(op) \/ StartDisconnect(op)
             \/ DisconnectRefused(op) \/ ForgetDisconnectChallenge(op) \/ RollbackConnection(op)
      PROVE  StoresTypeOK'
  BY <1>4
    DEF PrepareDisconnect, ExecuteDisconnect, StartDisconnect,
        DisconnectRefused, ForgetDisconnectChallenge, RollbackConnection,
        Disconnect
<1>5. ASSUME NEW op \in DisconnectOps, RunDisconnect(op) PROVE StoresTypeOK'
  BY <1>5
    DEF RunDisconnect, DisconnectStep, PerformAccountDataRemoval,
        DisconnectPerform, DisconnectPerformFails, DisconnectSave,
        DisconnectSaveFails, LastEffect, PerformRevocation,
        PerformCredentialDelete, PerformAccountStateDelete, PerformCompaction,
        PerformProviderMailDelete, Revoke, DeleteCredential,
        DeleteAccountState, RemoveAccountData, DeleteProviderMail, Sanitize
<1>6. ASSUME NEW op \in DeletionOps,
             \/ PrepareDeletion(op) \/ ConfirmDeletion(op) \/ StartDeletion(op) \/ DeletionRefused(op)
      PROVE  StoresTypeOK'
  BY <1>6
    DEF PrepareDeletion, ConfirmDeletion, StartDeletion, DeletionRefused,
        DeleteExisting, DeleteNew
<1>7. ASSUME NEW op \in DeletionOps,
             RunDeletion(op) \/ FinishDeletion(op)
      PROVE  StoresTypeOK'
  BY <1>7
    DEF RunDeletion, FinishDeletion, DeletionPerform, DeletionPerformFails,
        DeletionSave, DeletionSaveFails, DeletionAborted, DeletionEffect,
        PartialEraseDataKey, PerformCredentialsDelete,
        PerformAllAccountStateDelete, PerformMailDelete, PerformSanitize,
        PerformEraseDataKey, DeleteGoogleRefreshTokens, DeleteAllAccountState,
        DeleteAllMail, Sanitize, DeleteDataKey
<1>8. CASE UNCHANGED vars BY <1>8 DEF vars
<1>9. QED
  BY <1>1, <1>2, <1>3, <1>4, <1>5, <1>6, <1>7, <1>8, <1>10 DEF Next, LateWrite

\* What the process and the confirmations hold keeps its type.
LEMMA MemoryTypeIsPreserved ==
    ASSUME MemoryTypeOK, TypeOK, [Next]_vars
    PROVE  MemoryTypeOK'
<1> USE OpsAssumption, SamplesAssumption DEF MemoryTypeOK, deletionVars,
       memoryVars, runVars, lateVars, Ops
<1>1. CASE Boot \/ Quit
  BY <1>1
    DEF Boot, BootReady, BootRecovering, BootDeleted, RecoveryFailed, Quit,
        CleanupExpired
<1>2. ASSUME NEW a \in Accounts,
             StoreCredential(a) \/ StoreAccountState(a) \/ ActivateLive(a) \/ SyncCommit(a)
      PROVE  MemoryTypeOK'
  BY <1>2 DEF StoreCredential, StoreAccountState, ActivateLive, SyncCommit
<1>10. ASSUME NEW a \in Accounts, LateWrite(a) PROVE MemoryTypeOK'
  BY <1>10
    DEF LateWrite, BeginRenewal, RenewalGranted, RenewalFails, RenewalStored,
        BeginReprotection, Reprotected, QueueRetry, RetryRuns, LateCredential
<1>3. ASSUME NEW op \in Ops, Expire(op) PROVE MemoryTypeOK'
  BY <1>3 DEF Expire
<1>4. ASSUME NEW op \in DisconnectOps,
             \/ PrepareDisconnect(op) \/ ExecuteDisconnect(op) \/ StartDisconnect(op)
             \/ DisconnectRefused(op) \/ ForgetDisconnectChallenge(op) \/ RollbackConnection(op)
      PROVE  MemoryTypeOK'
  BY <1>4
    DEF PrepareDisconnect, ExecuteDisconnect, StartDisconnect,
        DisconnectRefused, ForgetDisconnectChallenge, RollbackConnection
<1>5. ASSUME NEW op \in DisconnectOps, RunDisconnect(op) PROVE MemoryTypeOK'
  BY <1>5 DEF RunDisconnect
<1>6. ASSUME NEW op \in DeletionOps,
             \/ PrepareDeletion(op) \/ ConfirmDeletion(op) \/ StartDeletion(op) \/ DeletionRefused(op)
      PROVE  MemoryTypeOK'
  BY <1>6 DEF PrepareDeletion, ConfirmDeletion, StartDeletion, DeletionRefused
<1>7. ASSUME NEW op \in DeletionOps,
             RunDeletion(op) \/ FinishDeletion(op)
      PROVE  MemoryTypeOK'
  BY <1>7
    DEF RunDeletion, FinishDeletion, DeletionPerform, DeletionPerformFails,
        DeletionSave, DeletionSaveFails, DeletionAborted, DeletionEffect,
        PartialEraseDataKey, PerformCredentialsDelete,
        PerformAllAccountStateDelete, PerformMailDelete, PerformSanitize,
        PerformEraseDataKey
<1>8. CASE UNCHANGED vars BY <1>8 DEF vars
<1>9. QED
  BY <1>1, <1>2, <1>3, <1>4, <1>5, <1>6, <1>7, <1>8, <1>10 DEF Next, LateWrite

\* Only late writes and erasing steps touch the history.
LEMMA ReturnedChanges ==
    ASSUME [Next]_vars
    PROVE  \/ UNCHANGED returned
           \/ KeepReturned
           \/ \E a \in Accounts : \/ RenewalGranted(a) \/ RenewalStored(a)
                                 \/ Reprotected(a) \/ RetryRuns(a)
<1> USE DEF memoryVars, lateVars
<1>1. CASE Boot \/ Quit
  BY <1>1 DEF Boot, BootReady, BootRecovering, BootDeleted, RecoveryFailed, Quit
<1>2. ASSUME NEW a \in Accounts,
             \/ StoreCredential(a) \/ StoreAccountState(a) \/ ActivateLive(a)
             \/ SyncCommit(a) \/ BeginRenewal(a) \/ RenewalFails(a)
             \/ BeginReprotection(a) \/ QueueRetry(a)
      PROVE  UNCHANGED returned
  BY <1>2
    DEF StoreCredential, StoreAccountState, ActivateLive, SyncCommit,
        BeginRenewal, RenewalFails, BeginReprotection, QueueRetry
<1>3. ASSUME NEW op \in Ops, Expire(op) PROVE UNCHANGED returned
  BY <1>3 DEF Expire
<1>4. ASSUME NEW op \in DisconnectOps,
             \/ PrepareDisconnect(op) \/ ExecuteDisconnect(op) \/ StartDisconnect(op)
             \/ DisconnectRefused(op) \/ ForgetDisconnectChallenge(op) \/ RollbackConnection(op)
      PROVE  UNCHANGED returned
  BY <1>4
    DEF PrepareDisconnect, ExecuteDisconnect, StartDisconnect,
        DisconnectRefused, ForgetDisconnectChallenge, RollbackConnection
<1>5. ASSUME NEW op \in DisconnectOps, RunDisconnect(op) PROVE KeepReturned
  BY <1>5 DEF RunDisconnect
<1>6. ASSUME NEW op \in DeletionOps,
             \/ PrepareDeletion(op) \/ ConfirmDeletion(op) \/ StartDeletion(op)
             \/ DeletionRefused(op) \/ FinishDeletion(op)
      PROVE  UNCHANGED returned
  BY <1>6
    DEF PrepareDeletion, ConfirmDeletion, StartDeletion, DeletionRefused, FinishDeletion
<1>7. ASSUME NEW op \in DeletionOps, RunDeletion(op) PROVE KeepReturned
  BY <1>7 DEF RunDeletion
<1>8. CASE UNCHANGED vars BY <1>8 DEF vars
<1>9. QED
  BY <1>1, <1>2, <1>3, <1>4, <1>5, <1>6, <1>7, <1>8 DEF Next, Ops

\* What returns is an account in a store.
LEMMA ReturnedTypeIsPreserved ==
    ASSUME TypeOK, StoresTypeOK', [Next]_vars
    PROVE  ReturnedTypeOK'
<1> USE DEF ReturnedTypeOK, LocalStoreNames
<1>1. ReturnedTypeOK BY DEF TypeOK
<1>2. CASE UNCHANGED returned BY <1>1, <1>2
<1>3. CASE KeepReturned
  <2>1. (Held \cup Granted)' \subseteq (LocalStoreNames \cup {"grants"}) \X Accounts
    BY DEF Held, Granted, StoresTypeOK
  <2>2. QED BY <1>2, <1>3, <2>1 DEF KeepReturned
<1>4. ASSUME NEW a \in Accounts,
             RenewalGranted(a) \/ RenewalStored(a) \/ Reprotected(a) \/ RetryRuns(a)
      PROVE  ReturnedTypeOK'
  BY <1>1, <1>4
    DEF RenewalGranted, RenewalStored, Reprotected, RetryRuns, LateCredential, PutBack
<1>5. QED
  BY <1>2, <1>3, <1>4, ReturnedChanges

-----------------------------------------------------------------------------
(* Theorems *)

\* The initial state satisfies the invariant.
LEMMA InitJournal == Init => JournalInv /\ TypeOK
  BY OpsAssumption, SamplesAssumption
    DEF Init, JournalInit, StoresInit, JournalInv, TypeOK, JournalTypeOK,
        StoresTypeOK, LocalStoreNames, Steps, Ops, Pending, Running, RunningIsPending,
        PendingWorkExcludesOverlap, LatestDeletionIsKnown,
        ErrorBelongsToPhase, PendingDeletionKeepsReceipt

\* Every step preserves it.
LEMMA NextJournal ==
    ASSUME JournalInv, TypeOK, [Next]_vars
    PROVE  (JournalInv /\ TypeOK)'
<1>1. JournalInv' BY StepsAreJournalSteps, JournalInvIsPreserved
<1>2. StoresTypeOK' BY StoresTypeIsPreserved DEF TypeOK
<1>3. MemoryTypeOK' BY MemoryTypeIsPreserved DEF TypeOK, MemoryTypeOK
<1>4. ReturnedTypeOK' BY <1>2, ReturnedTypeIsPreserved
<1>5. QED BY <1>1, <1>2, <1>3, <1>4 DEF JournalInv, TypeOK, MemoryTypeOK, ReturnedTypeOK

\* The invariant of the journal holds in every reachable state.
THEOREM JournalCorrect == Spec => [](JournalInv /\ TypeOK)
<1>1. Init => JournalInv /\ TypeOK BY InitJournal
<1>2. JournalInv /\ TypeOK /\ [Next]_vars => (JournalInv /\ TypeOK)'
  BY NextJournal
<1>3. QED BY <1>1, <1>2, PTL DEF Spec

\* Every variable has its type, for any accounts and any operations.
THEOREM TypeCorrect == Spec => []TypeOK
<1>1. JournalInv /\ TypeOK => TypeOK OBVIOUS
<1>2. QED BY JournalCorrect, <1>1, PTL

\* A pending deletion is alone in the journal, and pending disconnects are of
\* different accounts, whatever fails or crashes in between.
THEOREM OverlapExcluded == Spec => []PendingWorkExcludesOverlap
<1>1. JournalInv => PendingWorkExcludesOverlap BY DEF JournalInv
<1>2. QED BY JournalCorrect, <1>1, PTL

\* The failure code beside a phase is one of that phase.
THEOREM ErrorsBelong == Spec => []ErrorBelongsToPhase
<1>1. JournalInv => ErrorBelongsToPhase BY DEF JournalInv
<1>2. QED BY JournalCorrect, <1>1, PTL

\* The command can retry a pending deletion: its receipt is there.
THEOREM ReceiptKept == Spec => []PendingDeletionKeepsReceipt
<1>1. JournalInv => PendingDeletionKeepsReceipt BY DEF JournalInv
<1>2. QED BY JournalCorrect, <1>1, PTL

-----------------------------------------------------------------------------
(* The stores *)

\* a has left the store, unless a late write has put it back: a \notin Original,
\* without the set.
Gone(store, accounts, a) == a \in accounts => <<store, a>> \in returned

\* Stores and operations know only accounts whose ids were drawn; fixture
\* accounts are never connected; an account that is being connected has no
\* state and no operation yet.
AccountsAreBorn ==
    /\ SampleAccounts \subseteq born
    /\ sampleMail \subseteq SampleAccounts
    /\ grants \cup credentials \cup accountState \cup connecting \cup providerMail
         \subseteq born \ SampleAccounts
    /\ connecting \cap accountState = {}
    /\ \A op \in DisconnectOps :
         journal[op] # "absent" \/ op \in challenges \cup executing
           => AccountOf[op] \in born \ (connecting \cup SampleAccounts)
    /\ renewing \cup storing \cup reprotecting \cup retries
         \subseteq born \ (connecting \cup SampleAccounts)
    /\ \A x \in DeletionOps : scope[x] \subseteq born \ connecting

\* A completed deletion ends the ready mode; operations run only in the modes
\* that start them; until there is a deletion row, the ready process holds the
\* key, the vault holds it too, and every grant has its credential.
ModeIsConsistent ==
    /\ (\E x \in DeletionOps : journal[x] = "completed") => mode # "ready"
    /\ mode = "erased" => \E x \in DeletionOps : journal[x] = "completed"
    /\ mode = "recovering" => latestDeletion # NoOp /\ Running \subseteq {latestDeletion}
    /\ mode \in {"closed", "deleted"} => Running = {}
    /\ Running \cap DisconnectOps # {} => mode = "ready"
    /\ connecting \cup executing # {} => mode \in {"ready", "erased"}
    /\ mode = "ready" /\ latestDeletion = NoOp => keyHeld
    /\ latestDeletion = NoOp /\ keyHeld => dataKey
    /\ latestDeletion = NoOp =>
         \A a \in grants : a \in credentials \/ <<"grants", a>> \in returned

\* The phase is left, or its effect is done and only the save is missing.
Left(op, earlier, phase) ==
    \/ Beyond(op, earlier \cup {phase})
    \/ step[op] = "save" /\ journal[op] = phase

\* What a disconnect has removed of its account.
DisconnectInv ==
    \A op \in DisconnectOps :
        LET a  == AccountOf[op]
            P1 == {"revocation-pending"}
            P2 == P1 \cup {"credential-delete-pending"}
            P3 == P2 \cup {"account-state-delete-pending"}
            P4 == P3 \cup {"mail-data-delete-pending"}
        IN /\ Left(op, {}, "revocation-pending") => Gone("grants", grants, a)
           /\ Left(op, P1, "credential-delete-pending")
                => Gone("credentials", credentials, a)
           /\ Left(op, P2, "account-state-delete-pending")
                => Gone("accountState", accountState, a)
           /\ Left(op, P3, "mail-data-delete-pending")
                => Gone("providerMail", providerMail, a)
           /\ Left(op, P4, "compaction-pending") => Gone("residue", residue, a)
           /\ step[op] = "half" => journal[op] = "mail-data-delete-pending"

\* What a deletion has removed; the mail phase empties its stores for good.
DeletionInv ==
    \A op \in DeletionOps :
        LET S  == scope[op]
            P1 == {"credentials-delete-pending"}
            P2 == P1 \cup {"account-state-delete-pending"}
            P3 == P2 \cup {"mail-data-delete-pending"}
            P4 == P3 \cup {"compaction-pending"}
        IN /\ Left(op, {}, "credentials-delete-pending")
                => \A a \in S : Gone("credentials", credentials, a)
           /\ Left(op, P1, "account-state-delete-pending")
                => \A a \in S : Gone("accountState", accountState, a)
           /\ Left(op, P2, "mail-data-delete-pending") =>
                 sampleMail = {} /\ providerMail = {} /\ mailMode = "none"
           /\ Left(op, P3, "compaction-pending")
                => \A a \in S : Gone("residue", residue, a)
           /\ Left(op, P4, "data-key-delete-pending") => ~dataKey /\ ~keyHeld
           /\ step[op] # "half"

\* Until a deletion is completed, ciphertext of promised accounts has its key.
KeyInv ==
    (\A x \in DeletionOps : journal[x] # "completed") /\ ~dataKey =>
      \A a \in Accounts : latestDeletion = NoOp \/ a \in scope[latestDeletion] =>
        a \notin sampleMail \cup providerMail /\ Gone("accountState", accountState, a)

\* The parts together.
ErasedInv == AccountsAreBorn /\ ModeIsConsistent /\ DisconnectInv /\ DeletionInv

ErasureInv == ErasedInv /\ KeyInv

-----------------------------------------------------------------------------
\* The phase tables, as equalities.
LEMMA DisconnectTable ==
    /\ NextDisconnectPhase["revocation-pending"] = "credential-delete-pending"
    /\ NextDisconnectPhase["credential-delete-pending"] = "account-state-delete-pending"
    /\ NextDisconnectPhase["account-state-delete-pending"] = "mail-data-delete-pending"
    /\ NextDisconnectPhase["mail-data-delete-pending"] = "compaction-pending"
    /\ NextDisconnectPhase["compaction-pending"] = "completed"
  BY DEF NextDisconnectPhase, DisconnectPhase

\* The phases of a deletion.
LEMMA DeletionTable ==
    /\ NextDeletionPhase["credentials-delete-pending"] = "account-state-delete-pending"
    /\ NextDeletionPhase["account-state-delete-pending"] = "mail-data-delete-pending"
    /\ NextDeletionPhase["mail-data-delete-pending"] = "compaction-pending"
    /\ NextDeletionPhase["compaction-pending"] = "data-key-delete-pending"
    /\ NextDeletionPhase["data-key-delete-pending"] = "completed"
  BY DEF NextDeletionPhase, DeleteLocalDataPhase

\* A connected account is in both stores, with a record of its own.
LEMMA ConnectedMeans ==
    \A a : Connected(a) => /\ a \in credentials
                           /\ a \in accountState
                           /\ <<"accountState", a>> \notin returned
  BY DEF Connected, Original

\* An erasing step forgets nothing that is still stored, and remembers of what
\* it erases that it is in the free pages.
LEMMA KeepsReturned ==
    ASSUME KeepReturned
    PROVE  /\ \A a \in grants' : <<"grants", a>> \in returned => <<"grants", a>> \in returned'
           /\ \A a \in credentials' :
                <<"credentials", a>> \in returned => <<"credentials", a>> \in returned'
           /\ \A a \in accountState' :
                <<"accountState", a>> \in returned => <<"accountState", a>> \in returned'
           /\ \A a \in providerMail' :
                <<"providerMail", a>> \in returned => <<"providerMail", a>> \in returned'
           /\ \A a \in residue' : <<"residue", a>> \in returned => <<"residue", a>> \in returned'
           /\ \A a \in residue' :
                /\ a \in credentials \ credentials' /\ <<"credentials", a>> \in returned
                     => <<"residue", a>> \in returned'
                /\ a \in accountState \ accountState' /\ <<"accountState", a>> \in returned
                     => <<"residue", a>> \in returned'
                /\ a \in providerMail \ providerMail' /\ <<"providerMail", a>> \in returned
                     => <<"residue", a>> \in returned'
<1>1. CASE UNCHANGED storeVars
  BY <1>1 DEF KeepReturned, storeVars
<1>2. CASE ~UNCHANGED storeVars
  <2> DEFINE erased == (returned \cap Held) \ Held'
  <2>1. returned' = (returned \cup {<<"residue", p[2]>> : p \in erased}) \cap (Held \cup Granted)'
    BY <1>2 DEF KeepReturned
  <2>2. \A st, a : <<st, a>> \in returned /\ <<st, a>> \in Held' \cup Granted'
                     => <<st, a>> \in returned'
    BY <2>1
  <2>3. \A st, a : <<st, a>> \in erased /\ <<"residue", a>> \in Held'
                     => <<"residue", a>> \in returned'
    BY <2>1
  <2>4. \A a : /\ (<<"credentials", a>> \in Held) = (a \in credentials)
               /\ (<<"accountState", a>> \in Held) = (a \in accountState)
               /\ (<<"providerMail", a>> \in Held) = (a \in providerMail)
               /\ (<<"residue", a>> \in Held) = (a \in residue)
    BY DEF Held
  <2>5. \A a : /\ (<<"credentials", a>> \in Held') = (a \in credentials')
               /\ (<<"accountState", a>> \in Held') = (a \in accountState')
               /\ (<<"providerMail", a>> \in Held') = (a \in providerMail')
               /\ (<<"residue", a>> \in Held') = (a \in residue')
               /\ a \in grants' => <<"grants", a>> \in Granted'
    BY DEF Held, Granted
  <2>6. QED BY <2>2, <2>3, <2>4, <2>5
<1>3. QED BY <1>1, <1>2

\* A connected account is none of the accounts that are being connected.
LEMMA ConnectedIsBorn ==
    ASSUME AccountsAreBorn
    PROVE  \A a : Connected(a) => a \in born \ (connecting \cup SampleAccounts)
  BY ConnectedMeans DEF AccountsAreBorn

-----------------------------------------------------------------------------
(* How a phase comes to be left *)

\* What a step does to one row: nothing, its insertion, or the save of the
\* phase whose effect is done.
LEMMA RowStep ==
    ASSUME JournalInv, JournalStep, NEW op \in Ops
    PROVE  \/ journal'[op] = journal[op]
           \/ /\ journal[op] = "absent"
              /\ journal'[op] = FirstPhase(op)
              /\ step'[op] = "perform"
           \/ /\ step[op] = "save"
              /\ op \in Pending
              /\ journal'[op] = NextPhase(op)
              /\ step'[op] # "save"
<1> USE DEF JournalInv, JournalTypeOK
<1>1. CASE InsertStep
  <2>1. PICK x \in Ops : journal[x] = "absent" /\ InsertRow(x) /\ StartLoop(x, FirstPhase(x))
    BY <1>1 DEF InsertStep
  <2>2. QED BY <2>1 DEF InsertRow, SavePhase, StartLoop, GoTo, FirstPhase
<1>2. CASE FailStep
  BY <1>2 DEF FailStep, PhaseFailed, SaveFailureCode
<1>3. CASE SaveStep
  <2>1. PICK x \in Ops : PhaseSaved(x, NextPhase(x)) BY <1>3 DEF SaveStep
  <2>2. CASE x = op
    <3>1. op \in Pending BY <2>1, <2>2 DEF PhaseSaved, RunningIsPending, Running
    <3>2. QED
      BY <2>1, <2>2, <3>1 DEF PhaseSaved, SavePhase, StartLoop, GoTo
  <2>3. CASE x # op BY <2>1, <2>3 DEF PhaseSaved, SavePhase
  <2>4. QED BY <2>2, <2>3
<1>4. CASE TakeUpStep \/ MoveStep \/ ForgetStep \/ UNCHANGED journalVars
  BY <1>4 DEF TakeUpStep, MoveStep, ForgetStep, journalVars
<1>5. QED BY <1>1, <1>2, <1>3, <1>4 DEF JournalStep

\* The step carries out the effect of the phase.
Due(op, phase) == journal[op] = phase /\ step[op] # "save" /\ step'[op] = "save"

\* A phase of a disconnect that is left has been left before, or its effect is
\* carried out by this step.
LEMMA DisconnectLeaves ==
    ASSUME JournalInv, JournalStep, NEW op \in DisconnectOps,
           NEW P1, P1 = {"revocation-pending"},
           NEW P2, P2 = P1 \cup {"credential-delete-pending"},
           NEW P3, P3 = P2 \cup {"account-state-delete-pending"},
           NEW P4, P4 = P3 \cup {"mail-data-delete-pending"}
    PROVE  /\ Left(op, {}, "revocation-pending")'
                => Left(op, {}, "revocation-pending") \/ Due(op, "revocation-pending")
           /\ Left(op, P1, "credential-delete-pending")'
                => \/ Left(op, P1, "credential-delete-pending")
                   \/ Due(op, "credential-delete-pending")
           /\ Left(op, P2, "account-state-delete-pending")'
                => \/ Left(op, P2, "account-state-delete-pending")
                   \/ Due(op, "account-state-delete-pending")
           /\ Left(op, P3, "mail-data-delete-pending")'
                => \/ Left(op, P3, "mail-data-delete-pending")
                   \/ Due(op, "mail-data-delete-pending")
           /\ Left(op, P4, "compaction-pending")'
                => Left(op, P4, "compaction-pending") \/ Due(op, "compaction-pending")
<1>1. CASE journal'[op] = journal[op] BY <1>1 DEF Left, Beyond, Due
<1>2. CASE journal'[op] = FirstPhase(op) /\ step'[op] = "perform"
  BY <1>2 DEF Left, Beyond, FirstPhase
<1>3. CASE /\ step[op] = "save" /\ step'[op] # "save"
           /\ op \in Pending /\ journal'[op] = NextPhase(op)
  <2>1. journal[op] \in DisconnectPhase \ {"completed"}
    BY <1>3 DEF JournalInv, JournalTypeOK, Pending, PhasesOf
  <2>2. QED
    BY <1>3, <2>1, DisconnectTable DEF NextPhase, DisconnectPhase, Left, Beyond
<1>4. QED BY <1>1, <1>2, <1>3, RowStep DEF Ops

\* The same for a deletion.
LEMMA DeletionLeaves ==
    ASSUME JournalInv, JournalStep, NEW op \in DeletionOps,
           NEW P1, P1 = {"credentials-delete-pending"},
           NEW P2, P2 = P1 \cup {"account-state-delete-pending"},
           NEW P3, P3 = P2 \cup {"mail-data-delete-pending"},
           NEW P4, P4 = P3 \cup {"compaction-pending"}
    PROVE  /\ Left(op, {}, "credentials-delete-pending")'
                => \/ Left(op, {}, "credentials-delete-pending")
                   \/ Due(op, "credentials-delete-pending")
           /\ Left(op, P1, "account-state-delete-pending")'
                => \/ Left(op, P1, "account-state-delete-pending")
                   \/ Due(op, "account-state-delete-pending")
           /\ Left(op, P2, "mail-data-delete-pending")'
                => \/ Left(op, P2, "mail-data-delete-pending")
                   \/ Due(op, "mail-data-delete-pending")
           /\ Left(op, P3, "compaction-pending")'
                => Left(op, P3, "compaction-pending") \/ Due(op, "compaction-pending")
           /\ Left(op, P4, "data-key-delete-pending")'
                => \/ Left(op, P4, "data-key-delete-pending")
                   \/ Due(op, "data-key-delete-pending")
<1>a. op \in Ops /\ op \notin DisconnectOps BY OpsAssumption DEF Ops
<1>1. CASE journal'[op] = journal[op] BY <1>1 DEF Left, Beyond, Due
<1>2. CASE journal'[op] = FirstPhase(op) /\ step'[op] = "perform"
  BY <1>a, <1>2 DEF Left, Beyond, FirstPhase
<1>3. CASE /\ step[op] = "save" /\ step'[op] # "save"
           /\ op \in Pending /\ journal'[op] = NextPhase(op)
  <2>1. journal[op] \in DeleteLocalDataPhase \ {"completed"}
    BY <1>a, <1>3 DEF JournalInv, JournalTypeOK, Pending, PhasesOf
  <2>2. QED
    BY <1>a, <1>3, <2>1, DeletionTable
      DEF NextPhase, DeleteLocalDataPhase, Left, Beyond
<1>4. QED BY <1>a, <1>1, <1>2, <1>3, RowStep

\* Only the step of an operation itself carries out an effect of it.
LEMMA EffectIsPerformed ==
    ASSUME JournalInv, [Next]_vars, NEW op \in Ops, step'[op] # step[op],
           step'[op] \in {"save", "half"}
    PROVE  \/ /\ op \in DisconnectOps
              /\ RunDisconnect(op)
              /\ \/ step'[op] = "save" /\ DisconnectPerform(op)
                 \/ step'[op] = "half" /\ PerformAccountDataRemoval(op)
           \/ /\ op \in DeletionOps
              /\ RunDeletion(op)
              /\ step'[op] = "save"
              /\ DeletionPerform(op)
<1> USE DEF journalVars, JournalInv, JournalTypeOK
<1>1. CASE Boot \/ Quit
  BY <1>1
    DEF Boot, BootReady, BootRecovering, BootDeleted, RecoveryFailed, Quit,
        ResumeDeletion, StartLoop, GoTo, ForgetRuns
<1>2. ASSUME NEW a \in Accounts,
             \/ StoreCredential(a) \/ StoreAccountState(a) \/ ActivateLive(a)
             \/ SyncCommit(a) \/ LateWrite(a)
      PROVE  UNCHANGED step
  BY <1>2
    DEF StoreCredential, StoreAccountState, ActivateLive, SyncCommit, LateWrite,
        BeginRenewal, RenewalGranted, RenewalFails, RenewalStored,
        BeginReprotection, Reprotected, QueueRetry, RetryRuns, LateCredential
<1>3. ASSUME NEW x \in Ops, Expire(x) PROVE UNCHANGED step
  BY <1>3 DEF Expire
<1>4. ASSUME NEW x \in DisconnectOps,
             \/ PrepareDisconnect(x) \/ ExecuteDisconnect(x)
             \/ DisconnectRefused(x) \/ ForgetDisconnectChallenge(x)
      PROVE  UNCHANGED step
  BY <1>4
    DEF PrepareDisconnect, ExecuteDisconnect, DisconnectRefused,
        ForgetDisconnectChallenge
<1>5. ASSUME NEW x \in DisconnectOps, StartDisconnect(x) \/ RollbackConnection(x) PROVE FALSE
  BY <1>5 DEF StartDisconnect, RollbackConnection, Disconnect, StartLoop, GoTo
<1>6. ASSUME NEW x \in DisconnectOps, RunDisconnect(x)
      PROVE  /\ x = op
             /\ \/ step'[op] = "save" /\ DisconnectPerform(op)
                \/ step'[op] = "half" /\ PerformAccountDataRemoval(op)
  <2>1. CASE PerformAccountDataRemoval(x)
    BY <2>1 DEF PerformAccountDataRemoval, GoTo
  <2>2. CASE DisconnectPerform(x) BY <2>2 DEF DisconnectPerform, PhasePerformed, GoTo
  <2>3. CASE DisconnectPerformFails(x) BY <2>3 DEF DisconnectPerformFails, PhaseFailed, GoTo
  <2>4. CASE DisconnectSave(x) \/ DisconnectSaveFails(x)
    BY <2>4
      DEF DisconnectSave, DisconnectSaveFails, PhaseSaved, PhaseSaveFailed,
          StartLoop, GoTo
  <2>5. QED BY <1>6, <2>1, <2>2, <2>3, <2>4 DEF RunDisconnect, DisconnectStep
<1>7. ASSUME NEW x \in DeletionOps,
             PrepareDeletion(x) \/ ConfirmDeletion(x) \/ DeletionRefused(x)
      PROVE  UNCHANGED step
  BY <1>7 DEF PrepareDeletion, ConfirmDeletion, DeletionRefused
<1>8. ASSUME NEW x \in DeletionOps, StartDeletion(x) \/ FinishDeletion(x) PROVE FALSE
  BY <1>8
    DEF StartDeletion, DeleteExisting, DeleteNew, FinishDeletion, DeletionSave,
        PhaseSaved, StartLoop, GoTo
<1>9. ASSUME NEW x \in DeletionOps, RunDeletion(x)
      PROVE  x = op /\ step'[op] = "save" /\ DeletionPerform(op)
  <2>1. CASE DeletionPerform(x) BY <2>1 DEF DeletionPerform, PhasePerformed, GoTo
  <2>2. CASE DeletionPerformFails(x) BY <2>2 DEF DeletionPerformFails, PhaseFailed, GoTo
  <2>3. CASE DeletionSave(x) \/ DeletionSaveFails(x) \/ DeletionAborted(x)
    BY <2>3
      DEF DeletionSave, DeletionSaveFails, DeletionAborted, PhaseSaved,
          PhaseSaveFailed, StartLoop, GoTo
  <2>4. QED BY <1>9, <2>1, <2>2, <2>3 DEF RunDeletion
<1>10. CASE UNCHANGED vars BY <1>10 DEF vars
<1>11. QED
  BY <1>1, <1>2, <1>3, <1>4, <1>5, <1>6, <1>7, <1>8, <1>9, <1>10
    DEF Next, LateWrite

-----------------------------------------------------------------------------
(* Why nothing comes back *)

\* What has gone from a store of an account that was completely connected stays
\* away: only late writes add to it, and they are remembered.
LEMMA StoresKeepGone ==
    ASSUME AccountsAreBorn, [Next]_vars, NEW b \in born \ connecting
    PROVE  /\ Gone("grants", grants, b) => Gone("grants", grants, b)'
           /\ Gone("credentials", credentials, b) => Gone("credentials", credentials, b)'
           /\ Gone("accountState", accountState, b) => Gone("accountState", accountState, b)'
           /\ Gone("accountState", accountState, b) /\ Gone("providerMail", providerMail, b)
                => Gone("providerMail", providerMail, b)'
           /\ Gone("credentials", credentials, b) /\ Gone("accountState", accountState, b)
                /\ Gone("providerMail", providerMail, b) /\ Gone("residue", residue, b)
                /\ b \notin sampleMail
                => Gone("residue", residue, b)'
<1> DEFINE G ==
           /\ Gone("grants", grants, b) => Gone("grants", grants, b)'
           /\ Gone("credentials", credentials, b) => Gone("credentials", credentials, b)'
           /\ Gone("accountState", accountState, b) => Gone("accountState", accountState, b)'
           /\ Gone("accountState", accountState, b) /\ Gone("providerMail", providerMail, b)
                => Gone("providerMail", providerMail, b)'
           /\ Gone("credentials", credentials, b) /\ Gone("accountState", accountState, b)
                /\ Gone("providerMail", providerMail, b) /\ Gone("residue", residue, b)
                /\ b \notin sampleMail
                => Gone("residue", residue, b)'
<1> USE DEF Gone, storeVars, memoryVars, lateVars
<1>2. CASE Boot \/ Quit
  BY <1>2
    DEF Boot, BootReady, BootRecovering, BootDeleted, RecoveryFailed, Quit,
        ResumeDeletion
<1>3. ASSUME NEW a \in Accounts, StoreCredential(a) \/ StoreAccountState(a) PROVE G
  BY <1>3 DEF StoreCredential, StoreAccountState, DeleteCredential
<1>4. ASSUME NEW a \in Accounts, ActivateLive(a) PROVE G
  BY <1>4 DEF ActivateLive, Sanitize
<1>5. ASSUME NEW a \in Accounts, SyncCommit(a) PROVE G
  BY <1>5, ConnectedMeans DEF SyncCommit
<1>6. ASSUME NEW a \in Accounts,
             \/ BeginRenewal(a) \/ RenewalFails(a) \/ BeginReprotection(a) \/ QueueRetry(a)
      PROVE  G
  BY <1>6 DEF BeginRenewal, RenewalFails, BeginReprotection, QueueRetry
<1>7. ASSUME NEW a \in Accounts, RenewalGranted(a) PROVE G
  BY <1>7 DEF RenewalGranted, PutBack
<1>8. ASSUME NEW a \in Accounts, RenewalStored(a) \/ Reprotected(a) PROVE G
  BY <1>8 DEF RenewalStored, Reprotected, LateCredential, PutBack
<1>9. ASSUME NEW a \in Accounts, RetryRuns(a) PROVE G
  BY <1>9 DEF RetryRuns, PutBack
<1>10. ASSUME NEW x \in Ops, Expire(x) PROVE G
  BY <1>10 DEF Expire
<1>11. ASSUME NEW x \in DisconnectOps,
              \/ PrepareDisconnect(x) \/ ExecuteDisconnect(x) \/ StartDisconnect(x)
              \/ DisconnectRefused(x) \/ ForgetDisconnectChallenge(x)
              \/ RollbackConnection(x)
       PROVE  G
  BY <1>11
    DEF PrepareDisconnect, ExecuteDisconnect, StartDisconnect, DisconnectRefused,
        ForgetDisconnectChallenge, RollbackConnection, Disconnect
<1>12. ASSUME NEW x \in DisconnectOps, RunDisconnect(x) PROVE G
  <2>1. KeepReturned BY <1>12 DEF RunDisconnect
  <2>2. /\ grants' \subseteq grants /\ credentials' \subseteq credentials
        /\ accountState' \subseteq accountState /\ providerMail' \subseteq providerMail
        /\ residue' \subseteq residue \cup sampleMail \cup (credentials \ credentials')
              \cup (accountState \ accountState') \cup (providerMail \ providerMail')
    BY <1>12
      DEF RunDisconnect, DisconnectStep, PerformAccountDataRemoval, RemoveAccountData,
          DisconnectPerform, DisconnectPerformFails, DisconnectSave,
          DisconnectSaveFails, LastEffect, PerformRevocation, PerformCredentialDelete,
          PerformAccountStateDelete, PerformCompaction, PerformProviderMailDelete,
          Revoke, DeleteCredential, DeleteAccountState, DeleteProviderMail, Sanitize
  <2>3. QED BY <2>1, <2>2, KeepsReturned
<1>13. ASSUME NEW x \in DeletionOps,
              \/ PrepareDeletion(x) \/ ConfirmDeletion(x) \/ StartDeletion(x)
              \/ DeletionRefused(x) \/ FinishDeletion(x)
       PROVE  G
  BY <1>13
    DEF PrepareDeletion, ConfirmDeletion, StartDeletion, DeletionRefused,
        DeleteExisting, DeleteNew, FinishDeletion, DeletionSave
<1>14. ASSUME NEW x \in DeletionOps, RunDeletion(x) PROVE G
  <2>1. KeepReturned BY <1>14 DEF RunDeletion
  <2>2. /\ grants' \subseteq grants /\ credentials' \subseteq credentials
        /\ accountState' \subseteq accountState /\ providerMail' \subseteq providerMail
        /\ residue' \subseteq residue \cup sampleMail \cup (credentials \ credentials')
              \cup (accountState \ accountState') \cup (providerMail \ providerMail')
    BY <1>14
      DEF RunDeletion, DeletionPerform, DeletionPerformFails, DeletionSave,
          DeletionSaveFails, DeletionAborted, DeletionEffect, PartialEraseDataKey,
          PerformCredentialsDelete, PerformAllAccountStateDelete, PerformMailDelete,
          PerformSanitize, PerformEraseDataKey, DeleteGoogleRefreshTokens,
          DeleteAllAccountState, DeleteAllMail, Sanitize
  <2>3. QED BY <2>1, <2>2, KeepsReturned
<1>15. CASE UNCHANGED vars BY <1>15 DEF vars
<1>16. QED
  BY <1>2, <1>3, <1>4, <1>5, <1>6, <1>7, <1>8, <1>9, <1>10, <1>11, <1>12,
     <1>13, <1>14, <1>15
    DEF Next

\* After the mail phase of a deletion no mail and no mode comes, and without the
\* key none is made: there is a deletion row, and every writer needs live mode.
LEMMA MailStaysGone ==
    ASSUME [Next]_vars, latestDeletion # NoOp,
           sampleMail = {}, providerMail = {}, mailMode = "none"
    PROVE  /\ sampleMail' = {} /\ providerMail' = {} /\ mailMode' = "none"
           /\ ~dataKey /\ ~keyHeld => ~dataKey' /\ ~keyHeld'
<1> DEFINE G == /\ sampleMail' = {} /\ providerMail' = {} /\ mailMode' = "none"
                /\ ~dataKey /\ ~keyHeld => ~dataKey' /\ ~keyHeld'
<1> USE DEF storeVars, deletionVars
<1>1. CASE Boot \/ Quit
  BY <1>1
    DEF Boot, BootReady, BootRecovering, BootDeleted, RecoveryFailed, Quit,
        ResumeDeletion
<1>2. ASSUME NEW a \in Accounts,
             \/ StoreCredential(a) \/ StoreAccountState(a) \/ ActivateLive(a)
             \/ SyncCommit(a)
      PROVE  G
  BY <1>2 DEF StoreCredential, StoreAccountState, ActivateLive, SyncCommit
<1>3. ASSUME NEW a \in Accounts, LateWrite(a) PROVE G
  BY <1>3
    DEF LateWrite, BeginRenewal, RenewalGranted, RenewalFails, RenewalStored,
        BeginReprotection, Reprotected, QueueRetry, RetryRuns, LateCredential
<1>4. ASSUME NEW x \in Ops, Expire(x) PROVE G
  BY <1>4 DEF Expire
<1>5. ASSUME NEW x \in DisconnectOps,
             \/ PrepareDisconnect(x) \/ ExecuteDisconnect(x) \/ StartDisconnect(x)
             \/ DisconnectRefused(x) \/ ForgetDisconnectChallenge(x)
             \/ RollbackConnection(x)
      PROVE  G
  BY <1>5
    DEF PrepareDisconnect, ExecuteDisconnect, StartDisconnect, DisconnectRefused,
        ForgetDisconnectChallenge, RollbackConnection, Disconnect
<1>6. ASSUME NEW x \in DisconnectOps, RunDisconnect(x) PROVE G
  BY <1>6
    DEF RunDisconnect, DisconnectStep, PerformAccountDataRemoval, RemoveAccountData,
        DisconnectPerform, DisconnectPerformFails, DisconnectSave,
        DisconnectSaveFails, LastEffect, PerformRevocation, PerformCredentialDelete,
        PerformAccountStateDelete, PerformCompaction, PerformProviderMailDelete,
        DeleteProviderMail
<1>7. ASSUME NEW x \in DeletionOps,
             \/ PrepareDeletion(x) \/ ConfirmDeletion(x) \/ StartDeletion(x)
             \/ DeletionRefused(x) \/ FinishDeletion(x)
      PROVE  G
  BY <1>7
    DEF PrepareDeletion, ConfirmDeletion, StartDeletion, DeletionRefused,
        DeleteExisting, DeleteNew, FinishDeletion, DeletionSave
<1>8. ASSUME NEW x \in DeletionOps, RunDeletion(x) PROVE G
  BY <1>8
    DEF RunDeletion, DeletionPerform, DeletionPerformFails, DeletionSave,
        DeletionSaveFails, DeletionAborted, DeletionEffect, PartialEraseDataKey,
        PerformCredentialsDelete, PerformAllAccountStateDelete, PerformMailDelete,
        PerformSanitize, PerformEraseDataKey, DeleteAllMail, DeleteDataKey
<1>9. CASE UNCHANGED vars BY <1>9 DEF vars
<1>10. QED
  BY <1>1, <1>2, <1>3, <1>4, <1>5, <1>6, <1>7, <1>8, <1>9 DEF Next, LateWrite

-----------------------------------------------------------------------------
(* Every step preserves the invariant, part by part *)

\* What a step of a running disconnect leaves alone.
LEMMA DisconnectStepKeeps ==
    ASSUME JournalInv, JournalInv', NEW op \in DisconnectOps, RunDisconnect(op)
    PROVE  /\ \A x \in Ops : x # op => journal'[x] = journal[x]
           /\ journal[op] # "absent" /\ journal'[op] # "absent"
           /\ Running' \subseteq Running
           /\ latestDeletion' = latestDeletion /\ keyHeld' = keyHeld /\ dataKey' = dataKey
           /\ UNCHANGED runVars
           /\ KeepReturned
           /\ grants' \subseteq grants /\ credentials' \subseteq credentials
           /\ accountState' \subseteq accountState /\ sampleMail' \subseteq sampleMail
           /\ providerMail' \subseteq providerMail
           /\ \A a \in credentials \ credentials' :
                a = AccountOf[op] /\ journal[op] = "credential-delete-pending"
<1>1. /\ \A x \in Ops : x # op => journal'[x] = journal[x]
      /\ latestDeletion' = latestDeletion
      /\ step[op] # "idle" /\ \A x \in Ops : x # op => step'[x] = step[x]
  BY DEF Ops, RunDisconnect, DisconnectStep, PerformAccountDataRemoval,
        DisconnectPerform, DisconnectPerformFails, DisconnectSave, DisconnectSaveFails,
        LastEffect, PhasePerformed, PhaseFailed, SaveFailureCode, PhaseSaved, SavePhase,
        PhaseSaveFailed, StartLoop, GoTo, JournalInv, JournalTypeOK
<1>2. op \in Running /\ op \in Pending
  BY <1>1 DEF JournalInv, RunningIsPending, Running, Ops
<1>3. journal'[op] # "absent"
  BY <1>2, DisconnectTable
    DEF RunDisconnect, DisconnectStep, PerformAccountDataRemoval, DisconnectPerform,
        DisconnectPerformFails, DisconnectSave, DisconnectSaveFails, PhasePerformed,
        PhaseFailed, SaveFailureCode, PhaseSaved, SavePhase, PhaseSaveFailed,
        Pending, Ops, JournalInv, JournalTypeOK, PhasesOf, DisconnectPhase
<1>4. /\ keyHeld' = keyHeld /\ UNCHANGED runVars /\ KeepReturned
  BY DEF RunDisconnect, deletionVars
<1>5. /\ dataKey' = dataKey
      /\ grants' \subseteq grants /\ credentials' \subseteq credentials
      /\ accountState' \subseteq accountState /\ sampleMail' \subseteq sampleMail
      /\ providerMail' \subseteq providerMail
      /\ \A a \in credentials \ credentials' :
           a = AccountOf[op] /\ journal[op] = "credential-delete-pending"
  BY DEF RunDisconnect, DisconnectStep, PerformAccountDataRemoval, RemoveAccountData,
        DisconnectPerform, DisconnectPerformFails, DisconnectSave, DisconnectSaveFails,
        LastEffect, PerformRevocation, PerformCredentialDelete,
        PerformAccountStateDelete, PerformCompaction, PerformProviderMailDelete,
        Revoke, DeleteCredential, DeleteAccountState, DeleteProviderMail, storeVars
<1>6. Running' \subseteq Running BY <1>1, <1>2 DEF Running
<1>7. QED BY <1>1, <1>2, <1>3, <1>4, <1>5, <1>6 DEF Pending

\* What a step of a running deletion leaves alone.
LEMMA DeletionStepKeeps ==
    ASSUME JournalInv, JournalInv', NEW op \in DeletionOps, RunDeletion(op)
    PROVE  /\ \A x \in Ops : x # op => journal'[x] = journal[x]
           /\ journal[op] # "absent" /\ journal'[op] # "absent"
           /\ journal'[op] = "completed" => mode # "ready"
           /\ Running' \subseteq Running /\ op \in Running
           /\ latestDeletion' = latestDeletion /\ latestDeletion = op
           /\ UNCHANGED runVars
           /\ grants' = grants /\ credentials' \subseteq credentials
           /\ accountState' \subseteq accountState /\ sampleMail' \subseteq sampleMail
           /\ providerMail' \subseteq providerMail
<1>a. op \in Ops /\ op \notin DisconnectOps BY OpsAssumption DEF Ops
<1>1. /\ \A x \in Ops : x # op => journal'[x] = journal[x]
      /\ latestDeletion' = latestDeletion
      /\ step[op] # "idle" /\ \A x \in Ops : x # op => step'[x] = step[x]
  BY DEF RunDeletion, DeletionPerform, DeletionPerformFails, DeletionSave,
        DeletionSaveFails, DeletionAborted, DeletionEffect, PhasePerformed, PhaseFailed,
        SaveFailureCode, PhaseSaved, SavePhase, PhaseSaveFailed, StartLoop, GoTo,
        JournalInv, JournalTypeOK
<1>2. op \in Running /\ op \in Pending
  BY <1>a, <1>1 DEF JournalInv, RunningIsPending, Running
<1>3. latestDeletion = op BY <1>2 DEF JournalInv, LatestDeletionIsKnown
<1>4. journal'[op] # "absent" /\ (journal'[op] = "completed" => mode # "ready")
  BY <1>a, <1>2, DeletionTable
    DEF RunDeletion, DeletionPerform, DeletionPerformFails, DeletionSave,
        DeletionSaveFails, DeletionAborted, PhasePerformed, PhaseFailed,
        SaveFailureCode, PhaseSaved, SavePhase, PhaseSaveFailed, Pending,
        JournalInv, JournalTypeOK, PhasesOf, DeleteLocalDataPhase
<1>5. /\ UNCHANGED runVars
      /\ grants' = grants /\ credentials' \subseteq credentials
      /\ accountState' \subseteq accountState /\ sampleMail' \subseteq sampleMail
      /\ providerMail' \subseteq providerMail
  BY DEF RunDeletion, DeletionPerform, DeletionPerformFails, DeletionSave,
        DeletionSaveFails, DeletionAborted, DeletionEffect, PartialEraseDataKey,
        PerformCredentialsDelete, PerformAllAccountStateDelete, PerformMailDelete,
        PerformSanitize, PerformEraseDataKey, DeleteGoogleRefreshTokens,
        DeleteAllAccountState, DeleteAllMail, storeVars
<1>6. Running' \subseteq Running BY <1>1, <1>2 DEF Running
<1>7. QED BY <1>1, <1>2, <1>3, <1>4, <1>5, <1>6 DEF Pending

\* An account id is drawn once.
LEMMA AccountsAreBornKept ==
    ASSUME JournalInv, JournalInv', MemoryTypeOK, AccountsAreBorn, [Next]_vars
    PROVE  AccountsAreBorn'
<1> USE OpsAssumption, SamplesAssumption DEF AccountsAreBorn, storeVars,
       journalVars, memoryVars, runVars, lateVars
<1>1. CASE Boot \/ Quit
  BY <1>1
    DEF Boot, BootReady, BootRecovering, ResumeDeletion, BootDeleted,
        RecoveryFailed, Quit, JournalInv, JournalTypeOK
<1>2. ASSUME NEW a \in Accounts,
             StoreCredential(a) \/ StoreAccountState(a) \/ ActivateLive(a)
      PROVE  AccountsAreBorn'
  BY <1>2
    DEF StoreCredential, StoreAccountState, DeleteCredential, ActivateLive
<1>3. ASSUME NEW a \in Accounts, SyncCommit(a) PROVE AccountsAreBorn'
  BY <1>3, ConnectedIsBorn DEF SyncCommit
<1>4. ASSUME NEW a \in Accounts,
             \/ BeginRenewal(a) \/ RenewalGranted(a) \/ RenewalFails(a)
             \/ BeginReprotection(a) \/ QueueRetry(a)
      PROVE  AccountsAreBorn'
  BY <1>4, ConnectedIsBorn
    DEF BeginRenewal, RenewalGranted, RenewalFails, BeginReprotection,
        QueueRetry, Synchronizing
<1>5. ASSUME NEW a \in Accounts, RenewalStored(a) \/ Reprotected(a) \/ RetryRuns(a)
      PROVE  AccountsAreBorn'
  BY <1>5 DEF RenewalStored, Reprotected, LateCredential, RetryRuns
<1>6. ASSUME NEW op \in Ops, Expire(op) PROVE AccountsAreBorn'
  BY <1>6 DEF Expire
<1>7. ASSUME NEW op \in DisconnectOps,
             \/ PrepareDisconnect(op) \/ ExecuteDisconnect(op)
             \/ DisconnectRefused(op) \/ ForgetDisconnectChallenge(op)
      PROVE  AccountsAreBorn'
  BY <1>7, ConnectedIsBorn
    DEF PrepareDisconnect, ExecuteDisconnect, DisconnectRefused,
        ForgetDisconnectChallenge, CanExecuteDisconnect
<1>8. ASSUME NEW op \in DisconnectOps, StartDisconnect(op) \/ RollbackConnection(op)
      PROVE  AccountsAreBorn'
  <2>1. AccountOf[op] \in born \ (connecting \cup SampleAccounts)
    BY <1>8, ConnectedIsBorn DEF StartDisconnect, RollbackConnection
  <2>2. \A x \in DisconnectOps : x # op => journal'[x] = journal[x]
    BY <1>8
      DEF StartDisconnect, RollbackConnection, Disconnect, InsertRow, SavePhase,
          JournalInv, JournalTypeOK, Ops
  <2>3. QED
    BY <1>8, <2>1, <2>2 DEF StartDisconnect, RollbackConnection, Disconnect
<1>9. ASSUME NEW op \in DisconnectOps, RunDisconnect(op) PROVE AccountsAreBorn'
  BY <1>9, DisconnectStepKeeps DEF Ops
<1>10. ASSUME NEW op \in DeletionOps,
              PrepareDeletion(op) \/ ConfirmDeletion(op) \/ DeletionRefused(op)
       PROVE  AccountsAreBorn'
  BY <1>10 DEF PrepareDeletion, ConfirmDeletion, DeletionRefused
<1>11. ASSUME NEW op \in DeletionOps, StartDeletion(op) PROVE AccountsAreBorn'
  <2>1. \A x \in DisconnectOps : journal'[x] = journal[x]
    BY <1>11
      DEF StartDeletion, DeleteExisting, DeleteNew, InsertRow, SavePhase,
          JournalInv, JournalTypeOK, Ops
  <2>2. UNCHANGED <<born, connecting, challenges, storeVars, renewing, storing, reprotecting>>
        /\ executing' \subseteq executing /\ retries' = {}
    BY <1>11 DEF StartDeletion, DeleteExisting, DeleteNew
  <2>3. \A x \in DeletionOps : scope'[x] = scope[x] \/ scope'[x] \subseteq born \ connecting
    BY <1>11 DEF StartDeletion, MemoryTypeOK
  <2>4. QED BY <2>1, <2>2, <2>3
<1>12. ASSUME NEW op \in DeletionOps, RunDeletion(op) PROVE AccountsAreBorn'
  BY <1>12, DeletionStepKeeps DEF Ops
<1>13. ASSUME NEW op \in DeletionOps, FinishDeletion(op) PROVE AccountsAreBorn'
  BY <1>13
    DEF FinishDeletion, DeletionSave, PhaseSaved, SavePhase, JournalInv,
        JournalTypeOK, Ops
<1>14. CASE UNCHANGED vars BY <1>14 DEF vars
<1>15. QED
  BY <1>1, <1>2, <1>3, <1>4, <1>5, <1>6, <1>7, <1>8, <1>9, <1>10, <1>11,
     <1>12, <1>13, <1>14
    DEF Next

\* The modes, and what runs in them.
LEMMA ModeIsConsistentKept ==
    ASSUME JournalInv, JournalInv', MemoryTypeOK, AccountsAreBorn, DisconnectInv,
           DeletionInv, ModeIsConsistent, [Next]_vars
    PROVE  ModeIsConsistent'
<1> USE OpsAssumption DEF ModeIsConsistent, storeVars, journalVars, deletionVars,
       memoryVars, runVars, lateVars
<1>1. CASE BootReady
  BY <1>1 DEF BootReady, Running, JournalInv, LatestDeletionIsKnown
<1>2. CASE BootRecovering
  <2>1. step' = [step EXCEPT ![latestDeletion] = "perform"] /\ latestDeletion \in DeletionOps
    BY <1>2
      DEF BootRecovering, ResumeDeletion, StartLoop, GoTo, JournalInv, JournalTypeOK
  <2>2. Running' \subseteq {latestDeletion}
    BY <1>2, <2>1
      DEF BootRecovering, ResumeDeletion, Running, JournalInv, JournalTypeOK, Ops
  <2>3. QED BY <1>2, <2>1, <2>2 DEF BootRecovering, ResumeDeletion, Running
<1>3. CASE BootDeleted
  <2>1. Running = {}
    BY <1>3 DEF BootDeleted, JournalInv, RunningIsPending, Pending, Ops
  <2>2. QED BY <1>3, <2>1 DEF BootDeleted, Running
<1>4. CASE RecoveryFailed BY <1>4 DEF RecoveryFailed, Running
<1>5. CASE Quit BY <1>5 DEF Quit, ForgetRuns, Running
<1>6. ASSUME NEW a \in Accounts, StoreCredential(a) PROVE ModeIsConsistent'
  BY <1>6 DEF StoreCredential, ServicesExist, Running
<1>7. ASSUME NEW a \in Accounts, StoreAccountState(a) PROVE ModeIsConsistent'
  BY <1>7
    DEF StoreAccountState, DeleteCredential, Running, JournalInv,
        LatestDeletionIsKnown
<1>8. ASSUME NEW a \in Accounts, ActivateLive(a) \/ SyncCommit(a) PROVE ModeIsConsistent'
  BY <1>8 DEF ActivateLive, SyncCommit, Running
<1>9. ASSUME NEW a \in Accounts,
             \/ BeginRenewal(a) \/ RenewalGranted(a) \/ RenewalFails(a)
             \/ BeginReprotection(a) \/ QueueRetry(a)
      PROVE  ModeIsConsistent'
  BY <1>9
    DEF BeginRenewal, RenewalGranted, RenewalFails, BeginReprotection,
        QueueRetry, PutBack, Running
<1>10. ASSUME NEW a \in Accounts, RenewalStored(a) \/ Reprotected(a) \/ RetryRuns(a)
       PROVE  ModeIsConsistent'
  BY <1>10
    DEF RenewalStored, Reprotected, LateCredential, RetryRuns, PutBack, Running
<1>11. ASSUME NEW op \in Ops, Expire(op) PROVE ModeIsConsistent'
  BY <1>11 DEF Expire, Running
<1>12. ASSUME NEW op \in DisconnectOps,
              \/ PrepareDisconnect(op) \/ ExecuteDisconnect(op)
              \/ DisconnectRefused(op) \/ ForgetDisconnectChallenge(op)
       PROVE  ModeIsConsistent'
  BY <1>12
    DEF PrepareDisconnect, ExecuteDisconnect, DisconnectRefused,
        ForgetDisconnectChallenge, Running
<1>13. ASSUME NEW op \in DisconnectOps, StartDisconnect(op) \/ RollbackConnection(op)
       PROVE  ModeIsConsistent'
  <2>1. /\ \A x \in DeletionOps : journal'[x] = journal[x]
        /\ latestDeletion' = latestDeletion
        /\ mode = "ready" /\ mode' = mode
        /\ UNCHANGED <<storeVars, keyHeld, connecting, returned>>
    BY <1>13
      DEF StartDisconnect, RollbackConnection, Disconnect, InsertRow, SavePhase,
          JournalInv, JournalTypeOK, Ops
  <2>2. QED BY <2>1 DEF Running
<1>14. ASSUME NEW op \in DisconnectOps, RunDisconnect(op) PROVE ModeIsConsistent'
  <2>1. \A x \in DeletionOps : journal'[x] = journal[x]
    BY <1>14, DisconnectStepKeeps DEF Ops
  <2>2. ASSUME latestDeletion = NoOp, NEW a \in grants'
        PROVE  a \in credentials' \/ <<"grants", a>> \in returned'
    <3>1. <<"grants", a>> \in returned => <<"grants", a>> \in returned'
      BY <1>14, <2>2, DisconnectStepKeeps, KeepsReturned
    <3>2. CASE a \in credentials \ credentials'
      <4>1. a = AccountOf[op] /\ journal[op] = "credential-delete-pending"
        BY <1>14, <3>2, DisconnectStepKeeps
      <4>2. Gone("grants", grants, a) BY <4>1 DEF DisconnectInv, Left, Beyond
      <4>3. QED BY <1>14, <2>2, <3>1, <4>2, DisconnectStepKeeps DEF Gone
    <3>3. CASE a \notin credentials \/ a \in credentials'
      BY <1>14, <2>2, <3>1, <3>3, DisconnectStepKeeps
    <3>4. QED BY <3>2, <3>3
  <2>3. QED BY <1>14, <2>1, <2>2, DisconnectStepKeeps
<1>15. ASSUME NEW op \in DeletionOps,
              PrepareDeletion(op) \/ ConfirmDeletion(op) \/ DeletionRefused(op)
       PROVE  ModeIsConsistent'
  BY <1>15 DEF PrepareDeletion, ConfirmDeletion, DeletionRefused, Running
<1>16. ASSUME NEW op \in DeletionOps, StartDeletion(op) PROVE ModeIsConsistent'
  <2>1. /\ mode \in {"ready", "erased"} /\ mode' = mode
        /\ UNCHANGED <<storeVars, keyHeld, connecting>>
        /\ executing' \subseteq executing
    BY <1>16 DEF StartDeletion, DeleteExisting, DeleteNew
  <2>2. /\ \A x \in DeletionOps : journal'[x] = "completed" <=> journal[x] = "completed"
        /\ latestDeletion' # NoOp
    BY <1>16
      DEF StartDeletion, DeleteExisting, DeleteNew, InsertRow, SavePhase, FirstPhase,
          JournalInv, JournalTypeOK, LatestDeletionIsKnown, Ops
  <2>3. Running' \cap DisconnectOps \subseteq Running
    BY <1>16
      DEF StartDeletion, DeleteExisting, DeleteNew, StartLoop, GoTo, Running,
          JournalInv, JournalTypeOK, Ops
  <2>4. QED BY <2>1, <2>2, <2>3
<1>17. ASSUME NEW op \in DeletionOps, RunDeletion(op) PROVE ModeIsConsistent'
  <2>1. /\ mode' = mode /\ connecting' = connecting /\ executing' = executing
        /\ Running' \subseteq Running /\ op \in Running
        /\ latestDeletion' = op /\ latestDeletion = op /\ op # NoOp
        /\ \A x \in DeletionOps : journal[x] = "completed" => journal'[x] = "completed"
        /\ \A x \in DeletionOps : journal'[x] = "completed" =>
             journal[x] = "completed" \/ mode # "ready"
    <3>1. op \in Pending BY <1>17, DeletionStepKeeps DEF JournalInv, RunningIsPending
    <3>2. QED BY <1>17, <3>1, DeletionStepKeeps DEF Pending, Ops
  <2>2. QED BY <2>1
<1>18. ASSUME NEW op \in DeletionOps, FinishDeletion(op) PROVE ModeIsConsistent'
  <2>1. /\ journal' = [journal EXCEPT ![op] = "completed"]
        /\ step' = [step EXCEPT ![op] = "idle"]
        /\ latestDeletion' = latestDeletion /\ latestDeletion = op
    BY <1>18, DeletionTable
      DEF FinishDeletion, DeletionSave, PhaseSaved, SavePhase, StartLoop, GoTo,
          JournalInv, LatestDeletionIsKnown, Pending, Ops
  <2>2. Running' \cap DisconnectOps = {}
    <3>1. op \in Pending BY <1>18 DEF FinishDeletion, Pending, Ops
    <3>2. Pending \cap DisconnectOps = {}
      BY <3>1 DEF JournalInv, PendingWorkExcludesOverlap
    <3>3. Running \cap DisconnectOps = {} BY <3>2 DEF JournalInv, RunningIsPending
    <3>4. QED BY <2>1, <3>3 DEF Running, JournalInv, JournalTypeOK, Ops
  <2>3. /\ mode' = "erased" /\ journal'[op] = "completed" /\ op # NoOp
        /\ UNCHANGED <<connecting, executing>>
    BY <1>18, <2>1 DEF FinishDeletion, JournalInv, JournalTypeOK, Ops
  <2>4. QED BY <2>1, <2>2, <2>3
<1>19. CASE UNCHANGED vars BY <1>19 DEF vars, Running
<1>20. QED
  BY <1>1, <1>2, <1>3, <1>4, <1>5, <1>6, <1>7, <1>8, <1>9, <1>10, <1>11,
     <1>12, <1>13, <1>14, <1>15, <1>16, <1>17, <1>18, <1>19
    DEF Next, Boot

\* A deletion promises the accounts it was inserted for.
LEMMA ScopeIsKept ==
    ASSUME MemoryTypeOK, [Next]_vars, NEW op \in DeletionOps, journal[op] # "absent"
    PROVE  scope'[op] = scope[op]
<1> USE DEF memoryVars, runVars
<1>1. CASE Boot \/ Quit
  BY <1>1 DEF Boot, BootReady, BootRecovering, BootDeleted, RecoveryFailed, Quit
<1>2. ASSUME NEW a \in Accounts,
             \/ StoreCredential(a) \/ StoreAccountState(a) \/ ActivateLive(a)
             \/ SyncCommit(a) \/ LateWrite(a)
      PROVE  scope' = scope
  BY <1>2
    DEF StoreCredential, StoreAccountState, ActivateLive, SyncCommit, LateWrite,
        BeginRenewal, RenewalGranted, RenewalFails, RenewalStored,
        BeginReprotection, Reprotected, QueueRetry, RetryRuns, LateCredential
<1>3. ASSUME NEW x \in Ops, Expire(x) PROVE scope' = scope
  BY <1>3 DEF Expire
<1>4. ASSUME NEW x \in DisconnectOps,
             \/ PrepareDisconnect(x) \/ ExecuteDisconnect(x) \/ StartDisconnect(x)
             \/ DisconnectRefused(x) \/ ForgetDisconnectChallenge(x)
             \/ RollbackConnection(x) \/ RunDisconnect(x)
      PROVE  scope' = scope
  BY <1>4
    DEF PrepareDisconnect, ExecuteDisconnect, StartDisconnect, DisconnectRefused,
        ForgetDisconnectChallenge, RollbackConnection, RunDisconnect
<1>5. ASSUME NEW x \in DeletionOps,
             \/ PrepareDeletion(x) \/ ConfirmDeletion(x) \/ DeletionRefused(x)
             \/ RunDeletion(x) \/ FinishDeletion(x)
      PROVE  scope' = scope
  BY <1>5
    DEF PrepareDeletion, ConfirmDeletion, DeletionRefused, RunDeletion, FinishDeletion
<1>6. ASSUME NEW x \in DeletionOps, StartDeletion(x) PROVE scope'[op] = scope[op]
  BY <1>6 DEF StartDeletion, DeleteNew, MemoryTypeOK
<1>7. CASE UNCHANGED vars BY <1>7 DEF vars
<1>8. QED
  BY <1>1, <1>2, <1>3, <1>4, <1>5, <1>6, <1>7 DEF Next, LateWrite

\* What a disconnect has removed stays removed.
LEMMA DisconnectInvKept ==
    ASSUME JournalInv, JournalInv', JournalStep, AccountsAreBorn, ModeIsConsistent,
           DisconnectInv, [Next]_vars
    PROVE  DisconnectInv'
<1> SUFFICES ASSUME NEW op \in DisconnectOps,
                    NEW a, a = AccountOf[op],
                    NEW P1, P1 = {"revocation-pending"},
                    NEW P2, P2 = P1 \cup {"credential-delete-pending"},
                    NEW P3, P3 = P2 \cup {"account-state-delete-pending"},
                    NEW P4, P4 = P3 \cup {"mail-data-delete-pending"}
             PROVE
               /\ Left(op, {}, "revocation-pending")' => Gone("grants", grants, a)'
               /\ Left(op, P1, "credential-delete-pending")'
                    => Gone("credentials", credentials, a)'
               /\ Left(op, P2, "account-state-delete-pending")'
                    => Gone("accountState", accountState, a)'
               /\ Left(op, P3, "mail-data-delete-pending")'
                    => Gone("providerMail", providerMail, a)'
               /\ Left(op, P4, "compaction-pending")' => Gone("residue", residue, a)'
               /\ step'[op] = "half" => journal'[op] = "mail-data-delete-pending"
  BY DEF DisconnectInv
<1>a. op \in Ops BY DEF Ops
<1>b. /\ Left(op, {}, "revocation-pending") => Gone("grants", grants, a)
      /\ Left(op, P1, "credential-delete-pending")
           => Gone("credentials", credentials, a)
      /\ Left(op, P2, "account-state-delete-pending")
           => Gone("accountState", accountState, a)
      /\ Left(op, P3, "mail-data-delete-pending")
           => Gone("providerMail", providerMail, a)
      /\ Left(op, P4, "compaction-pending") => Gone("residue", residue, a)
      /\ step[op] = "half" => journal[op] = "mail-data-delete-pending"
  BY DEF DisconnectInv
<1>c. journal[op] # "absent" =>
        a \in born \ (connecting \cup SampleAccounts) /\ a \notin sampleMail
  BY DEF AccountsAreBorn
<1>1. ASSUME Due(op, journal[op])
      PROVE  /\ RunDisconnect(op) /\ DisconnectPerform(op)
             /\ journal[op] # "absent" /\ KeepReturned
  BY <1>a, <1>1, EffectIsPerformed, DisconnectStepKeeps, OpsAssumption DEF Due
<1>2. CASE Due(op, "revocation-pending")
  <2>1. grants' = IF a \in credentials THEN grants \ {a} ELSE grants
    BY <1>1, <1>2
      DEF Due, DisconnectPerform, LastEffect, PerformRevocation, Revoke,
          PerformCredentialDelete, PerformAccountStateDelete, PerformCompaction,
          DisconnectInv
  <2>2. latestDeletion = NoOp
    <3>1. op \in Running BY <1>a, <1>1, <1>2 DEF Due, Running, DisconnectPerform, LastEffect
    <3>2. op \in Pending BY <3>1 DEF JournalInv, RunningIsPending
    <3>3. mode = "ready" BY <3>1 DEF ModeIsConsistent
    <3>4. \A x \in DeletionOps : journal[x] = "absent"
      BY <3>2, <3>3, OpsAssumption
        DEF ModeIsConsistent, JournalInv, PendingWorkExcludesOverlap, Pending, Ops
    <3>5. QED BY <3>4 DEF JournalInv, JournalTypeOK, LatestDeletionIsKnown
  <2>3. a \in grants => a \in credentials \/ <<"grants", a>> \in returned
    BY <2>2 DEF ModeIsConsistent
  <2>4. Gone("grants", grants, a)' BY <1>1, <1>2, <2>1, <2>3, KeepsReturned DEF Gone, Due
  <2>5. journal'[op] = journal[op] /\ step'[op] = "save"
    BY <1>1, <1>2 DEF Due, DisconnectPerform, PhasePerformed
  <2>6. QED BY <1>2, <2>4, <2>5 DEF Due, Left, Beyond
<1>3. CASE \E p \in {"credential-delete-pending", "account-state-delete-pending",
                     "mail-data-delete-pending", "compaction-pending"} : Due(op, p)
  <2>1. /\ journal[op] = "credential-delete-pending" => a \notin credentials'
        /\ journal[op] = "account-state-delete-pending" => a \notin accountState'
        /\ journal[op] = "mail-data-delete-pending" => a \notin providerMail'
        /\ journal[op] = "compaction-pending" => residue' = {}
    BY <1>1, <1>3
      DEF Due, DisconnectPerform, LastEffect, PerformRevocation,
          PerformCredentialDelete, DeleteCredential, PerformAccountStateDelete,
          DeleteAccountState, PerformCompaction, Sanitize,
          PerformProviderMailDelete, DeleteProviderMail, DisconnectInv
  <2>2. journal'[op] = journal[op] /\ step'[op] = "save" /\ journal[op] # "absent"
    BY <1>1, <1>3 DEF Due, DisconnectPerform, PhasePerformed
  <2>3. QED BY <1>b, <1>c, <1>3, <2>1, <2>2, StoresKeepGone DEF Left, Beyond, Gone, Due
<1>4. CASE \A p \in P4 \cup {"compaction-pending"} : ~Due(op, p)
  <2>1. /\ Left(op, {}, "revocation-pending")' => Left(op, {}, "revocation-pending")
        /\ Left(op, P1, "credential-delete-pending")'
             => Left(op, P1, "credential-delete-pending")
        /\ Left(op, P2, "account-state-delete-pending")'
             => Left(op, P2, "account-state-delete-pending")
        /\ Left(op, P3, "mail-data-delete-pending")'
             => Left(op, P3, "mail-data-delete-pending")
        /\ Left(op, P4, "compaction-pending")' => Left(op, P4, "compaction-pending")
    BY <1>4, DisconnectLeaves
  <2>2. /\ Left(op, P4, "compaction-pending") => Left(op, P3, "mail-data-delete-pending")
        /\ Left(op, P3, "mail-data-delete-pending")
             => Left(op, P2, "account-state-delete-pending")
        /\ Left(op, P2, "account-state-delete-pending")
             => Left(op, P1, "credential-delete-pending")
        /\ Left(op, P1, "credential-delete-pending") => Left(op, {}, "revocation-pending")
        /\ Left(op, {}, "revocation-pending") => journal[op] # "absent"
    BY DEF Left, Beyond
  <2>3. step'[op] = "half" => journal'[op] = "mail-data-delete-pending"
    <3>1. CASE step[op] = "half" BY <1>a, <1>b, <3>1, RowStep
    <3>2. CASE step[op] # "half" /\ step'[op] = "half"
      <4>1. PerformAccountDataRemoval(op)
        BY <1>a, <3>2, EffectIsPerformed, OpsAssumption
      <4>2. QED BY <4>1 DEF PerformAccountDataRemoval
    <3>3. QED BY <3>1, <3>2
  <2>4. QED BY <1>b, <1>c, <2>1, <2>2, <2>3, StoresKeepGone
<1>5. QED BY <1>2, <1>3, <1>4

\* What a deletion has removed stays removed.
LEMMA DeletionInvKept ==
    ASSUME JournalInv, JournalInv', JournalStep, MemoryTypeOK, AccountsAreBorn,
           AccountsAreBorn', ModeIsConsistent, DeletionInv, [Next]_vars
    PROVE  DeletionInv'
<1> SUFFICES ASSUME NEW op \in DeletionOps,
                    NEW P1, P1 = {"credentials-delete-pending"},
                    NEW P2, P2 = P1 \cup {"account-state-delete-pending"},
                    NEW P3, P3 = P2 \cup {"mail-data-delete-pending"},
                    NEW P4, P4 = P3 \cup {"compaction-pending"}
             PROVE
               /\ Left(op, {}, "credentials-delete-pending")'
                    => \A a \in scope'[op] : Gone("credentials", credentials, a)'
               /\ Left(op, P1, "account-state-delete-pending")'
                    => \A a \in scope'[op] : Gone("accountState", accountState, a)'
               /\ Left(op, P2, "mail-data-delete-pending")' =>
                    sampleMail' = {} /\ providerMail' = {} /\ mailMode' = "none"
               /\ Left(op, P3, "compaction-pending")'
                    => \A a \in scope'[op] : Gone("residue", residue, a)'
               /\ Left(op, P4, "data-key-delete-pending")' => ~dataKey' /\ ~keyHeld'
               /\ step'[op] # "half"
  BY DEF DeletionInv
<1>a. op \in Ops /\ op \notin DisconnectOps BY OpsAssumption DEF Ops
<1>b. /\ Left(op, {}, "credentials-delete-pending")
           => \A a \in scope[op] : Gone("credentials", credentials, a)
      /\ Left(op, P1, "account-state-delete-pending")
           => \A a \in scope[op] : Gone("accountState", accountState, a)
      /\ Left(op, P2, "mail-data-delete-pending") =>
           sampleMail = {} /\ providerMail = {} /\ mailMode = "none"
      /\ Left(op, P3, "compaction-pending")
           => \A a \in scope[op] : Gone("residue", residue, a)
      /\ Left(op, P4, "data-key-delete-pending") => ~dataKey /\ ~keyHeld
      /\ step[op] # "half"
  BY DEF DeletionInv
<1>c. scope[op] \subseteq born \ connecting BY DEF AccountsAreBorn
<1>d. journal[op] # "absent" => scope'[op] = scope[op] /\ latestDeletion # NoOp
  BY ScopeIsKept DEF JournalInv, LatestDeletionIsKnown
<1>e. step'[op] # "half"
  BY <1>a, <1>b, EffectIsPerformed
<1>1. ASSUME Due(op, journal[op])
      PROVE  DeletionPerform(op) /\ KeepReturned /\ journal[op] # "absent"
  <2>1. RunDeletion(op) /\ DeletionPerform(op)
    BY <1>a, <1>1, EffectIsPerformed DEF Due
  <2>2. QED BY <2>1, DeletionStepKeeps DEF RunDeletion
<1>2. CASE \E p \in P4 \cup {"data-key-delete-pending"} : Due(op, p)
  <2>1. /\ journal[op] = "credentials-delete-pending" => credentials' = {}
        /\ journal[op] = "account-state-delete-pending" => accountState' = {}
        /\ journal[op] = "mail-data-delete-pending" =>
             sampleMail' = {} /\ providerMail' = {} /\ mailMode' = "none"
        /\ journal[op] = "compaction-pending" => residue' = {}
        /\ journal[op] = "data-key-delete-pending" => ~dataKey' /\ ~keyHeld'
    BY <1>1, <1>2
      DEF Due, DeletionPerform, DeletionEffect, PerformCredentialsDelete,
          DeleteGoogleRefreshTokens, PerformAllAccountStateDelete,
          DeleteAllAccountState, PerformMailDelete, DeleteAllMail, PerformSanitize,
          Sanitize, PerformEraseDataKey, DeleteDataKey
  <2>2. journal'[op] = journal[op] /\ step'[op] = "save" /\ journal[op] # "absent"
    BY <1>1, <1>2 DEF Due, DeletionPerform, PhasePerformed
  <2>3. QED
    BY <1>b, <1>c, <1>d, <1>e, <1>2, <2>1, <2>2, StoresKeepGone, MailStaysGone
      DEF Left, Beyond, Gone, Due
<1>3. CASE \A p \in P4 \cup {"data-key-delete-pending"} : ~Due(op, p)
  <2>1. /\ Left(op, {}, "credentials-delete-pending")'
             => Left(op, {}, "credentials-delete-pending")
        /\ Left(op, P1, "account-state-delete-pending")'
             => Left(op, P1, "account-state-delete-pending")
        /\ Left(op, P2, "mail-data-delete-pending")'
             => Left(op, P2, "mail-data-delete-pending")
        /\ Left(op, P3, "compaction-pending")' => Left(op, P3, "compaction-pending")
        /\ Left(op, P4, "data-key-delete-pending")'
             => Left(op, P4, "data-key-delete-pending")
    BY <1>3, DeletionLeaves
  <2>2. /\ Left(op, P4, "data-key-delete-pending") => Left(op, P3, "compaction-pending")
        /\ Left(op, P3, "compaction-pending") => Left(op, P2, "mail-data-delete-pending")
        /\ Left(op, P2, "mail-data-delete-pending")
             => Left(op, P1, "account-state-delete-pending")
        /\ Left(op, P1, "account-state-delete-pending")
             => Left(op, {}, "credentials-delete-pending")
        /\ Left(op, {}, "credentials-delete-pending") => journal[op] # "absent"
    BY DEF Left, Beyond
  <2>3. ASSUME journal[op] # "absent", NEW a \in scope'[op]
        PROVE  /\ a \in scope[op]
               /\ Gone("credentials", credentials, a) => Gone("credentials", credentials, a)'
               /\ Gone("accountState", accountState, a)
                    => Gone("accountState", accountState, a)'
               /\ Gone("credentials", credentials, a) /\ Gone("residue", residue, a)
                    /\ Gone("accountState", accountState, a)
                    /\ sampleMail = {} /\ providerMail = {}
                    => Gone("residue", residue, a)'
    <3>1. a \in scope[op] /\ a \in born \ connecting BY <1>c, <1>d, <2>3
    <3>2. providerMail = {} => Gone("providerMail", providerMail, a) BY DEF Gone
    <3>3. QED BY <3>1, <3>2, StoresKeepGone
  <2>4. QED BY <1>b, <1>d, <1>e, <2>1, <2>2, <2>3, MailStaysGone
<1>4. QED BY <1>2, <1>3

\* The key is kept as long as it is needed: it stays, or ciphertext does not
\* grow, or the deletion has come to its last phase.
LEMMA KeyInvIsPreserved ==
    ASSUME JournalInv, JournalInv', StoresTypeOK', MemoryTypeOK, ErasureInv,
           [Next]_vars
    PROVE  KeyInv'
<1> USE OpsAssumption, SamplesAssumption DEF KeyInv, Gone, Ops, journalVars,
       storeVars, deletionVars, memoryVars, runVars, lateVars, ErasureInv, ErasedInv
<1>1. CASE BootReady BY <1>1 DEF BootReady
<1>2. CASE BootRecovering \/ BootDeleted \/ RecoveryFailed \/ Quit
  BY <1>2
    DEF BootRecovering, ResumeDeletion, BootDeleted, RecoveryFailed, Quit
<1>3. ASSUME NEW a \in Accounts, StoreCredential(a) \/ ActivateLive(a) PROVE KeyInv'
  BY <1>3 DEF StoreCredential, ActivateLive
<1>4. ASSUME NEW a \in Accounts, StoreAccountState(a) PROVE KeyInv'
  BY <1>4
    DEF StoreAccountState, ModeIsConsistent, AccountsAreBorn, JournalInv,
        JournalTypeOK
<1>5. ASSUME NEW a \in Accounts, SyncCommit(a) PROVE KeyInv'
  BY <1>5, ConnectedMeans DEF SyncCommit
<1>6. ASSUME NEW a \in Accounts, LateWrite(a) PROVE KeyInv'
  BY <1>6
    DEF LateWrite, BeginRenewal, RenewalGranted, RenewalFails, RenewalStored,
        BeginReprotection, Reprotected, QueueRetry, RetryRuns, LateCredential
<1>7. ASSUME NEW op \in Ops, Expire(op) PROVE KeyInv'
  BY <1>7 DEF Expire
<1>8. ASSUME NEW op \in DisconnectOps,
             \/ PrepareDisconnect(op) \/ ExecuteDisconnect(op)
             \/ DisconnectRefused(op) \/ ForgetDisconnectChallenge(op)
      PROVE  KeyInv'
  BY <1>8
    DEF PrepareDisconnect, ExecuteDisconnect, DisconnectRefused,
        ForgetDisconnectChallenge
<1>9. ASSUME NEW op \in DisconnectOps, StartDisconnect(op) \/ RollbackConnection(op)
      PROVE  KeyInv'
  BY <1>9
    DEF StartDisconnect, RollbackConnection, Disconnect, InsertRow, SavePhase,
        FirstPhase, JournalInv, JournalTypeOK
<1>10. ASSUME NEW op \in DisconnectOps, RunDisconnect(op) PROVE KeyInv'
  <2>1. /\ latestDeletion' = latestDeletion /\ scope' = scope
        /\ \A x \in DeletionOps : journal'[x] = journal[x]
    BY <1>10
      DEF RunDisconnect, DisconnectStep, PerformAccountDataRemoval, DisconnectPerform,
          DisconnectPerformFails, DisconnectSave, DisconnectSaveFails, LastEffect,
          PhasePerformed, PhaseFailed, SaveFailureCode, PhaseSaved, SavePhase,
          PhaseSaveFailed, JournalInv, JournalTypeOK
  <2>2. /\ accountState' \subseteq accountState /\ sampleMail' \subseteq sampleMail
        /\ providerMail' \subseteq providerMail /\ dataKey' = dataKey
    BY <1>10
      DEF RunDisconnect, DisconnectStep, PerformAccountDataRemoval, DisconnectPerform,
          DisconnectPerformFails, DisconnectSave, DisconnectSaveFails, LastEffect,
          PerformRevocation, PerformCredentialDelete, PerformAccountStateDelete,
          PerformCompaction, PerformProviderMailDelete, DeleteAccountState,
          RemoveAccountData, DeleteProviderMail
  <2>3. KeepReturned BY <1>10 DEF RunDisconnect
  <2>4. QED BY <2>1, <2>2, <2>3, KeepsReturned
<1>11. ASSUME NEW op \in DeletionOps,
              PrepareDeletion(op) \/ ConfirmDeletion(op) \/ DeletionRefused(op)
       PROVE  KeyInv'
  BY <1>11 DEF PrepareDeletion, ConfirmDeletion, DeletionRefused
<1>12. ASSUME NEW op \in DeletionOps, StartDeletion(op) PROVE KeyInv'
  BY <1>12
    DEF StartDeletion, DeleteExisting, DeleteNew, InsertRow, SavePhase, FirstPhase,
        JournalInv, JournalTypeOK, LatestDeletionIsKnown, Pending, MemoryTypeOK
<1>13. ASSUME NEW op \in DeletionOps, RunDeletion(op) PROVE KeyInv'
  <2>1. /\ latestDeletion' = latestDeletion /\ scope' = scope
        /\ \A x \in DeletionOps : journal[x] = "completed" => journal'[x] = "completed"
    BY <1>13
      DEF RunDeletion, DeletionPerform, DeletionPerformFails, DeletionSave,
          DeletionSaveFails, DeletionAborted, PhasePerformed, PhaseFailed,
          SaveFailureCode, PhaseSaved, SavePhase, PhaseSaveFailed, JournalInv,
          JournalTypeOK, RunningIsPending, Running, Pending
  <2>2. /\ accountState' \subseteq accountState /\ sampleMail' \subseteq sampleMail
        /\ providerMail' \subseteq providerMail
        /\ dataKey' = dataKey \/ (journal[op] = "data-key-delete-pending" /\ step[op] # "idle")
    BY <1>13
      DEF RunDeletion, DeletionPerform, DeletionPerformFails, DeletionSave,
          DeletionSaveFails, DeletionAborted, DeletionEffect, PartialEraseDataKey,
          PerformCredentialsDelete, PerformAllAccountStateDelete, PerformMailDelete,
          PerformSanitize, PerformEraseDataKey, DeleteAllAccountState, DeleteAllMail
  <2>3. KeepReturned BY <1>13 DEF RunDeletion
  <2>4. CASE dataKey' = dataKey BY <2>1, <2>2, <2>3, <2>4, KeepsReturned
  <2>5. CASE journal[op] = "data-key-delete-pending" /\ step[op] # "idle"
    <3>1. op = latestDeletion /\ latestDeletion # NoOp
      BY <2>5 DEF JournalInv, LatestDeletionIsKnown, Pending
    <3>2. /\ \A a \in scope[op] : Gone("accountState", accountState, a)
          /\ sampleMail = {} /\ providerMail = {}
      BY <2>5 DEF DeletionInv, Left, Beyond
    <3>3. QED BY <2>1, <2>2, <2>3, <3>1, <3>2, KeepsReturned
  <2>6. QED BY <2>2, <2>4, <2>5
<1>14. ASSUME NEW op \in DeletionOps, FinishDeletion(op) PROVE KeyInv'
  BY <1>14, DeletionTable
    DEF FinishDeletion, DeletionSave, PhaseSaved, SavePhase, JournalInv, JournalTypeOK
<1>15. CASE UNCHANGED vars BY <1>15 DEF vars
<1>16. QED
  BY <1>1, <1>2, <1>3, <1>4, <1>5, <1>6, <1>7, <1>8, <1>9, <1>10, <1>11,
     <1>12, <1>13, <1>14, <1>15
    DEF Next, Boot, LateWrite

-----------------------------------------------------------------------------
\* The inductive invariant.
IInv == JournalInv /\ TypeOK /\ ErasureInv

\* The initial state satisfies it.
LEMMA InitIInv == Init => IInv
<1>1. Init => ErasureInv
  BY OpsAssumption, SamplesAssumption
    DEF Init, JournalInit, StoresInit, ErasureInv, ErasedInv, AccountsAreBorn,
        ModeIsConsistent, DisconnectInv, DeletionInv, KeyInv, Left, Beyond,
        Gone, Ops, Running
<1>2. QED BY <1>1, InitJournal DEF IInv

\* Every step preserves it.
LEMMA NextIInv == IInv /\ [Next]_vars => IInv'
<1> SUFFICES ASSUME IInv, [Next]_vars PROVE IInv'
  OBVIOUS
<1>1. JournalInv' /\ TypeOK' BY NextJournal DEF IInv
<1>2. StoresTypeOK /\ StoresTypeOK' /\ MemoryTypeOK /\ MemoryTypeOK'
  BY <1>1 DEF IInv, TypeOK, MemoryTypeOK
<1>4. ErasedInv'
  BY <1>1, <1>2, StepsAreJournalSteps, AccountsAreBornKept, ModeIsConsistentKept,
     DisconnectInvKept, DeletionInvKept
    DEF IInv, ErasureInv, ErasedInv
<1>5. KeyInv' BY <1>1, <1>2, KeyInvIsPreserved DEF IInv
<1>3. QED BY <1>1, <1>4, <1>5 DEF IInv, ErasureInv

\* The inductive invariant holds in every reachable state.
THEOREM Inductive == Spec => []IInv
  BY InitIInv, NextIInv, PTL DEF Spec

\* A disconnect has removed what its journal says it has, and it stays removed:
\* whatever is found later was put back by a reauthorization, a re-protection or
\* a queued batch that was under way, the writes the specification has for that.
THEOREM DisconnectErases == Spec => []DisconnectErasedBeforeAdvance
<1>1. IInv => DisconnectErasedBeforeAdvance
  BY OpsAssumption
    DEF IInv, ErasureInv, ErasedInv, DisconnectInv, DisconnectErasedBeforeAdvance,
        Left, Gone, Original, Beyond, AccountsAreBorn
<1>2. QED BY Inductive, <1>1, PTL

\* A deletion has removed what its journal says it has, and it stays removed; a
\* late write puts back no more than a credential or a sync row.
THEOREM DeletionErases == Spec => []DeletionErasedBeforeAdvance
<1>1. IInv => DeletionErasedBeforeAdvance
  BY
    DEF IInv, ErasureInv, ErasedInv, DeletionInv, DeletionErasedBeforeAdvance, Left,
        Gone, Original, Beyond
<1>2. QED BY Inductive, <1>1, PTL

\* Disconnects and deletions together never run ahead of the stores, the late
\* writes apart that the two properties name.
THEOREM JournalIsNeverAhead == Spec => []JournalNeverAhead
  BY DisconnectErases, DeletionErases, PTL DEF JournalNeverAhead

\* No crash strands ciphertext without its key, and a completed deletion has
\* erased the key, in the vault and in memory, for good.
THEOREM KeyIsErasedLast == Spec => []KeyErasedLastAndForGood
<1>1. IInv => KeyErasedLastAndForGood
  <2> SUFFICES ASSUME IInv PROVE KeyErasedLastAndForGood
    OBVIOUS
  <2>1. CASE \E op \in DeletionOps : journal[op] = "completed"
    BY <2>1
      DEF IInv, ErasureInv, ErasedInv, DeletionInv, KeyErasedLastAndForGood, Left,
          Beyond
  <2>2. CASE \A op \in DeletionOps : journal[op] # "completed"
    <3> DEFINE promised == IF latestDeletion = NoOp THEN Accounts
                                                    ELSE scope[latestDeletion]
    <3>1. promised \subseteq Accounts
      BY DEF IInv, TypeOK, JournalTypeOK
    <3>2. \A a \in promised : latestDeletion = NoOp \/ a \in scope[latestDeletion]
      OBVIOUS
    <3>3. ~dataKey => \A a \in promised :
            a \notin sampleMail \cup providerMail /\ Gone("accountState", accountState, a)
      BY <2>2, <3>1, <3>2 DEF IInv, ErasureInv, KeyInv
    <3>4. promised \cap (Original("accountState", accountState) \cup sampleMail
                            \cup providerMail) # {} => dataKey
      BY <3>3 DEF Gone, Original
    <3>5. QED BY <2>2, <3>4 DEF KeyErasedLastAndForGood
  <2>3. QED BY <2>1, <2>2
<1>2. QED BY Inductive, <1>1, PTL

-----------------------------------------------------------------------------
(* The contract *)

\* The variables the contract calls held.
HeldVars == <<credentials, accountState, sampleMail, providerMail, residue, returned>>

\* A step changes the journal and the promises only by one of two steps, and
\* then leaves the stores alone.
LEMMA JournalOrStores ==
   ASSUME IInv, [Next]_vars
   PROVE  \/ UNCHANGED <<journal, scope>>
          \/ /\ SaveStep /\ UNCHANGED HeldVars /\ UNCHANGED scope
          \/ /\ InsertStep /\ UNCHANGED HeldVars
             /\ \A x \in DeletionOps : journal'[x] = journal[x] => scope'[x] = scope[x]
<1> USE OpsAssumption DEF journalVars, storeVars, memoryVars, runVars, lateVars,
       HeldVars, KeepReturned, Ops,
       IInv, TypeOK, JournalTypeOK
<1> DEFINE G == \/ UNCHANGED <<journal, scope>>
          \/ /\ SaveStep /\ UNCHANGED HeldVars /\ UNCHANGED scope
          \/ /\ InsertStep /\ UNCHANGED HeldVars
             /\ \A x \in DeletionOps : journal'[x] = journal[x] => scope'[x] = scope[x]
<1>1. CASE Boot \/ Quit
  BY <1>1
    DEF Boot, BootReady, BootRecovering, BootDeleted, RecoveryFailed, Quit,
        ResumeDeletion
<1>2. ASSUME NEW a \in Accounts,
             StoreCredential(a) \/ StoreAccountState(a) \/ ActivateLive(a) \/ SyncCommit(a)
      PROVE  G
  BY <1>2 DEF StoreCredential, StoreAccountState, ActivateLive, SyncCommit
<1>12. ASSUME NEW a \in Accounts, LateWrite(a) PROVE G
  BY <1>12
    DEF LateWrite, BeginRenewal, RenewalGranted, RenewalFails, RenewalStored,
        BeginReprotection, Reprotected, QueueRetry, RetryRuns, LateCredential
<1>3. ASSUME NEW op \in Ops, Expire(op) PROVE G
  BY <1>3 DEF Expire
<1>4. ASSUME NEW op \in DisconnectOps,
             \/ PrepareDisconnect(op) \/ ExecuteDisconnect(op)
             \/ DisconnectRefused(op) \/ ForgetDisconnectChallenge(op)
      PROVE  G
  BY <1>4
    DEF PrepareDisconnect, ExecuteDisconnect, DisconnectRefused,
        ForgetDisconnectChallenge
<1>5. ASSUME NEW op \in DisconnectOps,
             StartDisconnect(op) \/ RollbackConnection(op)
      PROVE  G
  BY <1>5 DEF StartDisconnect, RollbackConnection, Disconnect, InsertStep
<1>6. ASSUME NEW op \in DisconnectOps, RunDisconnect(op) PROVE G
  BY <1>6
    DEF RunDisconnect, DisconnectStep, PerformAccountDataRemoval,
        DisconnectPerform, DisconnectPerformFails, DisconnectSave,
        DisconnectSaveFails, PhasePerformed, PhaseFailed, SaveFailureCode,
        PhaseSaveFailed, SaveStep, NextPhase
<1>7. ASSUME NEW op \in DeletionOps,
             \/ PrepareDeletion(op) \/ ConfirmDeletion(op) \/ DeletionRefused(op)
      PROVE  G
  BY <1>7 DEF PrepareDeletion, ConfirmDeletion, DeletionRefused
<1>8. ASSUME NEW op \in DeletionOps, StartDeletion(op) PROVE G
  <2>1. CASE DeleteExisting(op) /\ UNCHANGED scope BY <2>1 DEF DeleteExisting
  <2>2. CASE DeleteNew(op) /\ scope' = [scope EXCEPT ![op] = born \ connecting]
    <3>1. journal[op] = "absent" /\ journal'[op] # "absent"
      BY <2>2 DEF DeleteNew, InsertRow, SavePhase, FirstPhase
    <3>2. \A x \in DeletionOps : journal'[x] = journal[x] => scope'[x] = scope[x]
      BY <2>2, <3>1
    <3>3. InsertStep /\ UNCHANGED HeldVars
      BY <1>8, <2>2 DEF StartDeletion, DeleteNew, InsertStep
    <3>4. QED BY <3>2, <3>3
  <2>3. QED BY <1>8, <2>1, <2>2 DEF StartDeletion
<1>9. ASSUME NEW op \in DeletionOps, RunDeletion(op) \/ FinishDeletion(op) PROVE G
  BY <1>9
    DEF RunDeletion, FinishDeletion, DeletionPerform, DeletionPerformFails,
        DeletionSave, DeletionSaveFails, DeletionAborted, PhasePerformed,
        PhaseFailed, SaveFailureCode, PhaseSaveFailed, SaveStep, NextPhase
<1>10. CASE UNCHANGED vars BY <1>10 DEF vars
<1>11. QED
  BY <1>1, <1>2, <1>3, <1>4, <1>5, <1>6, <1>7, <1>8, <1>9, <1>10, <1>12
    DEF Next, LateWrite

-----------------------------------------------------------------------------
\* The refinement mapping of status and promised.
StatusOf == [op \in Ops |-> Status(op)]
PromisedOf == [op \in Ops |-> Promise(op)]

\* The image of the stores has the type of the contract.
LEMMA HeldType == ASSUME TypeOK PROVE Held \ returned \subseteq LocalStoreNames \X Accounts
  BY DEF Held, LocalStoreNames, TypeOK, StoresTypeOK

\* An operation promises accounts.
LEMMA PromiseType == ASSUME TypeOK, NEW op \in Ops PROVE Promise(op) \in SUBSET Accounts
  BY OpsAssumption DEF Promise, TypeOK, Ops

\* Initial states map to initial states.
LEMMA InitRefines == Init => Contract!Init
<1> SUFFICES ASSUME Init PROVE Contract!Init
  OBVIOUS
<1>1. TypeOK BY InitIInv DEF IInv
<1>2. StatusOf = [op \in Ops |-> "none"]
  BY DEF StatusOf, Status, Init, JournalInit
<1>3. PromisedOf \in [Ops -> SUBSET Accounts]
  BY <1>1, PromiseType DEF PromisedOf
<1>4. Held \ returned \subseteq LocalStoreNames \X Accounts BY <1>1, HeldType
<1>5. QED
  BY <1>2, <1>3, <1>4
    DEF Contract!Init, Contract!AllOps, Ops, StatusOf, PromisedOf

\* Every step maps to a step of the contract or to a stutter.
LEMMA StepRefines ==
    ASSUME IInv, IInv', [Next]_vars
    PROVE  [Contract!Next]_(Contract!contractVars)
<1>a. Ops = Contract!AllOps BY DEF Ops, Contract!AllOps
<1>b. \A op \in Ops : journal'[op] = "completed" =>
        \A st \in LocalStoreNames, a \in Promise(op)' : <<st, a>> \notin Held' \ returned'
  <2> SUFFICES ASSUME NEW op \in Ops, journal'[op] = "completed"
               PROVE  \A st \in LocalStoreNames, a \in Promise(op)' :
                        <<st, a>> \notin Held' \ returned'
    OBVIOUS
  <2>1. Promise(op)' \cap
          (Original("credentials", credentials)' \cup Original("accountState", accountState)'
             \cup sampleMail' \cup Original("providerMail", providerMail)'
             \cup Original("residue", residue)') = {}
    BY OpsAssumption
      DEF IInv, ErasureInv, ErasedInv, DisconnectInv, DeletionInv, Left, Beyond,
          AccountsAreBorn, Gone, Original, Promise, Ops
  <2>2. QED BY <2>1 DEF Held, Original
<1>c. \A op \in Ops : PromisedOf[op] = Promise(op) /\ StatusOf[op] = Status(op)
  BY DEF PromisedOf, StatusOf
<1>d. \A op \in Ops : PromisedOf'[op] = Promise(op)' /\ StatusOf'[op] = Status(op)'
  BY DEF PromisedOf, StatusOf
<1>e. Held' \ returned' \subseteq LocalStoreNames \X Accounts
  BY DEF IInv, Held, LocalStoreNames, TypeOK, StoresTypeOK
<1>f. ASSUME StatusOf' = StatusOf, PromisedOf' = PromisedOf PROVE Contract!Change
  <2>1. \A op \in Ops : StatusOf[op] = "completed" => journal'[op] = "completed"
    BY <1>d, <1>f DEF Status
  <2>2. \A op \in Ops : PromisedOf[op] = Promise(op)'
    BY <1>d, <1>f
  <2>3. QED
    BY <1>a, <1>b, <1>e, <1>f, <2>1, <2>2
      DEF Contract!Change, StatusOf, PromisedOf
<1>1. CASE UNCHANGED <<journal, scope>>
  <2>1. StatusOf' = StatusOf /\ PromisedOf' = PromisedOf
    BY <1>1 DEF StatusOf, PromisedOf, Status, Promise
  <2>2. QED BY <2>1, <1>f DEF Contract!Next
<1>2. CASE SaveStep /\ UNCHANGED HeldVars /\ UNCHANGED scope
  <2>1. PICK op \in Ops : PhaseSaved(op, NextPhase(op))
    BY <1>2 DEF SaveStep
  <2>2. op \in Pending /\ NextPhase(op) \in PhasesOf(op) \ {"absent"}
    BY <2>1, NextPhaseType, NoPhaseIsAbsent
      DEF RunningIsPending, PhaseSaved, IInv, JournalInv, Running
  <2>3. journal' = [journal EXCEPT ![op] = NextPhase(op)]
    BY <2>1 DEF PhaseSaved, SavePhase
  <2>4. PromisedOf' = PromisedOf /\ Held' = Held /\ returned' = returned
    BY <1>2 DEF PromisedOf, Promise, Held, HeldVars
  <2>5. journal \in [Ops -> {"absent"} \cup DisconnectPhase \cup DeleteLocalDataPhase]
    BY DEF IInv, TypeOK, JournalTypeOK
  <2>6. CASE NextPhase(op) = "completed"
    <3>1. StatusOf[op] = "pending" /\ StatusOf' = [StatusOf EXCEPT ![op] = "completed"]
      BY <2>2, <2>3, <2>5, <2>6 DEF StatusOf, Status, Pending
    <3>2. \A st \in LocalStoreNames, a \in PromisedOf[op] : <<st, a>> \notin Held \ returned
      BY <1>b, <1>d, <2>3, <2>4, <2>5, <2>6
    <3>3. Contract!Complete(op)
      BY <2>4, <3>1, <3>2 DEF Contract!Complete, StatusOf, PromisedOf
    <3>4. QED BY <3>3, <1>a DEF Contract!Next
  <2>7. CASE NextPhase(op) # "completed"
    <3>1. StatusOf' = StatusOf
      BY <2>2, <2>3, <2>5, <2>7 DEF StatusOf, Status, Pending
    <3>2. QED BY <2>4, <3>1, <1>f DEF Contract!Next
  <2>8. QED BY <2>6, <2>7
<1>3. CASE /\ InsertStep /\ UNCHANGED HeldVars
           /\ \A x \in DeletionOps : journal'[x] = journal[x] => scope'[x] = scope[x]
  <2>1. PICK op \in Ops :
           /\ journal[op] = "absent"
           /\ op \in DisconnectOps => ~DisconnectBlocked(op)
           /\ op \in DeletionOps => Pending = {} /\ op \in receipts
           /\ InsertRow(op)
           /\ StartLoop(op, FirstPhase(op))
    BY <1>3 DEF InsertStep
  <2>2. FirstPhase(op) \notin {"absent", "completed"}
    BY DEF FirstPhase
  <2>3. journal' = [journal EXCEPT ![op] = FirstPhase(op)]
    BY <2>1 DEF InsertRow, SavePhase
  <2>4. journal \in [Ops -> {"absent"} \cup DisconnectPhase \cup DeleteLocalDataPhase]
    BY DEF IInv, TypeOK, JournalTypeOK
  <2>5. Held' = Held /\ returned' = returned BY <1>3 DEF Held, HeldVars
  <2>6. StatusOf[op] = "none" /\ StatusOf' = [StatusOf EXCEPT ![op] = "pending"]
    BY <2>1, <2>2, <2>3, <2>4 DEF StatusOf, Status
  <2>7. \A p \in Ops : PromisedOf'[p] = PromisedOf[p] \/ (p = op /\ op \in DeletionOps)
    BY <1>3, <1>c, <1>d, <2>3, <2>4, OpsAssumption DEF Promise, Ops
  <2>8. ASSUME NEW p \in Ops, StatusOf[p] = "pending"
        PROVE  Contract!MayBeginBeside(op, p)
    <3>1. p \in Pending BY <2>8, <1>c DEF Status, Pending
    <3>2. op \in DisconnectOps /\ p \in DisconnectOps /\ AccountOf[op] # AccountOf[p]
      BY <2>1, <3>1, OpsAssumption DEF DisconnectBlocked, Ops
    <3>3. PromisedOf[op] \cap PromisedOf[p] = {}
      BY <3>2, <1>c DEF Promise
    <3>4. QED BY <3>2, <3>3 DEF Contract!MayBeginBeside, PromisedOf
  <2>9. Contract!Begin(op)
    BY <1>a, <2>5, <2>6, <2>7, <2>8 DEF Contract!Begin, StatusOf, PromisedOf
  <2>10. QED BY <2>9, <1>a DEF Contract!Next
<1>4. QED BY <1>1, <1>2, <1>3, JournalOrStores

\* The two services over their journal keep the contract, for any accounts and
\* any operations.
THEOREM Implements == Spec => ImplementsContract
<1>1. IInv /\ IInv' /\ [Next]_vars => [Contract!Next]_(Contract!contractVars)
  BY StepRefines
<1>2. QED
  BY InitRefines, <1>1, InitIInv, NextIInv, PTL
    DEF Spec, ImplementsContract, Contract!Spec
=============================================================================
