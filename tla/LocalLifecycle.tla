---------------------------- MODULE LocalLifecycle ----------------------------
(***************************************************************************)
(* The local lifecycle of the installation: the disconnect and deletion    *)
(* services over one journal and one database, the commands that start     *)
(* them, the confirmations, what fills the stores in the meantime, crashes *)
(* of the process, and startup recovery.                                   *)
(*                                                                         *)
(* mode is "closed" (no process, or one whose bootstrap failed),           *)
(* "recovering" (bootstrap is resuming a deletion), "ready", "erased" (the *)
(* ready runtime after its deletion command has succeeded: its other       *)
(* services still exist), or "deleted" (the runtime without services that  *)
(* bootstrap returns once a deletion is completed).                        *)
(***************************************************************************)
EXTENDS DisconnectAccount, DeleteLocalData

VARIABLES
    mode,        \* what the process is doing
    born,        \* account ids that have been drawn so far
    connecting,  \* accounts between the two writes of their connection
    challenges,  \* operations with an open confirmation challenge in memory
    executing,   \* commands that passed their checks and await the owner
    scope,       \* history: the accounts known when a deletion row was inserted
    renewing,    \* accounts whose reauthorization awaits its grant
    storing,     \* accounts whose renewed credential is on its way to the vault
    reprotecting,\* accounts whose credential, read before, is being re-protected
    retries,     \* accounts with a sync batch in the queue of the owner
    returned     \* what a late write has put back into a store: <<store, account>>

lateVars == <<renewing, storing, reprotecting, retries, returned>>

runVars == <<mode, born, connecting, challenges, executing, scope,
             renewing, storing, reprotecting, retries>>

memoryVars == <<runVars, returned>>

vars == <<journalVars, storeVars, deletionVars, memoryVars>>

Init ==
    /\ JournalInit
    /\ StoresInit
    /\ keyHeld = FALSE
    /\ receipts = {}
    /\ expired = {}
    /\ mode = "closed"
    /\ born = SampleAccounts
    /\ connecting = {}
    /\ challenges = {}
    /\ executing = {}
    /\ scope = [op \in DeletionOps |-> {}]
    /\ renewing = {}
    /\ storing = {}
    /\ reprotecting = {}
    /\ retries = {}
    /\ returned = {}

-----------------------------------------------------------------------------
(* What is stored, as pairs of a store and an account, and what of it a    *)
(* late write has put back after it had been erased.                       *)

LocalStoreNames == {"credentials", "accountState", "sampleMail", "providerMail", "residue"}

Held ==
    {<<"credentials", a>> : a \in credentials} \cup
    {<<"accountState", a>> : a \in accountState} \cup
    {<<"sampleMail", a>> : a \in sampleMail} \cup
    {<<"providerMail", a>> : a \in providerMail} \cup
    {<<"residue", a>> : a \in residue}

Granted == {<<"grants", a>> : a \in grants}

\* The accounts of a store without those that a late write put back.
Original(store, accounts) == {a \in accounts : <<store, a>> \notin returned}

\* A late write of a into a store: it returns when the store has lost it.
PutBack(store, accounts, a) == IF a \in accounts THEN {} ELSE {<<store, a>>}

\* What had been put back and is erased again may be left in the free pages;
\* what is not stored any more is forgotten.
KeepReturned ==
    IF UNCHANGED storeVars
    THEN UNCHANGED returned
    ELSE LET erased == (returned \cap Held) \ Held'
         IN returned' = (returned \cup {<<"residue", p[2]>> : p \in erased})
                          \cap (Held \cup Granted)'

\* Both writes of the connection of a are done and nothing has undone them.
\* What a late write puts back is a sync row without the account record.
Connected(a) == a \in credentials \cap Original("accountState", accountState)

-----------------------------------------------------------------------------
(* Bootstrap *)

\* cleanupExpired: receipts of a deletion that is still pending are kept.
CleanupExpired == receipts' = receipts \ (expired \ Pending)

\* No deletion row: load or create the data key, finish an interrupted
\* sanitization, seed the samples.
BootReady ==
    /\ mode = "closed"
    /\ latestDeletion = NoOp
    /\ LET mustExist == Pending \cap DisconnectOps # {} \/ mailMode = "live"
           seeds == Pending = {} /\ mailMode = "sample" /\ sampleMail = {}
       IN /\ dataKey \/ (~mustExist /\ sampleMail = {})
          /\ dataKey' = TRUE
          /\ residue' = IF cacheStatus = "ready" THEN residue ELSE {}
          /\ cacheStatus' = "ready"
          /\ sampleMail' = IF seeds THEN SampleAccounts ELSE sampleMail
    /\ keyHeld' = TRUE
    /\ CleanupExpired
    /\ mode' = "ready"
    /\ UNCHANGED <<journalVars, grants, credentials, accountState, providerMail,
                   mailMode, expired, born, connecting, challenges, executing, scope, lateVars>>

\* Mutant: expired receipts are cleaned up before the deletion is resumed.
BootRecoveringAfterCleanup ==
    /\ mode = "closed"
    /\ latestDeletion # NoOp
    /\ journal[latestDeletion] # "completed"
    /\ Pending \subseteq {latestDeletion}
    /\ ResumeDeletion(latestDeletion)
    /\ mode' = "recovering"
    /\ receipts' = receipts \ expired
    /\ UNCHANGED <<keyHeld, expired, born, connecting, challenges, executing, scope, lateVars>>

\* An incomplete deletion is resumed before any key is loaded.  Other pending
\* work beside it is a conflict, and bootstrap stops.
BootRecovering ==
    /\ mode = "closed"
    /\ latestDeletion # NoOp
    /\ journal[latestDeletion] # "completed"
    /\ Pending \subseteq {latestDeletion}
    /\ ResumeDeletion(latestDeletion)
    /\ mode' = "recovering"
    /\ UNCHANGED <<deletionVars, born, connecting, challenges, executing, scope, lateVars>>

\* recover() returned because the latest deletion is completed: when boot
\* found it so, or when the resumed run has saved its last phase.
BootDeleted ==
    /\ mode \in {"closed", "recovering"}
    /\ latestDeletion # NoOp
    /\ journal[latestDeletion] = "completed"
    /\ CleanupExpired
    /\ mode' = "deleted"
    /\ UNCHANGED <<journalVars, storeVars, keyHeld, expired,
                   born, connecting, challenges, executing, scope, lateVars>>

\* The resumed run has given up: bootstrap throws and nothing is served.
RecoveryFailed ==
    /\ mode = "recovering"
    /\ Running = {}
    /\ journal[latestDeletion] # "completed"
    /\ mode' = "closed"
    /\ UNCHANGED <<journalVars, storeVars, deletionVars,
                   born, connecting, challenges, executing, scope, lateVars>>

\* The process ends, at any point: what it held in memory is gone.
Quit ==
    /\ mode # "closed"
    /\ mode' = "closed"
    /\ ForgetRuns
    /\ keyHeld' = FALSE
    /\ connecting' = {}
    /\ challenges' = {}
    /\ executing' = {}
    /\ renewing' = {}
    /\ storing' = {}
    /\ reprotecting' = {}
    /\ retries' = {}
    /\ UNCHANGED <<journal, lastError, latestDeletion, storeVars,
                   receipts, expired, born, scope, returned>>

-----------------------------------------------------------------------------
(* What fills the stores.  The connection service is not behind the gate   *)
(* of the lifecycle owner; activation and sync are: they run only while no *)
(* lifecycle operation does.                                               *)

ServicesExist == mode \in {"ready", "erased"}

Gated == mode = "ready" /\ Running = {}

\* complete(): the grant of a fresh account id, then vault.set.
StoreCredential(a) ==
    /\ ServicesExist
    /\ a \notin born
    /\ born' = born \cup {a}
    /\ connecting' = connecting \cup {a}
    /\ grants' = grants \cup {a}
    /\ credentials' = credentials \cup {a}
    /\ UNCHANGED <<journalVars, deletionVars, accountState, sampleMail,
                   providerMail, mailMode, cacheStatus, residue, dataKey,
                   mode, challenges, executing, scope, lateVars>>

\* complete(): saveProviderAccount, which encrypts and so needs the key in
\* memory; when it fails the credential just written is deleted again.
StoreAccountState(a) ==
    /\ a \in connecting
    /\ connecting' = connecting \ {a}
    /\ IF keyHeld
       THEN /\ accountState' = accountState \cup {a}
            /\ UNCHANGED <<credentials, residue>>
       ELSE DeleteCredential(a) /\ UNCHANGED accountState
    /\ UNCHANGED <<journalVars, deletionVars, grants, sampleMail, providerMail,
                   mailMode, cacheStatus, dataKey,
                   mode, born, challenges, executing, scope, lateVars>>

\* activateLive: the one-way switch drops the samples, then sanitizes; a
\* failed sanitization is left pending for a later call or the next boot.
ActivateLive(a) ==
    /\ Gated
    /\ Connected(a)
    /\ mailMode # "none"
    /\ mailMode = "sample" \/ cacheStatus = "sanitization-pending"
    /\ mailMode' = "live"
    /\ sampleMail' = IF mailMode = "sample" THEN {} ELSE sampleMail
    /\ \/ Sanitize
       \/ /\ cacheStatus' = "sanitization-pending"
          /\ residue' = residue \cup (sampleMail \ sampleMail')
    /\ UNCHANGED <<journalVars, deletionVars, grants, credentials, accountState,
                   providerMail, dataKey, mode, born, connecting, challenges,
                   executing, scope, lateVars>>

\* A synchronization commits mail of a connected account: the first one right
\* after the activation, later ones on the state that the first has left.
SyncCommit(a) ==
    /\ Gated
    /\ keyHeld
    /\ mailMode = "live"
    /\ Connected(a)
    /\ a \in grants
    /\ providerMail' = providerMail \cup {a}
    /\ UNCHANGED <<journalVars, deletionVars, grants, credentials, accountState,
                   sampleMail, mailMode, cacheStatus, residue, dataKey,
                   memoryVars>>

-----------------------------------------------------------------------------
(* Writes that were decided on earlier.  A reauthorization and a           *)
(* re-protection write to the vault after an await, behind no gate; a sync *)
(* batch waits in the queue of the owner.  None of them looks at the       *)
(* account again, and a disconnect or a deletion may have come between.    *)

\* The account is stored completely and has synchronized, which needs live mode.
Synchronizing(a) == Connected(a) /\ mailMode = "live"

\* reauthorize(): one at a time, of an account whose last sync was refused.
BeginRenewal(a) ==
    /\ ServicesExist
    /\ Synchronizing(a)
    /\ keyHeld
    /\ renewing \cup storing = {}
    /\ renewing' = renewing \cup {a}
    /\ UNCHANGED <<journalVars, storeVars, deletionVars, mode, born, connecting,
                   challenges, executing, scope, storing, reprotecting, retries,
                   returned>>

\* complete(): Google has granted again; the account is inspected once more,
\* and vault.set is called unless it has changed.
RenewalGranted(a) ==
    /\ a \in renewing
    /\ renewing' = renewing \ {a}
    /\ grants' = grants \cup {a}
    /\ returned' = returned \cup PutBack("grants", grants, a)
    /\ \/ Connected(a) /\ keyHeld /\ storing' = storing \cup {a}
       \/ UNCHANGED storing
    /\ UNCHANGED <<journalVars, deletionVars, credentials, accountState,
                   sampleMail, providerMail, mailMode, cacheStatus, residue,
                   dataKey, mode, born, connecting, challenges, executing,
                   scope, reprotecting, retries>>

\* It is cancelled, refused or expires, or vault.set fails.
RenewalFails(a) ==
    /\ a \in renewing \cup storing
    /\ renewing' = renewing \ {a}
    /\ storing' = storing \ {a}
    /\ UNCHANGED <<journalVars, storeVars, deletionVars, mode, born, connecting,
                   challenges, executing, scope, reprotecting, retries, returned>>

\* vault.set writes whatever the vault holds by now.
LateCredential(a) ==
    /\ credentials' = credentials \cup {a}
    /\ returned' = returned \cup PutBack("credentials", credentials, a)
    /\ UNCHANGED <<journalVars, deletionVars, grants, accountState, sampleMail,
                   providerMail, mailMode, cacheStatus, residue, dataKey, mode,
                   born, connecting, challenges, executing, scope, renewing>>

\* The renewed credential is stored, and a sync of the account is queued; an
\* owner that is suspended refuses it.
RenewalStored(a) ==
    /\ a \in storing
    /\ storing' = storing \ {a}
    /\ LateCredential(a)
    /\ retries' = IF mode = "ready" /\ NoDeletionActive THEN retries \cup {a}
                                                        ELSE retries
    /\ UNCHANGED reprotecting

\* A sync reads the credential and the platform asks for re-protection.
BeginReprotection(a) ==
    /\ Gated
    /\ Synchronizing(a)
    /\ reprotecting' = reprotecting \cup {a}
    /\ UNCHANGED <<journalVars, storeVars, deletionVars, mode, born, connecting,
                   challenges, executing, scope, renewing, storing, retries,
                   returned>>

Reprotected(a) ==
    /\ a \in reprotecting
    /\ reprotecting' = reprotecting \ {a}
    /\ LateCredential(a)
    /\ UNCHANGED <<storing, retries>>

\* A retry that the user has confirmed for a connected account is queued behind
\* a disconnect of it.  (With none before it, it runs before any later one: then
\* SyncCommit is all there is to it.)
QueueRetry(a) ==
    /\ mode = "ready"
    /\ NoDeletionActive
    /\ Synchronizing(a)
    /\ \E op \in DisconnectOps \cap (executing \cup Running) : AccountOf[op] = a
    /\ retries' = retries \cup {a}
    /\ UNCHANGED <<journalVars, storeVars, deletionVars, mode, born, connecting,
                   challenges, executing, scope, renewing, storing, reprotecting,
                   returned>>

\* Its turn: the status row is written (encrypted, so it needs the key that
\* every erasure destroys), and the sync commits when it gets a token.  For a
\* connected account the row is there already, and SyncCommit is the rest.
RetryRuns(a) ==
    /\ Gated
    /\ a \in retries
    /\ retries' = retries \ {a}
    /\ IF Connected(a) \/ ~dataKey
       THEN UNCHANGED <<accountState, providerMail, returned>>
       ELSE LET row == PutBack("accountState", accountState, a)
            IN /\ accountState' = accountState \cup {a}
               /\ \/ /\ returned' = returned \cup row
                     /\ UNCHANGED providerMail
                  \/ /\ mailMode = "live"
                     /\ a \in credentials \cap grants
                     /\ providerMail' = providerMail \cup {a}
                     /\ returned' = returned \cup row
                                    \cup PutBack("providerMail", providerMail, a)
    /\ UNCHANGED <<journalVars, deletionVars, grants, credentials, sampleMail,
                   mailMode, cacheStatus, residue, dataKey, mode, born,
                   connecting, challenges, executing, scope, renewing, storing,
                   reprotecting>>

-----------------------------------------------------------------------------
(* Confirmations and commands *)

\* A challenge or receipt reaches the end of its five minutes.
Expire(op) ==
    /\ op \notin expired
    /\ op \in challenges \cup receipts
    /\ expired' = expired \cup {op}
    /\ UNCHANGED <<journalVars, storeVars, keyHeld, receipts, memoryVars>>

\* Both prepare commands draw a fresh operation id.
Fresh(op) == journal[op] = "absent" /\ op \notin challenges \cup receipts \cup expired

PrepareDisconnect(op) ==
    /\ mode = "ready"
    /\ Fresh(op)
    /\ Connected(AccountOf[op])
    /\ challenges' = challenges \cup {op}
    /\ UNCHANGED <<journalVars, storeVars, deletionVars, mode, born, connecting,
                   executing, scope, lateVars>>

\* checkCanStart is read-only: no active run, no pending work.
PrepareDeletion(op) ==
    /\ mode = "ready"
    /\ Fresh(op)
    /\ NoDeletionActive
    /\ Pending = {}
    /\ challenges' = challenges \cup {op}
    /\ UNCHANGED <<journalVars, storeVars, deletionVars, mode, born, connecting,
                   executing, scope, lateVars>>

\* The disconnect command is accepted: open challenge, account connected.
CanExecuteDisconnect(op) ==
    /\ op \in challenges \ expired
    /\ Connected(AccountOf[op])

ExecuteDisconnect(op) ==
    /\ mode = "ready"
    /\ CanExecuteDisconnect(op)
    /\ executing' = executing \cup {op}
    /\ UNCHANGED <<journalVars, storeVars, deletionVars, mode, born, connecting,
                   challenges, scope, lateVars>>

\* The owner has come to the request and calls the service.  It does so while
\* it is running; after a successful deletion it stays suspended.
StartDisconnect(op) ==
    /\ mode = "ready"
    /\ op \in executing
    /\ executing' = executing \ {op}
    /\ Disconnect(op)
    /\ UNCHANGED <<deletionVars, mode, born, connecting, challenges, scope, lateVars>>

\* The owner or the service refuses it, or a run of the operation is shared.
DisconnectRefused(op) ==
    /\ op \in executing
    /\ \/ mode # "ready"
       \/ ActiveFor(AccountOf[op]) # {}
       \/ journal[op] = "absent" /\ DisconnectBlocked(op)
    /\ executing' = executing \ {op}
    /\ UNCHANGED <<journalVars, storeVars, deletionVars, mode, born, connecting,
                   challenges, scope, lateVars>>

\* The success path of the command forgets the challenge.
ForgetDisconnectChallenge(op) ==
    /\ op \in challenges
    /\ journal[op] = "completed"
    /\ challenges' = challenges \ {op}
    /\ UNCHANGED <<journalVars, storeVars, deletionVars, mode, born, connecting,
                   executing, scope, lateVars>>

\* A connection whose activation failed is rolled back through the same
\* service with an id of its own: no challenge, no second inspection.
RollbackConnection(op) ==
    /\ mode = "ready"
    /\ Fresh(op)
    /\ Connected(AccountOf[op])
    /\ Disconnect(op)
    /\ UNCHANGED <<deletionVars, memoryVars>>

\* The deletion command: confirm() turns an open challenge into a durable
\* receipt, or finds the receipt; then it waits for the quiescence gate.  One
\* that has expired makes no receipt, and does not stop the command here:
\* delete() decides.
ConfirmDeletion(op) ==
    /\ mode = "ready"
    /\ op \in receipts \cup challenges
    /\ receipts' = IF op \in expired THEN receipts ELSE receipts \cup {op}
    /\ challenges' = challenges \ {op}
    /\ executing' = executing \cup {op}
    /\ UNCHANGED <<journalVars, storeVars, keyHeld, expired, mode, born,
                   connecting, scope, lateVars>>

\* What delete() checks before a run begins.
CanStartDeletion(op) ==
    /\ NoDeletionActive
    /\ \/ journal[op] # "absent" /\ op \in receipts
       \/ op \in receipts \ expired /\ Pending = {}

\* The gate is closed and delete() is called.  The batches that were queued
\* before have run, those behind it are refused.
StartDeletion(op) ==
    /\ op \in executing
    /\ executing' = executing \ {op}
    /\ retries' = {}
    /\ \/ /\ DeleteExisting(op)
          /\ UNCHANGED scope
       \/ /\ DeleteNew(op)
          /\ scope' = [scope EXCEPT ![op] = born \ connecting]
    /\ UNCHANGED <<deletionVars, mode, born, connecting, challenges, renewing,
                   storing, reprotecting, returned>>

\* delete() refuses: shared or busy, not confirmed, or other work is pending.
DeletionRefused(op) ==
    /\ op \in executing
    /\ ~CanStartDeletion(op)
    /\ executing' = executing \ {op}
    /\ retries' = {}
    /\ UNCHANGED <<journalVars, storeVars, deletionVars, mode, born, connecting,
                   challenges, scope, renewing, storing, reprotecting, returned>>

-----------------------------------------------------------------------------
(* Running operations *)

RunDisconnect(op) ==
    /\ DisconnectStep(op)
    /\ KeepReturned
    /\ UNCHANGED <<deletionVars, runVars>>

RunDeletion(op) ==
    /\ \/ DeletionPerform(op)
       \/ DeletionPerformFails(op)
       \/ DeletionSave(op) /\ (mode # "ready" \/ NextDeletionPhase[journal[op]] # "completed")
       \/ DeletionSaveFails(op)
       \/ mode = "recovering" /\ DeletionAborted(op)
    /\ KeepReturned
    /\ UNCHANGED runVars

\* The last save of a run of the command: markLocalDataDeleted follows, and
\* the deletion command answers no more.
FinishDeletion(op) ==
    /\ mode = "ready"
    /\ journal[op] = "data-key-delete-pending"
    /\ DeletionSave(op)
    /\ mode' = "erased"
    /\ UNCHANGED <<born, connecting, challenges, executing, scope, lateVars>>

-----------------------------------------------------------------------------
Boot == BootReady \/ BootRecovering \/ BootDeleted \/ RecoveryFailed

Next ==
    \/ Boot
    \/ Quit
    \/ \E a \in Accounts :
        \/ StoreCredential(a)
        \/ StoreAccountState(a)
        \/ ActivateLive(a)
        \/ SyncCommit(a)
        \/ BeginRenewal(a)
        \/ RenewalGranted(a)
        \/ RenewalFails(a)
        \/ RenewalStored(a)
        \/ BeginReprotection(a)
        \/ Reprotected(a)
        \/ QueueRetry(a)
        \/ RetryRuns(a)
    \/ \E op \in Ops : Expire(op)
    \/ \E op \in DisconnectOps :
        \/ PrepareDisconnect(op)
        \/ ExecuteDisconnect(op)
        \/ StartDisconnect(op)
        \/ DisconnectRefused(op)
        \/ ForgetDisconnectChallenge(op)
        \/ RollbackConnection(op)
        \/ RunDisconnect(op)
    \/ \E op \in DeletionOps :
        \/ PrepareDeletion(op)
        \/ ConfirmDeletion(op)
        \/ StartDeletion(op)
        \/ DeletionRefused(op)
        \/ RunDeletion(op)
        \/ FinishDeletion(op)

Spec == Init /\ [][Next]_vars

\* A resumed deletion gets its chance: the user restarts the application
\* again and again (the advice of the command's error message), bootstrap
\* and the phase loop do not stall, and a call that is retried for ever does
\* not fail for ever.
RestartFairness ==
    /\ WF_vars(Boot)
    /\ WF_vars(Quit)
    /\ \A op \in DeletionOps :
        /\ SF_vars(DeletionPerform(op) /\ KeepReturned /\ UNCHANGED runVars)
        /\ SF_vars(DeletionSave(op) /\ mode = "recovering" /\ KeepReturned
                     /\ UNCHANGED runVars)
        /\ SF_vars(FinishDeletion(op))

LiveSpec == Spec /\ RestartFairness

-----------------------------------------------------------------------------
(* Properties *)

\* Every variable has its type.
TypeOK ==
    /\ JournalTypeOK
    /\ StoresTypeOK
    /\ keyHeld \in BOOLEAN
    /\ receipts \subseteq DeletionOps
    /\ expired \subseteq Ops
    /\ mode \in {"closed", "recovering", "ready", "erased", "deleted"}
    /\ born \subseteq Accounts
    /\ connecting \subseteq Accounts
    /\ challenges \subseteq Ops
    /\ executing \subseteq Ops
    /\ scope \in [DeletionOps -> SUBSET Accounts]
    /\ renewing \cup storing \cup reprotecting \cup retries \subseteq Accounts
    /\ returned \subseteq (LocalStoreNames \cup {"grants"}) \X Accounts

\* Durable pending work excludes overlapping work, whatever was interrupted
\* in between: a pending deletion is alone in the journal, and an account has
\* at most one pending disconnect (loadOrCreate of both services).
PendingWorkExcludesOverlap ==
    \A p, q \in Pending :
        p # q => /\ p \in DisconnectOps
                 /\ q \in DisconnectOps
                 /\ AccountOf[p] # AccountOf[q]

\* The accounts an operation has promised to remove.
Promise(op) == IF op \in DisconnectOps THEN {AccountOf[op]} ELSE scope[op]

Beyond(op, phases) == journal[op] \notin phases \cup {"absent"}

\* The journal of a disconnect is never ahead of the stores: once a phase has
\* been left, what it removes is gone for the account and stays gone, through
\* failures, retries, crashes, syncs and other connections.  The one exception
\* is what a write that was decided on before puts back: the grant and the
\* credential of a reauthorization, a re-protected credential, the sync row of
\* a queued batch and the mail it then fetches.  docs/PRIVACY.md:156-157 makes
\* no such exception; the code has no check that would keep these out.
DisconnectErasedBeforeAdvance ==
    \A op \in DisconnectOps :
        LET a  == AccountOf[op]
            P1 == {"revocation-pending"}
            P2 == P1 \cup {"credential-delete-pending"}
            P3 == P2 \cup {"account-state-delete-pending"}
            P4 == P3 \cup {"mail-data-delete-pending"}
        IN /\ Beyond(op, P1) => a \notin Original("grants", grants)
           /\ Beyond(op, P2) => a \notin Original("credentials", credentials)
           /\ Beyond(op, P3) => a \notin Original("accountState", accountState)
           /\ Beyond(op, P4) => /\ a \notin sampleMail
                                /\ a \notin Original("providerMail", providerMail)
           /\ journal[op] = "completed" => a \notin Original("residue", residue)

\* The same for a deletion, about every account that was completely connected
\* (or a sample) when its row was inserted.  Here a late write puts back a
\* credential or a sync row at most (whose bytes a second deletion may leave in
\* the free pages): mail of a promised account stays gone.
DeletionErasedBeforeAdvance ==
    \A op \in DeletionOps :
        LET S  == scope[op]
            P1 == {"credentials-delete-pending"}
            P2 == P1 \cup {"account-state-delete-pending"}
            P3 == P2 \cup {"mail-data-delete-pending"}
            P4 == P3 \cup {"compaction-pending"}
        IN /\ Beyond(op, P1) => S \cap Original("credentials", credentials) = {}
           /\ Beyond(op, P2) => S \cap Original("accountState", accountState) = {}
           /\ Beyond(op, P3) => S \cap (sampleMail \cup providerMail) = {}
           /\ Beyond(op, P4) => S \cap Original("residue", residue) = {}

\* The journal is never ahead of the stores, neither in a disconnect nor in a
\* deletion nor where the one works on what the other, a sync, a connection or
\* a crash has left; the late writes described above are set apart, and only
\* they.
JournalNeverAhead == DisconnectErasedBeforeAdvance /\ DeletionErasedBeforeAdvance

\* The data key is erased last: while ciphertext of a promised account is
\* left, the key that reads it exists (a crash never strands ciphertext), and
\* once a deletion is completed the key is gone from the vault and from the
\* process, mail and mode with it, and no later start brings them back.  The
\* sync row that a late batch puts back is set apart: a deletion that is retried
\* behind its account-state phase strands it.
KeyErasedLastAndForGood ==
    IF \E op \in DeletionOps : journal[op] = "completed"
    THEN /\ ~dataKey
         /\ ~keyHeld
         /\ sampleMail = {}
         /\ providerMail = {}
         /\ mailMode = "none"
    ELSE LET promised == IF latestDeletion = NoOp THEN Accounts
                                                  ELSE scope[latestDeletion]
             rows == Original("accountState", accountState)
         IN promised \cap (rows \cup sampleMail \cup providerMail) # {} => dataKey

\* A pending deletion can always be retried by the command: the receipt that
\* authorized it survives expiry and the cleanup at startup.
PendingDeletionKeepsReceipt == Pending \cap DeletionOps \subseteq receipts

\* A failure code in the journal is one of the phase it stands beside, so the
\* status screen never shows the failure of a phase that has been left.
ErrorBelongsToPhase ==
    \A op \in Ops :
        lastError[op] # "none" =>
            /\ op \in Pending
            /\ lastError[op] = IF op \in DisconnectOps
                               THEN DisconnectFailure[journal[op]]
                               ELSE DeletionFailure[journal[op]]

\* A deletion that has begun is completed in the end: no crash, failed call,
\* failed save or expired confirmation leaves it pending for ever.
DeletionEventuallyCompletes ==
    \A op \in DeletionOps : op \in Pending ~> journal[op] = "completed"

-----------------------------------------------------------------------------
(* The contract, under this refinement mapping.  Revocation is a phase of  *)
(* disconnects only, so the grants count for the accounts they promise.    *)

Status(op) == CASE journal[op] = "absent"    -> "none"
                [] journal[op] = "completed" -> "completed"
                [] OTHER                     -> "pending"

Contract == INSTANCE LifecycleContract WITH
    Stores     <- LocalStoreNames,
    AccountOps <- DisconnectOps,
    GlobalOps  <- DeletionOps,
    status     <- [op \in Ops |-> Status(op)],
    promised   <- [op \in Ops |-> Promise(op)],
    held       <- Held \ returned

\* The two services together, interrupted in any way, keep the contract: no
\* overlap, completed only when every store and the free pages hold nothing of
\* the promised accounts, and nothing of them ever comes back, except what a
\* late write puts back, which the mapping sets apart (see above).
ImplementsContract == Contract!Spec

-----------------------------------------------------------------------------
(* A statement of the documentation that the code does not keep *)

\* "The installation-wide deletion orchestrator now removes all stored Google
\* refresh credentials": after a completed deletion the vault has none.
DeletionLeavesNoCredential ==
    (\E op \in DeletionOps : journal[op] = "completed") => credentials = {}
=============================================================================
