-------------------------- MODULE AccountLifecycle --------------------------
(***************************************************************************)
(* The durable lifecycle journal (table account_lifecycle_operations) and  *)
(* the phase loop that both lifecycle services run over it: perform the    *)
(* side effect of the current phase, then save the next phase; on an error *)
(* save the failure code of the phase and give up until somebody retries.  *)
(*                                                                         *)
(* An operation id is drawn together with the confirmation it belongs to,  *)
(* so the type and the account of an id never change: AccountOf fixes the  *)
(* account of each disconnect id, and the type is the set an id is in.     *)
(***************************************************************************)
EXTENDS LocalStores

CONSTANTS
    DisconnectOps,  \* ids of disconnect-account operations
    DeletionOps,    \* ids of delete-local-data operations
    AccountOf,      \* the account a disconnect id is bound to
    NoOp            \* "no deletion row yet"

ASSUME OpsAssumption ==
    /\ DisconnectOps \cap DeletionOps = {}
    /\ AccountOf \in [DisconnectOps -> Accounts]
    /\ NoOp \notin DisconnectOps \cup DeletionOps

Ops == DisconnectOps \cup DeletionOps

VARIABLES
    journal,         \* phase of each row, "absent" when there is no row
    lastError,       \* last_error_code of each row, "none" when null
    latestDeletion,  \* the most recently inserted delete-local-data row
    step             \* where the in-memory run of each operation stands

journalVars == <<journal, lastError, latestDeletion, step>>

-----------------------------------------------------------------------------
(* Phases *)

DisconnectPhase ==
    {"revocation-pending", "credential-delete-pending",
     "account-state-delete-pending", "mail-data-delete-pending",
     "compaction-pending", "completed"}

DeleteLocalDataPhase ==
    {"credentials-delete-pending", "account-state-delete-pending",
     "mail-data-delete-pending", "compaction-pending",
     "data-key-delete-pending", "completed"}

LifecycleFailureCode ==
    {"REVOCATION_FAILED", "CREDENTIAL_DELETE_FAILED",
     "ACCOUNT_STATE_DELETE_FAILED", "MAIL_DATA_DELETE_FAILED",
     "COMPACTION_FAILED", "DATA_KEY_DELETE_FAILED"}

\* The rows isLifecycleOperationV1 accepts, by the type of the operation.
PhasesOf(op) == IF op \in DisconnectOps THEN DisconnectPhase
                                        ELSE DeleteLocalDataPhase

FirstPhase(op) == IF op \in DisconnectOps THEN "revocation-pending"
                                          ELSE "credentials-delete-pending"

Pending == {op \in Ops : journal[op] \notin {"absent", "completed"}}

Running == {op \in Ops : step[op] # "idle"}

-----------------------------------------------------------------------------
(* Repository operations *)

\* save() of a phase that has just been reached: the error code is cleared.
SavePhase(op, phase) ==
    /\ journal' = [journal EXCEPT ![op] = phase]
    /\ lastError' = [lastError EXCEPT ![op] = "none"]

\* INSERT of a new row.
InsertRow(op) ==
    /\ SavePhase(op, FirstPhase(op))
    /\ latestDeletion' = IF op \in DeletionOps THEN op ELSE latestDeletion

\* save() of the same phase with a failure code.
SaveFailureCode(op, code) ==
    /\ lastError' = [lastError EXCEPT ![op] = code]
    /\ UNCHANGED <<journal, latestDeletion>>

-----------------------------------------------------------------------------
(* The phase loop.  step[op] is                                            *)
(*   "idle"     no promise of this operation is running in this process;   *)
(*   "perform"  the side effect of phase journal[op] is about to be done;  *)
(*   "half"     the first of the two effects of the phase is done;         *)
(*   "save"     the effect is done and the next phase is about to be saved.*)

Steps == {"idle", "perform", "half", "save"}

JournalInit ==
    /\ journal = [op \in Ops |-> "absent"]
    /\ lastError = [op \in Ops |-> "none"]
    /\ latestDeletion = NoOp
    /\ step = [op \in Ops |-> "idle"]

GoTo(op, s) == step' = [step EXCEPT ![op] = s]

\* The loop ends at once on a row that is already completed.
StartLoop(op, phase) ==
    GoTo(op, IF phase = "completed" THEN "idle" ELSE "perform")

\* The effect of the phase has been carried out.
PhasePerformed(op) ==
    /\ GoTo(op, "save")
    /\ UNCHANGED <<journal, lastError, latestDeletion>>

\* perform() threw: saveFailure, then the run ends.  saveFailure may itself
\* throw, and then nothing reaches the journal.
PhaseFailed(op, code) ==
    /\ GoTo(op, "idle")
    /\ \/ SaveFailureCode(op, code)
       \/ UNCHANGED <<journal, lastError, latestDeletion>>

\* saveOperation of the next phase, and back to the head of the loop.
PhaseSaved(op, next) ==
    /\ step[op] = "save"
    /\ SavePhase(op, next)
    /\ StartLoop(op, next)
    /\ UNCHANGED latestDeletion

\* saveOperation threw: the effect is done, the journal does not know.
PhaseSaveFailed(op) ==
    /\ step[op] = "save"
    /\ GoTo(op, "idle")
    /\ UNCHANGED <<journal, lastError, latestDeletion>>

\* The process is gone: promises and their local copies of a row with it.
ForgetRuns == step' = [op \in Ops |-> "idle"]

-----------------------------------------------------------------------------
JournalTypeOK ==
    /\ journal \in [Ops -> {"absent"} \cup DisconnectPhase \cup DeleteLocalDataPhase]
    /\ \A op \in Ops : journal[op] \in {"absent"} \cup PhasesOf(op)
    /\ lastError \in [Ops -> {"none"} \cup LifecycleFailureCode]
    /\ latestDeletion \in DeletionOps \cup {NoOp}
    /\ step \in [Ops -> Steps]
=============================================================================
