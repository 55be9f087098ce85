------------------------- MODULE StorageMaintenance -------------------------
(***************************************************************************)
(* Who rewrites the mail stores and who compacts the file afterwards: the  *)
(* retention worker, the one-way switch to live mail, a disconnect, the    *)
(* deletion of local data and the start of the application.  The worker    *)
(* has its own connection, so that each of its transactions is a step, and *)
(* what it has read may be old when it writes.                             *)
(*                                                                         *)
(* op is what the main process is doing: an operation of the lifecycle     *)
(* owner, which the owner lets in one at a time, or the start.             *)
(***************************************************************************)
EXTENDS SampleMail

CONSTANTS
    ProviderMail,   \* provider messages, each as <<name, time of receipt>>
    Window,         \* PRIVATE_ALPHA_RETENTION_DAYS
    MaxTime,        \* bound of the clock
    MaxFaults       \* bound: failures and crashes

ASSUME StorageAssumption ==
    /\ \A p \in ProviderMail : p[2] \in Int
    /\ Window \in Nat /\ MaxTime \in Nat /\ MaxFaults \in Nat

VARIABLES
    records,     \* encrypted_records: the sample data set
    legacy,      \* its messages have no absolute timestamp
    plaintext,   \* the data set is still in the tables of the first version
    provider,    \* encrypted_provider_mail_records
    mode,        \* mail_data_mode_state; "none" without a row
    status,      \* encrypted_cache_state
    residue,     \* who has left bytes in the file since it was compacted
    deletion,    \* the journal of the deletion: "none", "mail", "compact", "done"
    unfinished,  \* the disconnects in the journal that nobody is working on
    process,     \* "stopped", "starting", "ready", "deleted"
    op,          \* [kind, step], and where a compaction returns to
    worker,      \* the retention run
    now,
    faults

stores == <<records, legacy, plaintext, provider, mode, status, residue>>
journal == <<deletion, unfinished>>
vars == <<stores, journal, process, op, worker, now, faults>>

\* Bytes of a rewrite that sets the status, and of a disconnect, which does not.
Residues == {"rewritten", "disconnected"}

\* A failed disconnect is retried with its confirmation while its account is still
\* connected.  Nobody finishes any other.
Unfinished == {"retryable", "lost"}

Idle == [kind |-> "none", step |-> "none", then |-> "none"]
At(kind, step) == op.kind = kind /\ op.step = step
GoTo(step) == op' = [op EXCEPT !.step = step]
Starts(kind, step, then) == [kind |-> kind, step |-> step, then |-> then]

Operations ==
    [kind : {"none", "sync", "activate", "disconnect", "delete", "start"},
     step : {"none", "waiting", "syncing", "erasing", "erased", "vacuuming", "marking",
             "migrating", "seeding", "restoring", "started"},
     then : {"none", "syncing", "erased", "migrating", "started"}]

RetentionRuns ==
    [step : {"none", "reading", "evicting", "planning", "replacing", "checking", "vacuuming",
             "marking"},
     now : 0..MaxTime, expired : SUBSET ProviderMail, plan : Datasets]

NoRun == [step |-> "none", now |-> 0, expired |-> {}, plan |-> NoRecords]

Cutoff(t) == t - Window
ExpiredAt(t) == {p \in provider : p[2] < Cutoff(t)}

\* A new installation, one of the first version, or an encrypted cache of
\* before or after the absolute timestamps.
Init ==
    /\ \/ plaintext = TRUE /\ records = NoRecords /\ legacy \in BOOLEAN
       \/ plaintext = FALSE /\ records = NoRecords /\ legacy = FALSE
       \/ plaintext = FALSE /\ records = Fixtures /\ legacy \in BOOLEAN
    /\ provider = {} /\ mode = "sample"
    /\ status = "ready" /\ residue = {}
    /\ deletion = "none" /\ unfinished = {} /\ process = "stopped"
    /\ op = Idle /\ worker = NoRun
    /\ now = 0 /\ faults = 0

-----------------------------------------------------------------------------
(* The stores *)

Mark == status' = "sanitization-pending" /\ residue' = residue \cup {"rewritten"}

\* replaceDataset: refused when the replacement is no data set.
ReplaceDataset(d) ==
    /\ IsMailDataset(d)
    /\ records' = d
    /\ Mark

\* Mutant: the status is set before the file is compacted.
CompactsStatusFirst(step, first, second) ==
    \/ /\ step = "vacuuming"
       /\ status' = "ready"
       /\ first
       /\ UNCHANGED residue
    \/ /\ step = "marking"
       /\ residue' = {}
       /\ second
       /\ UNCHANGED status

\* A compaction is two steps: VACUUM between two checkpoints of the log, then
\* the status.
Compacts(step, first, second) ==
    \/ /\ step = "vacuuming"
       /\ residue' = {}
       /\ first
       /\ UNCHANGED status
    \/ /\ step = "marking"
       /\ status' = "ready"
       /\ second
       /\ UNCHANGED residue

-----------------------------------------------------------------------------
(* The retention worker *)

\* The timer fires; it is not armed while the owner works.
StartRetention ==
    /\ process = "ready" /\ op = Idle /\ worker = NoRun
    /\ worker' = [NoRun EXCEPT !.step = "reading", !.now = now]
    /\ UNCHANGED <<stores, journal, process, op, now, faults>>

\* The sample mail must have its timestamps; the plan for provider mail.
PlanEviction ==
    /\ worker.step = "reading"
    /\ worker' = IF legacy THEN NoRun
                 ELSE [worker EXCEPT !.step = "evicting", !.expired = ExpiredAt(worker.now)]
    /\ UNCHANGED <<stores, journal, process, op, now, faults>>

\* One transaction over provider mail, if there is anything to remove.
EvictProviderMail ==
    /\ worker.step = "evicting"
    /\ worker' = [worker EXCEPT !.step = "planning"]
    /\ provider' = provider \ worker.expired
    /\ IF worker.expired = {} THEN UNCHANGED <<status, residue>> ELSE Mark
    /\ UNCHANGED <<records, legacy, plaintext, mode, journal, process, op, now, faults>>

PlanRetention ==
    /\ worker.step = "planning"
    /\ LET plan == Retained(records, Cutoff(worker.now))
       IN worker' = [worker EXCEPT !.plan = plan,
                                   !.step = IF plan = records THEN "checking" ELSE "replacing"]
    /\ UNCHANGED <<stores, journal, process, op, now, faults>>

ReplaceSampleMail ==
    /\ worker.step = "replacing"
    /\ ReplaceDataset(worker.plan)
    /\ worker' = [worker EXCEPT !.step = "vacuuming"]
    /\ UNCHANGED <<legacy, plaintext, provider, mode, journal, process, op, now, faults>>

\* Mutant: only a run that has removed something compacts.
FinishRetentionOfOwnWork ==
    /\ worker.step = "checking"
    /\ worker' = NoRun
    /\ UNCHANGED <<stores, journal, process, op, now, faults>>

\* At the end a compaction that is owed is done, whoever owes it.
FinishRetention ==
    /\ worker.step = "checking"
    /\ worker' = IF status = "ready" THEN NoRun ELSE [worker EXCEPT !.step = "vacuuming"]
    /\ UNCHANGED <<stores, journal, process, op, now, faults>>

WorkerCompacts ==
    /\ Compacts(worker.step, worker' = [worker EXCEPT !.step = "marking"],
                             worker' = [worker EXCEPT !.step = "checking"])
    /\ UNCHANGED <<records, legacy, plaintext, provider, mode, journal, process, op, now, faults>>

WorkerFails ==
    /\ worker # NoRun /\ faults < MaxFaults
    /\ worker' = NoRun
    /\ faults' = faults + 1
    /\ UNCHANGED <<stores, journal, process, op, now>>

WorkerStep ==
    \/ PlanEviction \/ EvictProviderMail \/ PlanRetention
    \/ ReplaceSampleMail \/ WorkerCompacts \/ FinishRetention

-----------------------------------------------------------------------------
(* Operations of the main process *)

\* The owner suspends retention and waits for the run that is under way.
Call(kind) ==
    /\ process = "ready" /\ op = Idle
    /\ op' = [Idle EXCEPT !.kind = kind, !.step = "waiting"]
    /\ UNCHANGED <<stores, journal, process, worker, now, faults>>

\* Mutant: the run that is under way is not waited for.
RetentionQuietAtOnce == TRUE

RetentionQuiet == worker = NoRun

\* What activateLive() asks of the service: after a switch, and when the
\* compaction of an earlier one is still owed.
OwesCompaction == mode = "sample" \/ status = "sanitization-pending"

\* activateLive: one transaction.  Without a row there is no mode to switch.
ActivateLive ==
    /\ At("activate", "waiting") /\ RetentionQuiet
    /\ mode # "none"
    /\ mode' = "live"
    /\ IF mode = "sample" THEN records' = NoRecords /\ legacy' = FALSE /\ Mark
                          ELSE UNCHANGED <<records, legacy, status, residue>>
    /\ op' = [op EXCEPT !.step = IF OwesCompaction THEN "vacuuming" ELSE "syncing",
                        !.then = "syncing"]
    /\ UNCHANGED <<plaintext, provider, journal, process, worker, now, faults>>

StartSync ==
    /\ At("sync", "waiting") /\ RetentionQuiet
    /\ GoTo("syncing")
    /\ UNCHANGED <<stores, journal, process, worker, now, faults>>

\* A commit of mail of the window; the deletion has erased the credentials first.
SyncCommits ==
    /\ op.step = "syncing" /\ mode = "live" /\ deletion = "none"
    /\ \E p \in ProviderMail : p[2] >= Cutoff(now) /\ p[2] <= now /\ provider' = provider \cup {p}
    /\ UNCHANGED <<records, legacy, plaintext, mode, status, residue, journal, process, op,
                   worker, now, faults>>

\* A disconnect has its row in the journal.
Disconnecting == op.kind = "disconnect" /\ op.step # "waiting"

\* The journal refuses a disconnect beside a deletion or another disconnect of the
\* account, and a deletion beside any disconnect.
LifecycleRefused ==
    /\ RetentionQuiet
    /\ \/ At("disconnect", "waiting") /\ (deletion # "none" \/ unfinished # {})
       \/ At("delete", "waiting") /\ unfinished # {}
    /\ op' = Idle
    /\ UNCHANGED <<stores, journal, process, worker, now, faults>>

\* The row, the revocation, the credential and the account state; a retry goes on
\* with the row that is there.
BeginDisconnect ==
    /\ At("disconnect", "waiting") /\ RetentionQuiet
    /\ deletion = "none"
    /\ GoTo("erasing")
    /\ unfinished' \in {unfinished, unfinished \ {"retryable"}}
    /\ UNCHANGED <<stores, deletion, process, worker, now, faults>>

\* deleteAccountRecords: the mail of one account, whichever part of what is stored
\* that is; the status stays.  Sample mail is not of a connected account.
RemoveAccountMail ==
    /\ At("disconnect", "erasing")
    /\ \E gone \in SUBSET provider :
         /\ provider' = provider \ gone
         /\ residue' = IF gone = {} THEN residue ELSE residue \cup {"disconnected"}
    /\ op' = [op EXCEPT !.step = "vacuuming", !.then = "erased"]
    /\ UNCHANGED <<records, legacy, plaintext, mode, status, journal, process, worker, now,
                   faults>>

CompleteDisconnect ==
    /\ At("disconnect", "erased")
    /\ op' = Idle
    /\ UNCHANGED <<stores, journal, process, worker, now, faults>>

\* The deletion is journalled, or goes on where it had failed.
BeginDeletion ==
    /\ At("delete", "waiting") /\ RetentionQuiet
    /\ unfinished = {}
    /\ deletion' = IF deletion = "none" THEN "mail" ELSE deletion
    /\ op' = [op EXCEPT !.step = IF deletion = "compact" THEN "vacuuming" ELSE "erasing",
                        !.then = "erased"]
    /\ UNCHANGED <<stores, unfinished, process, worker, now, faults>>

\* deleteAllEncryptedMailRecords, one transaction, and the phase that follows.
EraseMail ==
    /\ At("delete", "erasing")
    /\ records' = NoRecords /\ legacy' = FALSE
    /\ provider' = {} /\ mode' = "none"
    /\ Mark
    /\ deletion' = "compact"
    /\ GoTo("vacuuming")
    /\ UNCHANGED <<plaintext, unfinished, process, worker, now, faults>>

CompleteDeletion ==
    /\ At("delete", "erased")
    /\ deletion' = "done"
    /\ process' = "deleted"
    /\ op' = Idle
    /\ UNCHANGED <<stores, unfinished, worker, now, faults>>

OpCompacts ==
    /\ Compacts(op.step, GoTo("marking"), GoTo(op.then))
    /\ UNCHANGED <<records, legacy, plaintext, provider, mode, journal, process, worker, now,
                   faults>>

EndSync ==
    /\ op.step = "syncing"
    /\ op' = Idle
    /\ UNCHANGED <<stores, journal, process, worker, now, faults>>

\* An operation fails, and retention is resumed; a start that fails ends the process.
OpFails ==
    /\ op # Idle /\ faults < MaxFaults
    /\ process' = IF process = "starting" THEN "stopped" ELSE process
    /\ op' = Idle
    /\ IF Disconnecting
       THEN \/ unfinished' = unfinished \cup {"lost"}
            \/ op.step = "erasing" /\ unfinished' = unfinished \cup {"retryable"}
       ELSE UNCHANGED unfinished
    /\ faults' = faults + 1
    /\ UNCHANGED <<stores, deletion, worker, now>>

\* There is no mode to switch any more.
ActivationRefused ==
    /\ At("activate", "waiting") /\ RetentionQuiet
    /\ mode = "none"
    /\ op' = Idle
    /\ UNCHANGED <<stores, journal, process, worker, now, faults>>

-----------------------------------------------------------------------------
(* The start *)

\* The recovery of a deletion comes before everything else.
Boot ==
    /\ process = "stopped"
    /\ process' = IF deletion = "done" THEN "deleted" ELSE "starting"
    /\ op' = CASE deletion = "done" -> Idle
               [] deletion = "none" -> Starts("start", "migrating", "migrating")
               [] deletion = "mail" -> Starts("delete", "erasing", "erased")
               [] deletion = "compact" -> Starts("delete", "vacuuming", "erased")
    /\ UNCHANGED <<stores, journal, worker, now, faults>>

\* migrateLegacyPlaintextCache: what is owed first, then the move of the data set,
\* which owes a compaction itself.
MigrateCache ==
    /\ At("start", "migrating")
    /\ \/ /\ status = "sanitization-pending"
          /\ GoTo("vacuuming")
          /\ UNCHANGED stores
       \/ /\ status = "ready" /\ plaintext
          /\ plaintext' = FALSE /\ records' = Fixtures
          /\ Mark
          /\ GoTo("vacuuming")
          /\ UNCHANGED <<legacy, provider, mode>>
       \/ /\ status = "ready" /\ ~plaintext
          /\ GoTo("seeding")
          /\ UNCHANGED stores
    /\ UNCHANGED <<journal, process, worker, now, faults>>

\* seedIfEmpty, in sample mode.
SeedIfEmpty ==
    /\ At("start", "seeding")
    /\ IF mode = "sample" /\ records = NoRecords
       THEN records' = Fixtures /\ status' = "ready"
       ELSE UNCHANGED <<records, status>>
    /\ GoTo("restoring")
    /\ UNCHANGED <<legacy, plaintext, provider, mode, residue, journal, process, worker, now,
                   faults>>

\* ensureFixtureCompatibility: a data set without timestamps is replaced by the fixtures.
RestoreTimestamps ==
    /\ At("start", "restoring")
    /\ IF legacy THEN /\ ReplaceDataset(Fixtures)
                      /\ legacy' = FALSE
                      /\ op' = [op EXCEPT !.step = "vacuuming", !.then = "started"]
                 ELSE /\ GoTo("started")
                      /\ UNCHANGED <<records, legacy, status, residue>>
    /\ UNCHANGED <<plaintext, provider, mode, journal, process, worker, now, faults>>

Started ==
    /\ At("start", "started")
    /\ process' = "ready"
    /\ op' = Idle
    /\ UNCHANGED <<stores, journal, worker, now, faults>>

\* A crash or a quit: the stores, the journal and the clock are left, the
\* confirmations of disconnects are not.
Crash ==
    /\ process # "stopped" /\ faults < MaxFaults
    /\ process' = "stopped" /\ op' = Idle /\ worker' = NoRun
    /\ unfinished' = IF Disconnecting \/ unfinished # {} THEN {"lost"} ELSE {}
    /\ faults' = faults + 1
    /\ UNCHANGED <<stores, deletion, now>>

Tick ==
    /\ now < MaxTime
    /\ now' = now + 1
    /\ UNCHANGED <<stores, journal, process, op, worker, faults>>

-----------------------------------------------------------------------------

StartStep == Boot \/ MigrateCache \/ SeedIfEmpty \/ RestoreTimestamps \/ Started

OpStep ==
    \/ ActivateLive \/ ActivationRefused \/ StartSync \/ EndSync
    \/ LifecycleRefused \/ BeginDisconnect \/ RemoveAccountMail \/ CompleteDisconnect
    \/ BeginDeletion \/ EraseMail \/ CompleteDeletion \/ OpCompacts

Next ==
    \/ StartRetention \/ WorkerStep \/ WorkerFails
    \/ Call("sync") \/ Call("activate") \/ Call("disconnect") \/ Call("delete")
    \/ OpStep \/ SyncCommits \/ OpFails
    \/ StartStep \/ Crash \/ Tick

Spec == Init /\ [][Next]_vars

\* Workers answer or exit, an operation of the owner ends, a timer that is armed
\* again and again fires, and an application that has stopped is started again.
Fairness ==
    /\ WF_vars(WorkerStep) /\ WF_vars(OpStep) /\ WF_vars(StartStep)
    /\ SF_vars(StartRetention)

FairSpec == Spec /\ Fairness

-----------------------------------------------------------------------------
(* Properties *)

\* Every variable has its type, and a start has an operation.
TypeOK ==
    /\ records \in Datasets /\ provider \subseteq ProviderMail
    /\ legacy \in BOOLEAN /\ plaintext \in BOOLEAN /\ residue \subseteq Residues
    /\ mode \in {"sample", "live", "none"}
    /\ status \in {"ready", "sanitization-pending"}
    /\ deletion \in {"none", "mail", "compact", "done"} /\ unfinished \subseteq Unfinished
    /\ process \in {"stopped", "starting", "ready", "deleted"}
    /\ op \in Operations /\ worker \in RetentionRuns
    /\ now \in 0..MaxTime /\ faults \in 0..MaxFaults
    /\ process = "starting" => op # Idle

\* What a rewrite has left in the file is remembered across crashes and failures:
\* nobody sets the status before, or for somebody else's, compaction.  An
\* activation goes on, and succeeds, only when the sample mail has left the
\* file, also when it is the retry of one whose compaction had failed.  Set apart
\* is the provider mail of a disconnect, which the status does not mention: only
\* the row of the disconnect does, until it is completed.
ResidueIsOwed ==
    /\ "rewritten" \in residue =>
         status = "sanitization-pending" /\ ~At("activate", "syncing")
    /\ "disconnected" \in residue => Disconnecting \/ "lost" \in unfinished

\* The sample mail never comes back: a retention run that has read it before the
\* switch to live mail, or before the deletion, does not write it again after it.
SampleMailIsGone == mode # "sample" => records = NoRecords

\* What retention is about to write is all of the data set that may stay: the
\* largest part of it without expired mail, conclusions from expired mail, and
\* people nobody refers to; and a part that replaceDataset accepts.
PlanIsLargest ==
    worker.step = "replacing" =>
        LET cutoff == Cutoff(worker.now)
        IN /\ InWindow(worker.plan, records, cutoff)
           /\ \A e \in Datasets : InWindow(e, records, cutoff) => PartOf(e, worker.plan)

\* The same of the removal of any account.
RemovalIsLargest ==
    worker = NoRun /\ IsMailDataset(records) =>
        \A a \in records.accounts :
            LET rest == WithoutAccount(records, a)
            IN /\ Apart(rest, records, a)
               /\ \A e \in Datasets : Apart(e, records, a) => PartOf(e, rest)

\* Neither a retention run nor a disconnect keeps or loses more of the sample
\* mail than it must, whatever earlier runs have left of it.
RestsAreLargest == PlanIsLargest /\ RemovalIsLargest

Overdue ==
    \/ \E m \in records.messages : Messages[m].receivedAt < Cutoff(now)
    \/ ExpiredAt(now) # {}

\* Mail that is older than the window leaves the stores and the file, whatever
\* failed on the way; what a disconnect has left in the file is set apart.
ExpiredMailLeaves ==
    (Overdue \/ "rewritten" \in residue) ~> (~Overdue /\ "rewritten" \notin residue)
=============================================================================
