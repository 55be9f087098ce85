---------------------- MODULE ProviderMailLifecycleOwner ----------------------
(***************************************************************************)
(* ProviderMailLifecycleOwner: the queue that keeps provider sync, the     *)
(* retention owner and destructive lifecycle work apart, with the parts of *)
(* MailSyncCoordinator and RetentionMaintenanceOwner it drives, and the    *)
(* deletion command, which uses suspend() and resume() as its gate.        *)
(*                                                                         *)
(* Each call of an entry point is a member of Calls.  A call that is       *)
(* accepted waits in queue; the head of the queue runs through its awaits. *)
(* The state is that after start([]): the owner is running.                *)
(***************************************************************************)
EXTENDS Naturals, Sequences, FiniteSets

CONSTANTS
    Accounts,
    SyncCalls,        \* syncAccounts, called by the retry command
    ActivateCalls,    \* activateConnectedAccount
    DisconnectCalls,  \* disconnectAccount
    DeletionCalls,    \* execute of the local-data deletion command
    ShutdownCalls,    \* shutdown
    Target,           \* the account of a sync, activate or disconnect call
    NoCall

AccountCalls == SyncCalls \cup ActivateCalls \cup DisconnectCalls
Calls == AccountCalls \cup DeletionCalls \cup ShutdownCalls

ASSUME CallsAssumption ==
    /\ Target \in [AccountCalls -> Accounts]
    /\ NoCall \notin Calls
    /\ SyncCalls \cap (ActivateCalls \cup DisconnectCalls) = {}
    /\ ActivateCalls \cap DisconnectCalls = {}
    /\ AccountCalls \cap (DeletionCalls \cup ShutdownCalls) = {}
    /\ DeletionCalls \cap ShutdownCalls = {}

VARIABLES
    state,             \* LifecycleState: "running", "suspended" or "stopped"
    queue,             \* tail: the accepted calls, the running one first
    pc,                \* where each call stands
    syncSuspended,     \* coordinator.suspended
    active,            \* accounts with an unsettled sync promise
    aborted,           \* those whose controller has been aborted
    awaited,           \* the sync promises a call's syncSuspension waits for
    timedOut,          \* sync calls whose attempt window has passed
    paused,            \* retention: paused
    scheduled,         \* retention: a timer is set
    retentionRunning,  \* retention: the promise of a run is unsettled
    retentionStopped,  \* retention: stopped
    pausing,           \* calls that await the retention run
    deleting,          \* the call whose deletion the service is running
    available,         \* the deletion command still answers
    pendingDeletion,   \* a deletion row is pending in the journal
    keysDestroyed,     \* worker key contexts have been destroyed
    connected,         \* accounts with credential and provider state
    syncRows           \* accounts with a sync-state row

queueVars == <<state, queue, pc>>
syncVars == <<syncSuspended, active, aborted, awaited, timedOut>>
retentionVars == <<paused, scheduled, retentionRunning, retentionStopped, pausing>>
commandVars == <<deleting, available, pendingDeletion, keysDestroyed>>
dataVars == <<connected, syncRows>>
vars == <<queueVars, syncVars, retentionVars, commandVars, dataVars>>

Init ==
    /\ state = "running"
    /\ queue = <<>>
    /\ pc = [c \in Calls |-> "idle"]
    /\ syncSuspended = FALSE
    /\ active = {}
    /\ aborted = {}
    /\ awaited = [c \in Calls |-> {}]
    /\ timedOut = {}
    /\ paused = FALSE
    /\ scheduled = TRUE
    /\ retentionRunning = FALSE
    /\ retentionStopped = FALSE
    /\ pausing = {}
    /\ deleting = NoCall
    /\ available = TRUE
    /\ pendingDeletion = FALSE
    /\ keysDestroyed = FALSE
    /\ connected = Accounts
    /\ syncRows = Accounts

-----------------------------------------------------------------------------
(* MailSyncCoordinator, as the owner sees it *)

\* suspend(): no new work, abort what is active, a promise for its end.
SyncSuspend(c) ==
    /\ syncSuspended' = TRUE
    /\ aborted' = active
    /\ awaited' = [awaited EXCEPT ![c] = active]
    /\ UNCHANGED <<active, timedOut>>

\* Mutant: the controller of a settled sync is kept.
SyncSettlesKeepingAbort(a) ==
    /\ a \in active
    /\ active' = active \ {a}
    /\ awaited' = [c \in Calls |-> awaited[c] \ {a}]
    /\ UNCHANGED <<aborted, syncSuspended, timedOut, queueVars, retentionVars,
                   commandVars, dataVars>>

\* A sync promise settles, whether the sync succeeded, failed or was aborted.
SyncSettles(a) ==
    /\ a \in active
    /\ active' = active \ {a}
    /\ aborted' = aborted \ {a}
    /\ awaited' = [c \in Calls |-> awaited[c] \ {a}]
    /\ UNCHANGED <<syncSuspended, timedOut, queueVars, retentionVars,
                   commandVars, dataVars>>

(* RetentionMaintenanceOwner *)

RetentionSuspend(c) ==
    /\ paused' = TRUE
    /\ scheduled' = FALSE
    /\ pausing' = IF retentionRunning THEN pausing \cup {c} ELSE pausing
    /\ UNCHANGED <<retentionRunning, retentionStopped>>

\* resume() of an owner that is not paused, or is stopped, does nothing.
RetentionResume ==
    /\ IF paused /\ ~retentionStopped
       THEN paused' = FALSE /\ scheduled' = TRUE
       ELSE UNCHANGED <<paused, scheduled>>
    /\ UNCHANGED <<retentionRunning, retentionStopped, pausing>>

\* The timer fires; a run that is still active is shared.
RetentionFires ==
    /\ scheduled
    /\ scheduled' = FALSE
    /\ retentionRunning' = TRUE
    /\ UNCHANGED <<paused, retentionStopped, pausing, queueVars, syncVars,
                   commandVars, dataVars>>

\* The run ends, well or badly, and schedules the next one.
RetentionEnds ==
    /\ retentionRunning
    /\ retentionRunning' = FALSE
    /\ pausing' = {}
    /\ scheduled' = (scheduled \/ (~paused /\ ~retentionStopped))
    /\ UNCHANGED <<paused, retentionStopped, queueVars, syncVars,
                   commandVars, dataVars>>

-----------------------------------------------------------------------------
(* The queue *)

GoTo(c, where) == pc' = [pc EXCEPT ![c] = where]

Enqueue(c) == queue' = Append(queue, c) /\ GoTo(c, "queued")

IsHead(c) == queue # <<>> /\ Head(queue) = c

\* The work of the head has returned or thrown.
Leave(c, where) == IsHead(c) /\ queue' = Tail(queue) /\ GoTo(c, where)

\* A call that the owner rejects before or at the head of the queue.
Rejected(c) ==
    /\ GoTo(c, "done")
    /\ UNCHANGED <<state, queue, syncVars, retentionVars, commandVars, dataVars>>

\* Mutant: the tail of the queue is lost with the rejection.
RefuseLosingTail(c) ==
    /\ IsHead(c)
    /\ pc[c] = "queued"
    /\ c \notin ShutdownCalls
    /\ state # "running"
    /\ ~(c \in DeletionCalls /\ state = "suspended")
    /\ GoTo(c, "done")
    /\ UNCHANGED <<state, queue, syncVars, retentionVars, commandVars, dataVars>>

Refuse(c) ==
    /\ IsHead(c)
    /\ pc[c] = "queued"
    /\ c \notin ShutdownCalls
    /\ state # "running"
    /\ ~(c \in DeletionCalls /\ state = "suspended")
    /\ Leave(c, "done")
    /\ UNCHANGED <<state, syncVars, retentionVars, commandVars, dataVars>>

-----------------------------------------------------------------------------
(* syncAccounts and activateConnectedAccount *)

SyncOrActivate == SyncCalls \cup ActivateCalls

\* The retry command inspects the connection and the failed sync state, and
\* runs one attempt for an account at a time.
CallSync(c) ==
    /\ pc[c] = "idle"
    /\ Target[c] \in connected \cap syncRows
    /\ \A d \in SyncCalls : Target[d] = Target[c] => pc[d] \in {"idle", "done"}
    /\ Enqueue(c)
    /\ UNCHANGED <<state, syncVars, retentionVars, commandVars, dataVars>>

\* The connection command activates an account it has just connected.
CallActivate(c) ==
    /\ pc[c] = "idle"
    /\ Target[c] \in connected
    /\ Enqueue(c)
    /\ UNCHANGED <<state, syncVars, retentionVars, commandVars, dataVars>>

\* The attempt window of the retry command passes: what is queued will do
\* nothing, what is syncing is cancelled.
AttemptTimesOut(c) ==
    /\ c \in SyncCalls \ timedOut
    /\ pc[c] \notin {"idle", "done"}
    /\ timedOut' = timedOut \cup {c}
    /\ aborted' = IF pc[c] = "syncing" THEN aborted \cup (active \cap {Target[c]})
                                       ELSE aborted
    /\ UNCHANGED <<syncSuspended, active, awaited, queueVars, retentionVars,
                   commandVars, dataVars>>

\* Mutant: a call whose window has passed leaves retention suspended.
FinishSyncUnlessTimedOut(c) ==
    /\ Leave(c, "done")
    /\ IF state = "running" /\ c \notin timedOut THEN RetentionResume
                                               ELSE UNCHANGED retentionVars
    /\ UNCHANGED <<state, commandVars>>

BeginSync(c) ==
    /\ IsHead(c)
    /\ pc[c] = "queued"
    /\ state = "running"
    /\ IF c \in timedOut
       THEN Leave(c, "done") /\ UNCHANGED retentionVars
       ELSE GoTo(c, "pausing") /\ RetentionSuspend(c) /\ UNCHANGED queue
    /\ UNCHANGED <<state, syncVars, commandVars, dataVars>>

\* finally: the call leaves the queue and retention goes on.
FinishSync(c) ==
    /\ Leave(c, "done")
    /\ IF state = "running" THEN RetentionResume ELSE UNCHANGED retentionVars
    /\ UNCHANGED <<state, commandVars>>

\* The retention run has settled: recordStarted, then coordinator.syncAccount,
\* which refuses while suspended (recordFailed).  A window that has passed
\* ends the call; an activation whose live switch fails ends it as well.
StartSync(c) ==
    /\ pc[c] = "pausing"
    /\ c \notin pausing
    /\ \/ /\ c \in timedOut \/ c \in ActivateCalls
          /\ FinishSync(c)
          /\ UNCHANGED <<syncVars, dataVars>>
       \/ /\ c \notin timedOut
          /\ syncRows' = syncRows \cup {Target[c]}
          /\ IF syncSuspended
             THEN FinishSync(c) /\ UNCHANGED syncVars
             ELSE /\ GoTo(c, "syncing")
                  /\ active' = active \cup {Target[c]}
                  /\ UNCHANGED <<state, queue, syncSuspended, aborted, awaited,
                                 timedOut, retentionVars, commandVars>>
          /\ UNCHANGED connected

\* The sync promise has settled: recordSucceeded or recordFailed.
EndSync(c) ==
    /\ pc[c] = "syncing"
    /\ Target[c] \notin active
    /\ syncRows' = syncRows \cup {Target[c]}
    /\ FinishSync(c)
    /\ UNCHANGED <<syncVars, connected>>

-----------------------------------------------------------------------------
(* disconnectAccount *)

\* Sync is suspended at once, before the call has its turn in the queue.
CallDisconnect(c) ==
    /\ pc[c] = "idle"
    /\ Target[c] \in connected
    /\ IF state = "running"
       THEN /\ SyncSuspend(c)
            /\ Enqueue(c)
            /\ UNCHANGED <<state, retentionVars, commandVars, dataVars>>
       ELSE Rejected(c)

\* disconnectAccount and suspend: in turn, while running.
BeginSettling(c) ==
    /\ IsHead(c)
    /\ pc[c] = "queued"
    /\ state = "running"
    /\ GoTo(c, "settling")
    /\ UNCHANGED <<state, queue, syncVars, retentionVars, commandVars, dataVars>>

\* await syncSuspension, then retention.suspend().
SyncSettled(c) ==
    /\ pc[c] = "settling"
    /\ awaited[c] = {}
    /\ c \notin ShutdownCalls
    /\ RetentionSuspend(c)
    /\ GoTo(c, "pausing")
    /\ UNCHANGED <<state, queue, syncVars, commandVars, dataVars>>

\* Mutant: the retention run is not awaited.
BeginDisconnectAtOnce(c) ==
    /\ pc[c] = "pausing"
    /\ GoTo(c, "erasing")
    /\ UNCHANGED <<state, queue, syncVars, retentionVars, commandVars, dataVars>>

BeginDisconnect(c) ==
    /\ pc[c] = "pausing"
    /\ c \notin pausing
    /\ GoTo(c, "erasing")
    /\ UNCHANGED <<state, queue, syncVars, retentionVars, commandVars, dataVars>>

\* Mutant: sync is resumed on completion only.
EndDisconnectResumingOnSuccess(c) ==
    /\ pc[c] = "erasing"
    /\ \/ /\ ~pendingDeletion
          /\ connected' = connected \ {Target[c]}
          /\ syncRows' = syncRows \ {Target[c]}
       \/ UNCHANGED dataVars
    /\ Leave(c, "done")
    /\ IF state = "running"
       THEN syncSuspended' = (Target[c] \in connected') /\ RetentionResume
       ELSE UNCHANGED <<syncSuspended, retentionVars>>
    /\ UNCHANGED <<state, active, aborted, awaited, timedOut, commandVars>>

\* disconnect.disconnect settles: completed, failed before the credential was
\* deleted, or failed after it.  A pending deletion makes it fail at once.
EndDisconnect(c) ==
    /\ pc[c] = "erasing"
    /\ \/ /\ ~pendingDeletion
          /\ connected' = connected \ {Target[c]}
          /\ syncRows' = syncRows \ {Target[c]}
       \/ /\ ~pendingDeletion
          /\ connected' = connected \ {Target[c]}
          /\ UNCHANGED syncRows
       \/ UNCHANGED dataVars
    /\ Leave(c, "done")
    /\ IF state = "running"
       THEN syncSuspended' = FALSE /\ RetentionResume
       ELSE UNCHANGED <<syncSuspended, retentionVars>>
    /\ UNCHANGED <<state, active, aborted, awaited, timedOut, commandVars>>

-----------------------------------------------------------------------------
(* The deletion command: suspend(), delete(), resume() *)

\* confirm() has succeeded; suspend() returns at once when already suspended.
CallDeletion(c) ==
    /\ pc[c] = "idle"
    /\ available
    /\ CASE state = "running"   -> /\ SyncSuspend(c)
                                   /\ Enqueue(c)
                                   /\ UNCHANGED <<state, retentionVars, commandVars, dataVars>>
         [] state = "suspended" -> /\ GoTo(c, "gated")
                                   /\ UNCHANGED <<state, queue, syncVars, retentionVars,
                                                  commandVars, dataVars>>
         [] state = "stopped"   -> Rejected(c)

\* suspend(): another call has suspended the owner in the meantime.
AlreadySuspended(c) ==
    /\ IsHead(c)
    /\ pc[c] = "queued"
    /\ state = "suspended"
    /\ Leave(c, "gated")
    /\ UNCHANGED <<state, syncVars, retentionVars, commandVars, dataVars>>

\* suspend(): sync and retention have settled.
OwnerSuspended(c) ==
    /\ pc[c] = "pausing"
    /\ c \notin pausing
    /\ state' = "suspended"
    /\ Leave(c, "gated")
    /\ UNCHANGED <<syncVars, retentionVars, commandVars, dataVars>>

\* resume() does something only while the owner is suspended.
OwnerResume ==
    IF state = "suspended"
    THEN /\ state' = "running"
         /\ syncSuspended' = FALSE
         /\ RetentionResume
         /\ UNCHANGED <<active, aborted, awaited, timedOut>>
    ELSE UNCHANGED <<state, syncVars, retentionVars>>

\* The finally of the command.
ReopenGate ==
    IF available THEN OwnerResume ELSE UNCHANGED <<state, syncVars, retentionVars>>

\* delete() starts a run, shares the active run of the same operation, or is
\* refused: another run is active, the confirmation has expired, other
\* lifecycle work is pending.  A refused command goes through its finally.
StartDelete(c) ==
    /\ pc[c] = "gated"
    /\ deleting = NoCall
    /\ deleting' = c
    /\ pendingDeletion' = TRUE
    /\ GoTo(c, "erasing")
    /\ UNCHANGED <<state, queue, syncVars, retentionVars, available, keysDestroyed,
                   dataVars>>

JoinDelete(c) ==
    /\ pc[c] = "gated"
    /\ deleting # NoCall
    /\ GoTo(c, "joined")
    /\ UNCHANGED <<state, queue, syncVars, retentionVars, commandVars, dataVars>>

DeleteRefused(c) ==
    /\ pc[c] = "gated"
    /\ GoTo(c, "done")
    /\ ReopenGate
    /\ UNCHANGED <<queue, commandVars, dataVars>>

\* The promise of the run settles for its own call and for those that share it.
DeleteSettles(c) ==
    pc' = [d \in Calls |-> IF d = c \/ pc[d] = "joined" THEN "done" ELSE pc[d]]

DeleteSucceeds(c) ==
    /\ pc[c] = "erasing"
    /\ connected' = {}
    /\ syncRows' = {}
    /\ keysDestroyed' = TRUE
    /\ pendingDeletion' = FALSE
    /\ available' = FALSE
    /\ deleting' = NoCall
    /\ DeleteSettles(c)
    /\ UNCHANGED <<state, queue, syncVars, retentionVars>>

\* The deletion stops in some phase and stays pending in the journal.  Once the
\* account data are gone this may be the last phase, with every key context
\* destroyed that could be: a context refuses, or the save of 'completed' fails.
\* The gate is reopened all the same.
DeleteFails(c) ==
    /\ pc[c] = "erasing"
    /\ \/ UNCHANGED <<connected, syncRows, keysDestroyed>>
       \/ connected' = {} /\ UNCHANGED <<syncRows, keysDestroyed>>
       \/ connected' = {} /\ syncRows' = {} /\ UNCHANGED keysDestroyed
       \/ connected' = {} /\ syncRows' = {} /\ keysDestroyed' = TRUE
    /\ deleting' = NoCall
    /\ DeleteSettles(c)
    /\ ReopenGate
    /\ UNCHANGED <<queue, available, pendingDeletion>>

-----------------------------------------------------------------------------
(* shutdown *)

CallShutdown(c) ==
    /\ pc[c] = "idle"
    /\ state # "stopped"
    /\ SyncSuspend(c)
    /\ Enqueue(c)
    /\ UNCHANGED <<state, retentionVars, commandVars, dataVars>>

BeginShutdown(c) ==
    /\ IsHead(c)
    /\ pc[c] = "queued"
    /\ GoTo(c, "settling")
    /\ UNCHANGED <<state, queue, syncVars, retentionVars, commandVars, dataVars>>

\* retention.stop(): as suspend(), for good.
StopRetention(c) ==
    /\ pc[c] = "settling"
    /\ awaited[c] = {}
    /\ paused' = TRUE
    /\ scheduled' = FALSE
    /\ retentionStopped' = TRUE
    /\ pausing' = IF retentionRunning THEN pausing \cup {c} ELSE pausing
    /\ GoTo(c, "pausing")
    /\ UNCHANGED <<retentionRunning, state, queue, syncVars, commandVars, dataVars>>

\* coordinator.shutdown(): suspended for good, and wait once more.
ShutdownSync(c) ==
    /\ pc[c] = "pausing"
    /\ c \notin pausing
    /\ SyncSuspend(c)
    /\ GoTo(c, "stopping")
    /\ UNCHANGED <<state, queue, retentionVars, commandVars, dataVars>>

\* Then the projection key, and the owner is stopped.
EndShutdown(c) ==
    /\ pc[c] = "stopping"
    /\ awaited[c] = {}
    /\ keysDestroyed' = TRUE
    /\ state' = "stopped"
    /\ Leave(c, "done")
    /\ UNCHANGED <<syncVars, retentionVars, deleting, available, pendingDeletion,
                   dataVars>>

-----------------------------------------------------------------------------
SyncCall(c) ==
    \/ c \in SyncCalls /\ CallSync(c)
    \/ c \in ActivateCalls /\ CallActivate(c)

SyncStep(c) == BeginSync(c) \/ StartSync(c) \/ EndSync(c)

DisconnectStep(c) ==
    \/ BeginSettling(c)
    \/ SyncSettled(c)
    \/ BeginDisconnect(c)
    \/ EndDisconnect(c)

DeletionStep(c) ==
    \/ BeginSettling(c)
    \/ AlreadySuspended(c)
    \/ SyncSettled(c)
    \/ OwnerSuspended(c)
    \/ StartDelete(c)
    \/ JoinDelete(c)
    \/ DeleteRefused(c)
    \/ DeleteSucceeds(c)
    \/ DeleteFails(c)

ShutdownStep(c) ==
    \/ BeginShutdown(c)
    \/ StopRetention(c)
    \/ ShutdownSync(c)
    \/ EndShutdown(c)

Step(c) ==
    \/ Refuse(c)
    \/ c \in SyncOrActivate /\ SyncStep(c)
    \/ c \in DisconnectCalls /\ DisconnectStep(c)
    \/ c \in DeletionCalls /\ DeletionStep(c)
    \/ c \in ShutdownCalls /\ ShutdownStep(c)

Next ==
    \/ \E a \in Accounts : SyncSettles(a)
    \/ RetentionFires
    \/ RetentionEnds
    \/ \E c \in Calls : Step(c)
    \/ \E c \in SyncOrActivate : SyncCall(c)
    \/ \E c \in SyncCalls : AttemptTimesOut(c)
    \/ \E c \in DisconnectCalls : CallDisconnect(c)
    \/ \E c \in DeletionCalls : CallDeletion(c)
    \/ \E c \in ShutdownCalls : CallShutdown(c)

Spec == Init /\ [][Next]_vars

\* Promises settle: a sync ends because every provider and storage call it
\* awaits is bounded by a timeout, a retention run and lifecycle work because
\* their worker answers or exits; continuations of settled promises run.
Fairness ==
    /\ \A a \in Accounts : WF_vars(SyncSettles(a))
    /\ WF_vars(RetentionEnds)
    /\ WF_vars(RetentionFires)
    /\ \A c \in Calls : WF_vars(Step(c))

FairSpec == Spec /\ Fairness

-----------------------------------------------------------------------------
(* Properties *)

\* Every variable has its type.
TypeOK ==
    /\ state \in {"running", "suspended", "stopped"}
    /\ queue \in Seq(Calls)
    /\ pc \in [Calls -> {"idle", "queued", "settling", "pausing", "gated",
                         "syncing", "erasing", "joined", "stopping", "done"}]
    /\ {syncSuspended, paused, scheduled, retentionRunning, retentionStopped,
        available, pendingDeletion, keysDestroyed} \subseteq BOOLEAN
    /\ aborted \subseteq active
    /\ active \subseteq Accounts
    /\ awaited \in [Calls -> SUBSET Accounts]
    /\ timedOut \subseteq SyncCalls
    /\ pausing \subseteq Calls
    /\ deleting \in DeletionCalls \cup {NoCall}
    /\ connected \subseteq Accounts
    /\ syncRows \subseteq Accounts

Erasing == {c \in DisconnectCalls \cup DeletionCalls : pc[c] = "erasing"}

\* A deletion that failed in its last phase has destroyed the keys, and the
\* command that reports the failure has reopened the gate.
FailedWithoutKeys == keysDestroyed /\ available /\ state # "stopped"

\* While a disconnect or a deletion erases, and once a shutdown or a completed
\* deletion has destroyed the worker keys, no sync is active and no retention
\* run is, and no other erasure: nothing writes mail behind the back of the
\* erasure or uses a key that is gone.  Set apart is what goes on after a
\* deletion that failed in its last phase: there sync and retention are resumed
\* without keys (localDataDeletionCommand.ts:165), until the next attempt.
NoWorkWhileErasing ==
    /\ Cardinality(Erasing) <= 1
    /\ Erasing # {} \/ (keysDestroyed /\ ~FailedWithoutKeys)
          => active = {} /\ ~retentionRunning

\* Nothing is left suspended: when the owner is running and no call is
\* outstanding, the coordinator accepts work and retention is not paused.
IdleMeansResumed ==
    state = "running" /\ (\A c \in Calls : pc[c] \in {"idle", "done"})
        => ~syncSuspended /\ ~paused

\* Every accepted call returns: the queue is never stuck behind a call that
\* waits for a promise only a later call would settle.
EveryCallReturns == \A c \in Calls : pc[c] = "queued" ~> pc[c] = "done"

\* Maintenance is not starved: unless data has been deleted or the owner has
\* stopped, the next retention run always comes.
RetentionGoesOn ==
    []<>(retentionRunning \/ state = "stopped" \/ ~available)
=============================================================================
