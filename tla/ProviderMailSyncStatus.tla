------------------------ MODULE ProviderMailSyncStatus ------------------------
(***************************************************************************)
(* The durable sync-state row of each account and everything that writes   *)
(* it: ProviderMailSyncStatusService around the runs of the lifecycle      *)
(* owner, the page commits of the projection worker, the reservation of    *)
(* the retry command, a disconnect, the recovery of a one-sided account,   *)
(* and the bootstrap after a crash.                                        *)
(*                                                                         *)
(* The lifecycle owner is its queue of jobs: the head runs, one at a time. *)
(* The clock counts the first cooldown, a quarter of an hour.              *)
(***************************************************************************)
EXTENDS Naturals, Sequences, FiniteSets

CONSTANTS
    Accounts,
    Commanded,    \* the accounts whose retry or renewal the user asks for
    Failures,     \* failure codes a provider run may end with
    MaxPages,     \* bound: pages committed per account
    MaxTime,      \* bound: ticks of the clock
    MaxCrashes,   \* bound: crashes of the application
    NoRow,
    NoCode

Codes == {"OFFLINE", "PROVIDER_UNAVAILABLE", "SYNC_STORAGE_FAILED",
          "SYNC_BATCH_LIMIT_REACHED", "SYNC_ATTEMPT_TIMED_OUT", "SYNC_INTERRUPTED",
          "QUOTA_EXHAUSTED", "AUTHENTICATION_EXPIRED", "PERMISSION_REVOKED",
          "INVALID_CURSOR", "MALFORMED_PAYLOAD", "INVALID_SYNC_REQUEST",
          "SYNC_CHECKPOINT_CONFLICT", "SYNC_CANCELLED"}

ASSUME StatusAssumption ==
    /\ Commanded \subseteq Accounts
    /\ Failures \subseteq Codes
    /\ MaxPages \in Nat /\ MaxTime \in Nat /\ MaxCrashes \in Nat
    /\ NoCode \notin Codes

VARIABLES
    rows,         \* the encrypted sync-state row, NoRow when there is none
    mail,         \* the cursor up to which provider mail is stored
    credentials,  \* accounts with a refresh token in the vault
    providers,    \* accounts with a provider-account record
    known,        \* account ids that a connection has used
    receipt,      \* the one reviewed retry: "unused" or "consumed"
    now,          \* the wall clock
    connecting,   \* accounts whose connection is between its two writes
    attempts,     \* retry command: where the attempt for each account stands
    expired,      \* jobs whose attempt window has passed
    queue,        \* lifecycle owner: accepted jobs, the running one first
    stage,        \* of the job at the head
    suspended,    \* coordinator.suspended
    up,           \* the process runs
    recovered,    \* the inventory of the last bootstrap was ready
    unrecorded,   \* accounts whose last outcome could not be written
    crashes

storeVars == <<rows, mail, credentials, providers, known, receipt>>
callVars == <<connecting, attempts, expired>>
ownerVars == <<queue, stage, suspended>>
bootVars == <<up, recovered, unrecorded, crashes>>
vars == <<storeVars, now, callVars, ownerVars, bootVars>>

-----------------------------------------------------------------------------
(* providerMailSyncRetryPolicy *)

RetryAllowed == {"OFFLINE", "PROVIDER_UNAVAILABLE", "SYNC_STORAGE_FAILED",
                 "SYNC_BATCH_LIMIT_REACHED", "SYNC_ATTEMPT_TIMED_OUT", "SYNC_INTERRUPTED"}

ReconnectRequired == {"AUTHENTICATION_EXPIRED", "PERMISSION_REVOKED"}

MaxStreak == 3

Row == [status : {"idle", "syncing", "error"}, code : Codes \cup {NoCode},
        cursor : 0..MaxPages, streak : 0..MaxStreak, notBefore : 0..(MaxTime + 4)]

ASSUME NoRowAssumption == NoRow \notin Row

CooldownAnswer(row) == IF now < row.notBefore THEN "quota-waiting" ELSE "quota-ready"

\* The disposition of the failure comes before any cooldown.
ByDisposition(row, answer) ==
    IF row = NoRow \/ row.status # "error" THEN "unavailable"
    ELSE IF row.code \in ReconnectRequired THEN "reauthorization-required"
    ELSE IF row.code \in RetryAllowed \cup {"QUOTA_EXHAUSTED"} THEN answer ELSE "unavailable"

\* Mutant: the cooldown holds back quota failures only.
AvailabilityByCode(row) ==
    ByDisposition(row, IF row.code # "QUOTA_EXHAUSTED" THEN "available"
                       ELSE IF row.streak > 0 THEN CooldownAnswer(row) ELSE "quota-setup")

\* A version 1 row is one without a cooldown: streak 0.
Availability(row) ==
    ByDisposition(row, IF row.streak > 0 THEN CooldownAnswer(row)
                       ELSE IF row.code = "QUOTA_EXHAUSTED" THEN "quota-setup" ELSE "available")

\* 15 minutes, doubled with each failure of the streak.
Duration(streak) == 2 ^ (streak - 1)

\* Mutant: the streak grows without its cap.
WithCooldownUncapped(row, increment) ==
    LET streak == row.streak + 1
    IN [row EXCEPT !.streak = streak, !.notBefore = now + Duration(streak)]

WithCooldown(row, increment) ==
    LET grown == row.streak + (IF increment THEN 1 ELSE 0)
        streak == IF grown = 0 THEN 1 ELSE IF grown > MaxStreak THEN MaxStreak ELSE grown
    IN [row EXCEPT !.streak = streak, !.notBefore = now + Duration(streak)]

-----------------------------------------------------------------------------
(* ProviderMailSyncStatusService and the state a page commit writes *)

Blank == [status |-> "idle", code |-> NoCode, cursor |-> 0, streak |-> 0, notBefore |-> 0]

Current(a) == IF rows[a] = NoRow THEN Blank ELSE rows[a]

\* save(): cursor and cooldown are carried over.
Saved(a, status, code) == [Current(a) EXCEPT !.status = status, !.code = code]

\* recordSucceeded: the cursor of the result; the cooldown ends.
Succeeded(a) == [Blank EXCEPT !.cursor = mail[a]]

\* recordFailed
Failed(a, code) ==
    IF code = "SYNC_CANCELLED" THEN Saved(a, "idle", NoCode)
    ELSE LET row == Saved(a, "error", code)
         IN IF code = "QUOTA_EXHAUSTED" THEN WithCooldown(row, TRUE) ELSE row

\* Mutant: the page commit writes a version 1 row.
CommittedVersion1(a, cursor) == [Blank EXCEPT !.cursor = cursor]

\* The state written with a page: idle, the new cursor, the cooldown kept.
Committed(a, cursor) ==
    [Blank EXCEPT !.cursor = cursor, !.streak = Current(a).streak,
                  !.notBefore = Current(a).notBefore]

\* Mutant: only an account that has synchronized before is repaired.
RecoverInterruptedWithCursor(a) ==
    IF rows[a] # NoRow /\ rows[a].status = "syncing" /\ rows[a].cursor > 0
    THEN Saved(a, "error", "SYNC_INTERRUPTED") ELSE rows[a]

RecoverInterrupted(a) ==
    IF rows[a] # NoRow /\ rows[a].status = "syncing"
    THEN Saved(a, "error", "SYNC_INTERRUPTED") ELSE rows[a]

-----------------------------------------------------------------------------
Job(kind, a) == [kind |-> kind, account |-> a]

Jobs == [kind : {"first", "retry", "renewed", "disconnect"}, account : Accounts]
Queued == {queue[i] : i \in 1..Len(queue)}
AtHead(a, kinds) == queue # <<>> /\ Head(queue).account = a /\ Head(queue).kind \in kinds
SyncAtHead(a) == AtHead(a, {"first", "retry", "renewed"})

\* A run of the account is between recordStarted and its outcome.
Running(a) == SyncAtHead(a) /\ stage # "waiting"

\* Its controller is aborted: the attempt window has passed, or sync is
\* suspended by a disconnect that waits behind the run.
Aborted == suspended \/ Head(queue) \in expired

Connected == credentials \cap providers

NoAttempt == [step |-> "none", intent |-> "none", connected |-> FALSE, row |-> NoRow]
Intents == {"plain", "start-cooldown", "resume", "reviewed"}

\* The row of a quota failure that an earlier version of Posita recorded.
LegacyRow == [Blank EXCEPT !.status = "error", !.code = "QUOTA_EXHAUSTED"]

\* Some accounts may have been connected by that version.
Init ==
    /\ known \in SUBSET Accounts
    /\ credentials = known /\ providers = known
    /\ rows = [a \in Accounts |-> IF a \in known THEN LegacyRow ELSE NoRow]
    /\ mail = [a \in Accounts |-> 0]
    /\ receipt = "unused"
    /\ now = 0
    /\ connecting = {}
    /\ attempts = [a \in Accounts |-> NoAttempt]
    /\ expired = {}
    /\ queue = <<>> /\ stage = "waiting" /\ suspended = FALSE
    /\ up = TRUE /\ recovered = TRUE
    /\ unrecorded = {} /\ crashes = 0

Tick ==
    /\ now < MaxTime
    /\ now' = now + 1
    /\ UNCHANGED <<storeVars, callVars, ownerVars, bootVars>>

-----------------------------------------------------------------------------
(* Connection: a fresh account id, the credential before the account state *)

StoreCredential(a) ==
    /\ up /\ a \notin known
    /\ known' = known \cup {a}
    /\ credentials' = credentials \cup {a}
    /\ connecting' = connecting \cup {a}
    /\ UNCHANGED <<rows, mail, providers, receipt, now, attempts, expired, ownerVars,
                   bootVars>>

\* The account is saved and the connection command activates it.
StoreProvider(a) ==
    /\ a \in connecting
    /\ connecting' = connecting \ {a}
    /\ providers' = providers \cup {a}
    /\ queue' = Append(queue, Job("first", a))
    /\ UNCHANGED <<rows, mail, credentials, known, receipt, now, attempts, expired, stage,
                   suspended, bootVars>>

\* The recovery command removes what is left of a one-sided account.
RecoverConnection(a) ==
    /\ up /\ a \notin connecting
    /\ \/ /\ a \in credentials \ providers
          /\ credentials' = credentials \ {a}
          /\ UNCHANGED <<providers, rows>>
       \/ /\ a \in providers \ credentials
          /\ providers' = providers \ {a}
          /\ rows' = [rows EXCEPT ![a] = NoRow]
          /\ UNCHANGED credentials
    /\ UNCHANGED <<mail, known, receipt, now, callVars, ownerVars, bootVars>>

\* Reauthorization: a new credential for an account that must reconnect, then
\* one sync; one reauthorization at a time.
Renew(a) ==
    /\ up /\ a \in Connected \cap Commanded
    /\ Availability(rows[a]) = "reauthorization-required"
    /\ \A j \in Queued : j.kind # "renewed"
    /\ queue' = Append(queue, Job("renewed", a))
    /\ UNCHANGED <<storeVars, now, callVars, stage, suspended, bootVars>>

-----------------------------------------------------------------------------
(* The retry command *)

Attempt(a, step) == attempts' = [attempts EXCEPT ![a].step = step]

\* The account is no longer active in the command.
Release(a) == attempts' = [attempts EXCEPT ![a] = NoAttempt] /\ expired' = expired \ {Job("retry", a)}

\* execute and executeReviewed: one attempt per account; the presence of both
\* halves is read at once, its result arrives later.
Execute(a, intent) ==
    /\ up /\ a \in Commanded
    /\ attempts[a].step = "none"
    /\ intent = "reviewed" => receipt = "unused"
    /\ attempts' = [attempts EXCEPT ![a] = [step |-> "inspecting", intent |-> intent,
                                            connected |-> a \in Connected, row |-> NoRow]]
    /\ UNCHANGED <<storeVars, now, connecting, expired, ownerVars, bootVars>>

\* The attempt window passes: its signal is aborted and the caller answered,
\* but the account stays active until the attempt settles.
WindowPasses(a, kind) ==
    /\ \/ kind = "retry" /\ attempts[a].step # "none"
       \/ kind = "renewed" /\ Job("renewed", a) \in Queued
    /\ Job(kind, a) \notin expired
    /\ expired' = expired \cup {Job(kind, a)}
    /\ UNCHANGED <<storeVars, now, connecting, attempts, ownerVars, bootVars>>

Intended(a) ==
    CASE Availability(rows[a]) = "quota-setup" -> "start-cooldown"
      [] Availability(rows[a]) = "quota-ready" -> "resume"
      [] OTHER -> "plain"

\* The request is allowed: a connected account, a failed sync, the action its
\* state calls for, a wait that is over, a signal that is not aborted.
Eligible(a) ==
    LET intent == attempts[a].intent
    IN /\ attempts[a].connected
       /\ rows[a] # NoRow
       /\ rows[a].status = "error"
       /\ Job("retry", a) \notin expired
       /\ IF intent = "reviewed" THEN rows[a].code = "MALFORMED_PAYLOAD"
          ELSE /\ intent = Intended(a)
               /\ Availability(rows[a]) \in {"available", "quota-setup", "quota-ready"}

Dispatched(a) == Attempt(a, "dispatched") /\ queue' = Append(queue, Job("retry", a))

Refuse(a) ==
    /\ up /\ attempts[a].step = "inspecting"
    /\ ~Eligible(a)
    /\ Release(a)
    /\ UNCHANGED <<storeVars, now, connecting, ownerVars, bootVars>>

\* A first quota failure of an old row: the wait is written, nothing is sent.
SetUpCooldown(a) ==
    /\ up /\ attempts[a].step = "inspecting"
    /\ attempts[a].intent = "start-cooldown" /\ Eligible(a)
    /\ rows' = [rows EXCEPT ![a] = WithCooldown(rows[a], FALSE)]
    /\ Release(a)
    /\ UNCHANGED <<mail, credentials, providers, known, receipt, now, connecting, ownerVars,
                   bootVars>>

\* A resume reserves the next wait before it is dispatched.
Dispatch(a) ==
    /\ up /\ attempts[a].step = "inspecting"
    /\ attempts[a].intent \in {"plain", "resume"} /\ Eligible(a)
    /\ rows' = IF attempts[a].intent = "resume"
               THEN [rows EXCEPT ![a] = WithCooldown(rows[a], FALSE)] ELSE rows
    /\ Dispatched(a)
    /\ UNCHANGED <<mail, credentials, providers, known, receipt, now, connecting, expired,
                   stage, suspended, bootVars>>

\* The native dialog is shown for the state that was read.
AskReview(a) ==
    /\ up /\ attempts[a].step = "inspecting"
    /\ attempts[a].intent = "reviewed" /\ Eligible(a)
    /\ attempts' = [attempts EXCEPT ![a].step = "confirming", ![a].row = rows[a]]
    /\ UNCHANGED <<storeVars, now, connecting, expired, ownerVars, bootVars>>

AnswerReview(a) ==
    /\ up /\ attempts[a].step = "confirming"
    /\ \/ /\ attempts' = [attempts EXCEPT ![a].step = "reinspecting",
                                          ![a].connected = a \in Connected]
          /\ UNCHANGED expired
       \/ Release(a)
    /\ UNCHANGED <<storeVars, now, connecting, ownerVars, bootVars>>

\* The account is still connected, its state the reviewed one, and the receipt
\* is consumed before the dispatch.
DispatchReviewed(a) ==
    /\ up /\ attempts[a].step = "reinspecting"
    /\ IF /\ attempts[a].connected /\ rows[a] = attempts[a].row
          /\ Job("retry", a) \notin expired /\ receipt = "unused"
       THEN receipt' = "consumed" /\ Dispatched(a) /\ UNCHANGED expired
       ELSE Release(a) /\ UNCHANGED <<receipt, queue>>
    /\ UNCHANGED <<rows, mail, credentials, providers, known, now, connecting, stage,
                   suspended, bootVars>>

-----------------------------------------------------------------------------
(* The lifecycle owner: the run of a sync *)

\* Mutant: the end of a job whose window has passed is not told to the command.
LeaveUnlessExpired(a) ==
    /\ queue' = Tail(queue)
    /\ stage' = "waiting"
    /\ expired' = expired \ {Head(queue)}
    /\ attempts' = IF Head(queue).kind = "retry" /\ Head(queue) \notin expired
                   THEN [attempts EXCEPT ![a] = NoAttempt] ELSE attempts

\* The head leaves; an attempt or a renewal it belongs to settles with it.
Leave(a) ==
    /\ queue' = Tail(queue)
    /\ stage' = "waiting"
    /\ expired' = expired \ {Head(queue)}
    /\ attempts' = IF Head(queue).kind = "retry" THEN [attempts EXCEPT ![a] = NoAttempt]
                                                ELSE attempts

\* A job whose window has passed in the queue does nothing.
SkipExpired(a) ==
    /\ up /\ SyncAtHead(a) /\ stage = "waiting" /\ Head(queue) \in expired
    /\ Leave(a)
    /\ UNCHANGED <<storeVars, now, connecting, suspended, bootVars>>

\* recordStarted, then the coordinator's run.
StartSync(a) ==
    /\ up /\ SyncAtHead(a) /\ stage = "waiting" /\ Head(queue) \notin expired
    /\ rows' = [rows EXCEPT ![a] = Saved(a, "syncing", NoCode)]
    /\ stage' = "fetching"
    /\ unrecorded' = unrecorded \ {a}
    /\ UNCHANGED <<mail, credentials, providers, known, receipt, now, callVars, queue,
                   suspended, up, recovered, crashes>>

\* A batch arrives: the last one, or one with a cursor of its own.
FetchPage(a) ==
    /\ up /\ Running(a) /\ stage = "fetching" /\ ~Aborted
    /\ a \in credentials
    /\ stage' \in {"last"} \cup (IF mail[a] < MaxPages THEN {"committing"} ELSE {})
    /\ UNCHANGED <<storeVars, now, callVars, queue, suspended, bootVars>>

\* commitBatch: the mail, its cursor and the state in one transaction, whether
\* the run has been aborted in the meantime or not.
CommitPage(a, cursor) ==
    /\ up /\ Running(a) /\ stage \in {"committing", "last"}
    /\ cursor = mail[a] + 1 \/ (stage = "last" /\ cursor = mail[a])
    /\ cursor <= MaxPages
    /\ mail' = [mail EXCEPT ![a] = cursor]
    /\ rows' = [rows EXCEPT ![a] = Committed(a, cursor)]
    /\ stage' = IF stage = "last" THEN "done" ELSE "fetching"
    /\ UNCHANGED <<credentials, providers, known, receipt, now, callVars, queue, suspended,
                   bootVars>>

\* The outcome is written, or its write fails.
Record(a, row) ==
    \/ rows' = [rows EXCEPT ![a] = row] /\ UNCHANGED unrecorded
    \/ unrecorded' = unrecorded \cup {a} /\ UNCHANGED rows

EndRun(a) ==
    /\ Leave(a)
    /\ UNCHANGED <<mail, credentials, providers, known, receipt, now, connecting, suspended,
                   up, recovered, crashes>>

SyncSucceeds(a) ==
    /\ up /\ Running(a) /\ stage = "done"
    /\ rows' = [rows EXCEPT ![a] = Succeeded(a)]
    /\ UNCHANGED unrecorded
    /\ EndRun(a)

\* The provider or a commit fails, the run sees its abort, or the success
\* cannot be written.
Outcomes(a) ==
    CASE Head(queue) \in expired -> {"SYNC_ATTEMPT_TIMED_OUT"}
      [] Head(queue) \notin expired /\ stage # "fetching" -> {"SYNC_STORAGE_FAILED"}
      [] Head(queue) \notin expired /\ stage = "fetching" /\ suspended -> {"SYNC_CANCELLED"}
      [] OTHER -> Failures

SyncFails(a) ==
    /\ up /\ Running(a)
    /\ \E code \in Outcomes(a) : Record(a, Failed(a, code))
    /\ EndRun(a)

-----------------------------------------------------------------------------
(* Disconnect *)

\* Sync is suspended at once, the rest waits for its turn.
CallDisconnect(a) ==
    /\ up /\ a \in Connected
    /\ Job("disconnect", a) \notin Queued
    /\ suspended' = TRUE
    /\ queue' = Append(queue, Job("disconnect", a))
    /\ UNCHANGED <<storeVars, now, callVars, stage, bootVars>>

EraseCredential(a) ==
    /\ up /\ AtHead(a, {"disconnect"}) /\ stage = "waiting"
    /\ credentials' = credentials \ {a}
    /\ stage' = "erasing"
    /\ UNCHANGED <<rows, mail, providers, known, receipt, now, callVars, queue, suspended,
                   bootVars>>

EraseState(a) ==
    /\ up /\ AtHead(a, {"disconnect"}) /\ stage = "erasing"
    /\ rows' = [rows EXCEPT ![a] = NoRow]
    /\ providers' = providers \ {a}
    /\ mail' = [mail EXCEPT ![a] = 0]
    /\ unrecorded' = unrecorded \ {a}
    /\ Leave(a)
    /\ suspended' = FALSE
    /\ UNCHANGED <<credentials, known, receipt, now, connecting, up, recovered, crashes>>

\* It stops before or after the credential is gone.
DisconnectFails(a) ==
    /\ up /\ AtHead(a, {"disconnect"})
    /\ Leave(a)
    /\ suspended' = FALSE
    /\ UNCHANGED <<storeVars, now, connecting, bootVars>>

-----------------------------------------------------------------------------
(* Crash and bootstrap *)

Crash ==
    /\ up /\ crashes < MaxCrashes
    /\ crashes' = crashes + 1
    /\ up' = FALSE
    /\ connecting' = {} /\ expired' = {}
    /\ attempts' = [a \in Accounts |-> NoAttempt]
    /\ queue' = <<>> /\ stage' = "waiting" /\ suspended' = FALSE
    /\ UNCHANGED <<storeVars, now, recovered, unrecorded>>

\* The inventory is ready when every account is whole; only then are rows in
\* status syncing repaired.  No sync is started.
Boot ==
    /\ ~up
    /\ up' = TRUE
    /\ recovered' = (credentials = providers)
    /\ rows' = IF recovered'
               THEN [a \in Accounts |-> IF a \in providers THEN RecoverInterrupted(a) ELSE rows[a]]
               ELSE rows
    /\ unrecorded' = IF recovered' THEN unrecorded \ providers ELSE unrecorded
    /\ UNCHANGED <<mail, credentials, providers, known, receipt, now, callVars, ownerVars,
                   crashes>>

-----------------------------------------------------------------------------
ConnectStep(a) == StoreCredential(a) \/ StoreProvider(a) \/ RecoverConnection(a) \/ Renew(a)

RetryStep(a) == Refuse(a) \/ SetUpCooldown(a) \/ Dispatch(a) \/ AskReview(a) \/ DispatchReviewed(a)

RunStep(a) ==
    \/ SkipExpired(a)
    \/ StartSync(a)
    \/ FetchPage(a)
    \/ \E cursor \in 0..MaxPages : CommitPage(a, cursor)
    \/ SyncSucceeds(a)
    \/ SyncFails(a)

DisconnectStep(a) == EraseCredential(a) \/ EraseState(a) \/ DisconnectFails(a)

Next ==
    \/ Tick
    \/ \E a \in Accounts : ConnectStep(a)
    \/ \E a \in Accounts, intent \in Intents : Execute(a, intent)
    \/ \E a \in Accounts, kind \in {"retry", "renewed"} : WindowPasses(a, kind)
    \/ \E a \in Accounts : RetryStep(a) \/ AnswerReview(a)
    \/ \E a \in Accounts : RunStep(a) \/ CallDisconnect(a) \/ DisconnectStep(a)
    \/ Crash
    \/ Boot

Spec == Init /\ [][Next]_vars

\* What has been awaited settles: provider calls and workers are bounded by
\* timeouts.  A user need not answer a dialog, nor the clock reach a wait.
Fairness == \A a \in Accounts : WF_vars(RetryStep(a)) /\ WF_vars(RunStep(a) \/ DisconnectStep(a))

FairSpec == Spec /\ Fairness

-----------------------------------------------------------------------------
(* Properties *)

\* Every variable has its type; the streak never leaves its three values.
TypeOK ==
    /\ rows \in [Accounts -> Row \cup {NoRow}]
    /\ mail \in [Accounts -> 0..MaxPages]
    /\ credentials \subseteq known /\ providers \subseteq known /\ known \subseteq Accounts
    /\ connecting \subseteq credentials \ providers
    /\ receipt \in {"unused", "consumed"}
    /\ now \in 0..MaxTime
    /\ attempts \in [Accounts ->
           [step : {"none", "inspecting", "confirming", "reinspecting", "dispatched"},
            intent : Intents \cup {"none"}, connected : BOOLEAN, row : Row \cup {NoRow}]]
    /\ expired \subseteq Jobs
    /\ queue \in Seq(Jobs)
    /\ stage \in {"waiting", "fetching", "committing", "last", "done", "erasing"}
    /\ {up, recovered, suspended} \subseteq BOOLEAN
    /\ unrecorded \subseteq Accounts
    /\ crashes \in 0..MaxCrashes

\* A row tells the truth about its account.  It says "syncing" only while a run
\* of the account goes on, so the user is never locked out by a run that is gone
\* (excused are an outcome whose write failed, and a bootstrap that found a
\* one-sided account and repaired nothing).  Its cursor is that of the stored
\* mail, across pages, failures, cooldowns, crashes and repairs: a wrong one
\* loses or repeats mail.
RowsAreTrue ==
    \A a \in Connected :
        rows[a] # NoRow =>
            /\ rows[a].cursor = mail[a]
            /\ up /\ rows[a].status = "syncing"
                 => Running(a) \/ a \in unrecorded \/ ~recovered

\* The history of quota failures ends with a complete sync only: not with a
\* page, another failure, a cancellation, a crash or a reservation.  The wait
\* it has led to is not begun again by asking again: its end moves with the
\* outcome of a run, or when it has passed.
CooldownSurvives ==
    [][\A a \in Accounts :
           rows[a] # NoRow /\ rows'[a] # NoRow =>
               /\ rows'[a].streak < rows[a].streak => Running(a) /\ stage = "done"
               /\ rows[a].streak > 0 /\ now < rows[a].notBefore
                    => rows'[a].notBefore = rows[a].notBefore \/ Running(a)]_vars

\* No ordinary retry is sent to the provider within a wait, whatever failure
\* came after the quota failure that began it.
RetryHonoursCooldown ==
    [][\A a \in Accounts :
           attempts[a].step = "inspecting" /\ attempts'[a].step = "dispatched"
               => rows[a].streak = 0 \/ now >= rows[a].notBefore]_vars

\* An attempt that does not wait for the user ends, so the account can be tried
\* again, even when the answer to the caller was a timeout.
AttemptEnds ==
    \A a \in Accounts :
        attempts[a].step \notin {"none", "confirming"} ~> attempts[a].step \in {"none", "confirming"}
=============================================================================
