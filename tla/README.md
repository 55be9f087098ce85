# Verification of Posita's main process

Posita is a local-first desktop mail application (Electron, TypeScript). Its
main process connects Google accounts, synchronizes their mail into an
encrypted SQLite database, keeps that database within a retention window, and
removes one account or everything on request. This directory models that main
process in TLA+: what survives crashes, what runs beside what, and what a
removal promises. Paths below are relative to the repository (`src/main/...`
stands for the application's own `src` directory).

## The system

### Components, state, operations

| component | state | operations |
|---|---|---|
| Lifecycle journal (`accountLifecycle.ts`, `sqliteAccountLifecycleRepository.ts`) | durable rows: operation id, type, account, phase, last error | `save`, `load`, `listPending`, `loadLatestDeleteLocalData` |
| Account disconnect (`disconnectAccount.ts`) | one running promise per account | `disconnect`: revoke, delete credential, account state, mail (two effects), compact |
| Local data deletion (`deleteLocalData.ts`) | one running promise | `delete`, `resume`, `checkCanStart`: credentials, account state, mail, compact, erase the key |
| Stores (`encryptedSqlite*Repository.ts`, `sqliteSecretVault.ts`, `sqliteSanitization.ts`, `cacheDataKeyManager.ts`) | credentials, account state, sample mail, provider mail, mail mode, cache status, data key, and the residue in free pages | reads, writes, deletions, compaction |
| Startup (`bootstrapLocalData.ts`, `startupLifecycleRecovery.ts`) | none of its own | recovery of an interrupted deletion, cleanup of confirmations, key loading, migration, seeding |
| Confirmations (`localActionConfirmation.ts` and its repository) | challenges in memory, receipts in the database, both with a lifetime | `prepare`, `confirm`, `isValid`, `matches`, `cleanupExpired` |
| Commands (`localDataDeletionCommand.ts`, `googleAccountDisconnectCommand.ts`) | open challenges, availability | `prepare`, `execute` |
| Lifecycle owner (`providerMailLifecycleOwner.ts`) | state, promise queue | `start`, `activateConnectedAccount`, `syncAccounts`, `disconnectAccount`, `suspend`, `resume`, `shutdown` |
| Sync coordinator (`mailSyncCoordinator.ts`) | active syncs, concurrency gate, suspended, shutting down | `syncAccount`, `supersedeAccount`, `cancelAccount`, `suspend`, `resume`, `shutdown` |
| Retention owner (`retentionMaintenanceOwner.ts`) | timer, running promise, paused, stopped | `start`, `suspend`, `resume`, `stop`, `run` |
| Projection (`encryptedSqliteMailSyncProjection.ts`) | provider accounts' messages, threads, cursor | `loadCheckpoint`, `commitBatch`, `deleteAccountRecords`, `applyRetention` |
| Connection (`accountConnection.ts`, `accountConnectionActivation.ts`, `googleAccountConnectionCommand.ts`, recovery) | pending session, credential and account state of an account | `begin`, `complete`, `cancel`, rollback, recovery |
| Reauthorization (`accountReauthorization.ts`, its command) | pending session of its own; the adapter and listener of the connection | `begin`, `complete`, `cancel` |
| Authorization adapter and loopback server (`googleDesktopAccountAuthorizationAdapter.ts`, `googleOAuthLoopbackRedirectServer.ts`) | one active session, its server, its timer, its waiter, a queued callback | `begin`, `waitForCallback`, `complete`, `cancel`, expiry |
| Sync status and retry (`providerMailSyncStatus.ts`, `providerMailSyncRetryPolicy.ts`, `googleAccountSyncRetryCommand.ts`) | the durable sync row of an account, the receipt of the one reviewed retry, attempts | `recordStarted`, `recordOutcome`, `recoverInterrupted`, `reserve`, `retry` |
| Access tokens (`googleOAuthAccessTokenSource.ts`) | cache, map of shared refreshes | `getAccessToken`, `invalidate`, `destroy` |
| Request pacer (`googleMailRequestPacer.ts`) | queue, timer, time of the next admission | `acquire`, abort, drain |
| Workers (`workerThread*.ts`) | bounded queue of the projection, single-flight runs, key copies | one worker thread per operation, `shutdown`, `destroyEncryptionContext` |
| Retention of mail (`retentionMaintenance.ts`, `retentionPolicy.ts`, `retentionMaintenanceWorker.ts`) | sample data set, timestamps, pending compaction | a retention run: evict, plan, replace, compact |
| IPC, preload, renderer, cryptography, Gmail HTTP and parsing | | not state machines; see *Not modelled* |

### How they interact

A renderer command reaches the main process over IPC. The **commands** check a
confirmation and the connection, then call the **owner**. The owner has one
queue: a sync batch, an activation, a disconnect, the suspension before a
deletion and the shutdown each wait for their turn, and around each of them the
owner suspends and resumes the **coordinator** and the **retention owner**. The
deletion itself is not in the queue: the command calls `suspend()`, then
`delete()`, then (if it failed) `resume()`. Disconnect and deletion share the
**journal**: a row is inserted only when no pending row overlaps, each phase
has an effect on the **stores** and is saved after it. At **startup** a pending
deletion is resumed before any key is loaded; a pending disconnect stays as it
is. The connection service is behind no gate at all. A run of a **sync** loads
its checkpoint from the **projection worker**, takes an **access token**, whose
refresh it may share, has each read of Gmail admitted by the **pacer**, and
commits through the worker's bounded queue; its **status row** is written before,
by every commit, and after it. The **retention worker** opens the same file from a
thread of its own. Connect and reauthorization are two commands over one
authorization **adapter** and one **loopback** listener.

### What is hard here

* a crash, or an error, at any point of a phase: before its effect, after it,
  between its two effects, after the save; the save of the failure failing;
* startup resuming the work of another process with other (keyless) actions;
* confirmations that expire while the work they authorized is pending;
* commands whose checks are separated from their effects by awaits and by the
  queue, so that the state they checked has changed;
* suspension flags shared by calls that do not know of each other;
* a sync whose provider answers after it was cancelled, superseded or suspended;
* cursors, batches and resynchronization across failures;
* timers and timeouts racing late answers;
* one row written as a whole by four writers that read it at other times;
* two authorizations over one listener, and the awaits between the two stores an
  account lives in;
* a refresh that is joined, left, aborted and invalidated by calls that do not
  wait for each other;
* threads that read in one transaction and write in the next, and a compaction
  that is a step of its own and may be cut off.

`PROJECT.json` lists each of these at its line, with the property about it.

## The modules

| module | models | extends |
|---|---|---|
| `LocalStores` | what the installation holds per account, and each store's deletion | |
| `AccountLifecycle` | the journal and the phase loop both services run | `LocalStores` |
| `DisconnectAccount` | `DisconnectAccountService` | `AccountLifecycle` |
| `DeleteLocalData` | `DeleteLocalDataService` with both kinds of actions | `AccountLifecycle` |
| `LocalLifecycle` | both services with commands, confirmations, owner, startup, crashes, and what fills the stores | the two above |
| `LifecycleContract` | the abstract promise of the lifecycle | |
| `ProviderMailLifecycleOwner` | the owner's queue, with the coordinator, the retention owner and the deletion command as it drives them | |
| `MailSyncCoordinator` | which accounts synchronize, in which slots, and the calls that abort runs and wait for them | |
| `MailProjection` | the stored mail and cursor of one account: commit, repair, eviction | |
| `GmailMailbox` | Gmail as the adapter sees it (external): messages, history, pages | |
| `MailSync` | one account's runs: the coordinator's loop over the Gmail adapter, committing to the projection | the two above |
| `ProviderMailSyncStatus` | the sync row and everything that writes it: status service, runs, commits, retry command, disconnect, recovery, bootstrap | |
| `AccountConnection` | connect and reauthorization over the shared adapter and listener; recovery, disconnect, crashes | |
| `AccessTokens` | the token source over the vault | |
| `RequestPacer` | the pacer | |
| `MailWorkers` | the queue and the key of the projection worker, the retention worker's key | |
| `MailAccess` | runs that use these three, with the owner's operations, reads of the renderer and a renewal | the three above |
| `SampleMail` | the sample data set, `applyRetentionPolicy`, `applyAccountDataRemoval`, and what they should return | |
| `StorageMaintenance` | retention worker, switch to live mail, disconnect, deletion and start over one file that must be compacted | `SampleMail` |
| `MCLocalLifecycle`, `MCProviderMailLifecycleOwner`, `MCMailSyncCoordinator`, `MCMailSync`, `MCProviderMailSyncStatus`, `MCAccountConnection`, `MCMailAccess`, `MCStorageMaintenance` | instances for TLC | the module named |
| `LocalLifecycle_proofs`, `ProviderMailLifecycleOwner_proofs`, `MailSyncCoordinator_proofs`, `MailSync_proofs`, `ProviderMailSyncStatus_proofs`, `AccountConnection_proofs`, `MailAccess_proofs`, `StorageMaintenance_proofs` | theorems and proofs | the module named, `TLAPS` |

### The local lifecycle

State: the journal is three functions of the operation ids (`journal` for the
phase, `lastError`, and the most recent deletion) and survives a crash, as do
the stores and the `receipts`. `step` says where the promise of an operation
stands in this process; `keyHeld`, `challenges`, `executing`, `connecting` are
memory too, and `Quit`, which is possible in every state with a process, clears
them. An operation id is drawn together with its confirmation, so ids carry
their type and account as constants (`DisconnectOps`, `DeletionOps`,
`AccountOf`). The stores are sets of accounts: which records an account has
does not matter to the lifecycle, whether it has any does. `residue` is what a
`DELETE` leaves in free pages until a `VACUUM`.

The phase loop is `perform`, then `save`. The failure of a call has every
outcome the code can meet: the effect did not happen, it happened and the
answer was lost, or (mail phase, key phase) one of two effects happened; and
then the failure code is saved, or saving it fails as well.

What fills the stores meanwhile is modelled as freely as the code allows: a
connection writes its credential and its account state in two steps whenever
the services exist; a live-mode switch and a sync commit run when the owner lets
them. Three writes are decided on before a disconnect or a deletion and come after
it, because nothing looks at the account again: the grant and the credential of a
reauthorization (`RenewalGranted`, `RenewalStored`), a credential that is
re-protected (`Reprotected`), and a sync batch that waited in the owner's queue
(`RetryRuns`: the status row and, with a credential that has come back, mail).
`returned` remembers what they have put back into a store that had lost it, as
pairs of store and account; it is a history variable that no action reads but to keep
it up to date. The properties speak of what is stored without `returned`
(`Original`), and so does the refinement mapping: what a late write puts back, and
nothing else, is set apart. `SyncCommit` and `ActivateLive` are guarded by "no lifecycle operation is
running". That guard is what `ProviderMailLifecycleOwner` shows
(`NoWorkWhileErasing`). It does not hold once a refused second deletion command
has reopened the gate (see *Divergences without a run*), and the lifecycle results
are about one deletion command at a time in that respect.

A bootstrap without a deletion row is one step (`BootReady`): a crash inside it
leaves a state in which the next one does what is left.

### The lifecycle owner

Each call of an entry point is a constant of the model, and `pc` says where its
async function stands. An accepted call is appended to `queue`, and only the
head runs. The flags of the coordinator (`syncSuspended`, the active and
aborted syncs) and of the retention owner (`paused`, `scheduled`, `running`,
`stopped`) are the code's. Promises captured at call time are modelled as such:
`disconnectAccount` and `suspend` take `sync.suspend()` when they are called
and await it in turn, so `awaited[c]` holds the syncs that were active then.

### The coordinator

`phase` says where the run of each account is: in the queue of the gate
(`waiting`), resolved but not resumed (`handed`), rejected in the queue
(`rejected`), waiting for the provider (`working`) or in a commit
(`committing`). `slots` and `waiting` are the fields of
`BoundedConcurrencyGate`. A step is what runs between two awaits, and the
continuation of a resolved promise is a step of its own; a run's `finally`, the
release of its slot and its removal from the map are one step, because what lies
between them are continuations that read none of it. A call that waits for
aborted runs keeps the set of them (`awaited`); a suspension that a `resume()`
has overtaken promises nothing any more (`reopened`).

### Synchronization

`MailSync` follows one account at the level of its mail. `run` holds the
variables of `runWithSlot`, `fetch` what `fetchBatch` builds, `window` the maps
of a resync. One HTTP request is one step: the profile, a list page, a history
page, each message. Between any two of them `GmailMailbox` may let a message
arrive, change its label or disappear, and may forget its history. A history
event is an entry of `log`, the history id its length; the adapter reads the
mailbox only through pages and tokens. A message is a number and a later message
a greater one, so that the 90-day boundary is a number, `cutoff`, that moves.

`MailProjection` has the two transactions as actions. A thread record is the set
of messages that it lists; that this set may be smaller than what is stored of
the conversation is the subject of two findings. Canonical identifiers are
hashes of the provider's, so the refusals for a clash of the two have nothing to
refuse. `Abandon` stands for everything that ends a run without a result: a
cancellation, a timeout, a crash, a failing request or transaction. The
coordinator's check that an incomplete batch moves the cursor (lines 273-283)
and the adapter's check of an offset behind the end of a page cannot fail over
this mailbox, and a second `INVALID_CURSOR` in a run cannot occur, because the
resync has only cursors of a listing.

### The sync row

`rows` is the encrypted row of an account, `mail` the cursor up to which mail is
stored, so that a row that forgets what another writer has put there is seen.
The owner is its queue of jobs; a run goes through `stage`, and a crash may come at
every one. `attempts` is the retry command, from its inspection over the reviewed
confirmation to the second inspection and the dispatch, and what it has read
(`row`) is kept beside it. Time counts the first cooldown, so that the three
waits are 1, 2 and 4. A row of the older version is one without a cooldown.

### Authorizations

`flow` says where the activation of each of the two commands stands, `pending`
is the session of its connection service; `adapter`, `loopback` and `listening`
belong to what they share. A session is the number of its begin. Two overlapping
begins may both find the listener free and overwrite each other: the loser is in
`displaced`, and the documentation accepts what follows
(`docs/DECISIONS.md:983-984`). The account lives in two stores, `credentials` and
`providers`, and `excused` remembers which accounts something that failed, crashed
or wrote over another has left with one half. A reauthorization whose account is
disconnected during the write of its credential is among them
(`docs/PRIVACY.md:156-157`). `stuck` is the adapter's session when its completion
was refused unread. The ids of new connections are fresh but may be used
again; the browser is opened within the step that waits; one recovery is
confirmed at a time. That the callback's promise may be rejected while the opening
of the browser is awaited (`accountConnectionActivation.ts:90-92`) is left out.

### What a run uses

A credential is a number, an access token the number of the credential it was
exchanged for, and a refresh a record that stands where its promise does: reading
the vault, re-protecting, requesting. `shared` is the pending map. A request is an
account, a slot and a part; the pacer is a record of its fields and its functions
are operators over that record, because `acquire`, an abort and the timer each
drain what the one before has left. One page and one group of messages are enough for
what an abort must withdraw. The owner's operations come one at a time (that is
`ProviderMailLifecycleOwner`), and are cut where the code awaits. A deletion leaves
the tokens in memory, and a late re-protection may put an old credential into the
vault; the accounts it happens to are in `overwritten`. A pacer clock that fails,
and the copies of the key inside a worker, are left out.

### The file

`StorageMaintenance` has each transaction of the retention worker as a step of its
own, the plan it has computed in `worker`, and the operations of the main process
cut at their awaits. `residue` says who has left bytes in the file: a rewrite of
the worker, the switch, the deletion or the start, for which `status` is the durable
mark; or a disconnect, which has only its row of the journal. `unfinished` are the
rows of disconnects that nobody works on: one may be retried with its confirmation
while its account is connected, the others are there for good. Which of the
provider mail is the disconnected account's is left open. An operation and a start compact in two steps,
`vacuuming` and `marking`, and anything may fail or crash between them. A tombstone
or a replacement of a sync is not marked for compaction (`secure_delete` alone
covers it) and is not residue. The owner lets one caller of the sanitizer in at a
time, so that no call joins another's compaction. The effect of a deletion phase and
its save are one step here, because `LocalLifecycle` has them apart; the end of the
application is a crash.

## The runs

Passing runs, with the distinct states TLC finds:

| run | instance | states | what it shows |
|---|---|---|---|
| `lifecycle` | one account, one sample account, one disconnect id and one deletion id, with late writes | 825 000 | the safety properties of the two services, that they implement `LifecycleContract`, and that a deletion that has begun completes |
| `owner` | two accounts; a retry, an activation, two disconnects, a deletion, a shutdown | 228 000 | separation of sync, retention and erasure |
| `owner_liveness` | one account; a retry, a disconnect, two deletions, a shutdown | 55 000 | every call returns, maintenance goes on |
| `coordinator` | three accounts, two slots; a suspension, a shutdown, a superseding and a waiting cancellation, and cancellations at any time | 41 000 | slots, queue, suspension, and that the calls return |
| `mail_sync` | three messages, two of them one conversation; three events | 378 000 | what is stored, against what Gmail has; runs settle and catch up |
| `sync_status` | one account, one page, one crash, seven ticks, four failures | 424 000 | the row of an account, and the wait that quota failures lead to |
| `connection` | a connected account and a new one, two sessions, two callbacks, one event from outside | 492 000 | what the commands, the listener and the stores are left with |
| `access` | two scopes: two refreshes of one account that is disconnected, renewed and ends with a quit; two accounts that share pacer and worker and meet a deletion | 248 000 | tokens, keys, pacing and requests, through every abort |
| `storage` | two sample accounts, three messages, two topics, two brief items; three provider messages; three faults | 70 000 | what retention, the switch, a disconnect, the deletion and the start leave in the file |

* `JournalNeverAhead`: once a phase has been left, what it removes is gone for the
  promised accounts and stays gone, except for what the three late writes put back.
  For a deletion these are the accounts
  completely connected when its row was inserted (`scope`); one that connects later
  is the finding below.
* `KeyErasedLastAndForGood`: ciphertext never outlives its key, and a completed
  deletion is final. `PendingDeletionKeepsReceipt`: retry remains authorized.
* `ImplementsContract`: pending work never overlaps, and what has begun ends with
  its promise, as one refinement without phases (the late writes set apart).
* `DeletionEventuallyCompletes`: under `RestartFairness`, below.
* `NoWorkWhileErasing`, `IdleMeansResumed`: what the queue is for, erasures and
  the destruction of keys included, but for what follows a deletion that failed
  with its keys gone. `owner` has one deletion command (see *Divergences without a
  run* for both). `EveryCallReturns`, `RetentionGoesOn`: the queue
  never stops and suspension is always undone, with two.
* `AtMostLimit`, `SuspendedMeansQuiet`, `CallsReturn`: what the gate and the
  switches of the coordinator are for, through aborts at every point of a run. Its
  `TypeOK` says of the queue that it holds exactly the runs that wait.
* `CaughtUpIsFaithful`: when the stored cursor stands for the whole history,
  every stored message is as Gmail has it and none of the window is missing,
  whatever changed between the requests of this run and of abandoned ones.
* `ThreadsAreBacked`: no thread lists a message that is missing or foreign; the
  `TypeOK` of `MailSync` says that what the coordinator commits is a valid batch.
* `CheckpointOnlyAdvances`, `OnlyDeadMailDisappears`: a commit or an eviction
  neither moves the cursor back nor loses mail that Gmail still has in the window.
* `RunsSettleAndCatchUp`: the loop ends, and over a quiet mailbox a run
  ends at the newest history id. A run that resumes an abandoned listing is left
  out: it ends with the history id of that listing, and the next one goes on.
* `RowsAreTrue`: a row says `syncing` only while a run goes on, and its cursor is
  that of the stored mail, whichever of its writers came last.
* `CooldownSurvives`, `RetryHonoursCooldown`: the streak of quota failures ends
  with a complete sync only, its wait is not begun again by asking again, and no
  ordinary retry is dispatched within it. `AttemptEnds`: an attempt never stays
  behind its own timeout.
* `NothingIsLeftOpen`, `FlowsEnd`: no order of begins, callbacks, cancellations and
  expiries refuses the next authorization, leaks a server or forgets a waiter; a
  response that is refused unread (below) is set apart.
* `OneSidedIsExplained`, `WholeAccountsStayWhole`: an account has both halves or
  none, or something that failed explains it; a recovery takes nothing from a
  whole one.
* `TokenMatchesCredential`, `RefreshesAreShared`: no token outlives its credential
  in the cache; one refresh of an account is under way that may still cache.
* `KeyOutlivesWork`: no accepted operation is given a key of zeros.
* `RequestsHaveRun`, `AdmissionsAreSpaced`, `RunsEnd`: what waits for the pacer
  belongs to a run that reads, two admissions keep the distance that the first one
  is charged, and no run waits for ever.
* `SampleMailIsGone`, `ResidueIsOwed`: the switch to live mail is not undone by a
  retention run that had read before it; bytes a rewrite leaves in the file are
  remembered by the status until a compaction that began after them, and those of a
  disconnect by its unfinished row.
* `RestsAreLargest`: what retention and the removal of an account leave is the
  largest valid part, against a definition that does not say how to compute it.
* `ExpiredMailLeaves`: whatever fails between eviction, rewrite and compaction, mail
  behind the window leaves the stores and the file (what a disconnect has left there
  is set apart).

### What the documentation says and the code does not do

| run | statement | what happens |
|---|---|---|
| `deletion_credential` | `docs/PRIVACY.md:213` | a connection completing during a deletion leaves a refresh credential behind |
| `sync_tombstone` | `docs/GMAIL.md:281` | a thread record that lists only the newest batch of its messages loses the last of them to a deletion; every later commit of the account is refused |
| `sync_offset` | `docs/DECISIONS.md:873` | a change that is added to a history page between two batches of it is skipped for good |

Each is a run of its own whose counterexample TLC prints.

### Divergences without a run

These are in the models too. The passing properties set them apart, where the
comment of the property says so.

* A refused second deletion command resumes sync and retention under the running
  deletion (`localDataDeletionCommand.ts:165`), though `resume()` is to come "only
  after an attempted deletion failed" (`providerMailLifecycleOwner.ts:290`). With two
  deletion commands `NoWorkWhileErasing` fails.
* A retry queued behind a disconnect (`providerMailLifecycleOwner.ts:373`) leaves a
  sync row of the removed account, against `docs/PRIVACY.md:156-157`; a
  reauthorization of it that Google answers late restores its credential
  (`accountReauthorization.ts:137`), and so does the re-protection of a credential
  that was read before (`sqliteSecretVault.ts:77`). With both, the next batch fetches
  its mail again. A deletion is open to the two writes of the vault as well, and one
  that is retried behind its account-state phase leaves a row that a batch wrote
  between its attempts, without a key.
* A deletion that fails in its last phase has destroyed the keys it could
  (`deleteLocalData.ts:59-77`, or the save at line 261 fails). Its command resumes
  sync and retention all the same (`localDataDeletionCommand.ts:165`), which then
  work without keys until the next attempt.
* A response whose path fits the listener's limit, and whose whole URL is longer than
  the adapter's (`googleOAuthLoopbackRedirectServer.ts:277`, `accountAuthorization.ts:75`),
  is refused by `complete` before it looks at the session
  (`googleDesktopAccountAuthorizationAdapter.ts:367`), and the activation passes the
  error on without cancelling (`accountConnectionActivation.ts:131-133`). The adapter
  keeps the session and refuses every later begin until the process ends.
* A disconnect deletes the mail of its account without the status
  "sanitization-pending" (`encryptedSqliteMailSyncProjection.ts:437-447`). When its
  compaction fails or is cut off, the status says "ready", and no start or retention
  run has a reason to compact; since the disconnect cannot be retried any more (next
  item), its bytes stay until something else compacts. Its row also makes the journal
  refuse every deletion.
* A disconnect that failed behind the credential phase cannot be retried: the
  command refuses an account that is not fully connected
  (`googleAccountDisconnectCommand.ts:131`), against `docs/PRIVACY.md:162-164`.
* A page commit writes status `idle` in the middle of a run
  (`encryptedSqliteMailSyncProjection.ts:412-420`). After a crash behind it the
  bootstrap repairs nothing (`providerMailSyncStatus.ts:74`) and the command offers no
  retry, against `docs/DECISIONS.md:1195-1196`.
* A new caller joins a refresh that its last waiter has aborted, and fails
  (`googleOAuthAccessTokenSource.ts:300`), against `docs/DECISIONS.md:926`.
* The re-protection of a credential is written over whatever the vault holds by
  then, an older credential over a renewed one too (`overwritten` in `MailAccess`).
* The end of one disconnect resumes the coordinator while the next queued one
  erases; the queue still keeps the syncs it knows of out. An account whose
  disconnect failed in its first phases goes on synchronizing. Retention removes a
  thread record that lists only expired messages while a newer message of it is
  stored. And a run that is aborted after `release()` has handed it a slot, but
  before it resumes, takes the slot with it (`LoseSlot`).

### Bounds

The lifecycle, the owner and the coordinator count nothing: these instances are
finite because ids are. Two ids are
what contention needs (one running or pending, one arriving): in `lifecycle`, a
disconnect and a deletion, beside the late writes, which take the room of a second
disconnect. What two disconnects of one account add is the overlap of their rows,
which is proved for every number of ids (`OverlapExcluded`), as are all the safety
properties of the run; two deletions, which only the theorems cover for the
journal, are two commands in `owner_liveness`;
one connecting account and one sample account are every kind of account, and
since `AccountOf` binds each disconnect to one account, operations on two
accounts meet only in the journal's overlap check and in `Sanitize`, which the
theorems cover for every number. In the owner, two accounts and one or two calls
of each entry point reach every pair of neighbours in the queue and three in a
row. In the coordinator, three accounts over two slots are the least in which one
waits while two hold.

In `MailSync` the numbers are: three messages, a page of one id (so that a listing
has up to three pages), history pages of two events out of three, batches of two
and three batches in a run, and a clock that moves once. Real sizes are 100 ids,
100 records and 50 batches; what matters is that a listing, a history and a run
can each end within, at or behind a page. In `mail_sync` a history page has no
more changes than a batch, so that no offset occurs: with one, `CaughtUpIsFaithful`
fails, which is what `sync_offset` shows. `RunsSettleAndCatchUp` excuses a run that
is abandoned, that meets the batch limit, or whose commit is refused
(`sync_tombstone`).

In `sync_status`, seven ticks are the three waits of a streak (1, 2 and 4) one
after the other, and one page and one crash each meet every other step; accounts
meet only in the queue. In `connection`, `MaxSessions` is 2, one begin of each
command or two of one, and
`MaxEvents` one expired token, disconnect, crash or over-long response among them; `MaxTries` 2 (the
code has more) is one rejected response and the last. In `access`, the pacer queues 2
(64 in the code), the projection takes 2 (as the code), a page has at most 2
parallel reads (4), a refresh may be joined again and followed by a second one, and one
renewal gives two credentials; `Scopes` splits the instance in the two whose
variables meet, tokens against everything that makes them stale, and two accounts
against each other. In `storage`, the clock passes the window for the first two
provider messages and the sample messages of time 0 and 1, and
three faults are one in each of eviction, rewrite and compaction, or of a disconnect
and its retry.

### Fairness

`RestartFairness` (deletion liveness): boot and quit are weakly fair, because
the command's error asks the user to restart and the application only stops
when it is closed; the effects and saves of a deletion, and the final step of
the command, are strongly fair, because a call that is retried for ever is
assumed not to fail for ever. `Fairness` (owner): a sync settles, because every
provider call has a timeout; a retention run ends, because its worker answers or
exits; a timer that is set fires; the continuation of a settled promise runs. No
fairness is assumed about calls: nobody has to press a button. `FairSpec` of the
coordinator is the same: continuations run and a run ends, which is
`RunsSettleAndCatchUp` of `MailSync`. There, `FairSpec` lets a run go on while it can
(a request ends within its timeout, a transaction within its worker); no sync has to
be started, and a run may be abandoned at any time.

In `ProviderMailSyncStatus` the continuations of the retry command, of a run and of a
disconnect run; the user need not answer a confirmation. In `AccountConnection` a
flow goes on, a session gets old, and the timer of an old one fires; no callback
has to come. In `MailAccess` the worker settles or exits, time passes and the timer
fires, and for each account one deadline (of its refresh or of a read) passes; an
answer of Google is never promised. In `StorageMaintenance` worker, operation and
start go on, weakly; the start of a retention run is strongly fair, because its
timer is armed again after every run and every resumption, and operations come
between. `MaxFaults` stands for: faults end.

## The proofs

Assumed: the named assumptions on the constants, which TLC also evaluates in the
runs, and nothing else but where a bullet says so. Sets are of any size. Every
invariant and action property that a passing run checks is stated by a theorem.

* `LocalLifecycle_proofs`, in three parts. *The journal*: `JournalInv` is `TypeOK`
  with the facts that make the journal properties inductive: an absent row has no
  run and no error, a run stands at a phase of its type, a pending deletion has its
  receipt and is the latest deletion, and so on. Every step is one of six things a
  step can do to the journal, and each of the six keeps it (`JournalCorrect`).
  `PendingWorkExcludesOverlap` and `ErrorBelongsToPhase` are proved and no run
  checks them. *The stores*: what is erased stays erased because accounts are
  never reborn, and because every write that does not ask whether its account is
  still there marks what it puts back. `AccountsAreBorn` bounds every store by the ids drawn so far and
  `connecting`; `DisconnectInv` and `DeletionInv` add where a running operation
  stands within its phase (the effect done and not yet saved, the first of two
  effects done); `ModeIsConsistent` and `KeyInv` relate process mode, latest
  deletion and key. `JournalIsNeverAhead` is the conjunction of the two halves.
  *The contract*: with these, initial states map to initial states and every step
  to a step or a stutter of `LifecycleContract`.
* `ProviderMailLifecycleOwner_proofs`: the invariant says who is at work. Only the
  head of the queue works (`QueueInv`); a sync is active only for it (`SyncInv`);
  retention is quiet behind a call that has suspended it (`RetentionInv`); all is
  quiet while the owner is not running (`QuietInv`), where only a shutdown works and
  a deletion is behind the gate (`GateInv`), and it does not run again once a
  deletion is completed; what is suspended in a running owner, a
  call in the queue will resume (`ResumeInv`). `NoWorkWhileErasing` and
  `IdleMeansResumed` do *not* hold for every number of deletion commands: two share
  the owner's one gate, and one that is refused reopens it under the other. The
  theorems therefore hold in the behaviours in which no deletion does
  (`[][ReopensAlone]_vars`), which is the exact place; and `OneDeletionIsSafe` shows
  that these are all behaviours when there is at most one deletion command. That is
  the instance `owner`; the other case is a hazard that the list names. The type
  theorem has no such condition.
* `MailSyncCoordinator_proofs`: `SlotInv` says that the counter of the gate is
  between the number of runs that hold a slot and the limit. It is not equal to
  that number, because of the slot that can be lost; that is why the bound holds
  and no property says that every waiting run gets a slot. The queue says who waits,
  each once (`QueueInv`), for which the lemmas on queues say what is left when
  somebody joins, is served, or is aborted in the middle (`Without` is a closed form,
  so that no induction is needed). A suspension is quiet because all that was active
  is on its list and nothing begins after it (`QuietInv`). Assumed: finitely many
  accounts, a limit of 1 to 8 as in the constructor.
* `MailSync_proofs`: `ThreadsAreBacked` is inductive together with the type of
  the thread records (`Backed`) and needs nothing of the adapter or the mailbox:
  the commit repairs every thread it merges, and an eviction takes the same
  messages from both. The other theorems do need them. A run works on the stored
  checkpoint and a resync begins anew behind it (`RunInv`); what a batch continues
  with is ahead of the checkpoint (`NextInv`); no message is in two places of a
  batch, and a deleted one is dead (`BatchInv`, `LogInv`); a resync gathers every
  stored message that lives (`KeepInv`). From these, `CheckpointOnlyAdvances`,
  `OnlyDeadMailDisappears`, and that every step of a sync is one of the projection
  on its own (`SyncImplementsProjection`: the batches are valid).
  `CaughtUpIsFaithful` needs `FaithInv`: records are truthful about every message
  that the rest of the history does not mention, whatever changes between two
  requests. It assumes `HistoryPage <= BatchSize`, without which it is false
  (`sync_offset`); the adapter asks for as many records as a batch takes
  (googleMailReadAdapter.ts:228), which is enough while a record is about one
  message.
* `ProviderMailSyncStatus_proofs`: rows are true because an account id is connected
  once: nothing is stored or queued of an account before its connection is complete
  (`FreshInv`). An account without a row has no mail, since its first run begins there
  (`CursorInv`). Rows that say "syncing" have their run (`StatusInv`). The two action
  properties follow from the types: what each writer makes of a row is a lemma.
  `NoRow` is assumed not to be a row.
* `AccountConnection_proofs`: both commands take a new session without looking at the
  old one. No two activations share a session (`FlowInv`), and the adapter's belongs
  to one that will end (`SessionInv`) and releases its own only, unless its completion was refused unread (`stuck`);
  every open server
  can be reached but those of an overwritten session (`ListenInv`).
  `OneSidedIsExplained` is inductive with these.
* `StorageMaintenance_proofs`: `RetainedIsLargest` and `WithoutAccountIsLargest`
  compare the two functions with their reference definitions for every data set;
  each shows that the result is valid and that whatever else is valid is a part
  of it. The invariant is `TypeOK` with: the records are a valid data set; a retention
  run and an operation that erases or activates exclude each other (`Exclusion`);
  what the run is about to write was computed from what is stored (`PlanIsFresh`),
  without which sample mail could come back; who sets the status, or completes a
  disconnect, has compacted, and what a disconnect finds in the file is of one that
  is there for good (`CompactedWhenMarking`), without which residue could be
  forgotten; and where the
  older formats still are (`OldFormats`).
* `MailAccess_proofs`: a refresh that has not been aborted has read the credential
  that is stored (`UnabortedReadsWhatIsStored`), because whatever changes the
  credential aborts it or marks the account; what a disconnect has invalidated is
  still so when it erases the credential (`DisconnectHasInvalidated`), because no run
  may ask while the gate is closed (`GateIsClosed`) and a late refresh is not in the
  map any more; a key goes only when nothing is accepted (`KeyInv`). Of the pacer:
  a request waits at most once and is not admitted while it waits, and the time to
  wait covers what is left of the last charge (`Sound`); with one page per account
  (`Page`) and one operation of the worker per run (`JobInv`), no request outlives its
  run and admissions stay apart. An abort drains after each request that it
  withdraws, so what it leaves is defined by recursion over the queue; the invariant
  is carried through by an induction over the places, as a statement about the set
  of places up to which it holds (`UpTo`, from the well-foundedness of `<`; the
  library's induction theorems cannot be used here).

Every strengthening was first checked with TLC as an invariant of the same
instances. Only model-checked: liveness, which needs `ENABLED`; the violations; and
what the instances of the runs add to the modules.


## Not modelled

* IPC, preload and renderer: shapes, validation and presentation. Of the validation,
  `isMailDataset` is in `SampleMail`, because a data set that it refuses stops
  retention.
* Ciphers and OS protection: a protector returns the value, asks for a new
  protection, or fails.
* HTTP, OAuth and MIME: an answer is one of the outcomes the caller tells apart.
  URLs, PKCE, normalization and response formats are left out.
* The construction of services at the start, the audit row of a disconnect, the limit
  on open challenges, counts and stage reports, the read models.
* Windows, menus, wiring and the build scripts.

`PROJECT.json` says of each component what is left out of it.

## Plan

1. Journal, services, lifecycle, contract, with proofs. *Done.*
2. The owner, the coordinator, `MailSync` with projection and mailbox. *Done.*
3. Sync status and retry, connections, tokens, pacer, workers, sample mail and the
   file. *Done.*
4. Proofs of every safety property that a run checks. *Done.*
5. Next, proofs of what no property of a run says yet: that the coordinator's counter
   is off by no more than the slots that were lost; that a resumed operation of the
   lifecycle repeats no phase that was saved.
6. Compositions: the coordinator within the owner; the owner's reopened gate with the
   lifecycle; the normalization of a message and its refusals in `MailSync`.
