------------------------------- MODULE MailSync -------------------------------
(***************************************************************************)
(* MailSync: the synchronization of one account.  The run loop of          *)
(* MailSyncCoordinator asks GoogleMailReadAdapter for batches and commits  *)
(* them to the projection, while the mailbox goes on changing between any  *)
(* two requests; the clock moves, and retention evicts expired mail when   *)
(* no run is in flight (ProviderMailLifecycleOwner suspends it for a run). *)
(*                                                                         *)
(* One HTTP request is one step.  A run that is cancelled, loses its       *)
(* process or meets a failing request or transaction is abandoned.         *)
(***************************************************************************)
EXTENDS GmailMailbox, MailProjection

CONSTANTS
    BatchSize,     \* SYNC_BATCH_SIZE
    MaxBatches,    \* MAX_BATCHES_PER_SYNC
    MaxCutoff      \* bound on the clock

ASSUME SyncAssumption ==
    /\ BatchSize \in Nat \ {0} /\ MaxBatches \in Nat \ {0} /\ MaxCutoff \in Nat
    /\ ListPage <= BatchSize
    /\ Messages = Mail
    /\ Contents = {"unread", "read"}
    /\ Cursors = [mode : {"full", "history"}, historyId : 0..MaxEvents,
                  page : 0..(NumMessages + MaxEvents), offset : 0..MaxEvents,
                  after : 0..MaxCutoff]
    /\ NoCursor = [mode |-> "none", historyId |-> 0, page |-> 0, offset |-> 0, after |-> 0]

VARIABLES
    cutoff,     \* the newest message outside the 90 days before now
    run,        \* the run in flight: its phase and the variables of runWithSlot
    fetch,      \* the request in flight and the batch it builds
    window,     \* resyncMessages and resyncThreads
    outcome     \* how the last run settled

vars == <<mailboxVars, projectionVars, cutoff, run, fetch, window, outcome>>

FullCursor(after, token, historyId) ==
    [NoCursor EXCEPT !.mode = "full", !.after = after, !.page = token, !.historyId = historyId]

HistoryCursor(historyId, token, offset) ==
    [NoCursor EXCEPT !.mode = "history", !.historyId = historyId, !.page = token,
                     !.offset = offset]

Idle == [phase |-> "idle", mode |-> "initial", cursor |-> NoCursor, expected |-> NoCursor,
         after |-> 0, now |-> 0, fetched |-> 0]

NoFetch == [historyId |-> 0, pending |-> {}, loaded |-> NoRecords, deleted |-> {},
            next |-> NoCursor, complete |-> FALSE]

NoWindow == [messages |-> NoRecords, threads |-> NoThreads]

Init ==
    /\ MailboxInit
    /\ ProjectionInit
    /\ cutoff = 0
    /\ run = Idle
    /\ fetch = NoFetch
    /\ window = NoWindow
    /\ outcome = "none"

\* The run settles; what it kept in memory is gone.
Settle(result) ==
    /\ run' = Idle
    /\ fetch' = NoFetch
    /\ window' = NoWindow
    /\ outcome' = result

-------------------------------------------------------------------------------
(* The coordinator takes a checkpoint and asks for a batch *)

StartSync ==
    /\ run.phase = "idle"
    /\ run' = [Idle EXCEPT !.phase = "request",
                           !.mode = IF checkpoint = NoCursor THEN "initial" ELSE "incremental",
                           !.cursor = checkpoint, !.expected = checkpoint,
                           !.after = IF checkpoint = NoCursor THEN cutoff ELSE 0,
                           !.now = cutoff]
    /\ outcome' = "running"
    /\ UNCHANGED <<mailboxVars, projectionVars, cutoff, fetch, window>>

Requesting == run.phase = "request" /\ run.fetched < MaxBatches

ReachBatchLimit ==
    /\ run.phase = "request"
    /\ run.fetched >= MaxBatches
    /\ Settle("limit")
    /\ UNCHANGED <<mailboxVars, projectionVars, cutoff>>

\* fetchFull without a cursor: the history id is read before the first page, so
\* that what changes during the listing is in the history that follows.
ReadProfile ==
    /\ Requesting
    /\ run.cursor = NoCursor
    /\ fetch' = [NoFetch EXCEPT !.historyId = HistoryId]
    /\ run' = [run EXCEPT !.phase = "list"]
    /\ UNCHANGED <<mailboxVars, projectionVars, cutoff, window, outcome>>

\* Mutant: the history id is read with the last page instead of before the first.
ListMessagesThenProfile ==
    /\ \/ run.phase = "list"
       \/ Requesting /\ run.cursor.mode = "full"
    /\ LET after == IF run.cursor = NoCursor THEN run.after ELSE run.cursor.after
           nextToken == ListToken(after, run.cursor.page)
       IN  fetch' = [NoFetch EXCEPT
                !.pending = ListedPage(after, run.cursor.page),
                !.next = IF nextToken = 0 THEN HistoryCursor(HistoryId, 0, 0)
                         ELSE FullCursor(after, nextToken, HistoryId),
                !.complete = nextToken = 0]
    /\ run' = [run EXCEPT !.phase = "load"]
    /\ UNCHANGED <<mailboxVars, projectionVars, cutoff, window, outcome>>

\* fetchFull lists a page.
ListMessages ==
    /\ \/ run.phase = "list"
       \/ Requesting /\ run.cursor.mode = "full"
    /\ LET first == run.cursor = NoCursor
           after == IF first THEN run.after ELSE run.cursor.after
           historyId == IF first THEN fetch.historyId ELSE run.cursor.historyId
           token == run.cursor.page
           nextToken == ListToken(after, token)
       IN  fetch' = [NoFetch EXCEPT
                !.pending = ListedPage(after, token),
                !.next = IF nextToken = 0 THEN HistoryCursor(historyId, 0, 0)
                         ELSE FullCursor(after, nextToken, historyId),
                !.complete = nextToken = 0]
    /\ run' = [run EXCEPT !.phase = "load"]
    /\ UNCHANGED <<mailboxVars, projectionVars, cutoff, window, outcome>>

\* The ids of a history page are a map, in the order of their first event: a later
\* event of an id changes its state and leaves its place.
ChangedIds(events) == {events[i].id : i \in DOMAIN events}

EventsOf(events, id) == {i \in DOMAIN events : events[i].id = id}

Place(events, id) ==
    Cardinality({other \in ChangedIds(events) :
        Min(EventsOf(events, other)) < Min(EventsOf(events, id))})

StateOf(events, id) == events[Max(EventsOf(events, id))].state

\* Mutant: the completed history starts again at the id it started from.
SameHistoryCursor(cursor, hasMoreInPage, nextOffset, nextToken) ==
    IF hasMoreInPage THEN HistoryCursor(cursor.historyId, cursor.page, nextOffset)
    ELSE HistoryCursor(cursor.historyId, nextToken, 0)

\* The rest of the page, the next page, or the history from now on.
NextHistoryCursor(cursor, hasMoreInPage, nextOffset, nextToken) ==
    IF hasMoreInPage THEN HistoryCursor(cursor.historyId, cursor.page, nextOffset)
    ELSE IF nextToken # 0 THEN HistoryCursor(cursor.historyId, nextToken, 0)
    ELSE HistoryCursor(HistoryId, 0, 0)

\* fetchHistory reads a page and selects the changes from the offset on.
ListHistory ==
    /\ Requesting
    /\ run.cursor.mode = "history"
    /\ run.cursor.historyId >= forgotten
    /\ LET cursor == run.cursor
           events == HistoryEvents(cursor.historyId, cursor.page)
           changes == ChangedIds(events)
           nextToken == HistoryToken(cursor.historyId, cursor.page)
           nextOffset == Min({cursor.offset + BatchSize, Cardinality(changes)})
           selected == {id \in changes : Place(events, id) \in cursor.offset..(nextOffset - 1)}
           hasMoreInPage == nextOffset < Cardinality(changes)
       IN  /\ cursor.offset <= Cardinality(changes)
           /\ fetch' = [NoFetch EXCEPT
                !.pending = {id \in selected : StateOf(events, id) = "load"},
                !.deleted = {id \in selected : StateOf(events, id) = "delete"},
                !.next = NextHistoryCursor(cursor, hasMoreInPage, nextOffset, nextToken),
                !.complete = ~hasMoreInPage /\ nextToken = 0]
    /\ run' = [run EXCEPT !.phase = "load"]
    /\ UNCHANGED <<mailboxVars, projectionVars, cutoff, window, outcome>>

\* INVALID_CURSOR, once: the run starts over with the 90-day window.
RecoverCursor ==
    /\ Requesting
    /\ run.cursor.mode = "history"
    /\ run.cursor.historyId < forgotten
    /\ run.mode # "bounded-resync"
    /\ run' = [run EXCEPT !.cursor = NoCursor, !.after = run.now, !.mode = "bounded-resync"]
    /\ UNCHANGED <<mailboxVars, projectionVars, cutoff, fetch, window, outcome>>

\* Mutant: a message that is missing by now is taken as loaded.
LoadMessageThatIsListed(m) ==
    /\ run.phase = "load"
    /\ m \in fetch.pending
    /\ fetch' = [fetch EXCEPT !.pending = @ \ {m}, !.loaded[m] = mail[m]]
    /\ UNCHANGED <<mailboxVars, projectionVars, cutoff, run, window, outcome>>

\* readMessageAllowMissing: what is gone by now becomes a deletion.
LoadMessage(m) ==
    /\ run.phase = "load"
    /\ m \in fetch.pending
    /\ fetch' = IF m \in Present
                THEN [fetch EXCEPT !.pending = @ \ {m}, !.loaded[m] = mail[m]]
                ELSE [fetch EXCEPT !.pending = @ \ {m}, !.deleted = @ \cup {m}]
    /\ UNCHANGED <<mailboxVars, projectionVars, cutoff, run, window, outcome>>

-------------------------------------------------------------------------------
(* The coordinator gathers or commits the batch *)

Delivered == run.phase = "load" /\ fetch.pending = {}

\* batch: its threads list the messages it has loaded, and no other.
LoadedThreads == [t \in Threads |-> {m \in Stored(fetch.loaded) : ThreadOf[m] = t}]

\* What the window holds with this page: later pages win, threads are united.
Gathered ==
    [messages |-> [m \in Messages |->
        IF fetch.loaded[m] # Absent THEN fetch.loaded[m]
        ELSE IF m \in fetch.deleted THEN Absent
        ELSE window.messages[m]],
     threads |-> [t \in Threads |-> window.threads[t] \cup LoadedThreads[t]]]

GatherBatch ==
    /\ Delivered
    /\ run.mode = "bounded-resync"
    /\ ~fetch.complete
    /\ window' = Gathered
    /\ run' = [run EXCEPT !.phase = "request", !.cursor = fetch.next, !.fetched = @ + 1]
    /\ fetch' = NoFetch
    /\ UNCHANGED <<mailboxVars, projectionVars, cutoff, outcome>>

\* The batch that is committed: the gathered window, its threads reduced to the
\* messages that are present, or the batch of the provider as it came.
Batch ==
    IF run.mode = "bounded-resync"
    THEN [expected |-> run.expected, next |-> fetch.next, resync |-> TRUE,
          messages |-> Gathered.messages,
          threads |-> [t \in Threads |-> Gathered.threads[t] \cap Stored(Gathered.messages)],
          deleted |-> {}]
    ELSE [expected |-> run.expected, next |-> fetch.next, resync |-> FALSE,
          messages |-> fetch.loaded, threads |-> LoadedThreads, deleted |-> fetch.deleted]

\* Mutant: a page of a resync is committed before the window is complete.
CommittingPages == Delivered

Committing == Delivered /\ (run.mode = "bounded-resync" => fetch.complete)

CommitBatch ==
    /\ Committing
    /\ ApplyBatch(Batch)
    /\ IF fetch.complete
       THEN Settle("synced")
       ELSE /\ run' = [run EXCEPT !.phase = "request", !.cursor = fetch.next,
                                  !.expected = fetch.next, !.fetched = @ + 1]
            /\ fetch' = NoFetch
            /\ UNCHANGED <<window, outcome>>
    /\ UNCHANGED <<mailboxVars, cutoff>>

\* The error of a refused commit rejects the run.
RejectBatch ==
    /\ Committing
    /\ RefuseBatch(Batch)
    /\ Settle("refused")
    /\ UNCHANGED <<mailboxVars, cutoff>>

Abandon ==
    /\ run.phase # "idle"
    /\ Settle("abandoned")
    /\ UNCHANGED <<mailboxVars, projectionVars, cutoff>>

-------------------------------------------------------------------------------
(* The environment, and retention *)

MailboxChanges ==
    /\ MailboxNext
    /\ UNCHANGED <<projectionVars, cutoff, run, fetch, window, outcome>>

ClockMoves ==
    /\ cutoff < MaxCutoff
    /\ cutoff' = cutoff + 1
    /\ UNCHANGED <<mailboxVars, projectionVars, run, fetch, window, outcome>>

Retain ==
    /\ run.phase = "idle"
    /\ ApplyRetention(cutoff)
    /\ UNCHANGED <<mailboxVars, cutoff, run, fetch, window, outcome>>

RunStep ==
    \/ ReachBatchLimit
    \/ ReadProfile
    \/ ListMessages
    \/ ListHistory
    \/ RecoverCursor
    \/ \E m \in Mail : LoadMessage(m)
    \/ GatherBatch
    \/ CommitBatch
    \/ RejectBatch

Next ==
    \/ StartSync
    \/ RunStep
    \/ Abandon
    \/ MailboxChanges
    \/ ClockMoves
    \/ Retain

Spec == Init /\ [][Next]_vars

\* A run is a chain of awaits: a request ends within its timeout, a transaction
\* within its worker, and the continuation of either is scheduled.  Nothing
\* else has to happen: a sync is started by a command.
FairSpec == Spec /\ WF_vars(RunStep)

-------------------------------------------------------------------------------
(* Properties *)

\* Every variable has its type, and what is committed is a batch that the
\* projection accepts as valid, also when a window was gathered from pages
\* between which messages came and went.
TypeOK ==
    /\ MailboxTypeOK
    /\ ProjectionTypeOK
    /\ cutoff \in 0..MaxCutoff
    /\ run \in [phase : {"idle", "request", "list", "load"},
                mode : {"initial", "incremental", "bounded-resync"},
                cursor : Cursors \cup {NoCursor}, expected : Cursors \cup {NoCursor},
                after : 0..MaxCutoff, now : 0..MaxCutoff, fetched : 0..MaxBatches]
    /\ fetch \in [historyId : 0..MaxEvents, pending : SUBSET Mail, loaded : Records,
                  deleted : SUBSET Mail, next : Cursors \cup {NoCursor}, complete : BOOLEAN]
    /\ window \in [messages : Records, threads : [Threads -> SUBSET Messages]]
    /\ outcome \in {"none", "running", "synced", "limit", "refused", "abandoned"}
    /\ Committing => Batch \in Batches

\* The stored cursor stands for the whole history of the mailbox.
CaughtUp == checkpoint = HistoryCursor(HistoryId, 0, 0)

\* A cursor that has caught up tells the truth: no stored message is deleted or
\* out of date in Gmail, and none of the 90 days is missing, however the mailbox
\* changed between the requests of this run and of earlier, abandoned ones.
CaughtUpIsFaithful ==
    CaughtUp =>
        /\ \A m \in Stored(messages) : messages[m] = mail[m]
        /\ \A m \in Present : m > cutoff => messages[m] = mail[m]

\* The order of cursors: a listing goes towards older pages, then the history
\* id grows, and within one id the page and the offset.
Advances(old, new) ==
    \/ old = NoCursor
    \/ old.mode = "full" /\ new.mode = "full"
       /\ new.historyId = old.historyId /\ new.page < old.page
    \/ old.mode = "full" /\ new.mode = "history" /\ new.historyId >= old.historyId
    \/ old.mode = "history" /\ new.mode = "history"
       /\ \/ new.historyId > old.historyId
          \/ new.historyId = old.historyId /\ new.page > old.page
          \/ new.historyId = old.historyId /\ new.page = old.page /\ new.offset > old.offset

\* The stored cursor never goes back: no run, resync or abandoned run makes an
\* account read again what a commit has already covered.
CheckpointOnlyAdvances ==
    [][checkpoint' # checkpoint => Advances(checkpoint, checkpoint')]_vars

\* A commit never loses mail: a stored message disappears only when Gmail no
\* longer has it or when it is older than the window.
OnlyDeadMailDisappears ==
    [][\A m \in Stored(messages) :
        messages'[m] = Absent => m \notin Present \/ m <= cutoff]_vars

\* Every batch the adapter makes can be committed: a tombstone, a new message or
\* a relabelled one is applied and the cursor advances.
BatchesAreAccepted == outcome # "refused"

\* A run settles: it cannot recover its cursor, or be paged, for ever.
RunsSettle == (run.phase # "idle") ~> (run.phase = "idle")

\* Once the mailbox is quiet, a run that begins leaves the account caught up,
\* unless it is abandoned on the way, has more pages than batches or makes one
\* of the batches that are refused (BatchesAreAccepted).  A run that resumes an
\* abandoned listing is left out: it ends with the history id of that listing.
QuietRunsCatchUp ==
    (/\ HistoryId = MaxEvents
     /\ run.phase = "request" /\ run.fetched = 0 /\ run.cursor.mode # "full")
        ~> (CaughtUp \/ outcome \in {"abandoned", "refused", "limit"})

\* Every run settles, and none of them in vain.
RunsSettleAndCatchUp == RunsSettle /\ QuietRunsCatchUp
=============================================================================
