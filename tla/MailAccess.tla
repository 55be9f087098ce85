----------------------------- MODULE MailAccess -----------------------------
(***************************************************************************)
(* What a synchronization run uses: the worker that loads the checkpoint   *)
(* and commits, the access tokens, and the paced reads of Gmail; composed  *)
(* with the operations that must not meet it half way: disconnect,         *)
(* deletion of the keys, renewal and quit.                                 *)
(*                                                                         *)
(* A request is <<account, slot, part>>: slot 0 is the read that begins a  *)
(* page (profile, list or history); the others are the messages of a       *)
(* group, part 1 the message and part 2 a text body outside of it.         *)
(***************************************************************************)
EXTENDS AccessTokens, RequestPacer, MailWorkers

CONSTANTS
    Parallel,   \* MAX_PARALLEL_MESSAGE_READS
    Scopes      \* bound, of one behaviour each: the accounts that run, those that are
                \* disconnected or renewed, how many refreshes, messages of a page and
                \* ticks of idle time there are, and which call closes the owner

VARIABLES
    run,        \* the run of an account: "idle" or what it waits for
    joined,     \* the refresh it waits for
    asked,      \* requests that have been sent and not answered
    suspended,  \* the coordinator accepts no run
    operation,  \* the lifecycle operation of the owner
    scope       \* the scope of this behaviour

runVars == <<run, joined, asked>>
ownerVars == <<suspended, operation>>
vars == <<tokenVars, pacerVars, workerVars, runVars, ownerVars, scope>>

Slots == 0..Parallel
Requests == Accounts \X Slots \X {1, 2}

Of(a) == {r \in Requests : r[1] = a}

Load(a) == <<"load", a>>
Commit(a) == <<"commit", a>>
Erase(a) == <<"erase", a>>
Read == <<"read", NoAccount>>
AllJobs == ({"load", "commit", "erase"} \X Accounts) \cup {Read}

ASSUME AccessAssumption ==
    /\ Scopes \subseteq [runs : SUBSET Accounts, commanded : SUBSET Accounts,
                         refreshes : Refreshes, messages : 1..Parallel,
                         idle : Nat, ends : {"deletion", "quit"}]
    /\ Parallel \in Nat \ {0}
    /\ Jobs = AllJobs
    /\ \A r \in Requests : Units(r) \in Nat \ {0}

NoOperation == [kind |-> "none", account |-> NoAccount, step |-> "none"]

Init ==
    /\ TokensInit /\ PacerInit /\ WorkersInit
    /\ run = [a \in Accounts |-> "idle"]
    /\ joined = [a \in Accounts |-> None]
    /\ asked = {}
    /\ suspended = FALSE
    /\ operation = NoOperation
    /\ scope \in Scopes

-----------------------------------------------------------------------------
(* The worker: checkpoints, commits, and the reads of the renderer *)

\* A run begins: the checkpoint is loaded.  The owner keeps it apart from the
\* retention run.
StartRun(a) ==
    /\ ~suspended /\ ~retaining /\ run[a] = "idle"
    /\ Enqueue(Load(a))
    /\ run' = [run EXCEPT ![a] = "loading"]
    /\ UNCHANGED <<tokenVars, pacerVars, joined, asked, ownerVars>>

RendererReads ==
    /\ Enqueue(Read)
    /\ UNCHANGED <<tokenVars, pacerVars, runVars, ownerVars>>

\* The operation at the head of the queue ends: a run that has committed, whose
\* operation fails or that was aborted meanwhile is over, and so is a disconnect.
JobSettles ==
    LET job == Head(jobs)
    IN /\ Settle
       /\ run' = IF job[1] \in {"load", "commit"} THEN [run EXCEPT ![job[2]] = "idle"] ELSE run
       /\ operation' = IF job[1] = "erase" THEN NoOperation ELSE operation
       /\ suspended' = (suspended /\ job[1] # "erase")
       /\ UNCHANGED <<tokenVars, pacerVars, joined, asked>>

-----------------------------------------------------------------------------
(* The access token, for a run whose checkpoint is loaded *)

Loaded(a) == jobs # <<>> /\ Head(jobs) = Load(a) /\ ~suspended /\ Settle

\* The run of a asks for requests, of which the pacer may refuse one: the run
\* fails, and its others are withdrawn.
Asks(a, requests, others) ==
    LET p == AcquiredAll(requests)
        gone == IF p.refused THEN Of(a) ELSE {}
        q == Withdrawn(p, gone)
    IN /\ PacerBecomes(q)
       /\ asked' = (others \cup q.admitted) \ gone
       /\ run' = [run EXCEPT ![a] = IF p.refused THEN "idle" ELSE "reading"]

UseCachedToken(a) ==
    /\ Loaded(a)
    /\ CacheHit(a)
    /\ Asks(a, <<<<a, 0, 1>>>>, asked)
    /\ UNCHANGED <<joined, ownerVars>>

AwaitRefresh(a, r) ==
    /\ Loaded(a)
    /\ JoinRefresh(a, r) \/ BeginRefresh(a, r)
    /\ joined' = [joined EXCEPT ![a] = r]
    /\ run' = [run EXCEPT ![a] = "awaiting token"]
    /\ UNCHANGED <<pacerVars, asked, ownerVars>>

RefreshGoesOn(r) ==
    /\ Unprotected(r) \/ Reprotected(r)
    /\ UNCHANGED <<pacerVars, workerVars, runVars, ownerVars>>

\* A refresh settles, and the run that waits for it goes on or fails.
RefreshSettles(r) ==
    \E outcome \in {"error", "none", "token"} :
        LET a == refreshes[r].account
        IN /\ SettleRefresh(r, outcome)
           /\ IF joined[a] # r THEN UNCHANGED <<pacerVars, runVars>>
              ELSE /\ joined' = [joined EXCEPT ![a] = None]
                   /\ IF outcome = "token" THEN Asks(a, <<<<a, 0, 1>>>>, asked)
                      ELSE /\ run' = [run EXCEPT ![a] = "idle"]
                           /\ UNCHANGED <<pacerVars, asked>>
           /\ UNCHANGED <<workerVars, ownerVars>>

-----------------------------------------------------------------------------
(* Reads of Gmail *)

TimerFires ==
    /\ TimerDue
    /\ LET p == Drain([Pacer EXCEPT !.timer = FALSE])
       IN PacerBecomes(p) /\ asked' = asked \cup p.admitted
    /\ UNCHANGED <<tokenVars, workerVars, run, joined, ownerVars>>

Tick == wait > -scope.idle /\ Pass /\ UNCHANGED <<tokenVars, workerVars, runVars, ownerVars>>

Outstanding(a) == Of(a) \cap (asked \cup ToSet(waiting))

Group(a, n) == [k \in 1..n |-> <<a, k, 1>>]

\* The page is complete: it is committed, if the worker takes the operation.
Commits(a, r) ==
    /\ asked' = asked \ {r}
    /\ IF Accepts THEN Enqueue(Commit(a)) /\ run' = [run EXCEPT ![a] = "committing"]
                  ELSE UNCHANGED workerVars /\ run' = [run EXCEPT ![a] = "idle"]
    /\ UNCHANGED pacerVars

\* An answer to a read: the first one names the messages that are read together, a message
\* may have a text body to be read as well, and the last one completes the page.
Answered(r) ==
    LET a == r[1]
    IN /\ \/ /\ r[2] = 0
             /\ \E n \in 1..scope.messages : Asks(a, Group(a, n), asked \ {r})
             /\ UNCHANGED workerVars
          \/ /\ r[2] # 0 /\ r[3] = 1
             /\ Asks(a, <<<<a, r[2], 2>>>>, asked \ {r})
             /\ UNCHANGED workerVars
          \/ /\ Outstanding(a) # {r}
             /\ asked' = asked \ {r}
             /\ UNCHANGED <<pacerVars, workerVars, run>>
          \/ /\ Outstanding(a) = {r}
             /\ Commits(a, r)
       /\ UNCHANGED <<tokenVars, joined, ownerVars>>

\* Mutant: the abort of a read takes it from the queue and rejects nobody.
AbortRunsSilently(A) ==
    LET gone == {r \in Requests : r[1] \in A}
        p == Withdrawn(Pacer, gone)
    IN /\ AbortRefreshes({joined[a] : a \in A})
       /\ joined' = [a \in Accounts |-> IF a \in A THEN None ELSE joined[a]]
       /\ PacerBecomes(p)
       /\ asked' = (asked \cup p.admitted) \ gone
       /\ run' = [a \in Accounts |-> IF a \in A /\ run[a] = "awaiting token"
                                     THEN "idle" ELSE run[a]]

\* Runs are aborted: what waits for a token leaves the refresh, what reads
\* withdraws its requests; an operation of the worker is waited for.
AbortRuns(A) ==
    LET gone == {r \in Requests : r[1] \in A}
        p == Withdrawn(Pacer, gone)
    IN /\ AbortRefreshes({joined[a] : a \in A})
       /\ joined' = [a \in Accounts |-> IF a \in A THEN None ELSE joined[a]]
       /\ PacerBecomes(p)
       /\ asked' = (asked \cup p.admitted) \ gone
       /\ run' = [a \in Accounts |-> IF a \in A /\ run[a] \in {"awaiting token", "reading"}
                                     THEN "idle" ELSE run[a]]

\* A read that is under way fails or its deadline passes: the group is aborted and
\* the run fails.
RequestFails(r) ==
    /\ AbortRuns({r[1]})
    /\ UNCHANGED <<workerVars, ownerVars>>

\* The attempt is cancelled or its deadline passes.
CancelRun(a) ==
    /\ run[a] \in {"awaiting token", "reading"}
    /\ AbortRuns({a})
    /\ UNCHANGED <<workerVars, ownerVars>>

-----------------------------------------------------------------------------
(* The operations of the owner, one at a time *)

RetentionRuns ==
    /\ \/ StartRetention /\ ~suspended /\ \A a \in Accounts : run[a] = "idle"
       \/ EndRetention
    /\ UNCHANGED <<tokenVars, pacerVars, runVars, ownerVars>>

\* A renewed authorization arrives; nothing holds it back.
RenewCredential(a) == Renew(a) /\ UNCHANGED <<pacerVars, workerVars, runVars, ownerVars>>

\* The gate is closed and every run is aborted.
Begin(kind, a) ==
    /\ operation.step \in (IF kind = "quit" THEN {"none", "deleted"} ELSE {"none"})
    /\ operation' = [kind |-> kind, account |-> a, step |-> "draining"]
    /\ suspended' = TRUE
    /\ AbortRuns(Accounts)
    /\ UNCHANGED workerVars

BeginDisconnect(a) == Begin("disconnect", a)
BeginDeletion == Begin("deletion", NoAccount)
BeginQuit == Begin("quit", NoAccount)

Drained(kind) ==
    /\ operation.kind = kind /\ operation.step = "draining"
    /\ \A a \in Accounts : run[a] = "idle"
    /\ ~retaining

At(kind, step) == operation.kind = kind /\ operation.step = step
Reaches(step) == operation' = [operation EXCEPT !.step = step] /\ UNCHANGED suspended

\* The tokens of the account are invalid before its credential is revoked.
DisconnectInvalidates ==
    /\ Drained("disconnect")
    /\ InvalidateForDisconnect(operation.account)
    /\ Reaches("revoking")
    /\ UNCHANGED <<pacerVars, workerVars, runVars>>

DisconnectErasesCredential ==
    /\ At("disconnect", "revoking")
    /\ EraseCredential(operation.account)
    /\ Reaches("removing")
    /\ UNCHANGED <<pacerVars, workerVars, runVars>>

DisconnectErasesRecords ==
    /\ At("disconnect", "removing")
    /\ Enqueue(Erase(operation.account))
    /\ Reaches("removed")
    /\ UNCHANGED <<tokenVars, pacerVars, runVars>>

DeletionErasesCredentials ==
    /\ Drained("deletion")
    /\ EraseCredentials
    /\ Reaches("destroying")
    /\ UNCHANGED <<pacerVars, workerVars, runVars>>

\* The copies of the key are destroyed; if one is in use, the deletion fails.
DeletionDestroysKeys ==
    /\ At("deletion", "destroying")
    /\ DestroyKeys
    /\ IF Busy = {} THEN Reaches("deleted") ELSE operation' = NoOperation /\ suspended' = FALSE
    /\ UNCHANGED <<tokenVars, pacerVars, runVars>>

\* A step that fails reopens the gate.
OperationFails ==
    /\ \/ At("disconnect", "revoking") \/ At("disconnect", "removing")
       \/ At("deletion", "destroying") \/ Drained("deletion")
    /\ operation' = NoOperation
    /\ suspended' = FALSE
    /\ UNCHANGED <<tokenVars, pacerVars, workerVars, runVars>>

QuitDestroysTokens ==
    /\ Drained("quit")
    /\ DestroyTokens
    /\ Reaches("closing")
    /\ UNCHANGED <<pacerVars, workerVars, runVars>>

QuitClosesWorker ==
    /\ At("quit", "closing")
    /\ Close
    /\ Reaches("closed")
    /\ UNCHANGED <<tokenVars, pacerVars, runVars>>

QuitZeroesKey ==
    /\ At("quit", "closed")
    /\ ZeroProjectionKey
    /\ Reaches("stopped")
    /\ UNCHANGED <<tokenVars, pacerVars, runVars>>

-----------------------------------------------------------------------------

WorkerStep ==
    \/ JobSettles
    \/ \E a \in Accounts : UseCachedToken(a)
    \/ \E a \in Accounts, r \in 1..scope.refreshes : AwaitRefresh(a, r)

OwnerStep ==
    \/ DisconnectInvalidates \/ DisconnectErasesCredential \/ DisconnectErasesRecords
    \/ DeletionErasesCredentials \/ DeletionDestroysKeys \/ OperationFails
    \/ QuitDestroysTokens \/ QuitClosesWorker \/ QuitZeroesKey

Step ==
    \/ \E a \in scope.runs : StartRun(a) \/ CancelRun(a)
    \/ \E a \in scope.commanded : RenewCredential(a) \/ BeginDisconnect(a)
    \/ scope.ends = "deletion" /\ BeginDeletion
    \/ (scope.ends = "quit" \/ operation.step = "deleted") /\ BeginQuit
    \/ RendererReads \/ RetentionRuns
    \/ WorkerStep \/ TimerFires \/ Tick \/ OwnerStep
    \/ \E r \in Refreshes : RefreshGoesOn(r) \/ RefreshSettles(r)
    \/ \E r \in asked : Answered(r) \/ RequestFails(r)

Next == Step /\ UNCHANGED scope

Spec == Init /\ [][Next]_vars

\* What a run waits for outside of the queues ends: a refresh and a read have
\* their deadlines.
Deadline(a) ==
    \/ joined[a] # None /\ RefreshSettles(joined[a])
    \/ \E r \in asked : r[1] = a /\ RequestFails(r)

\* Workers settle or exit, deadlines pass and timers fire; an answer of Google
\* and a call of the user are not promised.
Fairness ==
    /\ WF_vars(WorkerStep /\ UNCHANGED scope)
    /\ WF_vars((TimerFires \/ Tick) /\ UNCHANGED scope)
    /\ \A a \in Accounts : WF_vars(Deadline(a) /\ UNCHANGED scope)

FairSpec == Spec /\ Fairness

-----------------------------------------------------------------------------
(* Properties *)

\* Every variable has its type; of the pacer there is nothing to say before
\* RequestsHaveRun.
TypeOK ==
    /\ TokensTypeOK /\ WorkersTypeOK
    /\ run \in [Accounts -> {"idle", "loading", "awaiting token", "reading", "committing"}]
    /\ joined \in [Accounts -> {None} \cup Refreshes]
    /\ suspended \in BOOLEAN /\ scope \in Scopes
    /\ operation \in [kind : {"none", "disconnect", "deletion", "quit"},
                      account : Accounts \cup {NoAccount},
                      step : {"none", "draining", "revoking", "removing", "removed",
                              "destroying", "deleted", "closing", "closed", "stopped"}]

\* An aborted run leaves nothing behind: every request that waits or is under way
\* belongs to a run that reads, so that none carries a token after the owner has
\* drained the runs and begins to erase.
RequestsHaveRun ==
    \A r \in asked \cup ToSet(waiting) : run[r[1]] = "reading"

\* Every run comes to an end, however full the queues are and whatever Google
\* leaves unanswered: a suspension waits for the runs without a deadline of its own.
RunsEnd == \A a \in Accounts : run[a] # "idle" ~> run[a] = "idle"
=============================================================================
