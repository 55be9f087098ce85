-------------------------- MODULE MailSyncCoordinator --------------------------
(***************************************************************************)
(* MailSyncCoordinator: which accounts are synchronized, one run each, in  *)
(* a bounded number of slots, and the calls that abort runs and wait for   *)
(* them.  What a run reads and commits is MailSync; here it works, commits *)
(* or has settled.                                                         *)
(*                                                                         *)
(* One step is what runs between two awaits.  The continuation of a        *)
(* resolved promise is a step of its own: other continuations that were    *)
(* already queued may run before it.                                       *)
(***************************************************************************)
EXTENDS Naturals, Sequences, FiniteSets, SequencesExt

CONSTANTS
    Accounts,
    Limit,            \* maximumConcurrentAccounts
    SuspendCalls,     \* suspend; one that is also in ShutdownCalls is shutdown's
    ShutdownCalls,
    SupersedeCalls,   \* supersedeAccount
    CancelCalls,      \* cancelAccountAndWait
    Target            \* the account of a superseding or cancelling call

AccountCalls == SupersedeCalls \cup CancelCalls
Calls == SuspendCalls \cup AccountCalls

ASSUME CoordinatorAssumption ==
    /\ Limit \in 1..8
    /\ IsFiniteSet(Accounts)
    /\ ShutdownCalls \subseteq SuspendCalls
    /\ SuspendCalls \cap AccountCalls = {}
    /\ SupersedeCalls \cap CancelCalls = {}
    /\ Target \in [AccountCalls -> Accounts]

VARIABLES
    phase,          \* the run of each account, "none" where the map has no entry
    aborted,        \* accounts whose controller has been aborted
    slots,          \* BoundedConcurrencyGate.active
    waiting,        \* BoundedConcurrencyGate.waiting
    suspended,
    shuttingDown,
    pc,             \* the calls: "idle", "awaiting", "settled", or "reopened" for a
                    \* suspension that still waits after a resume
    awaited         \* the runs whose promises a call waits for

gateVars == <<slots, waiting>>
switchVars == <<suspended, shuttingDown>>
callVars == <<pc, awaited>>
vars == <<phase, aborted, gateVars, switchVars, callVars>>

Active == {a \in Accounts : phase[a] # "none"}

\* Runs between the two ends of their slot.
Holding == {a \in Accounts : phase[a] \in {"handed", "working", "committing"}}

Init ==
    /\ phase = [a \in Accounts |-> "none"]
    /\ aborted = {}
    /\ slots = 0
    /\ waiting = <<>>
    /\ suspended = FALSE
    /\ shuttingDown = FALSE
    /\ pc = [c \in Calls |-> "idle"]
    /\ awaited = [c \in Calls |-> {}]

-------------------------------------------------------------------------------
(* Runs and their slots *)

\* enter, up to its first await.
Enter(a) ==
    IF slots < Limit
    THEN /\ phase' = [phase EXCEPT ![a] = "working"]
         /\ slots' = slots + 1
         /\ UNCHANGED waiting
    ELSE /\ phase' = [phase EXCEPT ![a] = "waiting"]
         /\ waiting' = Append(waiting, a)
         /\ UNCHANGED slots

Closed == shuttingDown \/ suspended

\* syncAccount, where it starts a run: it refuses while closed, and joins the
\* run that is there.
SyncAccount(a) ==
    /\ ~Closed
    /\ a \notin Active
    /\ Enter(a)
    /\ UNCHANGED <<aborted, switchVars, callVars>>

\* Mutant: the controller outlives the run.
SettledWithController(a, gatePhase) ==
    /\ phase' = [gatePhase EXCEPT ![a] = "none"]
    /\ awaited' = [c \in Calls |-> awaited[c] \ {a}]
    /\ UNCHANGED <<aborted, switchVars, pc>>

\* The promise of a run settles and its entry leaves the map.
Settled(a, gatePhase) ==
    /\ phase' = [gatePhase EXCEPT ![a] = "none"]
    /\ aborted' = aborted \ {a}
    /\ awaited' = [c \in Calls |-> awaited[c] \ {a}]
    /\ UNCHANGED <<switchVars, pc>>

\* Mutant: the waiting run is resumed and the slot is given back as well.
ReleaseAndCount(a) ==
    /\ slots' = slots - 1
    /\ IF waiting = <<>>
       THEN /\ Settled(a, phase)
            /\ UNCHANGED waiting
       ELSE /\ Settled(a, [phase EXCEPT ![Head(waiting)] = "handed"])
            /\ waiting' = Tail(waiting)

\* release hands the slot to the first in the queue, which resumes later.
Release(a) ==
    IF waiting = <<>>
    THEN /\ Settled(a, phase)
         /\ slots' = slots - 1
         /\ UNCHANGED waiting
    ELSE /\ Settled(a, [phase EXCEPT ![Head(waiting)] = "handed"])
         /\ waiting' = Tail(waiting)
         /\ UNCHANGED slots

\* enter, after its await.
TakeSlot(a) ==
    /\ phase[a] = "handed"
    /\ a \notin aborted
    /\ phase' = [phase EXCEPT ![a] = "working"]
    /\ UNCHANGED <<aborted, gateVars, switchVars, callVars>>

\* The check after the await throws: enter has returned no release.
LoseSlot(a) ==
    /\ phase[a] = "handed"
    /\ a \in aborted
    /\ Settled(a, phase)
    /\ UNCHANGED gateVars

\* The abort of a waiting run rejects it.
LeaveQueue(a) ==
    /\ phase[a] = "rejected"
    /\ Settled(a, phase)
    /\ UNCHANGED gateVars

\* A fetched batch is committed unless the signal is aborted by then.
BeginCommit(a) ==
    /\ phase[a] = "working"
    /\ a \notin aborted
    /\ phase' = [phase EXCEPT ![a] = "committing"]
    /\ UNCHANGED <<aborted, gateVars, switchVars, callVars>>

\* The transaction has ended; the loop asks for the next batch.
FetchNext(a) ==
    /\ phase[a] = "committing"
    /\ phase' = [phase EXCEPT ![a] = "working"]
    /\ UNCHANGED <<aborted, gateVars, switchVars, callVars>>

\* A run ends: with its last commit, with an error, or because it is aborted.
EndRun(a) ==
    /\ phase[a] \in {"working", "committing"}
    /\ Release(a)

-------------------------------------------------------------------------------
(* Aborts, and the calls that wait *)

\* What is left of a queue when some of it are aborted: each leaves it wherever it stands,
\* and the others keep their order.
Without(queue, gone) ==
    LET kept == {i \in DOMAIN queue : queue[i] \notin gone}
        Place(i) == Cardinality({j \in kept : j <= i})
    IN  [k \in 1..Cardinality(kept) |-> queue[CHOOSE i \in kept : Place(i) = k]]

\* Mutant: an aborted run leaves the queue and is not rejected.
AbortRunsSilently(A) ==
    /\ aborted' = aborted \cup A
    /\ waiting' = Without(waiting, A)
    /\ UNCHANGED <<phase, slots>>

\* controller.abort() of some runs: one in the queue leaves it at once.
AbortRuns(A) ==
    /\ aborted' = aborted \cup A
    /\ waiting' = Without(waiting, A)
    /\ phase' = [a \in Accounts |->
                    IF a \in A /\ phase[a] = "waiting" THEN "rejected" ELSE phase[a]]
    /\ UNCHANGED slots

\* cancelAccount
CancelAccount(a) ==
    /\ a \in Active
    /\ AbortRuns({a})
    /\ UNCHANGED <<switchVars, callVars>>

\* Mutant: only the runs that hold a slot are aborted and awaited.
SuspendHolders(c) ==
    /\ pc[c] = "idle"
    /\ suspended' = TRUE
    /\ shuttingDown' = (shuttingDown \/ c \in ShutdownCalls)
    /\ AbortRuns(Holding)
    /\ awaited' = [awaited EXCEPT ![c] = Holding]
    /\ pc' = [pc EXCEPT ![c] = "awaiting"]

\* suspend and shutdown abort every run and wait for those there are.
Suspend(c) ==
    /\ pc[c] = "idle"
    /\ suspended' = TRUE
    /\ shuttingDown' = (shuttingDown \/ c \in ShutdownCalls)
    /\ AbortRuns(Active)
    /\ awaited' = [awaited EXCEPT ![c] = Active]
    /\ pc' = [pc EXCEPT ![c] = "awaiting"]

\* supersedeAccount and cancelAccountAndWait abort one run and wait for it.
AbortAndWait(c) ==
    /\ pc[c] = "idle"
    /\ LET A == {Target[c]} \cap Active
       IN  /\ AbortRuns(A)
           /\ awaited' = [awaited EXCEPT ![c] = A]
    /\ pc' = [pc EXCEPT ![c] = "awaiting"]
    /\ UNCHANGED switchVars

\* allSettled resolves: the superseding call syncs anew.
CallContinues(c) ==
    /\ pc[c] \in {"awaiting", "reopened"}
    /\ awaited[c] = {}
    /\ pc' = [pc EXCEPT ![c] = IF @ = "reopened" THEN "idle" ELSE "settled"]
    /\ IF c \in SupersedeCalls /\ ~Closed /\ Target[c] \notin Active
       THEN Enter(Target[c])
       ELSE UNCHANGED <<phase, gateVars>>
    /\ UNCHANGED <<aborted, switchVars, awaited>>

\* resume: what earlier suspensions have promised is over.
Resume ==
    /\ suspended
    /\ ~shuttingDown
    /\ suspended' = FALSE
    /\ pc' = [c \in Calls |->
                IF c \in AccountCalls THEN pc[c]
                ELSE IF pc[c] = "awaiting" THEN "reopened"
                ELSE IF pc[c] = "settled" THEN "idle" ELSE pc[c]]
    /\ UNCHANGED <<phase, aborted, gateVars, shuttingDown, awaited>>

RunStep(a) ==
    \/ TakeSlot(a)
    \/ LoseSlot(a)
    \/ LeaveQueue(a)
    \/ BeginCommit(a)
    \/ FetchNext(a)
    \/ EndRun(a)

Next ==
    \/ \E a \in Accounts : SyncAccount(a) \/ RunStep(a) \/ CancelAccount(a)
    \/ \E c \in SuspendCalls : Suspend(c)
    \/ \E c \in AccountCalls : AbortAndWait(c)
    \/ \E c \in Calls : CallContinues(c)
    \/ Resume

Spec == Init /\ [][Next]_vars

\* The continuation of a settled promise runs, an aborted request rejects and a
\* run has at most MAX_BATCHES_PER_SYNC batches, so that it ends.
FairSpec ==
    /\ Spec
    /\ \A a \in Accounts :
        /\ WF_vars(TakeSlot(a) \/ LoseSlot(a) \/ LeaveQueue(a))
        /\ WF_vars(EndRun(a))
    /\ \A c \in Calls : WF_vars(CallContinues(c))

-------------------------------------------------------------------------------
(* Properties *)

\* Every variable has its type, and the queue holds exactly the runs that wait,
\* none of them aborted, while no slot is free.
TypeOK ==
    /\ phase \in [Accounts ->
            {"none", "waiting", "handed", "rejected", "working", "committing"}]
    /\ aborted \subseteq Active
    /\ slots \in Nat
    /\ waiting \in Seq(Accounts)
    /\ suspended \in BOOLEAN /\ shuttingDown \in BOOLEAN
    /\ pc \in [Calls -> {"idle", "awaiting", "settled", "reopened"}]
    /\ awaited \in [Calls -> SUBSET Accounts]
    /\ ToSet(waiting) = {a \in Accounts : phase[a] = "waiting"}
    /\ ToSet(waiting) \cap aborted = {}
    /\ IsInjective(waiting)
    /\ waiting # <<>> => slots = Limit

\* Never more runs than slots, also while a slot passes from one run to the next
\* and while runs that wait for one are aborted.
AtMostLimit == Cardinality(Holding) <= Limit

\* When a suspension has settled, nothing runs, waits or commits until resume,
\* whichever runs were superseded, cancelled or handed a slot meanwhile.
SuspendedMeansQuiet ==
    (\E c \in SuspendCalls : pc[c] = "settled") => Active = {}

\* A call that waits for aborted runs returns.
CallsReturn ==
    \A c \in Calls : pc[c] \in {"awaiting", "reopened"} ~> pc[c] \in {"idle", "settled"}
=============================================================================
