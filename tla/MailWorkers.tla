----------------------------- MODULE MailWorkers -----------------------------
(***************************************************************************)
(* The worker threads that open the encrypted mail: the projection's queue *)
(* of operations (WorkerThreadMailSyncProjection) and the retention run    *)
(* (WorkerThreadRetentionMaintenance).  Each owner keeps a copy of the     *)
(* data key, from which every worker is given its own as it starts.        *)
(***************************************************************************)
EXTENDS Naturals, Sequences

CONSTANTS
    Jobs,          \* the operations of the projection
    MaxPending     \* MAX_PENDING_OPERATIONS

ASSUME WorkerAssumption == MaxPending \in Nat \ {0}

VARIABLES
    jobs,         \* operations that have not settled: the head runs, the rest is the tail
    closed,       \* destroyed: no operation is accepted
    keys,         \* the owners whose copy of the key is not zeroed
    retaining     \* a retention run is active

workerVars == <<jobs, closed, keys, retaining>>

Owners == {"projection", "retention"}

WorkersInit ==
    /\ jobs = <<>>
    /\ closed = FALSE
    /\ keys = Owners
    /\ retaining = FALSE

-----------------------------------------------------------------------------

Accepts == ~closed /\ Len(jobs) < MaxPending

Enqueue(job) ==
    /\ Accepts
    /\ jobs' = Append(jobs, job)
    /\ UNCHANGED <<closed, keys, retaining>>

\* The operation settles, whatever its answer; the tail goes on to the next.
Settle ==
    /\ jobs # <<>>
    /\ jobs' = Tail(jobs)
    /\ UNCHANGED <<closed, keys, retaining>>

\* run(): one at a time, refused when the key is gone.
StartRetention ==
    /\ ~retaining /\ "retention" \in keys
    /\ retaining' = TRUE
    /\ UNCHANGED <<jobs, closed, keys>>

EndRetention ==
    /\ retaining
    /\ retaining' = FALSE
    /\ UNCHANGED <<jobs, closed, keys>>

\* Mutant: the key is zeroed though an operation waits for its worker.
BusyUnlessQueued == IF retaining THEN {"retention"} ELSE {}

\* destroyEncryptionContext throws while there is work of the owner.
Busy == (IF jobs # <<>> THEN {"projection"} ELSE {}) \cup (IF retaining THEN {"retention"} ELSE {})

\* One that throws does not keep the other from being destroyed.
DestroyKeys ==
    /\ keys' = keys \cap Busy
    /\ closed' = (closed \/ "projection" \notin Busy)
    /\ UNCHANGED <<jobs, retaining>>

\* shutdown(), up to its await.
Close == closed' = TRUE /\ UNCHANGED <<jobs, keys, retaining>>

\* And after it: the tail has settled.
ZeroProjectionKey ==
    /\ jobs = <<>>
    /\ keys' = keys \ {"projection"}
    /\ UNCHANGED <<jobs, closed, retaining>>

-----------------------------------------------------------------------------
(* Properties *)

WorkersTypeOK ==
    /\ jobs \in Seq(Jobs) /\ Len(jobs) <= MaxPending
    /\ closed \in BOOLEAN /\ retaining \in BOOLEAN
    /\ keys \subseteq Owners

\* No operation is given a key of zeros, under which it would write records
\* that cannot be read again: the key outlives every operation that is
\* accepted, running or queued, and the retention run.
KeyOutlivesWork ==
    /\ jobs # <<>> => "projection" \in keys
    /\ retaining => "retention" \in keys
=============================================================================
