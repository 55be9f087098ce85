---------------------------- MODULE MailProjection ----------------------------
(***************************************************************************)
(* MailProjection: the encrypted provider mail of one account, as          *)
(* EncryptedSqliteMailSyncProjection keeps it: message records, thread     *)
(* records and the sync cursor, changed by the two transactions that write *)
(* them, the commit of a provider batch and the eviction of expired mail.  *)
(*                                                                         *)
(* A message is a number; a later message has a greater one, so that the   *)
(* retention cutoff is a number too.  Canonical identifiers are hashes of  *)
(* the provider's (localId of the normalizer), so that one number stands   *)
(* for both and the checks for a clash of the two have nothing to refuse.  *)
(***************************************************************************)
EXTENDS Naturals

CONSTANTS
    Messages,
    Threads,
    ThreadOf,     \* the provider conversation of a message
    Contents,     \* what a stored message says, its labels included
    Absent,
    Cursors,
    NoCursor

ASSUME ProjectionAssumption ==
    /\ Messages \subseteq Nat
    /\ ThreadOf \in [Messages -> Threads]
    /\ Absent \notin Contents
    /\ NoCursor \notin Cursors

VARIABLES
    messages,     \* provider-message records, Absent where there is none
    threads,      \* messageIds of the provider-thread records, {} where there is none
    checkpoint    \* the cursor of the sync-state record

projectionVars == <<messages, threads, checkpoint>>

Records == [Messages -> Contents \cup {Absent}]

NoRecords == [m \in Messages |-> Absent]
NoThreads == [t \in Threads |-> {}]

Stored(records) == {m \in Messages : records[m] # Absent}

\* isCommitProviderMailBatchV2: every message of the batch is listed by a thread
\* of the batch and none is deleted by it.
Batches ==
    {b \in [expected : Cursors \cup {NoCursor}, next : Cursors, resync : BOOLEAN,
            messages : Records, threads : [Threads -> SUBSET Messages],
            deleted : SUBSET Messages] :
        \A m \in Stored(b.messages) : m \notin b.deleted /\ m \in b.threads[ThreadOf[m]]}

ProjectionTypeOK ==
    /\ messages \in Records
    /\ threads \in [Threads -> SUBSET Messages]
    /\ checkpoint \in Cursors \cup {NoCursor}

ProjectionInit ==
    /\ messages = NoRecords
    /\ threads = NoThreads
    /\ checkpoint = NoCursor

-------------------------------------------------------------------------------
(* commitBatch *)

\* The records the batch leaves: an authoritative window replaces everything.
TargetMessages(b) ==
    [m \in Messages |->
        IF b.messages[m] # Absent THEN b.messages[m]
        ELSE IF b.resync \/ m \in b.deleted THEN Absent
        ELSE messages[m]]

\* A thread of the batch replaces the stored one of the same conversation.
MergedThreads(b) ==
    [t \in Threads |->
        IF b.threads[t] # {} THEN b.threads[t]
        ELSE IF b.resync THEN {}
        ELSE threads[t]]

\* Mutant: threads are merged and not repaired.
UnrepairedThreads(b) == MergedThreads(b)

\* The repair: a thread lists only messages that are there and belong to it.
TargetThreads(b) ==
    [t \in Threads |->
        {m \in MergedThreads(b)[t] : TargetMessages(b)[m] # Absent /\ ThreadOf[m] = t}]

Conflicts(b) == checkpoint # b.expected

\* A message that would be left without the record of its thread.
Malformed(b) ==
    \E m \in Stored(TargetMessages(b)) : TargetThreads(b)[ThreadOf[m]] = {}

ApplyBatch(b) ==
    /\ ~Conflicts(b)
    /\ ~Malformed(b)
    /\ messages' = TargetMessages(b)
    /\ threads' = TargetThreads(b)
    /\ checkpoint' = b.next

\* The transaction is rolled back.
RefuseBatch(b) ==
    /\ Conflicts(b) \/ Malformed(b)
    /\ UNCHANGED projectionVars

-------------------------------------------------------------------------------
(* applyRetention and deleteAccountRecords *)

\* Mutant: the message on the boundary is evicted too.
ExpiredBoundary(cutoff) == {m \in Stored(messages) : m <= cutoff + 1}

Expired(cutoff) == {m \in Stored(messages) : m <= cutoff}

ApplyRetention(cutoff) ==
    /\ Expired(cutoff) # {}
    /\ messages' = [m \in Messages |-> IF m \in Expired(cutoff) THEN Absent ELSE messages[m]]
    /\ threads' = [t \in Threads |-> threads[t] \ Expired(cutoff)]
    /\ UNCHANGED checkpoint

ProjectionNext ==
    \/ \E b \in Batches : ApplyBatch(b) \/ RefuseBatch(b)
    \/ \E cutoff \in Nat : ApplyRetention(cutoff)

ProjectionSpec == ProjectionInit /\ [][ProjectionNext]_projectionVars

-------------------------------------------------------------------------------
(* Properties *)

\* A stored thread lists only stored messages of its own conversation: neither
\* a tombstone, a resync nor an eviction leaves stale membership behind.
ThreadsAreBacked ==
    \A t \in Threads : \A m \in threads[t] : messages[m] # Absent /\ ThreadOf[m] = t
=============================================================================
