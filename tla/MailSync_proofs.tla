---------------------------- MODULE MailSync_proofs ----------------------------
(***************************************************************************)
(* Proofs about the projection and the runs that write it.  The records    *)
(* keep their types under every valid batch, and whatever an adapter and a *)
(* mailbox do, no stored thread lists a message that is not stored.  A     *)
(* sync commits valid batches only, never moves the stored cursor back and *)
(* never loses mail that is alive; and a cursor that has caught up tells   *)
(* the truth where a history page fits in a batch.                         *)
(***************************************************************************)
EXTENDS MailSync, TLAPS, WellFoundedInduction, FiniteSetTheorems, SequenceTheorems

\* Thread records list messages that are there.
Backed ==
    /\ threads \in [Threads -> SUBSET Messages]
    /\ ThreadsAreBacked

-------------------------------------------------------------------------------
(* The two transactions *)

\* A commit repairs every thread it merges.
LEMMA ApplyBatchBacked ==
    ASSUME Backed,
           NEW b, b.threads \in [Threads -> SUBSET Messages],
           ApplyBatch(b)
    PROVE  Backed'
<1>1. MergedThreads(b) \in [Threads -> SUBSET Messages]
  BY DEF Backed, MergedThreads
<1>2. threads' \in [Threads -> SUBSET Messages]
  BY <1>1 DEF ApplyBatch, TargetThreads
<1>3. ASSUME NEW t \in Threads, NEW m \in threads'[t]
      PROVE  messages'[m] # Absent /\ ThreadOf[m] = t
  <2>1. m \in {n \in MergedThreads(b)[t] : TargetMessages(b)[n] # Absent /\ ThreadOf[n] = t}
    BY <1>3 DEF ApplyBatch, TargetThreads
  <2> QED BY <2>1 DEF ApplyBatch
<1> QED BY <1>2, <1>3 DEF Backed, ThreadsAreBacked

\* An eviction takes from the threads what it takes from the messages.
LEMMA ApplyRetentionBacked ==
    ASSUME Backed, NEW limit, ApplyRetention(limit)
    PROVE  Backed'
<1>1. threads' \in [Threads -> SUBSET Messages]
  BY DEF Backed, ApplyRetention
<1>2. ASSUME NEW t \in Threads, NEW m \in threads'[t]
      PROVE  messages'[m] # Absent /\ ThreadOf[m] = t
  <2>1. m \in threads[t] /\ m \notin Expired(limit) /\ m \in Messages
    BY <1>2 DEF ApplyRetention, Backed
  <2>2. messages'[m] = messages[m]
    BY <2>1 DEF ApplyRetention
  <2> QED BY <2>1, <2>2 DEF Backed, ThreadsAreBacked
<1> QED BY <1>1, <1>2 DEF Backed, ThreadsAreBacked

\* A valid batch leaves records, threads and a cursor.
LEMMA ApplyBatchType ==
    ASSUME ProjectionTypeOK, NEW b \in Batches, ApplyBatch(b)
    PROVE  ProjectionTypeOK'
<1>1. /\ b.messages \in Records
      /\ b.threads \in [Threads -> SUBSET Messages]
      /\ b.next \in Cursors
  BY DEF Batches
<1>2. messages' \in Records
  BY <1>1 DEF ApplyBatch, TargetMessages, ProjectionTypeOK, Records
<1>3. MergedThreads(b) \in [Threads -> SUBSET Messages]
  BY <1>1 DEF MergedThreads, ProjectionTypeOK
<1>4. threads' \in [Threads -> SUBSET Messages]
  BY <1>3 DEF ApplyBatch, TargetThreads
<1> QED BY <1>1, <1>2, <1>4 DEF ApplyBatch, ProjectionTypeOK

\* An eviction leaves records and threads, and the cursor where it was.
LEMMA ApplyRetentionType ==
    ASSUME ProjectionTypeOK, NEW limit, ApplyRetention(limit)
    PROVE  ProjectionTypeOK'
BY DEF ApplyRetention, ProjectionTypeOK, Records

-------------------------------------------------------------------------------
(* The projection by itself *)

\* The records of the projection keep their types, whatever valid batches
\* commitBatch is given and whenever applyRetention runs.
THEOREM ProjectionTypeCorrect == ProjectionSpec => []ProjectionTypeOK
<1>1. ProjectionInit => ProjectionTypeOK
  BY DEF ProjectionInit, ProjectionTypeOK, NoRecords, NoThreads, Records
<1>2. ProjectionTypeOK /\ [ProjectionNext]_projectionVars => ProjectionTypeOK'
  <2> SUFFICES ASSUME ProjectionTypeOK, [ProjectionNext]_projectionVars
               PROVE  ProjectionTypeOK'
    OBVIOUS
  <2>1. ASSUME NEW b \in Batches, ApplyBatch(b) PROVE ProjectionTypeOK'
    BY <2>1, ApplyBatchType
  <2>2. ASSUME NEW limit \in Nat, ApplyRetention(limit) PROVE ProjectionTypeOK'
    BY <2>2, ApplyRetentionType
  <2>3. CASE UNCHANGED projectionVars
    BY <2>3 DEF projectionVars, ProjectionTypeOK
  <2> QED BY <2>1, <2>2, <2>3 DEF ProjectionNext, RefuseBatch
<1> QED BY <1>1, <1>2, PTL DEF ProjectionSpec

-------------------------------------------------------------------------------
(* The runs over it *)

\* What the coordinator commits lists messages: the batch of the adapter lists
\* the ones it loaded, a gathered window the ones it still has.
LEMMA BatchThreads == Batch.threads \in [Threads -> SUBSET Messages]
BY DEF Batch, LoadedThreads, Stored

\* Only a commit and an eviction write threads, and both keep them backed.
LEMMA StepBacked ==
    ASSUME Backed, [Next]_vars
    PROVE  Backed'
<1>1. CASE UNCHANGED projectionVars
  BY <1>1 DEF projectionVars, Backed, ThreadsAreBacked
<1>2. CASE CommitBatch
  BY <1>2, ApplyBatchBacked, BatchThreads DEF CommitBatch
<1>3. CASE Retain
  BY <1>3, ApplyRetentionBacked DEF Retain
<1>4. CASE RejectBatch
  BY <1>4, <1>1 DEF RejectBatch, RefuseBatch
<1>5. ASSUME NEW m \in Mail, LoadMessage(m) PROVE Backed'
  BY <1>5, <1>1 DEF LoadMessage
<1>6. CASE \/ ReachBatchLimit \/ ReadProfile \/ ListMessages \/ ListHistory
           \/ RecoverCursor \/ GatherBatch
  BY <1>6, <1>1
    DEF ReachBatchLimit, ReadProfile, ListMessages, ListHistory, RecoverCursor,
        GatherBatch
<1>7. CASE StartSync \/ Abandon \/ MailboxChanges \/ ClockMoves
  BY <1>7, <1>1 DEF StartSync, Abandon, MailboxChanges, ClockMoves
<1>8. CASE UNCHANGED vars
  BY <1>8, <1>1 DEF vars
<1> QED
  BY <1>2, <1>3, <1>4, <1>5, <1>6, <1>7, <1>8 DEF Next, RunStep

\* No run, resync or eviction leaves a thread that lists a missing or foreign
\* message, for every mailbox, page size, batch size and number of messages.
THEOREM ThreadsStayBacked == Spec => []ThreadsAreBacked
<1>1. Init => Backed
  BY DEF Init, ProjectionInit, NoThreads, Backed, ThreadsAreBacked
<1>2. Backed /\ [Next]_vars => Backed'
  BY StepBacked
<1>3. Backed => ThreadsAreBacked
  BY DEF Backed
<1> QED BY <1>1, <1>2, <1>3, PTL DEF Spec

-------------------------------------------------------------------------------
(* Least and greatest elements, pages of a listing and of the history *)

\* Min is what it says on every set of natural numbers that is not empty.
LEMMA LeastElement ==
    ASSUME NEW S \in SUBSET Nat, S # {}
    PROVE  Min(S) \in S /\ \A y \in S : Min(S) <= y
<1> DEFINE R == OpToRel(<, Nat)
<1>1. IsWellFoundedOn(R, Nat)
  BY NatLessThanWellFounded
<1>2. PICK x \in S : \A y \in S : ~(<<y, x>> \in R)
  <2> HIDE DEF R
  <2> QED BY <1>1, WFMin, Zenon
<1>3. \A y \in S : x <= y
  <2> TAKE y \in S
  <2>1. x \in Nat /\ y \in Nat
    OBVIOUS
  <2>2. ~(<<y, x>> \in R)
    BY <1>2
  <2>3. y < x => <<y, x>> \in R
    BY <2>1, Zenon DEF OpToRel
  <2> HIDE DEF R
  <2> QED BY <2>1, <2>2, <2>3
<1> QED BY <1>3 DEF Min

\* Max is what it says on every bounded set that is not empty.
LEMMA GreatestElement ==
    ASSUME NEW n \in Nat, NEW S \in SUBSET (0..n), S # {}
    PROVE  Max(S) \in S /\ \A y \in S : y <= Max(S)
<1> DEFINE T == {n - x : x \in S}
<1>1. T \in SUBSET Nat /\ T # {}
  <2>1. ASSUME NEW x \in S PROVE n - x \in Nat
    <3>1. x \in 0..n
      OBVIOUS
    <3> QED BY <3>1
  <2> QED BY <2>1
<1>2. PICK t \in T : \A y \in T : t <= y
  <2> HIDE DEF T
  <2> QED BY <1>1, LeastElement
<1>3. PICK x \in S : t = n - x
  OBVIOUS
<1>4. \A y \in S : y <= x
  <2> TAKE y \in S
  <2>1. n - x <= n - y
    BY <1>2, <1>3
  <2> QED BY <2>1
<1> QED BY <1>3, <1>4 DEF Max

\* A listing is a set of messages, and a page the newest of it.
LEMMA ListingPages ==
    ASSUME NEW after \in Nat, NEW token \in Nat
    PROVE  /\ ListedPage(after, token) \subseteq Listing(after, token)
           /\ Listing(after, token) \subseteq Mail
           /\ ListToken(after, token) \in Mail \cup {0}
           /\ ListToken(after, token) = 0 => ListedPage(after, token) = Listing(after, token)
           /\ ListToken(after, token) # 0 =>
                /\ token # 0 => ListToken(after, token) < token
                /\ \A m \in Listing(after, token) :
                     m >= ListToken(after, token) => m \in ListedPage(after, token)
<1> DEFINE L == Listing(after, token)
           P == ListedPage(after, token)
           Newer(m) == {n \in L : n > m}
<1>1. P \subseteq L /\ L \subseteq Mail /\ L \subseteq Nat
  BY MailboxAssumption DEF ListedPage, Listing, Present, Mail
<1>2. CASE P = L
  BY <1>1, <1>2 DEF ListToken
<1>3. CASE P # L
  <2>1. L # {}
    BY <1>1, <1>3
  <2>2. P # {}
    <3>1. L \in SUBSET (0..NumMessages)
      BY <1>1, MailboxAssumption DEF Mail
    <3> DEFINE x == Max(L)
    <3>2. x \in L /\ \A y \in L : y <= x
      <4> HIDE DEF L
      <4> QED BY <2>1, <3>1, GreatestElement, MailboxAssumption
    <3>3. Newer(x) = {}
      BY <1>1, <3>2
    <3>4. Cardinality(Newer(x)) = 0
      BY <3>3, FS_EmptySet
    <3>5. x \in P
      BY <3>2, <3>4, MailboxAssumption DEF ListedPage
    <3> QED BY <3>5
  <2> DEFINE t == Min(P)
  <2>3. t \in P
    <3> HIDE DEF P, L
    <3> QED BY <1>1, <2>2, LeastElement
  <2>4. ListToken(after, token) = t
    BY <1>3 DEF ListToken
  <2>5. token # 0 => t < token
    BY <1>1, <2>3 DEF Listing
  <2>6. ASSUME NEW m \in L, m >= t
        PROVE  m \in P
    <3>1. IsFiniteSet(Newer(t)) /\ Newer(m) \subseteq Newer(t)
      <4>1. IsFiniteSet(Mail)
        BY FS_Interval, MailboxAssumption DEF Mail
      <4>2. Newer(t) \in SUBSET Mail
        BY <1>1
      <4>3. IsFiniteSet(Newer(t))
        <5> HIDE DEF Newer
        <5> QED BY <4>1, <4>2, FS_Subset
      <4>4. t \in Nat /\ m \in Nat
        BY <1>1, <2>3
      <4>5. ASSUME NEW n \in L, n > m
            PROVE  n > t
        BY <1>1, <2>6, <4>4, <4>5
      <4> QED BY <4>3, <4>5
    <3>2. Cardinality(Newer(m)) <= Cardinality(Newer(t))
      <4> HIDE DEF Newer
      <4> QED BY <3>1, FS_Subset
    <3>3. Cardinality(Newer(t)) < ListPage
      BY <2>3 DEF ListedPage
    <3>4. Cardinality(Newer(m)) \in Nat /\ Cardinality(Newer(t)) \in Nat
      <4> HIDE DEF Newer
      <4> QED BY <3>1, FS_Subset, FS_CardinalityType
    <3>5. Cardinality(Newer(m)) < ListPage
      <4> HIDE DEF Newer
      <4> QED BY <3>2, <3>3, <3>4, MailboxAssumption
    <3> QED BY <3>5 DEF ListedPage
  <2>7. t # 0 /\ t \in Mail
    BY <1>1, <2>3, MailboxAssumption DEF Mail
  <2> QED BY <1>1, <2>4, <2>5, <2>6, <2>7
<1> QED BY <1>2, <1>3

\* A page of the history is the part of the log behind its start, and mentions at most
\* as many messages as it has events.
LEMMA PageIds ==
    ASSUME MailboxTypeOK, NEW start \in Nat, NEW token \in Nat
    PROVE  LET events == HistoryEvents(start, token)
               first == HistoryStart(start, token)
               last == Min({first + HistoryPage, HistoryId})
           IN  /\ last <= first + HistoryPage /\ last <= HistoryId
               /\ last \in {first + HistoryPage, HistoryId}
               /\ last \in Nat /\ first \in Nat
               /\ events \in Seq([id : Mail, state : {"load", "delete"}])
               /\ Len(events) = IF last > first THEN last - first ELSE 0
               /\ \A i \in 1..Len(events) : events[i] = log[first + i]
               /\ IsFiniteSet(ChangedIds(events))
               /\ Cardinality(ChangedIds(events)) \in 0..Len(events)
               /\ ChangedIds(events) \subseteq Mail
<1> DEFINE first == HistoryStart(start, token)
           S == {first + HistoryPage, HistoryId}
           last == Min(S)
           events == HistoryEvents(start, token)
<1>1. first \in Nat /\ HistoryId \in Nat /\ HistoryPage \in Nat
  BY MailboxAssumption DEF HistoryStart, MailboxTypeOK, HistoryId
<1>2. S \in SUBSET Nat /\ S # {}
  BY <1>1
<1>3. last \in S /\ last <= first + HistoryPage /\ last <= HistoryId
  <2>1. last \in S /\ \A y \in S : last <= y
    <3> HIDE DEF S
    <3> QED BY <1>2, LeastElement
  <2> QED BY <2>1
<1>4. last \in Nat
  BY <1>2, <1>3
<1>5. events = SubSeq(log, first + 1, last)
  BY DEF HistoryEvents
<1> HIDE DEF last, S, events, first
<1>6. /\ events \in Seq([id : Mail, state : {"load", "delete"}])
      /\ Len(events) = IF last > first THEN last - first ELSE 0
      /\ \A i \in 1..Len(events) : events[i] = log[first + i]
  <2> DEFINE R == [id : Mail, state : {"load", "delete"}]
  <2>1. log \in Seq(R) /\ Len(log) = HistoryId
    BY DEF MailboxTypeOK, HistoryId
  <2> HIDE DEF R
  <2>2. /\ SubSeq(log, first + 1, last) \in Seq(R)
        /\ Len(SubSeq(log, first + 1, last)) =
             IF first + 1 <= last THEN last - (first + 1) + 1 ELSE 0
        /\ \A i \in 1..(last - (first + 1) + 1) :
             SubSeq(log, first + 1, last)[i] = log[first + 1 + i - 1]
    BY <1>1, <1>3, <1>4, <2>1, SubSeqProperties
  <2>3. Len(events) = IF last > first THEN last - first ELSE 0
    BY <1>1, <1>4, <1>5, <2>2
  <2>4. ASSUME NEW i \in 1..Len(events)
        PROVE  events[i] = log[first + i]
    <3>1. i \in 1..(last - (first + 1) + 1) /\ first + 1 + i - 1 = first + i
      BY <1>1, <1>4, <2>3, <2>4
    <3> QED BY <1>5, <2>2, <3>1
  <2> QED BY <1>5, <2>2, <2>3, <2>4 DEF R
<1>7. /\ IsFiniteSet(ChangedIds(events))
      /\ Cardinality(ChangedIds(events)) \in 0..Len(events)
  <2> DEFINE D == 1..Len(events)
             T == ChangedIds(events)
             f == [i \in D |-> events[i].id]
  <2>1. IsFiniteSet(D) /\ Cardinality(D) = Len(events) /\ Len(events) \in Nat
    <3>1. Len(events) \in Nat
      BY <1>6
    <3> QED BY <3>1, FS_Interval
  <2>2. f \in Surjection(D, T)
    BY <1>6 DEF Surjection, ChangedIds
  <2>3. IsFiniteSet(T) /\ Cardinality(T) <= Cardinality(D)
    <3> HIDE DEF D, T, f
    <3> QED BY <2>1, <2>2, FS_Surjection
  <2>4. Cardinality(T) \in Nat
    BY <2>3, FS_CardinalityType
  <2> QED BY <2>1, <2>3, <2>4
<1>8. ChangedIds(events) \subseteq Mail
  <2>1. ASSUME NEW i \in DOMAIN events PROVE events[i].id \in Mail
    <3>1. i \in 1..Len(events)
      BY <1>6, LenProperties
    <3>2. events[i] \in [id : Mail, state : {"load", "delete"}]
      BY <1>6, <3>1, ElementOfSeq
    <3> QED BY <3>2
  <2> QED BY <2>1 DEF ChangedIds
<1> QED BY <1>1, <1>3, <1>4, <1>6, <1>7, <1>8 DEF last, S, events, first

\* A message of a page has a first and a last event on it.
LEMMA Occurrences ==
    ASSUME NEW events \in Seq([id : Mail, state : {"load", "delete"}]),
           NEW id \in ChangedIds(events)
    PROVE  /\ Min(EventsOf(events, id)) \in Nat
           /\ Max(EventsOf(events, id)) \in 1..Len(events)
           /\ events[Max(EventsOf(events, id))].id = id
<1> DEFINE E == EventsOf(events, id)
<1>1. E \subseteq 1..Len(events) /\ E # {} /\ Len(events) \in Nat
  BY DEF EventsOf, ChangedIds
<1>2. Min(E) \in E
  <2> HIDE DEF E
  <2> QED BY <1>1, LeastElement
<1>3. Max(E) \in E
  <2> HIDE DEF E
  <2>1. E \in SUBSET (0..Len(events))
    BY <1>1
  <2> QED BY <1>1, <2>1, GreatestElement
<1>4. \A i \in E : events[i].id = id
  BY DEF EventsOf
<1> HIDE DEF E
<1>5. Min(E) \in Nat
  <2>1. Min(E) \in 1..Len(events)
    BY <1>1, <1>2
  <2> QED BY <2>1
<1>6. Max(E) \in 1..Len(events) /\ events[Max(E)].id = id
  BY <1>1, <1>3, <1>4
<1> QED BY <1>5, <1>6 DEF E

\* The place of an id counts from zero.
LEMMA Places ==
    ASSUME NEW events \in Seq([id : Mail, state : {"load", "delete"}]),
           NEW id \in ChangedIds(events), IsFiniteSet(ChangedIds(events))
    PROVE  /\ Place(events, id) \in Nat
           /\ Place(events, id) < Cardinality(ChangedIds(events))
<1> DEFINE T == ChangedIds(events)
           P == {other \in T : Min(EventsOf(events, other)) < Min(EventsOf(events, id))}
<1>1. P \subseteq T /\ id \notin P
  <2>1. Min(EventsOf(events, id)) \in Nat
    BY Occurrences
  <2> QED BY <2>1
<1>2. Place(events, id) = Cardinality(P)
  BY DEF Place
<1> HIDE DEF P, T
<1>3. IsFiniteSet(T) /\ id \in T
  BY DEF T
<1>4. IsFiniteSet(P) /\ Cardinality(P) <= Cardinality(T) /\ Cardinality(P) # Cardinality(T)
  BY <1>1, <1>3, FS_Subset
<1>5. Cardinality(P) \in Nat /\ Cardinality(T) \in Nat
  BY <1>3, <1>4, FS_CardinalityType
<1> QED BY <1>2, <1>4, <1>5 DEF T

-------------------------------------------------------------------------------
(* The inductive invariant *)

RunTypes ==
    /\ cutoff \in 0..MaxCutoff
    /\ run \in [phase : {"idle", "request", "list", "load"},
                mode : {"initial", "incremental", "bounded-resync"},
                cursor : Cursors \cup {NoCursor}, expected : Cursors \cup {NoCursor},
                after : 0..MaxCutoff, now : 0..MaxCutoff, fetched : 0..MaxBatches]
    /\ outcome \in {"none", "running", "synced", "limit", "refused", "abandoned"}

FetchTypes ==
    fetch \in [historyId : 0..MaxEvents, pending : SUBSET Mail, loaded : Records,
               deleted : SUBSET Mail, next : Cursors \cup {NoCursor}, complete : BOOLEAN]

WindowTypes == window \in [messages : Records, threads : [Threads -> SUBSET Messages]]

Types == MailboxTypeOK /\ ProjectionTypeOK /\ RunTypes /\ FetchTypes /\ WindowTypes

Active == run.phase # "idle"
Resyncing == Active /\ run.mode = "bounded-resync"

\* The mailbox: what the history says of a message holds for good.
LogInv ==
    /\ HistoryId <= MaxEvents
    /\ \A i \in 1..HistoryId :
         /\ log[i].state = "delete" => mail[log[i].id] = "deleted"
         /\ log[i].state = "load" => mail[log[i].id] # "unsent"

\* A cursor points into the mailbox as it is.
InMailbox(c) ==
    /\ c.historyId <= HistoryId
    /\ c.mode = "full" => c.page \in Mail /\ c.after <= cutoff
    /\ c.mode = "history" => /\ c.page <= HistoryId /\ (c.page # 0 => c.page > c.historyId)
                             /\ c.after = 0

\* A run works on the stored checkpoint; a resync begins anew behind it.
RunInv ==
    /\ InMailbox(checkpoint) /\ InMailbox(run.cursor)
    /\ Active => /\ run.expected = checkpoint
                 /\ run.after <= cutoff /\ run.now <= cutoff
    /\ Active /\ ~Resyncing => run.cursor = checkpoint
    /\ ~Resyncing => window = NoWindow
    /\ run.phase \in {"list", "load"} => run.fetched < MaxBatches
    /\ run.phase = "list" => run.cursor = NoCursor /\ fetch.historyId <= HistoryId
    /\ Resyncing => /\ checkpoint.mode = "history" /\ checkpoint.historyId < forgotten
                    /\ run.cursor = NoCursor => window = NoWindow
                    /\ run.cursor # NoCursor => /\ run.cursor.mode = "full"
                                                /\ run.cursor.historyId > checkpoint.historyId
                    /\ run.phase = "list" => fetch.historyId > checkpoint.historyId

\* What a batch continues with.
NextInv ==
    run.phase = "load" =>
        /\ fetch.next \in Cursors /\ InMailbox(fetch.next)
        /\ fetch.complete => fetch.next.mode = "history"
        /\ ~Resyncing => fetch.next = checkpoint \/ Advances(checkpoint, fetch.next)
        /\ Resyncing => /\ fetch.next.mode = (IF fetch.complete THEN "history" ELSE "full")
                        /\ fetch.next.historyId > checkpoint.historyId

\* Every message is in one place, and none is from a message that never came.
BatchInv ==
    /\ \A m \in Mail : /\ messages[m] # Absent => mail[m] # "unsent"
                       /\ window.messages[m] # Absent =>
                            mail[m] # "unsent" /\ m \in window.threads[ThreadOf[m]]
    /\ run.phase = "load" =>
         \A m \in Mail : /\ m \in fetch.pending => mail[m] # "unsent" /\ m \notin fetch.deleted
                         /\ m \in fetch.deleted => mail[m] = "deleted"
                         /\ fetch.loaded[m] # Absent =>
                              mail[m] # "unsent" /\ m \notin fetch.pending \cup fetch.deleted

\* The messages a listing with the cursor has passed, within the window.
Passed(c, m) == m > cutoff /\ (c.mode = "full" => m >= c.page)

\* A resync gathers every stored message that is still alive.
KeepInv ==
    Resyncing =>
        \A m \in Stored(messages) \cap Present :
            /\ run.phase # "load" /\ run.cursor # NoCursor /\ Passed(run.cursor, m)
                 => window.messages[m] # Absent
            /\ run.phase = "load" /\ Passed(fetch.next, m) /\ m \notin fetch.pending
                 => fetch.loaded[m] # Absent \/ window.messages[m] # Absent

\* The inductive invariant.
IInv == Types /\ LogInv /\ RunInv /\ NextInv /\ BatchInv /\ KeepInv

-------------------------------------------------------------------------------
(* Cursors, the mailbox and the batch *)

\* NoCursor is none of the cursors.
LEMMA NoCursorFields ==
    /\ NoCursor.mode = "none" /\ NoCursor.historyId = 0 /\ NoCursor.page = 0
    /\ NoCursor.offset = 0 /\ NoCursor.after = 0
    /\ NoCursor \notin Cursors
BY SyncAssumption, ProjectionAssumption

AnyCursor ==
  [mode : {"none", "full", "history"}, historyId : Nat, page : Nat, offset : Nat, after : Nat]

\* NoCursor is a record like any cursor, so that EXCEPT changes the field it names.
LEMMA NoCursorIsAny == NoCursor \in AnyCursor
BY SyncAssumption DEF AnyCursor

\* The fields of a cursor are in range.
LEMMA CursorFields ==
    ASSUME NEW c \in Cursors
    PROVE  /\ c.mode \in {"full", "history"}
           /\ c.historyId \in 0..MaxEvents
           /\ c.page \in 0..(NumMessages + MaxEvents) /\ c.page \in Nat
           /\ c.offset \in 0..MaxEvents
           /\ c.after \in 0..MaxCutoff
           /\ c # NoCursor
BY SyncAssumption, ProjectionAssumption, MailboxAssumption

\* FullCursor makes a cursor with the fields it is given.
LEMMA FullCursors ==
    ASSUME NEW after \in 0..MaxCutoff, NEW token \in Mail, NEW historyId \in 0..MaxEvents
    PROVE  LET c == FullCursor(after, token, historyId)
           IN  /\ c \in Cursors
               /\ c.mode = "full" /\ c.after = after /\ c.page = token
               /\ c.historyId = historyId /\ c.offset = 0
<1>1. token \in 0..(NumMessages + MaxEvents)
  BY MailboxAssumption DEF Mail
<1>2. 0 \in 0..MaxEvents
  BY MailboxAssumption
<1>3. FullCursor(after, token, historyId) \in AnyCursor
  <2>1. after \in Nat /\ token \in Nat /\ historyId \in Nat
    BY MailboxAssumption, SyncAssumption DEF Mail
  <2> QED BY <2>1, NoCursorIsAny DEF FullCursor, AnyCursor
<1>4. LET c == FullCursor(after, token, historyId)
      IN  /\ c.mode = "full" /\ c.after = after /\ c.page = token
          /\ c.historyId = historyId /\ c.offset = 0
  BY NoCursorIsAny, NoCursorFields DEF FullCursor, AnyCursor
<1> HIDE DEF FullCursor
<1> QED BY <1>1, <1>2, <1>3, <1>4, SyncAssumption DEF AnyCursor

\* HistoryCursor makes a cursor with the fields it is given.
LEMMA HistoryCursors ==
    ASSUME NEW historyId \in 0..MaxEvents, NEW token \in 0..MaxEvents, NEW offset \in 0..MaxEvents
    PROVE  LET c == HistoryCursor(historyId, token, offset)
           IN  /\ c \in Cursors
               /\ c.mode = "history" /\ c.page = token
               /\ c.historyId = historyId /\ c.offset = offset /\ c.after = 0
<1>1. token \in 0..(NumMessages + MaxEvents) /\ 0 \in 0..MaxCutoff
  BY MailboxAssumption, SyncAssumption
<1>2. HistoryCursor(historyId, token, offset) \in AnyCursor
  <2>1. historyId \in Nat /\ token \in Nat /\ offset \in Nat
    BY MailboxAssumption
  <2> QED BY <2>1, NoCursorIsAny DEF HistoryCursor, AnyCursor
<1>3. LET c == HistoryCursor(historyId, token, offset)
      IN  /\ c.mode = "history" /\ c.page = token
          /\ c.historyId = historyId /\ c.offset = offset /\ c.after = 0
  BY NoCursorIsAny, NoCursorFields DEF HistoryCursor, AnyCursor
<1> HIDE DEF HistoryCursor
<1> QED BY <1>1, <1>2, <1>3, SyncAssumption DEF AnyCursor

\* The mailbox only grows: events are appended, what is deleted stays deleted, and what
\* changes is in the last event.
LEMMA MailboxMoves ==
    ASSUME MailboxTypeOK, LogInv, MailboxNext
    PROVE  /\ MailboxTypeOK' /\ LogInv'
           /\ HistoryId \in Nat /\ HistoryId' \in Nat
           /\ HistoryId' >= HistoryId /\ forgotten' >= forgotten
           /\ \A i \in 1..HistoryId : log'[i] = log[i]
           /\ \A m \in Mail : /\ mail[m] = "deleted" => mail'[m] = "deleted"
                              /\ mail[m] # "unsent" => mail'[m] # "unsent"
                              /\ mail[m] # "unsent" /\ m \in Present' => m \in Present
                              /\ mail'[m] # mail[m] =>
                                   HistoryId' = HistoryId + 1 /\ log'[HistoryId + 1].id = m
<1> USE DEF HistoryId
<1>1. CASE Forget
  BY <1>1, MailboxAssumption DEF Forget, MailboxTypeOK, LogInv, Present
<1>2. ASSUME NEW m \in Mail, NEW content \in {"unread", "read", "deleted"},
             NEW state \in {"load", "delete"}, Change(m, content, state),
             mail[m] # "deleted", mail[m] = "unsent" => content = "unread",
             state = "delete" <=> content = "deleted"
      PROVE  /\ MailboxTypeOK' /\ LogInv'
             /\ HistoryId \in Nat /\ HistoryId' \in Nat
             /\ HistoryId' = HistoryId + 1 /\ forgotten' = forgotten
             /\ \A i \in 1..HistoryId : log'[i] = log[i]
             /\ log'[HistoryId + 1].id = m
             /\ mail' = [mail EXCEPT ![m] = content]
  <2>1. /\ HistoryId \in Nat /\ HistoryId' = HistoryId + 1
        /\ \A i \in 1..HistoryId : log'[i] = log[i]
        /\ log'[HistoryId + 1] = [id |-> m, state |-> state]
    BY <1>2 DEF Change, MailboxTypeOK
  <2>2. mail' = [mail EXCEPT ![m] = content] /\ forgotten' = forgotten
    BY <1>2 DEF Change
  <2>3. log' \in Seq([id : Mail, state : {"load", "delete"}])
    BY <1>2 DEF Change, MailboxTypeOK
  <2>4. MailboxTypeOK'
    BY <2>1, <2>2, <2>3 DEF MailboxTypeOK
  <2>5. HistoryId' <= MaxEvents
    BY <1>2, <2>1, MailboxAssumption DEF Change
  <2>6. ASSUME NEW i \in 1..HistoryId'
        PROVE  /\ log'[i].state = "delete" => mail'[log'[i].id] = "deleted"
               /\ log'[i].state = "load" => mail'[log'[i].id] # "unsent"
    <3>1. CASE i = HistoryId + 1
      BY <1>2, <2>1, <2>2, <3>1 DEF MailboxTypeOK
    <3>2. CASE i \in 1..HistoryId
      <4>1. log[i].id \in Mail
        <5>1. log[i] \in [id : Mail, state : {"load", "delete"}]
          BY <3>2, ElementOfSeq DEF MailboxTypeOK
        <5> QED BY <5>1
      <4> QED BY <1>2, <2>1, <2>2, <3>2, <4>1 DEF MailboxTypeOK, LogInv
    <3> QED BY <2>1, <3>1, <3>2
  <2> QED BY <2>1, <2>2, <2>4, <2>5, <2>6 DEF LogInv
<1>3. ASSUME NEW m \in Mail, Arrive(m) \/ Relabel(m) \/ DeleteMessage(m)
      PROVE  /\ MailboxTypeOK' /\ LogInv'
             /\ HistoryId \in Nat /\ HistoryId' \in Nat
             /\ HistoryId' = HistoryId + 1 /\ forgotten' = forgotten
             /\ \A i \in 1..HistoryId : log'[i] = log[i]
             /\ log'[HistoryId + 1].id = m
             /\ \E content \in {"unread", "read", "deleted"} :
                  /\ mail' = [mail EXCEPT ![m] = content]
                  /\ mail[m] # "deleted" /\ (mail[m] = "unsent" => content = "unread")
  <2>1. CASE Arrive(m)
    BY <1>2, <2>1 DEF Arrive
  <2>2. CASE Relabel(m)
    BY <1>2, <2>2 DEF Relabel, Present
  <2>3. CASE DeleteMessage(m)
    BY <1>2, <2>3 DEF DeleteMessage, Present
  <2> QED BY <1>3, <2>1, <2>2, <2>3
<1>4. ASSUME NEW m \in Mail, Arrive(m) \/ Relabel(m) \/ DeleteMessage(m)
      PROVE  \A n \in Mail :
               /\ mail[n] = "deleted" => mail'[n] = "deleted"
               /\ mail[n] # "unsent" => mail'[n] # "unsent"
               /\ mail[n] # "unsent" /\ n \in Present' => n \in Present
               /\ mail'[n] # mail[n] => n = m
  BY <1>3, <1>4 DEF Present, MailboxTypeOK
<1>5. ASSUME NEW m \in Mail, Arrive(m) \/ Relabel(m) \/ DeleteMessage(m)
      PROVE  HistoryId' >= HistoryId /\ forgotten' >= forgotten
  BY <1>3, <1>5 DEF MailboxTypeOK
<1> QED BY <1>1, <1>3, <1>4, <1>5 DEF MailboxNext

\* What a run commits is a batch that the projection accepts as valid.
LEMMA BatchIsValid ==
    ASSUME IInv, Committing
    PROVE  Batch \in Batches
<1> USE DEF IInv, Types
<1>1. run.phase = "load" /\ fetch.next \in Cursors /\ run.expected \in Cursors \cup {NoCursor}
  BY DEF Committing, Delivered, NextInv, RunTypes
<1>2. /\ fetch.loaded \in Records /\ window.messages \in Records
      /\ fetch.deleted \subseteq Messages /\ Messages = Mail
      /\ window.threads \in [Threads -> SUBSET Messages]
  BY SyncAssumption DEF FetchTypes, WindowTypes
<1>3. LoadedThreads \in [Threads -> SUBSET Messages]
  BY DEF LoadedThreads, Stored
<1>4. CASE run.mode = "bounded-resync"
  <2>1. Gathered.messages \in Records /\ Gathered.threads \in [Threads -> SUBSET Messages]
    BY <1>2, <1>3 DEF Gathered, Records
  <2>2. ASSUME NEW m \in Stored(Gathered.messages)
        PROVE  m \in Gathered.threads[ThreadOf[m]]
    <3>1. m \in Messages /\ ThreadOf[m] \in Threads
      BY ProjectionAssumption DEF Stored
    <3>2. CASE fetch.loaded[m] # Absent
      <4>1. m \in LoadedThreads[ThreadOf[m]]
        BY <3>1, <3>2 DEF LoadedThreads, Stored
      <4> QED BY <3>1, <4>1 DEF Gathered
    <3>3. CASE fetch.loaded[m] = Absent
      <4>1. window.messages[m] # Absent
        BY <2>2, <3>1, <3>3 DEF Gathered, Stored
      <4>2. m \in window.threads[ThreadOf[m]]
        BY <1>2, <3>1, <4>1 DEF BatchInv
      <4> QED BY <3>1, <4>2 DEF Gathered
    <3> QED BY <3>2, <3>3
  <2> DEFINE T == [t \in Threads |-> Gathered.threads[t] \cap Stored(Gathered.messages)]
  <2>3. T \in [Threads -> SUBSET Messages]
    BY DEF Stored
  <2>4. \A m \in Stored(Gathered.messages) : m \in T[ThreadOf[m]]
    <3> TAKE m \in Stored(Gathered.messages)
    <3>1. ThreadOf[m] \in Threads
      BY ProjectionAssumption DEF Stored
    <3> QED BY <2>2, <3>1
  <2>5. Batch = [expected |-> run.expected, next |-> fetch.next, resync |-> TRUE,
                 messages |-> Gathered.messages, threads |-> T, deleted |-> {}]
    BY <1>4 DEF Batch
  <2> HIDE DEF T
  <2> QED BY <1>1, <2>1, <2>3, <2>4, <2>5 DEF Batches
<1>5. CASE run.mode # "bounded-resync"
  <2>1. \A m \in Stored(fetch.loaded) :
          m \notin fetch.deleted /\ m \in LoadedThreads[ThreadOf[m]]
    BY <1>1, <1>2, ProjectionAssumption DEF BatchInv, LoadedThreads, Stored
  <2>2. Batch = [expected |-> run.expected, next |-> fetch.next, resync |-> FALSE,
                 messages |-> fetch.loaded, threads |-> LoadedThreads,
                 deleted |-> fetch.deleted]
    BY <1>5 DEF Batch
  <2> QED BY <1>1, <1>2, <1>3, <2>1, <2>2 DEF Batches
<1> QED BY <1>4, <1>5

-------------------------------------------------------------------------------
(* What the adapter reads *)

\* The history id is a natural number within its bound.
LEMMA HistoryIds ==
    ASSUME MailboxTypeOK, LogInv
    PROVE  /\ HistoryId \in Nat /\ HistoryId \in 0..MaxEvents
           /\ forgotten \in Nat /\ forgotten <= HistoryId
BY MailboxAssumption DEF MailboxTypeOK, LogInv, HistoryId

\* What a request for a page of the listing asks for.
ReadAfter == IF run.cursor = NoCursor THEN run.after ELSE run.cursor.after
ReadHistoryId == IF run.cursor = NoCursor THEN fetch.historyId ELSE run.cursor.historyId
NextToken == ListToken(ReadAfter, run.cursor.page)
Listed == ListedPage(ReadAfter, run.cursor.page)

\* A request for a page of the listing asks for a page there is, within the window.
LEMMA ListInputs ==
    ASSUME IInv, ListMessages
    PROVE  /\ ReadAfter \in 0..MaxCutoff /\ ReadAfter <= cutoff
           /\ ReadHistoryId \in 0..HistoryId /\ ReadHistoryId \in 0..MaxEvents
           /\ run.fetched < MaxBatches
           /\ run.phase \in {"list", "request"}
           /\ \/ run.cursor = NoCursor /\ run.phase = "list" /\ run.cursor.page = 0
              \/ run.cursor \in Cursors /\ run.cursor.mode = "full" /\ run.cursor.page \in Mail
<1>1. \/ run.phase = "list"
      \/ run.phase = "request" /\ run.fetched < MaxBatches /\ run.cursor.mode = "full"
  BY DEF ListMessages, Requesting
<1> USE DEF IInv, Types
<1>2. run.cursor \in Cursors \cup {NoCursor} /\ run.phase \in {"list", "request"}
  BY <1>1 DEF RunTypes
<1>3. run.fetched < MaxBatches
  BY <1>1 DEF RunInv
<1>4. HistoryId \in Nat /\ HistoryId <= MaxEvents
  BY HistoryIds
<1>5. CASE run.cursor = NoCursor
  <2>1. run.phase = "list" /\ run.cursor.page = 0
    BY <1>1, <1>5, NoCursorFields
  <2>2. fetch.historyId \in Nat /\ fetch.historyId <= HistoryId /\ fetch.historyId <= MaxEvents
    BY <2>1, MailboxAssumption DEF RunInv, FetchTypes
  <2>3. run.after \in 0..MaxCutoff /\ run.after <= cutoff
    BY <1>2 DEF RunInv, RunTypes, Active
  <2> QED BY <1>2, <1>3, <1>4, <1>5, <2>1, <2>2, <2>3 DEF ReadAfter, ReadHistoryId
<1>6. CASE run.cursor # NoCursor
  <2>1. run.cursor \in Cursors /\ run.cursor.mode = "full"
    BY <1>1, <1>2, <1>6 DEF RunInv
  <2>2. /\ run.cursor.page \in Mail /\ run.cursor.after <= cutoff
        /\ run.cursor.historyId <= HistoryId
    BY <2>1 DEF RunInv, InMailbox
  <2> QED BY <1>2, <1>3, <1>4, <1>6, <2>1, <2>2, CursorFields DEF ReadAfter, ReadHistoryId
<1> QED BY <1>5, <1>6

\* What ListMessages puts in the batch it begins.
LEMMA MessagesListed ==
    ASSUME IInv, ListMessages
    PROVE  /\ fetch'.pending = Listed /\ Listed \subseteq Present
           /\ fetch'.loaded = NoRecords /\ fetch'.deleted = {} /\ fetch'.historyId = 0
           /\ fetch'.next \in Cursors /\ fetch'.next.offset = 0
           /\ fetch'.next.historyId = ReadHistoryId
           /\ fetch'.complete = (NextToken = 0) /\ fetch' \in
                [historyId : 0..MaxEvents, pending : SUBSET Mail, loaded : Records,
                 deleted : SUBSET Mail, next : Cursors \cup {NoCursor}, complete : BOOLEAN]
           /\ NextToken = 0 => /\ fetch'.next.mode = "history" /\ fetch'.next.page = 0
                               /\ fetch'.next.after = 0
           /\ NextToken # 0 => /\ fetch'.next.mode = "full" /\ fetch'.next.after = ReadAfter
                               /\ fetch'.next.page = NextToken
<1> DEFINE next == IF NextToken = 0 THEN HistoryCursor(ReadHistoryId, 0, 0)
                                    ELSE FullCursor(ReadAfter, NextToken, ReadHistoryId)
<1>1. fetch' = [NoFetch EXCEPT !.pending = Listed, !.next = next, !.complete = NextToken = 0]
  BY DEF ListMessages, ReadAfter, ReadHistoryId, NextToken, Listed
<1>2. ReadAfter \in Nat /\ run.cursor.page \in Nat
  BY ListInputs, MailboxAssumption, SyncAssumption DEF Mail
<1>3. NextToken \in Mail \cup {0} /\ Listed \subseteq Mail /\ Listed \subseteq Present
  BY <1>2, ListingPages DEF NextToken, Listed, Listing
<1>4. /\ next \in Cursors /\ next.offset = 0 /\ next.historyId = ReadHistoryId
      /\ NextToken = 0 => next.mode = "history" /\ next.page = 0 /\ next.after = 0
      /\ NextToken # 0 => /\ next.mode = "full" /\ next.after = ReadAfter
                          /\ next.page = NextToken
  BY <1>3, ListInputs, FullCursors, HistoryCursors, MailboxAssumption
<1>5. (NextToken = 0) \in BOOLEAN
  OBVIOUS
<1> HIDE DEF next
<1>6. NoRecords \in Records /\ 0 \in 0..MaxEvents
  BY MailboxAssumption DEF NoRecords, Records
<1>7. fetch' = [historyId |-> 0, pending |-> Listed, loaded |-> NoRecords, deleted |-> {},
                next |-> next, complete |-> (NextToken = 0)]
  BY <1>1 DEF NoFetch
<1> QED BY <1>3, <1>4, <1>5, <1>6, <1>7

\* What a request for a page of the history asks for.
PageEvents == HistoryEvents(run.cursor.historyId, run.cursor.page)
PageStart == HistoryStart(run.cursor.historyId, run.cursor.page)
PageEnd == Min({PageStart + HistoryPage, HistoryId})
NextOffset == Min({run.cursor.offset + BatchSize, Cardinality(ChangedIds(PageEvents))})
Selected == {id \in ChangedIds(PageEvents) :
               Place(PageEvents, id) \in run.cursor.offset..(NextOffset - 1)}

\* A request for a page of the history asks for a page there is, with the stored cursor.
LEMMA HistoryInputs ==
    ASSUME IInv, ListHistory
    PROVE  /\ run.phase = "request" /\ run.fetched < MaxBatches
           /\ run.cursor \in Cursors /\ run.cursor.mode = "history"
           /\ ~Resyncing /\ run.cursor = checkpoint
           /\ PageStart \in Nat /\ PageStart <= HistoryId
           /\ run.cursor.historyId <= PageStart
           /\ PageEnd \in Nat /\ PageEnd <= PageStart + HistoryPage /\ PageEnd <= HistoryId
           /\ PageEnd \in {PageStart + HistoryPage, HistoryId}
           /\ PageEvents \in Seq([id : Mail, state : {"load", "delete"}])
           /\ Len(PageEvents) = IF PageEnd > PageStart THEN PageEnd - PageStart ELSE 0
           /\ \A i \in 1..Len(PageEvents) : PageEvents[i] = log[PageStart + i]
           /\ IsFiniteSet(ChangedIds(PageEvents))
           /\ Cardinality(ChangedIds(PageEvents)) \in 0..Len(PageEvents)
           /\ ChangedIds(PageEvents) \subseteq Mail
           /\ run.cursor.offset <= Cardinality(ChangedIds(PageEvents))
           /\ NextOffset \in Nat /\ NextOffset <= run.cursor.offset + BatchSize
           /\ NextOffset <= Cardinality(ChangedIds(PageEvents))
           /\ NextOffset \in {run.cursor.offset + BatchSize, Cardinality(ChangedIds(PageEvents))}
<1> USE DEF IInv, Types
<1>1. /\ run.phase = "request" /\ run.fetched < MaxBatches /\ run.cursor.mode = "history"
      /\ run.cursor.offset <= Cardinality(ChangedIds(PageEvents))
  BY DEF ListHistory, Requesting, PageEvents
<1>2. run.cursor \in Cursors
  BY <1>1, NoCursorFields DEF RunTypes
<1>3. ~Resyncing /\ run.cursor = checkpoint
  BY <1>1, <1>2, CursorFields DEF RunInv, Active
<1>4. run.cursor.historyId \in Nat /\ run.cursor.page \in Nat /\ run.cursor.offset \in Nat
  BY <1>2, CursorFields, MailboxAssumption
<1>5. HistoryId \in Nat
  BY HistoryIds
<1>6. PageStart \in Nat /\ PageStart <= HistoryId /\ run.cursor.historyId <= PageStart
  BY <1>1, <1>4, <1>5 DEF PageStart, HistoryStart, RunInv, InMailbox
<1>7. /\ PageEnd \in Nat /\ PageEnd <= PageStart + HistoryPage /\ PageEnd <= HistoryId
      /\ PageEnd \in {PageStart + HistoryPage, HistoryId}
      /\ PageEvents \in Seq([id : Mail, state : {"load", "delete"}])
      /\ Len(PageEvents) = IF PageEnd > PageStart THEN PageEnd - PageStart ELSE 0
      /\ \A i \in 1..Len(PageEvents) : PageEvents[i] = log[PageStart + i]
      /\ IsFiniteSet(ChangedIds(PageEvents))
      /\ Cardinality(ChangedIds(PageEvents)) \in 0..Len(PageEvents)
      /\ ChangedIds(PageEvents) \subseteq Mail
  BY <1>4, PageIds DEF PageEnd, PageEvents, PageStart
<1> DEFINE S == {run.cursor.offset + BatchSize, Cardinality(ChangedIds(PageEvents))}
<1>8. Cardinality(ChangedIds(PageEvents)) \in Nat
  BY <1>7, FS_CardinalityType
<1>9. S \in SUBSET Nat /\ S # {}
  BY <1>4, <1>8, SyncAssumption
<1>10. Min(S) \in S /\ \A y \in S : Min(S) <= y
  <2> HIDE DEF S
  <2> QED BY <1>9, LeastElement
<1>11. /\ NextOffset \in Nat /\ NextOffset <= run.cursor.offset + BatchSize
       /\ NextOffset <= Cardinality(ChangedIds(PageEvents))
       /\ NextOffset \in {run.cursor.offset + BatchSize, Cardinality(ChangedIds(PageEvents))}
  BY <1>9, <1>10 DEF NextOffset
<1> QED BY <1>1, <1>2, <1>3, <1>6, <1>7, <1>11

\* Selected changes are what the events say.
LEMMA SelectedStates ==
    ASSUME IInv, ListHistory, NEW m \in ChangedIds(PageEvents)
    PROVE  /\ StateOf(PageEvents, m) \in {"load", "delete"}
           /\ StateOf(PageEvents, m) = "load" => mail[m] # "unsent"
           /\ StateOf(PageEvents, m) = "delete" => mail[m] = "deleted"
<1> DEFINE i == Max(EventsOf(PageEvents, m))
<1>1. /\ PageEvents \in Seq([id : Mail, state : {"load", "delete"}])
      /\ i \in 1..Len(PageEvents) /\ PageEvents[i].id = m
  BY HistoryInputs, Occurrences
<1>2. /\ PageStart \in Nat
      /\ Len(PageEvents) = IF PageEnd > PageStart THEN PageEnd - PageStart ELSE 0
      /\ PageEnd \in Nat /\ PageEnd <= HistoryId /\ PageEvents[i] = log[PageStart + i]
  BY <1>1, HistoryInputs
<1>3. HistoryId \in Nat
  BY HistoryIds DEF IInv, Types
<1>4. PageEvents[i] \in [id : Mail, state : {"load", "delete"}]
  BY <1>1, ElementOfSeq
<1> HIDE DEF i
<1>5. PageStart + i \in 1..HistoryId
  BY <1>1, <1>2, <1>3
<1>6. /\ log[PageStart + i].state = "delete" => mail[log[PageStart + i].id] = "deleted"
      /\ log[PageStart + i].state = "load" => mail[log[PageStart + i].id] # "unsent"
  BY <1>5 DEF IInv, LogInv
<1> QED BY <1>1, <1>2, <1>4, <1>6 DEF StateOf, i

\* What ListHistory puts in the batch it begins.
LEMMA HistoryRead ==
    ASSUME IInv, ListHistory
    PROVE  /\ fetch'.pending = {id \in Selected : StateOf(PageEvents, id) = "load"}
           /\ fetch'.deleted = {id \in Selected : StateOf(PageEvents, id) = "delete"}
           /\ fetch'.loaded = NoRecords
           /\ fetch' \in
                [historyId : 0..MaxEvents, pending : SUBSET Mail, loaded : Records,
                 deleted : SUBSET Mail, next : Cursors \cup {NoCursor}, complete : BOOLEAN]
           /\ fetch'.next \in Cursors /\ fetch'.next.mode = "history" /\ fetch'.next.after = 0
           /\ \/ /\ NextOffset < Cardinality(ChangedIds(PageEvents))
                 /\ fetch'.next.historyId = run.cursor.historyId
                 /\ fetch'.next.page = run.cursor.page /\ fetch'.next.offset = NextOffset
              \/ /\ NextOffset = Cardinality(ChangedIds(PageEvents))
                 /\ PageStart + HistoryPage < HistoryId
                 /\ fetch'.next.historyId = run.cursor.historyId
                 /\ fetch'.next.page = PageStart + HistoryPage /\ fetch'.next.offset = 0
              \/ /\ NextOffset = Cardinality(ChangedIds(PageEvents))
                 /\ PageStart + HistoryPage >= HistoryId
                 /\ fetch'.next.historyId = HistoryId
                 /\ fetch'.next.page = 0 /\ fetch'.next.offset = 0
<1> DEFINE more == NextOffset < Cardinality(ChangedIds(PageEvents))
           token == HistoryToken(run.cursor.historyId, run.cursor.page)
           next == NextHistoryCursor(run.cursor, more, NextOffset, token)
           loads == {id \in Selected : StateOf(PageEvents, id) = "load"}
           deletes == {id \in Selected : StateOf(PageEvents, id) = "delete"}
           complete == ~more /\ token = 0
<1>1. fetch' = [NoFetch EXCEPT !.pending = loads, !.deleted = deletes, !.next = next,
                               !.complete = complete]
  BY DEF ListHistory, Selected, PageEvents, NextOffset
<1>2. loads \subseteq Mail /\ deletes \subseteq Mail
  BY HistoryInputs DEF Selected
<1>3. /\ HistoryId \in Nat /\ HistoryId \in 0..MaxEvents /\ PageStart \in Nat
      /\ run.cursor.historyId \in 0..MaxEvents /\ run.cursor.page \in 0..MaxEvents
      /\ NextOffset \in 0..MaxEvents
  <2>1. run.cursor.page \in Nat /\ run.cursor.page <= HistoryId
    BY HistoryInputs, CursorFields DEF IInv, RunInv, InMailbox
  <2>2. HistoryId \in Nat /\ HistoryId <= MaxEvents
    BY HistoryIds DEF IInv, Types
  <2>3. Cardinality(ChangedIds(PageEvents)) \in Nat /\ Len(PageEvents) <= HistoryId
        /\ Cardinality(ChangedIds(PageEvents)) <= Len(PageEvents)
        /\ NextOffset \in Nat /\ NextOffset <= Cardinality(ChangedIds(PageEvents))
    BY <2>2, HistoryInputs, FS_CardinalityType
  <2>4. Len(PageEvents) \in Nat
    BY HistoryInputs
  <2> QED BY <2>1, <2>2, <2>3, <2>4, HistoryInputs, CursorFields, MailboxAssumption
<1>4. token = IF PageStart + HistoryPage < HistoryId THEN PageStart + HistoryPage ELSE 0
  BY DEF HistoryToken, PageStart
<1>5. token \in 0..MaxEvents /\ (token # 0 <=> PageStart + HistoryPage < HistoryId)
  BY <1>3, <1>4, MailboxAssumption
<1> HIDE DEF token, loads, deletes, next
<1>6. more \in BOOLEAN /\ complete \in BOOLEAN
  OBVIOUS
<1>7. NoRecords \in Records /\ 0 \in 0..MaxEvents
  BY MailboxAssumption DEF NoRecords, Records
<1>8. fetch' = [historyId |-> 0, pending |-> loads, loaded |-> NoRecords, deleted |-> deletes,
                next |-> next, complete |-> complete]
  BY <1>1 DEF NoFetch
<1> HIDE DEF complete
<1>9. next \in Cursors =>
        fetch' \in [historyId : 0..MaxEvents, pending : SUBSET Mail, loaded : Records,
                    deleted : SUBSET Mail, next : Cursors \cup {NoCursor}, complete : BOOLEAN]
  BY <1>2, <1>6, <1>7, <1>8
<1>10. /\ fetch'.next = next /\ fetch'.loaded = NoRecords
       /\ fetch'.pending = loads /\ fetch'.deleted = deletes
  BY <1>8
<1>11. CASE more
  <2>1. next = HistoryCursor(run.cursor.historyId, run.cursor.page, NextOffset)
    BY <1>11 DEF NextHistoryCursor, next
  <2>2. /\ next \in Cursors /\ next.mode = "history"
        /\ next.historyId = run.cursor.historyId
        /\ next.page = run.cursor.page /\ next.offset = NextOffset /\ next.after = 0
    BY <1>3, <2>1, HistoryCursors
  <2> QED BY <1>9, <1>10, <1>11, <2>2 DEF loads, deletes
<1>12. ~more => NextOffset = Cardinality(ChangedIds(PageEvents))
  <2>1. Cardinality(ChangedIds(PageEvents)) \in Nat
    BY HistoryInputs, FS_CardinalityType
  <2> QED BY <1>3, <2>1, HistoryInputs
<1>13. CASE ~more /\ token # 0
  <2>1. next = HistoryCursor(run.cursor.historyId, token, 0)
    BY <1>13 DEF NextHistoryCursor, next
  <2>2. /\ next \in Cursors /\ next.mode = "history"
        /\ next.historyId = run.cursor.historyId
        /\ next.page = token /\ next.offset = 0 /\ next.after = 0
    BY <1>3, <1>5, <1>7, <2>1, HistoryCursors
  <2> QED BY <1>4, <1>5, <1>9, <1>10, <1>12, <1>13, <2>2 DEF loads, deletes
<1>14. CASE ~more /\ token = 0
  <2>1. next = HistoryCursor(HistoryId, 0, 0)
    BY <1>14 DEF NextHistoryCursor, next
  <2>2. /\ next \in Cursors /\ next.mode = "history" /\ next.historyId = HistoryId
        /\ next.page = 0 /\ next.offset = 0 /\ next.after = 0
    BY <1>3, <1>7, <2>1, HistoryCursors
  <2>3. PageStart + HistoryPage >= HistoryId
    BY <1>3, <1>5, <1>14, MailboxAssumption
  <2> QED BY <1>9, <1>10, <1>12, <1>14, <2>2, <2>3 DEF loads, deletes
<1> QED BY <1>6, <1>11, <1>13, <1>14

-------------------------------------------------------------------------------
(* The types are kept *)

\* Nothing stored is a set of records.
LEMMA Empties ==
    /\ NoRecords \in Records /\ NoThreads \in [Threads -> SUBSET Messages]
    /\ \A m \in Mail : NoRecords[m] = Absent
    /\ Mail = Messages
BY SyncAssumption DEF NoRecords, NoThreads, Records

\* A settled run has its types.
LEMMA IdleTypes ==
    ASSUME RunTypes, cutoff' = cutoff, NEW result \in {"synced", "limit", "refused", "abandoned"},
           Settle(result)
    PROVE  RunTypes' /\ FetchTypes' /\ WindowTypes'
<1>1. NoFetch \in [historyId : 0..MaxEvents, pending : SUBSET Mail, loaded : Records,
                   deleted : SUBSET Mail, next : Cursors \cup {NoCursor}, complete : BOOLEAN]
  BY Empties, MailboxAssumption DEF NoFetch
<1>2. NoWindow \in [messages : Records, threads : [Threads -> SUBSET Messages]]
  BY Empties DEF NoWindow
<1>3. Idle \in [phase : {"idle", "request", "list", "load"},
                mode : {"initial", "incremental", "bounded-resync"},
                cursor : Cursors \cup {NoCursor}, expected : Cursors \cup {NoCursor},
                after : 0..MaxCutoff, now : 0..MaxCutoff, fetched : 0..MaxBatches]
  BY SyncAssumption DEF Idle
<1> QED BY <1>1, <1>2, <1>3 DEF Settle, RunTypes, FetchTypes, WindowTypes

\* What a window gathers has its types.
LEMMA GatheredTypes ==
    ASSUME FetchTypes, WindowTypes
    PROVE  Gathered \in [messages : Records, threads : [Threads -> SUBSET Messages]]
<1>1. \A m \in Messages : /\ fetch.loaded[m] \in Contents \cup {Absent}
                          /\ window.messages[m] \in Contents \cup {Absent}
  BY DEF FetchTypes, WindowTypes, Records
<1>2. LoadedThreads \in [Threads -> SUBSET Messages]
  BY DEF LoadedThreads, Stored
<1>3. window.threads \in [Threads -> SUBSET Messages]
  BY DEF WindowTypes
<1> QED BY <1>1, <1>2, <1>3 DEF Gathered, Records

\* A step that leaves the mailbox alone keeps what is known of it.
LEMMA MailboxIsKept ==
    ASSUME MailboxTypeOK, LogInv, UNCHANGED mailboxVars
    PROVE  MailboxTypeOK' /\ LogInv' /\ Present' = Present /\ HistoryId' = HistoryId
BY DEF mailboxVars, MailboxTypeOK, LogInv, Present, HistoryId

\* Every step keeps the types and the log of the mailbox.
LEMMA MailboxPart ==
    ASSUME IInv, [Next]_vars
    PROVE  MailboxTypeOK' /\ LogInv'
<1> USE DEF IInv, Types
<1>1. CASE MailboxChanges
  BY <1>1, MailboxMoves DEF MailboxChanges
<1>2. CASE UNCHANGED mailboxVars
  BY <1>2, MailboxIsKept
<1> QED
  BY <1>1, <1>2
  DEF Next, RunStep, StartSync, ReachBatchLimit, ReadProfile, ListMessages, ListHistory,
      RecoverCursor, LoadMessage, GatherBatch, CommitBatch, RejectBatch, Abandon,
      ClockMoves, Retain, vars

\* Every step keeps the types of the projection.
LEMMA ProjectionPart ==
    ASSUME IInv, [Next]_vars
    PROVE  ProjectionTypeOK'
<1> USE DEF IInv, Types
<1>1. CASE UNCHANGED projectionVars
  BY <1>1 DEF projectionVars, ProjectionTypeOK
<1>2. CASE CommitBatch
  BY <1>2, BatchIsValid, ApplyBatchType DEF CommitBatch
<1>3. CASE Retain
  BY <1>3, ApplyRetentionType DEF Retain
<1>4. CASE RejectBatch
  BY <1>1, <1>4 DEF RejectBatch, RefuseBatch
<1> QED
  BY <1>1, <1>2, <1>3, <1>4
  DEF Next, RunStep, StartSync, ReachBatchLimit, ReadProfile, ListMessages, ListHistory,
      RecoverCursor, LoadMessage, GatherBatch, Abandon, MailboxChanges, ClockMoves, vars

\* Every step keeps the types of the run.
LEMMA RunPart ==
    ASSUME IInv, [Next]_vars
    PROVE  RunTypes' /\ FetchTypes' /\ WindowTypes'
<1> USE DEF IInv, Types
<1>1. CASE StartSync
  <2>1. checkpoint \in Cursors \cup {NoCursor} /\ cutoff \in 0..MaxCutoff
    BY DEF ProjectionTypeOK, RunTypes
  <2> DEFINE mode == IF checkpoint = NoCursor THEN "initial" ELSE "incremental"
             after == IF checkpoint = NoCursor THEN cutoff ELSE 0
  <2>2. mode \in {"initial", "incremental", "bounded-resync"} /\ after \in 0..MaxCutoff
    BY <2>1, SyncAssumption
  <2>3. run' = [phase |-> "request", mode |-> mode, cursor |-> checkpoint,
                expected |-> checkpoint, after |-> after, now |-> cutoff, fetched |-> 0]
    BY <1>1 DEF StartSync, Idle
  <2> HIDE DEF mode, after
  <2>4. RunTypes'
    BY <1>1, <2>1, <2>2, <2>3, SyncAssumption DEF StartSync, RunTypes
  <2> QED BY <1>1, <2>4 DEF StartSync, FetchTypes, WindowTypes
<1>2. CASE ReachBatchLimit \/ RejectBatch \/ Abandon
  BY <1>2, IdleTypes DEF ReachBatchLimit, RejectBatch, Abandon
<1>3. CASE ReadProfile
  <2>1. fetch' = [historyId |-> HistoryId, pending |-> {}, loaded |-> NoRecords,
                  deleted |-> {}, next |-> NoCursor, complete |-> FALSE]
    BY <1>3 DEF ReadProfile, NoFetch
  <2>2. FetchTypes'
    BY <2>1, HistoryIds, Empties DEF FetchTypes
  <2> QED BY <1>3, <2>2 DEF ReadProfile, RunTypes, WindowTypes
<1>4. CASE ListMessages
  BY <1>4, MessagesListed DEF ListMessages, RunTypes, FetchTypes, WindowTypes
<1>5. CASE ListHistory
  BY <1>5, HistoryRead DEF ListHistory, RunTypes, FetchTypes, WindowTypes
<1>6. CASE RecoverCursor
  BY <1>6 DEF RecoverCursor, RunTypes, FetchTypes, WindowTypes
<1>7. ASSUME NEW m \in Mail, LoadMessage(m)
      PROVE  RunTypes' /\ FetchTypes' /\ WindowTypes'
  <2>1. m \in Present => mail[m] \in Contents
    BY SyncAssumption DEF Present
  <2> QED BY <1>7, <2>1, Empties DEF LoadMessage, RunTypes, FetchTypes, WindowTypes, Records
<1>8. CASE GatherBatch
  <2>1. run.fetched + 1 \in 0..MaxBatches
    BY <1>8, SyncAssumption DEF GatherBatch, Delivered, RunInv, RunTypes
  <2>2. RunTypes'
    BY <1>8, <2>1 DEF GatherBatch, RunTypes, FetchTypes
  <2>3. NoFetch \in [historyId : 0..MaxEvents, pending : SUBSET Mail, loaded : Records,
                     deleted : SUBSET Mail, next : Cursors \cup {NoCursor}, complete : BOOLEAN]
    BY Empties, MailboxAssumption DEF NoFetch
  <2> QED BY <1>8, <2>2, <2>3, GatheredTypes DEF GatherBatch, FetchTypes, WindowTypes
<1>9. CASE CommitBatch
  <2>1. CASE fetch.complete
    BY <1>9, <2>1, IdleTypes DEF CommitBatch
  <2>2. CASE ~fetch.complete
    <3>1. run.fetched + 1 \in 0..MaxBatches
      BY <1>9, SyncAssumption DEF CommitBatch, Committing, Delivered, RunInv, RunTypes
    <3>2. RunTypes'
      BY <1>9, <2>2, <3>1 DEF CommitBatch, RunTypes, FetchTypes
    <3>3. NoFetch \in [historyId : 0..MaxEvents, pending : SUBSET Mail, loaded : Records,
                       deleted : SUBSET Mail, next : Cursors \cup {NoCursor}, complete : BOOLEAN]
      BY Empties, MailboxAssumption DEF NoFetch
    <3> QED BY <1>9, <2>2, <3>2, <3>3 DEF CommitBatch, FetchTypes, WindowTypes
  <2> QED BY <2>1, <2>2
<1>10. CASE ClockMoves
  BY <1>10, SyncAssumption DEF ClockMoves, RunTypes, FetchTypes, WindowTypes
<1>11. CASE MailboxChanges \/ Retain \/ UNCHANGED vars
  BY <1>11 DEF MailboxChanges, Retain, vars, RunTypes, FetchTypes, WindowTypes
<1> QED
  BY <1>1, <1>2, <1>3, <1>4, <1>5, <1>6, <1>7, <1>8, <1>9, <1>10, <1>11 DEF Next, RunStep

\* A cursor that points into the mailbox points into a mailbox that has grown.
LEMMA InMailboxIsKept ==
    ASSUME HistoryId \in Nat, HistoryId' \in Nat, HistoryId' >= HistoryId,
           cutoff \in Nat, cutoff' \in Nat, cutoff' >= cutoff,
           NEW c \in Cursors \cup {NoCursor}, InMailbox(c)
    PROVE  /\ c.historyId <= HistoryId'
           /\ c.mode = "full" => c.page \in Mail /\ c.after <= cutoff'
           /\ c.mode = "history" => /\ c.page <= HistoryId'
                                    /\ c.page # 0 => c.page > c.historyId
                                    /\ c.after = 0
<1>1. c.historyId \in Nat /\ c.page \in Nat /\ c.after \in Nat
  BY CursorFields, NoCursorFields, MailboxAssumption, SyncAssumption
<1> QED BY <1>1 DEF InMailbox

-------------------------------------------------------------------------------
(* What a run knows is kept *)

\* Nothing that a run knows of the mailbox is undone by it.
LEMMA EnvironmentGrows ==
    ASSUME IInv, MailboxChanges \/ ClockMoves
    PROVE  /\ HistoryId \in Nat /\ HistoryId' \in Nat /\ HistoryId' >= HistoryId
           /\ cutoff \in Nat /\ cutoff' \in Nat /\ cutoff' >= cutoff
           /\ forgotten' >= forgotten /\ forgotten \in Nat /\ forgotten' \in Nat
           /\ UNCHANGED <<projectionVars, run, fetch, window>>
<1> USE DEF IInv, Types
<1>1. HistoryId \in Nat /\ cutoff \in Nat /\ forgotten \in Nat
  BY HistoryIds, SyncAssumption DEF RunTypes
<1>2. CASE MailboxChanges
  BY <1>1, <1>2, MailboxMoves, HistoryIds DEF MailboxChanges, MailboxTypeOK
<1>3. CASE ClockMoves
  BY <1>1, <1>3, MailboxIsKept DEF ClockMoves, mailboxVars
<1> QED BY <1>2, <1>3

\* The cursors at hand point into the mailbox after it has changed.
LEMMA CursorsStayInMailbox ==
    ASSUME IInv, MailboxChanges \/ ClockMoves
    PROVE  /\ InMailbox(checkpoint)' /\ InMailbox(run.cursor)'
           /\ run.phase = "load" => InMailbox(fetch.next)'
<1> USE DEF IInv, Types
<1>1. /\ checkpoint \in Cursors \cup {NoCursor} /\ run.cursor \in Cursors \cup {NoCursor}
      /\ fetch.next \in Cursors \cup {NoCursor}
      /\ InMailbox(checkpoint) /\ InMailbox(run.cursor)
      /\ run.phase = "load" => InMailbox(fetch.next)
  BY DEF ProjectionTypeOK, RunTypes, FetchTypes, RunInv, NextInv
<1>2. checkpoint' = checkpoint /\ run' = run /\ fetch' = fetch
  BY EnvironmentGrows DEF projectionVars
<1>3. InMailbox(checkpoint)'
  BY <1>1, <1>2, EnvironmentGrows, InMailboxIsKept DEF InMailbox
<1>4. InMailbox(run.cursor)'
  BY <1>1, <1>2, EnvironmentGrows, InMailboxIsKept DEF InMailbox
<1>5. run.phase = "load" => InMailbox(fetch.next)'
  BY <1>1, <1>2, EnvironmentGrows, InMailboxIsKept DEF InMailbox
<1> QED BY <1>3, <1>4, <1>5

\* Where a run settles, what it knew does not matter.
LEMMA SettledRun ==
    ASSUME NEW result, Settle(result), InMailbox(checkpoint)'
    PROVE  RunInv' /\ NextInv' /\ KeepInv'
<1>1. run' = Idle /\ window' = NoWindow
  BY DEF Settle
<1>2. Idle.phase = "idle" /\ Idle.cursor = NoCursor
  BY DEF Idle
<1>3. InMailbox(run.cursor)'
  <2>1. HistoryId' \in Nat
    BY DEF HistoryId
  <2> QED BY <1>1, <1>2, <2>1, NoCursorFields DEF InMailbox
<1> QED BY <1>1, <1>2, <1>3 DEF RunInv, NextInv, KeepInv, Active, Resyncing

\* Every step keeps what a run knows of the checkpoint and of its cursor.
LEMMA RunInvIsKept ==
    ASSUME IInv, [Next]_vars
    PROVE  RunInv'
<1> USE DEF IInv, Types
<1>0. /\ HistoryId \in Nat /\ cutoff \in Nat /\ forgotten \in Nat /\ forgotten <= HistoryId
      /\ checkpoint \in Cursors \cup {NoCursor} /\ run.cursor \in Cursors \cup {NoCursor}
  BY HistoryIds, SyncAssumption DEF RunTypes, ProjectionTypeOK
<1>1. CASE StartSync
  <2>1. UNCHANGED <<HistoryId, cutoff, checkpoint, forgotten, window>>
    BY <1>1 DEF StartSync, HistoryId, mailboxVars, projectionVars
  <2>2. /\ run'.phase = "request" /\ run'.cursor = checkpoint /\ run'.expected = checkpoint
        /\ run'.mode # "bounded-resync" /\ run'.now = cutoff /\ run'.after \in {0, cutoff}
    BY <1>1 DEF StartSync, Idle
  <2>3. window = NoWindow
    BY <1>1 DEF StartSync, RunInv, Resyncing, Active
  <2> QED BY <1>0, <2>1, <2>2, <2>3 DEF RunInv, InMailbox, Active, Resyncing
<1>2. CASE ReachBatchLimit \/ Abandon
  <2>1. InMailbox(checkpoint)'
    BY <1>2
    DEF ReachBatchLimit, Abandon, mailboxVars, projectionVars, InMailbox, HistoryId, RunInv
  <2> QED BY <1>2, <2>1, SettledRun DEF ReachBatchLimit, Abandon
<1>3. CASE ReadProfile
  <2>1. UNCHANGED <<HistoryId, cutoff, checkpoint, forgotten, window>>
    BY <1>3 DEF ReadProfile, HistoryId, mailboxVars, projectionVars
  <2>2. /\ run' = [run EXCEPT !.phase = "list"] /\ fetch'.historyId = HistoryId
        /\ run.phase = "request" /\ run.cursor = NoCursor /\ run.fetched < MaxBatches
    BY <1>3 DEF ReadProfile, Requesting, NoFetch
  <2>3. /\ run'.phase = "list" /\ run'.cursor = run.cursor /\ run'.expected = run.expected
        /\ run'.mode = run.mode /\ run'.after = run.after /\ run'.now = run.now
        /\ run'.fetched = run.fetched
    BY <2>2 DEF RunTypes
  <2>4. Resyncing => HistoryId > checkpoint.historyId
    BY <1>0, CursorFields, NoCursorFields DEF RunInv
  <2> QED BY <1>0, <2>1, <2>2, <2>3, <2>4 DEF RunInv, InMailbox, Active, Resyncing
<1>4. CASE ListMessages \/ ListHistory
  <2>1. UNCHANGED <<HistoryId, cutoff, checkpoint, forgotten, window>>
    BY <1>4 DEF ListMessages, ListHistory, HistoryId, mailboxVars, projectionVars
  <2>2. run.phase \in {"request", "list"} /\ run.fetched < MaxBatches
    BY <1>4, ListInputs, HistoryInputs
  <2>3. run' = [run EXCEPT !.phase = "load"]
    BY <1>4 DEF ListMessages, ListHistory
  <2>4. /\ run'.phase = "load" /\ run'.cursor = run.cursor /\ run'.expected = run.expected
        /\ run'.mode = run.mode /\ run'.after = run.after /\ run'.now = run.now
        /\ run'.fetched = run.fetched
    BY <2>3 DEF RunTypes
  <2> QED BY <2>1, <2>2, <2>4 DEF RunInv, InMailbox, Active, Resyncing
<1>5. CASE RecoverCursor
  <2>1. UNCHANGED <<HistoryId, cutoff, checkpoint, forgotten, window>>
    BY <1>5 DEF RecoverCursor, HistoryId, mailboxVars, projectionVars
  <2>2. /\ run.phase = "request" /\ run.cursor.mode = "history"
        /\ run.cursor.historyId < forgotten /\ run.mode # "bounded-resync"
    BY <1>5 DEF RecoverCursor, Requesting
  <2>3. /\ run'.phase = "request" /\ run'.cursor = NoCursor /\ run'.expected = run.expected
        /\ run'.mode = "bounded-resync" /\ run'.after = run.now /\ run'.now = run.now
    BY <1>5, <2>2 DEF RecoverCursor, RunTypes
  <2>4. checkpoint = run.cursor /\ window = NoWindow
    BY <2>2 DEF RunInv, Active, Resyncing
  <2>5. NoCursor.historyId <= HistoryId /\ NoCursor.mode = "none"
    BY <1>0, NoCursorFields
  <2> QED BY <1>0, <2>1, <2>2, <2>3, <2>4, <2>5 DEF RunInv, InMailbox, Active, Resyncing
<1>6. ASSUME NEW m \in Mail, LoadMessage(m)
      PROVE  RunInv'
  <2>1. UNCHANGED <<HistoryId, cutoff, checkpoint, forgotten, window, run>>
    BY <1>6 DEF LoadMessage, HistoryId, mailboxVars, projectionVars
  <2>2. fetch'.historyId = fetch.historyId
    BY <1>6 DEF LoadMessage, FetchTypes
  <2> QED BY <2>1, <2>2 DEF RunInv, InMailbox, Active, Resyncing
<1>7. CASE GatherBatch
  <2>1. UNCHANGED <<HistoryId, cutoff, checkpoint, forgotten>>
    BY <1>7 DEF GatherBatch, HistoryId, mailboxVars, projectionVars
  <2>2. run.phase = "load" /\ Resyncing /\ ~fetch.complete
    BY <1>7 DEF GatherBatch, Delivered, Resyncing, Active
  <2>3. /\ run'.phase = "request" /\ run'.cursor = fetch.next /\ run'.expected = run.expected
        /\ run'.mode = run.mode /\ run'.after = run.after /\ run'.now = run.now
    BY <1>7 DEF GatherBatch, RunTypes
  <2>4. /\ InMailbox(fetch.next) /\ fetch.next \in Cursors /\ fetch.next.mode = "full"
        /\ fetch.next.historyId > checkpoint.historyId
    BY <2>2 DEF NextInv
  <2> QED BY <2>1, <2>2, <2>3, <2>4, CursorFields DEF RunInv, InMailbox, Active, Resyncing
<1>8. CASE CommitBatch
  <2>1. UNCHANGED <<HistoryId, cutoff, forgotten>> /\ checkpoint' = fetch.next
    BY <1>8 DEF CommitBatch, ApplyBatch, Batch, HistoryId, mailboxVars
  <2>2. run.phase = "load" /\ (Resyncing => fetch.complete)
    BY <1>8 DEF CommitBatch, Committing, Delivered, Resyncing
  <2>3. InMailbox(fetch.next)
    BY <2>2 DEF NextInv
  <2>4. InMailbox(checkpoint)'
    BY <2>1, <2>3 DEF InMailbox
  <2>5. CASE fetch.complete
    BY <1>8, <2>4, <2>5, SettledRun DEF CommitBatch
  <2>6. CASE ~fetch.complete
    <3>1. /\ run'.phase = "request" /\ run'.cursor = fetch.next /\ run'.expected = fetch.next
          /\ run'.mode = run.mode /\ run'.after = run.after /\ run'.now = run.now
          /\ window' = window
      BY <1>8, <2>6 DEF CommitBatch, RunTypes
    <3>2. ~Resyncing /\ run.mode # "bounded-resync"
      BY <2>2, <2>6 DEF Resyncing, Active
    <3> QED BY <2>1, <2>2, <2>3, <2>4, <3>1, <3>2 DEF RunInv, InMailbox, Active, Resyncing
  <2> QED BY <2>5, <2>6
<1>9. CASE RejectBatch
  <2>1. InMailbox(checkpoint)'
    BY <1>9
    DEF RejectBatch, RefuseBatch, mailboxVars, projectionVars, InMailbox, HistoryId, RunInv
  <2> QED BY <1>9, <2>1, SettledRun DEF RejectBatch
<1>10. CASE MailboxChanges \/ ClockMoves
  <2>1. checkpoint' = checkpoint /\ run' = run /\ fetch' = fetch /\ window' = window
    BY <1>10, EnvironmentGrows DEF projectionVars
  <2>2. Active => run.after \in Nat /\ run.now \in Nat
    BY SyncAssumption DEF RunTypes
  <2>3. fetch.historyId \in Nat /\ (Resyncing => checkpoint.historyId \in Nat)
    BY <1>0, CursorFields, NoCursorFields, MailboxAssumption DEF FetchTypes
  <2> QED
    BY <1>10, <2>1, <2>2, <2>3, EnvironmentGrows, CursorsStayInMailbox
    DEF RunInv, Active, Resyncing
<1>11. CASE Retain \/ UNCHANGED vars
  BY <1>11 DEF Retain, ApplyRetention, vars, mailboxVars, projectionVars, RunInv, InMailbox,
               Active, Resyncing, HistoryId
<1> QED
  BY <1>1, <1>2, <1>3, <1>4, <1>5, <1>6, <1>7, <1>8, <1>9, <1>10, <1>11 DEF Next, RunStep

-------------------------------------------------------------------------------
(* What a batch holds is kept *)

\* A batch in the making is one that was just asked for.
LEMMA NotLoading ==
    ASSUME RunTypes,
           \/ StartSync \/ ReachBatchLimit \/ ReadProfile \/ RecoverCursor \/ GatherBatch
           \/ RejectBatch \/ Abandon \/ CommitBatch
    PROVE  run'.phase # "load"
<1>1. CASE StartSync
  BY <1>1 DEF StartSync, Idle
<1>2. CASE ReachBatchLimit \/ RejectBatch \/ Abandon
  BY <1>2 DEF ReachBatchLimit, RejectBatch, Abandon, Settle, Idle
<1>3. CASE ReadProfile
  BY <1>3 DEF ReadProfile, RunTypes
<1>4. CASE RecoverCursor
  <2>1. run.phase = "request"
    BY <1>4 DEF RecoverCursor, Requesting
  <2> QED BY <1>4, <2>1 DEF RecoverCursor, RunTypes
<1>5. CASE GatherBatch
  BY <1>5 DEF GatherBatch, RunTypes
<1>6. CASE CommitBatch
  <2>1. CASE fetch.complete
    BY <1>6, <2>1 DEF CommitBatch, Settle, Idle
  <2>2. CASE ~fetch.complete
    BY <1>6, <2>2 DEF CommitBatch, RunTypes
  <2> QED BY <2>1, <2>2
<1> QED BY <1>1, <1>2, <1>3, <1>4, <1>5, <1>6

\* Every step keeps a batch that continues behind the checkpoint.
LEMMA NextInvIsKept ==
    ASSUME IInv, [Next]_vars
    PROVE  NextInv'
<1> USE DEF IInv, Types
<1>0. /\ HistoryId \in Nat /\ cutoff \in Nat
      /\ checkpoint \in Cursors \cup {NoCursor}
  BY HistoryIds, SyncAssumption DEF RunTypes, ProjectionTypeOK
<1>1. CASE run'.phase # "load"
  BY <1>1 DEF NextInv
<1>2. CASE ListMessages
  <2>1. UNCHANGED <<HistoryId, cutoff, checkpoint>>
    BY <1>2 DEF ListMessages, HistoryId, mailboxVars, projectionVars
  <2>2. /\ run'.mode = run.mode /\ run'.cursor = run.cursor /\ run'.phase = "load"
        /\ run.phase # "idle"
    BY <1>2, ListInputs DEF ListMessages, RunTypes
  <2> DEFINE next == fetch'.next
  <2>3. /\ next \in Cursors /\ next.historyId = ReadHistoryId /\ next.offset = 0
        /\ fetch'.complete = (NextToken = 0)
        /\ NextToken = 0 => next.mode = "history" /\ next.page = 0 /\ next.after = 0
        /\ NextToken # 0 => /\ next.mode = "full" /\ next.after = ReadAfter
                            /\ next.page = NextToken
    BY <1>2, MessagesListed
  <2>4. /\ ReadAfter \in Nat /\ ReadAfter <= cutoff /\ ReadHistoryId \in Nat
        /\ ReadHistoryId <= HistoryId
        /\ \/ run.cursor = NoCursor /\ run.phase = "list" /\ run.cursor.page = 0
           \/ run.cursor \in Cursors /\ run.cursor.mode = "full" /\ run.cursor.page \in Mail
    BY <1>0, <1>2, ListInputs, SyncAssumption
  <2>5. /\ NextToken \in Mail \cup {0}
        /\ NextToken # 0 /\ run.cursor.page # 0 => NextToken < run.cursor.page
    BY <2>4, ListingPages, MailboxAssumption DEF NextToken, Mail
  <2> HIDE DEF next
  <2>6. InMailbox(fetch.next)'
    <3>1. next.historyId <= HistoryId'
      BY <2>1, <2>3, <2>4
    <3>2. NextToken # 0 => next.page \in Mail /\ next.after <= cutoff'
      BY <2>1, <2>3, <2>4, <2>5
    <3>3. NextToken = 0 => next.mode = "history" /\ next.page = 0 /\ next.after = 0
      BY <2>3
    <3>4. 0 <= HistoryId'
      BY <1>0, <2>1
    <3> QED BY <2>3, <3>1, <3>2, <3>3, <3>4 DEF InMailbox, next
  <2>7. ~Resyncing => run.cursor = checkpoint /\ Advances(checkpoint, next)
    <3> SUFFICES ASSUME ~Resyncing PROVE run.cursor = checkpoint /\ Advances(checkpoint, next)
      OBVIOUS
    <3>1. run.cursor = checkpoint
      BY <2>2 DEF RunInv, Active
    <3>2. CASE checkpoint = NoCursor
      BY <3>1, <3>2 DEF Advances
    <3>3. CASE checkpoint # NoCursor
      <4>1. /\ checkpoint.mode = "full" /\ checkpoint.page # 0
            /\ ReadHistoryId = checkpoint.historyId
        BY <2>4, <3>1, <3>3, MailboxAssumption DEF ReadHistoryId, Mail
      <4> QED BY <2>3, <2>4, <2>5, <3>1, <4>1 DEF Advances
    <3> QED BY <3>2, <3>3
  <2>8. Resyncing => next.historyId > checkpoint.historyId
    BY <2>3, <2>4, CursorFields DEF RunInv, ReadHistoryId
  <2>9. NextInv'
    <3>1. Resyncing' = Resyncing
      BY <2>2 DEF Resyncing, Active
    <3> QED BY <2>1, <2>3, <2>6, <2>7, <2>8, <3>1 DEF NextInv, next, Advances
  <2> QED BY <2>9
<1>3. CASE ListHistory
  <2>1. UNCHANGED <<HistoryId, cutoff, checkpoint>>
    BY <1>3 DEF ListHistory, HistoryId, mailboxVars, projectionVars
  <2>2. /\ run'.mode = run.mode /\ run'.cursor = run.cursor /\ run'.phase = "load"
        /\ run.phase = "request"
    BY <1>3, HistoryInputs DEF ListHistory, RunTypes
  <2> DEFINE next == fetch'.next
             c == run.cursor
  <2>3. /\ next \in Cursors /\ next.mode = "history" /\ next.after = 0
        /\ \/ /\ NextOffset < Cardinality(ChangedIds(PageEvents))
              /\ next.historyId = c.historyId /\ next.page = c.page
              /\ next.offset = NextOffset
           \/ /\ NextOffset = Cardinality(ChangedIds(PageEvents))
              /\ PageStart + HistoryPage < HistoryId
              /\ next.historyId = c.historyId
              /\ next.page = PageStart + HistoryPage /\ next.offset = 0
           \/ /\ NextOffset = Cardinality(ChangedIds(PageEvents))
              /\ PageStart + HistoryPage >= HistoryId
              /\ next.historyId = HistoryId
              /\ next.page = 0 /\ next.offset = 0
    BY <1>3, HistoryRead
  <2>4. /\ c \in Cursors /\ c.mode = "history" /\ ~Resyncing /\ c = checkpoint
        /\ PageStart \in Nat /\ PageStart <= HistoryId /\ c.historyId <= PageStart
    BY <1>3, HistoryInputs
  <2>5. /\ c.historyId \in Nat /\ c.page \in Nat /\ c.offset \in Nat
        /\ c.page <= HistoryId /\ (c.page # 0 => c.page > c.historyId)
        /\ PageStart = IF c.page = 0 THEN c.historyId ELSE c.page
        /\ c.after = 0
    BY <2>4, CursorFields, MailboxAssumption DEF RunInv, InMailbox, PageStart, HistoryStart
  <2>6. /\ HistoryPage \in Nat /\ HistoryPage > 0 /\ BatchSize \in Nat /\ BatchSize > 0
    BY MailboxAssumption, SyncAssumption
  <2>7. /\ NextOffset \in Nat /\ c.offset <= Cardinality(ChangedIds(PageEvents))
        /\ NextOffset \in {c.offset + BatchSize, Cardinality(ChangedIds(PageEvents))}
        /\ Cardinality(ChangedIds(PageEvents)) \in 0..Len(PageEvents) /\ Len(PageEvents) \in Nat
        /\ Len(PageEvents) = IF PageEnd > PageStart THEN PageEnd - PageStart ELSE 0
        /\ PageEnd \in Nat /\ PageEnd <= HistoryId
    BY <1>3, HistoryInputs
  <2> HIDE DEF next, c
  <2>8. InMailbox(fetch.next)'
    BY <1>0, <2>1, <2>3, <2>4, <2>5, <2>6 DEF InMailbox, next, c
  <2>9. next = c \/ Advances(c, next)
    <3>1. CASE NextOffset < Cardinality(ChangedIds(PageEvents))
      <4>1. NextOffset > c.offset
        BY <2>5, <2>6, <2>7, <3>1
      <4> QED BY <2>3, <2>4, <2>5, <2>7, <3>1, <4>1 DEF Advances
    <3>2. CASE PageStart + HistoryPage < HistoryId /\ next.page = PageStart + HistoryPage
                 /\ next.historyId = c.historyId
      <4>1. next.page > c.page
        BY <2>4, <2>5, <2>6, <3>2
      <4> QED BY <2>3, <2>4, <3>2, <4>1 DEF Advances
    <3>3. CASE next.historyId = HistoryId /\ next.page = 0 /\ next.offset = 0
      <4>1. CASE HistoryId > c.historyId
        BY <2>3, <2>4, <3>3, <4>1 DEF Advances
      <4>2. CASE HistoryId = c.historyId
        <5>1. c.page = 0
          BY <2>5, <4>2
        <5>2. PageStart = HistoryId /\ Len(PageEvents) = 0
          BY <1>0, <2>5, <2>7, <4>2, <5>1
        <5>3. c.offset = 0
          BY <2>5, <2>7, <5>2
        <5> QED BY <2>3, <2>4, <2>5, <3>3, <4>2, <5>1, <5>3, SyncAssumption
      <4> QED BY <1>0, <2>4, <2>5, <4>1, <4>2
    <3> QED BY <2>3, <3>1, <3>2, <3>3
  <2>10. Resyncing' = Resyncing
    BY <2>2 DEF Resyncing, Active
  <2> QED BY <2>1, <2>3, <2>4, <2>8, <2>9, <2>10 DEF NextInv, next, c, Advances
<1>4. ASSUME NEW m \in Mail, LoadMessage(m)
      PROVE  NextInv'
  <2>1. UNCHANGED <<HistoryId, cutoff, checkpoint, run>>
    BY <1>4 DEF LoadMessage, HistoryId, mailboxVars, projectionVars
  <2>2. fetch'.next = fetch.next /\ fetch'.complete = fetch.complete
    BY <1>4 DEF LoadMessage, FetchTypes
  <2> QED BY <2>1, <2>2 DEF NextInv, InMailbox, Resyncing, Active, Advances
<1>5. CASE MailboxChanges \/ ClockMoves
  <2>1. checkpoint' = checkpoint /\ run' = run /\ fetch' = fetch
    BY <1>5, EnvironmentGrows DEF projectionVars
  <2> QED
    BY <1>5, <2>1, CursorsStayInMailbox DEF NextInv, Active, Resyncing, Advances
<1>6. CASE Retain \/ UNCHANGED vars
  BY <1>6 DEF Retain, ApplyRetention, vars, mailboxVars, projectionVars, NextInv, InMailbox,
              Active, Resyncing, HistoryId, Advances
<1>7. CASE StartSync \/ ReachBatchLimit \/ ReadProfile \/ RecoverCursor \/ GatherBatch
             \/ RejectBatch \/ Abandon \/ CommitBatch
  <2>1. run'.phase # "load"
    BY <1>7, NotLoading
  <2> QED BY <1>1, <2>1
<1> QED
  BY <1>2, <1>3, <1>4, <1>5, <1>6, <1>7 DEF Next, RunStep

\* What the window holds with the batch in flight.
LEMMA WindowRecords ==
    ASSUME WindowTypes, FetchTypes
    PROVE  /\ NoWindow.messages = NoRecords
           /\ \A m \in Mail :
                Gathered.messages[m] = IF fetch.loaded[m] # Absent THEN fetch.loaded[m]
                                       ELSE IF m \in fetch.deleted THEN Absent
                                       ELSE window.messages[m]
           /\ \A m \in Mail : fetch.loaded[m] # Absent => m \in Gathered.threads[ThreadOf[m]]
           /\ \A m \in Mail : \A t \in Threads :
                m \in window.threads[t] => m \in Gathered.threads[t]
<1>1. \A m \in Mail : ThreadOf[m] \in Threads
  BY Empties, ProjectionAssumption
<1>2. \A m \in Mail : fetch.loaded[m] # Absent => m \in LoadedThreads[ThreadOf[m]]
  BY <1>1, Empties DEF LoadedThreads, Stored
<1> QED BY <1>1, <1>2, Empties DEF Gathered, NoWindow

\* What a commit leaves of a message.
LEMMA CommittedRecords ==
    ASSUME FetchTypes, WindowTypes, CommitBatch
    PROVE  \A m \in Mail :
             messages'[m] = IF fetch.loaded[m] # Absent THEN fetch.loaded[m]
                            ELSE IF m \in fetch.deleted THEN Absent
                            ELSE IF run.mode = "bounded-resync" THEN window.messages[m]
                            ELSE messages[m]
<1>1. messages' = TargetMessages(Batch)
  BY DEF CommitBatch, ApplyBatch
<1>2. CASE run.mode = "bounded-resync"
  <2>1. Batch.messages = Gathered.messages /\ Batch.resync
    BY <1>2 DEF Batch
  <2>2. \A m \in Mail : messages'[m] = Gathered.messages[m]
    BY <1>1, <2>1, Empties DEF TargetMessages
  <2> QED BY <1>2, <2>2, WindowRecords
<1>3. CASE run.mode # "bounded-resync"
  <2>1. Batch.messages = fetch.loaded /\ ~Batch.resync /\ Batch.deleted = fetch.deleted
    BY <1>3 DEF Batch
  <2> QED BY <1>1, <1>3, <2>1, Empties DEF TargetMessages
<1> QED BY <1>2, <1>3

\* Every step keeps each message in one place.
LEMMA BatchInvIsKept ==
    ASSUME IInv, [Next]_vars
    PROVE  BatchInv'
<1> USE DEF IInv, Types
<1>1. CASE StartSync \/ ReadProfile \/ RecoverCursor
  BY <1>1 DEF StartSync, ReadProfile, RecoverCursor, mailboxVars, projectionVars, BatchInv, Idle,
              RunTypes, Requesting
<1>2. CASE ReachBatchLimit \/ Abandon \/ RejectBatch
  <2>1. mail' = mail /\ messages' = messages
    BY <1>2 DEF ReachBatchLimit, Abandon, RejectBatch, RefuseBatch, mailboxVars, projectionVars
  <2>2. run'.phase = "idle" /\ window'.messages = NoRecords
    BY <1>2 DEF ReachBatchLimit, Abandon, RejectBatch, Settle, Idle, NoWindow
  <2> QED BY <2>1, <2>2, Empties DEF BatchInv
<1>3. CASE ListMessages
  <2>1. UNCHANGED <<mail, messages, window>>
    BY <1>3 DEF ListMessages, mailboxVars, projectionVars
  <2>2. fetch'.pending \subseteq Present /\ fetch'.loaded = NoRecords /\ fetch'.deleted = {}
    BY <1>3, MessagesListed
  <2> QED BY <2>1, <2>2, Empties DEF BatchInv, Present
<1>4. CASE ListHistory
  <2>1. UNCHANGED <<mail, messages, window>>
    BY <1>4 DEF ListHistory, mailboxVars, projectionVars
  <2>2. /\ fetch'.pending = {id \in Selected : StateOf(PageEvents, id) = "load"}
        /\ fetch'.deleted = {id \in Selected : StateOf(PageEvents, id) = "delete"}
        /\ fetch'.loaded = NoRecords
    BY <1>4, HistoryRead
  <2>3. Selected \subseteq ChangedIds(PageEvents)
    BY DEF Selected
  <2> QED BY <1>4, <2>1, <2>2, <2>3, SelectedStates, Empties DEF BatchInv
<1>5. ASSUME NEW m \in Mail, LoadMessage(m)
      PROVE  BatchInv'
  <2>1. UNCHANGED <<mail, messages, window, run>> /\ run.phase = "load" /\ m \in fetch.pending
    BY <1>5 DEF LoadMessage, mailboxVars, projectionVars
  <2>2. CASE m \in Present
    <3>1. fetch'.pending = fetch.pending \ {m} /\ fetch'.deleted = fetch.deleted
          /\ \A n \in Mail : fetch'.loaded[n] = IF n = m THEN mail[m] ELSE fetch.loaded[n]
      BY <1>5, <2>2, Empties DEF LoadMessage, FetchTypes, Records
    <3> QED BY <2>1, <2>2, <3>1 DEF BatchInv, Present
  <2>3. CASE m \notin Present
    <3>1. fetch'.pending = fetch.pending \ {m} /\ fetch'.deleted = fetch.deleted \cup {m}
          /\ fetch'.loaded = fetch.loaded
      BY <1>5, <2>3 DEF LoadMessage, FetchTypes
    <3>2. mail[m] = "deleted"
      BY <2>1, <2>3 DEF BatchInv, Present, MailboxTypeOK
    <3> QED BY <2>1, <3>1, <3>2 DEF BatchInv
  <2> QED BY <2>2, <2>3
<1>6. CASE GatherBatch
  <2>1. mail' = mail /\ messages' = messages /\ window' = Gathered /\ run.phase = "load"
        /\ run'.phase = "request"
    BY <1>6 DEF GatherBatch, Delivered, mailboxVars, projectionVars, RunTypes
  <2>2. \A m \in Mail : ThreadOf[m] \in Threads
    BY Empties, ProjectionAssumption
  <2> QED BY <2>1, <2>2, WindowRecords DEF BatchInv
<1>7. CASE CommitBatch
  <2>1. mail' = mail /\ run.phase = "load" /\ run'.phase # "load"
    BY <1>7, NotLoading DEF CommitBatch, Committing, Delivered, mailboxVars
  <2>2. window' = window \/ window' = NoWindow
    BY <1>7 DEF CommitBatch, Settle
  <2> QED BY <1>7, <2>1, <2>2, CommittedRecords, WindowRecords, Empties DEF BatchInv
<1>8. CASE MailboxChanges
  <2>1. UNCHANGED <<messages, window, fetch, run>>
    BY <1>8 DEF MailboxChanges, projectionVars
  <2>2. \A m \in Mail : /\ mail[m] = "deleted" => mail'[m] = "deleted"
                        /\ mail[m] # "unsent" => mail'[m] # "unsent"
    BY <1>8, MailboxMoves DEF MailboxChanges
  <2> QED BY <2>1, <2>2 DEF BatchInv
<1>9. CASE Retain
  <2>1. UNCHANGED <<mail, window, fetch, run>>
    BY <1>9 DEF Retain, mailboxVars
  <2>2. \A m \in Mail : messages'[m] \in {messages[m], Absent}
    BY <1>9, Empties DEF Retain, ApplyRetention
  <2> QED BY <2>1, <2>2 DEF BatchInv
<1>10. CASE ClockMoves \/ UNCHANGED vars
  BY <1>10 DEF ClockMoves, vars, mailboxVars, projectionVars, BatchInv
<1> QED
  BY <1>1, <1>2, <1>3, <1>4, <1>5, <1>6, <1>7, <1>8, <1>9, <1>10 DEF Next, RunStep

-------------------------------------------------------------------------------
(* A resync gathers what is alive *)

\* A page of the listing is what lies between its two tokens.
LEMMA PagePasses ==
    ASSUME IInv, ListMessages, NEW m \in Present, Passed(fetch'.next, m), m \notin Listed
    PROVE  run.cursor # NoCursor /\ run.phase # "load" /\ Passed(run.cursor, m)
<1> DEFINE token == run.cursor.page
<1>1. /\ ReadAfter \in Nat /\ ReadAfter <= cutoff /\ cutoff \in Nat
      /\ run.phase \in {"list", "request"}
      /\ \/ run.cursor = NoCursor /\ token = 0
         \/ run.cursor \in Cursors /\ run.cursor.mode = "full" /\ token \in Mail
  BY ListInputs, SyncAssumption DEF IInv, Types, RunTypes
<1>2. token \in Nat
  BY <1>1, MailboxAssumption DEF Mail
<1>3. /\ NextToken = 0 => Listed = Listing(ReadAfter, token)
      /\ NextToken # 0 => \A n \in Listing(ReadAfter, token) : n >= NextToken => n \in Listed
  BY <1>1, <1>2, ListingPages DEF NextToken, Listed
<1>4. m > cutoff /\ (NextToken # 0 => m >= NextToken)
  BY MessagesListed DEF Passed
<1>5. m \notin Listing(ReadAfter, token)
  BY <1>3, <1>4
<1>6. m \in Nat /\ m > ReadAfter
  BY <1>1, <1>4, MailboxAssumption DEF Present, Mail
<1>7. token # 0 /\ m >= token
  BY <1>2, <1>5, <1>6 DEF Listing
<1> QED BY <1>1, <1>4, <1>7, CursorFields DEF Passed

\* Every step of a resync keeps hold of the stored messages that are alive.
LEMMA KeepInvIsKept ==
    ASSUME IInv, [Next]_vars
    PROVE  KeepInv'
<1> USE DEF IInv, Types
<1>1. CASE ReachBatchLimit \/ Abandon \/ RejectBatch
  <2>1. InMailbox(checkpoint)'
    BY RunInvIsKept DEF RunInv
  <2> QED BY <1>1, <2>1, SettledRun DEF ReachBatchLimit, Abandon, RejectBatch
<1>2. CASE StartSync
  BY <1>2 DEF StartSync, Idle, KeepInv, Resyncing
<1>3. CASE ReadProfile
  <2>1. run'.cursor = NoCursor
    BY <1>3 DEF ReadProfile, RunTypes
  <2> QED BY <1>3, <2>1, NotLoading DEF KeepInv
<1>4. CASE RecoverCursor
  <2>1. run'.cursor = NoCursor
    BY <1>4 DEF RecoverCursor, RunTypes
  <2> QED BY <1>4, <2>1, NotLoading DEF KeepInv
<1>5. CASE ListHistory
  <2>1. run'.mode = run.mode /\ run.phase = "request" /\ ~Resyncing
    BY <1>5, HistoryInputs DEF ListHistory, RunTypes
  <2> QED BY <2>1 DEF KeepInv, Resyncing, Active
<1>6. CASE ListMessages
  <2>1. UNCHANGED <<mail, messages, window, cutoff>>
    BY <1>6 DEF ListMessages, mailboxVars, projectionVars
  <2>2. run'.mode = run.mode /\ run'.phase = "load" /\ run.phase # "idle"
    BY <1>6, ListInputs DEF ListMessages, RunTypes
  <2>3. fetch'.pending = Listed /\ Present' = Present /\ Stored(messages)' = Stored(messages)
    BY <1>6, <2>1, MessagesListed DEF Present, Stored
  <2>4. ASSUME Resyncing, NEW m \in Stored(messages) \cap Present, Passed(fetch'.next, m),
               m \notin Listed
        PROVE  window.messages[m] # Absent
    BY <1>6, <2>4, PagePasses DEF KeepInv
  <2>5. \A m : Passed(fetch.next, m)' => Passed(fetch'.next, m)
    BY <2>1 DEF Passed
  <2> QED BY <2>1, <2>2, <2>3, <2>4, <2>5 DEF KeepInv, Resyncing, Active
<1>7. ASSUME NEW n \in Mail, LoadMessage(n)
      PROVE  KeepInv'
  <2>1. /\ UNCHANGED <<mail, messages, window, run, cutoff>>
        /\ run.phase = "load" /\ n \in fetch.pending
    BY <1>7 DEF LoadMessage, mailboxVars, projectionVars
  <2>2. fetch'.next = fetch.next /\ fetch'.pending = fetch.pending \ {n}
    BY <1>7 DEF LoadMessage, FetchTypes
  <2>3. \A m \in Mail : m # n => fetch'.loaded[m] = fetch.loaded[m]
    BY <1>7, Empties DEF LoadMessage, FetchTypes, Records
  <2>4. n \in Present => fetch'.loaded[n] = mail[n]
    BY <1>7, Empties DEF LoadMessage, FetchTypes, Records
  <2>5. n \in Present => mail[n] # Absent
    BY SyncAssumption, ProjectionAssumption DEF Present
  <2>6. Present' = Present /\ Stored(messages)' = Stored(messages) /\ Resyncing' = Resyncing
    BY <2>1 DEF Present, Stored, Resyncing, Active
  <2>7. \A m : Passed(fetch.next, m)' => Passed(fetch.next, m)
    BY <2>1, <2>2 DEF Passed
  <2>8. Present \subseteq Mail
    BY DEF Present
  <2> QED BY <2>1, <2>2, <2>3, <2>4, <2>5, <2>6, <2>7, <2>8 DEF KeepInv
<1>8. CASE GatherBatch
  <2>1. /\ UNCHANGED <<mail, messages, cutoff>> /\ window' = Gathered
        /\ run.phase = "load" /\ fetch.pending = {} /\ Resyncing
    BY <1>8 DEF GatherBatch, Delivered, mailboxVars, projectionVars, Resyncing, Active
  <2>2. run'.cursor = fetch.next /\ run'.phase = "request"
    BY <1>8 DEF GatherBatch, RunTypes
  <2>3. Present' = Present /\ Stored(messages)' = Stored(messages)
    BY <2>1 DEF Present, Stored
  <2>4. ASSUME NEW m \in Stored(messages) \cap Present, Passed(fetch.next, m)
        PROVE  Gathered.messages[m] # Absent
    <3>1. m \in Mail /\ m \notin fetch.deleted
      BY <2>1 DEF BatchInv, Present
    <3>2. fetch.loaded[m] # Absent \/ window.messages[m] # Absent
      BY <2>1, <2>4 DEF KeepInv
    <3> QED BY <3>1, <3>2, WindowRecords
  <2>5. \A m : Passed(run.cursor, m)' => Passed(fetch.next, m)
    BY <2>1, <2>2 DEF Passed
  <2> QED BY <2>1, <2>2, <2>3, <2>4, <2>5 DEF KeepInv
<1>9. CASE CommitBatch
  <2>1. CASE fetch.complete
    <3>1. InMailbox(checkpoint)'
      BY RunInvIsKept DEF RunInv
    <3> QED BY <1>9, <2>1, <3>1, SettledRun DEF CommitBatch
  <2>2. CASE ~fetch.complete
    BY <1>9, <2>2 DEF CommitBatch, Committing, RunTypes, KeepInv, Resyncing
  <2> QED BY <2>1, <2>2
<1>10. CASE MailboxChanges
  <2>1. UNCHANGED <<messages, cutoff, run, fetch, window>>
    BY <1>10 DEF MailboxChanges, projectionVars
  <2>2. Stored(messages) \cap Present' \subseteq Stored(messages) \cap Present
    <3> SUFFICES ASSUME NEW m \in Stored(messages), m \in Present'
                 PROVE  m \in Present
      OBVIOUS
    <3>1. m \in Mail /\ mail[m] # "unsent"
      BY Empties DEF Stored, BatchInv
    <3> QED BY <1>10, <3>1, MailboxMoves DEF MailboxChanges
  <2>3. Stored(messages)' = Stored(messages) /\ Resyncing' = Resyncing
    BY <2>1 DEF Stored, Resyncing, Active
  <2>4. \A m : /\ Passed(run.cursor, m)' => Passed(run.cursor, m)
               /\ Passed(fetch.next, m)' => Passed(fetch.next, m)
    BY <2>1 DEF Passed
  <2> QED BY <2>1, <2>2, <2>3, <2>4 DEF KeepInv
<1>11. CASE ClockMoves
  <2>1. /\ UNCHANGED <<mail, messages, run, fetch, window>>
        /\ cutoff' = cutoff + 1 /\ cutoff \in Nat
    BY <1>11, SyncAssumption DEF ClockMoves, mailboxVars, projectionVars, RunTypes
  <2>2. Present' = Present /\ Stored(messages)' = Stored(messages) /\ Resyncing' = Resyncing
    BY <2>1 DEF Present, Stored, Resyncing, Active
  <2>3. \A m \in Present : /\ Passed(run.cursor, m)' => Passed(run.cursor, m)
                           /\ Passed(fetch.next, m)' => Passed(fetch.next, m)
    <3> TAKE m \in Present
    <3>1. m \in Nat
      BY MailboxAssumption DEF Present, Mail
    <3>2. m > cutoff + 1 => m > cutoff
      BY <2>1, <3>1
    <3> QED BY <2>1, <3>2 DEF Passed
  <2> QED BY <2>1, <2>2, <2>3 DEF KeepInv
<1>12. CASE Retain
  BY <1>12 DEF Retain, KeepInv, Resyncing, Active
<1>13. CASE UNCHANGED vars
  BY <1>13 DEF vars, mailboxVars, projectionVars, KeepInv, Resyncing, Active, Stored, Present,
               Passed
<1> QED
  BY <1>1, <1>2, <1>3, <1>4, <1>5, <1>6, <1>7, <1>8, <1>9, <1>10, <1>11, <1>12, <1>13
  DEF Next, RunStep

-------------------------------------------------------------------------------
(* The invariant holds, and what follows from it *)

\* The invariant holds initially.
LEMMA InitIInv == Init => IInv
<1> SUFFICES ASSUME Init PROVE IInv
  OBVIOUS
<1>1. HistoryId = 0 /\ log = <<>>
  BY DEF Init, MailboxInit, HistoryId
<1>2. MailboxTypeOK
  BY <1>1 DEF Init, MailboxInit, MailboxTypeOK, HistoryId
<1>3. LogInv
  BY <1>1, MailboxAssumption DEF LogInv
<1>4. ProjectionTypeOK
  BY Empties DEF Init, ProjectionInit, ProjectionTypeOK
<1>5. RunTypes
  BY SyncAssumption DEF Init, Idle, RunTypes
<1>6. FetchTypes
  BY Empties, MailboxAssumption DEF Init, NoFetch, FetchTypes
<1>7. WindowTypes
  BY Empties DEF Init, NoWindow, WindowTypes
<1>8. run.phase = "idle" /\ run.cursor = NoCursor /\ checkpoint = NoCursor /\ window = NoWindow
  BY DEF Init, Idle, ProjectionInit
<1>9. InMailbox(NoCursor)
  BY <1>1, NoCursorFields DEF InMailbox
<1>10. RunInv /\ NextInv /\ KeepInv
  BY <1>8, <1>9 DEF RunInv, NextInv, KeepInv, Active, Resyncing
<1>11. BatchInv
  <2>1. messages = NoRecords /\ window.messages = NoRecords
    BY DEF Init, ProjectionInit, NoWindow
  <2> QED BY <1>8, <2>1, Empties DEF BatchInv
<1> QED BY <1>2, <1>3, <1>4, <1>5, <1>6, <1>7, <1>10, <1>11 DEF IInv, Types

\* The invariant is kept by every step.
LEMMA StepIInv == IInv /\ [Next]_vars => IInv'
BY MailboxPart, ProjectionPart, RunPart, RunInvIsKept, NextInvIsKept, BatchInvIsKept,
   KeepInvIsKept
DEF IInv, Types

\* The invariant holds always.
LEMMA AlwaysIInv == Spec => []IInv
BY InitIInv, StepIInv, PTL DEF Spec

\* Every variable of a sync keeps its type, and every batch that is committed is valid
\* (isCommitProviderMailBatchV2): no message of it lacks a thread or is also deleted, also
\* when the window was gathered from pages between which messages came and went.
THEOREM TypeCorrect == Spec => []TypeOK
<1>1. IInv => TypeOK
  BY BatchIsValid DEF IInv, Types, RunTypes, FetchTypes, WindowTypes, TypeOK
<1> QED BY <1>1, AlwaysIInv, PTL

\* The stored cursor never goes back: a batch continues behind the cursor that it expects,
\* also when the run recovered from a forgotten history.
THEOREM CheckpointAdvances == Spec => CheckpointOnlyAdvances
<1>1. IInv /\ [Next]_vars => [checkpoint' # checkpoint => Advances(checkpoint, checkpoint')]_vars
  <2> SUFFICES ASSUME IInv, Next, checkpoint' # checkpoint
               PROVE  Advances(checkpoint, checkpoint')
    OBVIOUS
  <2>1. CommitBatch
    BY DEF Next, RunStep, StartSync, ReachBatchLimit, ReadProfile, ListMessages, ListHistory,
           RecoverCursor, LoadMessage, GatherBatch, RejectBatch, RefuseBatch, Abandon,
           MailboxChanges, ClockMoves, Retain, ApplyRetention, projectionVars
  <2>2. checkpoint' = fetch.next /\ run.phase = "load" /\ (Resyncing => fetch.complete)
    BY <2>1 DEF CommitBatch, ApplyBatch, Batch, Committing, Delivered, Resyncing
  <2>3. CASE ~Resyncing
    BY <2>2, <2>3 DEF IInv, NextInv
  <2>4. CASE Resyncing
    BY <2>2, <2>4 DEF IInv, NextInv, RunInv, Advances
  <2> QED BY <2>3, <2>4
<1> QED BY <1>1, AlwaysIInv, PTL DEF Spec, CheckpointOnlyAdvances

\* No commit loses mail: a resync gathers every stored message that is alive before it
\* replaces the projection, and a batch deletes only what Gmail has deleted.
THEOREM OnlyDeadMailGoes == Spec => OnlyDeadMailDisappears
<1>1. IInv /\ [Next]_vars =>
        [\A m \in Stored(messages) :
            messages'[m] = Absent => m \notin Present \/ m <= cutoff]_vars
  <2> SUFFICES ASSUME IInv, Next, NEW m \in Stored(messages), messages'[m] = Absent, m \in Present
               PROVE  m <= cutoff
    OBVIOUS
  <2>1. m \in Mail /\ messages[m] # Absent
    BY Empties DEF Stored
  <2>2. CASE CommitBatch
    <3>1. /\ run.phase = "load" /\ fetch.pending = {}
          /\ run.mode = "bounded-resync" => Resyncing /\ fetch.complete
      BY <2>2 DEF CommitBatch, Committing, Delivered, Resyncing, Active
    <3>2. m \notin fetch.deleted
      BY <2>1, <3>1 DEF IInv, BatchInv, Present
    <3>3. /\ run.mode = "bounded-resync" /\ window.messages[m] = Absent
          /\ fetch.loaded[m] = Absent
      BY <2>1, <2>2, <3>2, CommittedRecords DEF IInv, Types
    <3>4. ~Passed(fetch.next, m)
      BY <3>1, <3>3 DEF IInv, KeepInv
    <3>5. fetch.next.mode = "history"
      BY <3>1, <3>3 DEF IInv, NextInv
    <3>6. ~(m > cutoff)
      BY <3>4, <3>5 DEF Passed
    <3>7. m \in Nat /\ cutoff \in Nat
      BY <2>1, MailboxAssumption, SyncAssumption DEF Mail, IInv, Types, RunTypes
    <3> QED BY <3>6, <3>7
  <2>3. CASE Retain
    BY <2>1, <2>3, Empties DEF Retain, ApplyRetention, Expired
  <2>4. messages' # messages
    BY <2>1
  <2> QED
    BY <2>2, <2>3, <2>4
    DEF Next, RunStep, StartSync, ReachBatchLimit, ReadProfile, ListMessages, ListHistory,
        RecoverCursor, LoadMessage, GatherBatch, RejectBatch, RefuseBatch, Abandon,
        MailboxChanges, ClockMoves, projectionVars
<1> QED BY <1>1, AlwaysIInv, PTL DEF Spec, OnlyDeadMailDisappears

\* A sync writes the projection only in its two transactions, with a valid batch and with a
\* cutoff: it implements the projection by itself, so that whatever is true of every user of
\* commitBatch and applyRetention is true of the coordinator.
THEOREM SyncImplementsProjection == Spec => ProjectionSpec
<1>1. Init => ProjectionInit
  BY DEF Init
<1>2. IInv /\ [Next]_vars => [ProjectionNext]_projectionVars
  <2> SUFFICES ASSUME IInv, [Next]_vars
               PROVE  ProjectionNext \/ UNCHANGED projectionVars
    OBVIOUS
  <2>1. CASE CommitBatch \/ RejectBatch
    BY <2>1, BatchIsValid DEF CommitBatch, RejectBatch, ProjectionNext
  <2>2. CASE Retain
    <3>1. cutoff \in Nat
      BY SyncAssumption DEF IInv, Types, RunTypes
    <3> QED BY <2>2, <3>1 DEF Retain, ProjectionNext
  <2> QED
    BY <2>1, <2>2
    DEF Next, RunStep, StartSync, ReachBatchLimit, ReadProfile, ListMessages, ListHistory,
        RecoverCursor, LoadMessage, GatherBatch, Abandon, MailboxChanges, ClockMoves, vars
<1> QED BY <1>1, <1>2, AlwaysIInv, PTL DEF Spec, ProjectionSpec

-------------------------------------------------------------------------------
(* Faithfulness *)

\* The first event that a cursor has still to read is the one after this.
StartOf(c) == IF c.mode = "history" THEN HistoryStart(c.historyId, c.page) ELSE c.historyId

\* Messages with an event that a cursor has still to read.
Due(c) == {log[i].id : i \in (StartOf(c) + 1)..HistoryId}

\* A record of the message is the truth, and there where the cursor promises one.
Truthful(record, c, m) ==
    /\ record # Absent => record = mail[m]
    /\ m \in Present /\ Passed(c, m) => record = mail[m]

\* Records are truthful about all that the history has not still to tell.
Covers(records, c) ==
    IF c = NoCursor THEN records = NoRecords
    ELSE c.offset = 0 /\ \A m \in Mail \ Due(c) : Truthful(records[m], c, m)

\* What the batch in flight is laid over.
Base == IF Resyncing THEN window.messages ELSE messages

\* The stored records, those of a resync, and what the batch in flight will make of them.
FaithInv ==
    /\ Covers(messages, checkpoint)
    /\ Resyncing => Covers(window.messages, run.cursor)
    /\ run.phase = "load" =>
         /\ fetch.next.offset = 0
         /\ \A m \in Mail \ (Due(fetch.next) \cup fetch.pending \cup fetch.deleted) :
              Truthful(IF fetch.loaded[m] # Absent THEN fetch.loaded[m] ELSE Base[m],
                       fetch.next, m)

\* While the mailbox and the clock stand still, what a cursor covers is settled.
LEMMA CoversStays ==
    ASSUME UNCHANGED <<mail, log, cutoff, messages, checkpoint>>,
           Covers(messages, checkpoint)
    PROVE  Covers(messages, checkpoint)'
<1>1. Present' = Present /\ HistoryId' = HistoryId
  BY DEF Present, HistoryId
<1> QED BY <1>1 DEF Covers, Truthful, Due, StartOf, Passed, NoRecords, HistoryStart

\* The records that the batch in flight is laid over are those of its cursor.
LEMMA BaseIsCovered ==
    ASSUME IInv, FaithInv, Active
    PROVE  Covers(Base, run.cursor)
<1>1. CASE Resyncing
  BY <1>1 DEF FaithInv, Base
<1>2. CASE ~Resyncing
  BY <1>2 DEF FaithInv, Base, IInv, RunInv
<1> QED BY <1>1, <1>2

\* A message that a listing leaves out is as its records say.
LEMMA ListingIsFaithful ==
    ASSUME IInv, FaithInv, ListMessages,
           NEW m \in Mail, m \notin Due(fetch'.next), m \notin Listed
    PROVE  Truthful(Base[m], fetch'.next, m)
<1>1. Covers(Base, run.cursor)
  BY BaseIsCovered, ListInputs DEF Active
<1>2. m \in Present /\ Passed(fetch'.next, m) =>
        run.cursor # NoCursor /\ Passed(run.cursor, m)
  BY PagePasses
<1>3. CASE run.cursor = NoCursor
  BY <1>1, <1>2, <1>3, Empties DEF Covers, Truthful
<1>4. CASE run.cursor # NoCursor
  <2>1. StartOf(fetch'.next) = run.cursor.historyId
    BY <1>4, MessagesListed, CursorFields DEF StartOf, HistoryStart, ReadHistoryId
  <2>2. StartOf(run.cursor) = run.cursor.historyId
    BY <1>4, ListInputs DEF StartOf
  <2>3. Due(fetch'.next) = Due(run.cursor)
    BY <2>1, <2>2 DEF Due
  <2>4. Truthful(Base[m], run.cursor, m)
    BY <1>1, <1>4, <2>3 DEF Covers
  <2> QED BY <1>2, <2>4 DEF Truthful
<1> QED BY <1>3, <1>4

\* A page of the history is read as a whole.
LEMMA WholePage ==
    ASSUME IInv, FaithInv, ListHistory, HistoryPage <= BatchSize
    PROVE  /\ NextOffset = Cardinality(ChangedIds(PageEvents))
           /\ Selected = ChangedIds(PageEvents)
<1>1. run.cursor = checkpoint /\ run.cursor.offset = 0
  BY HistoryInputs, CursorFields DEF FaithInv, Covers
<1>2. /\ HistoryPage \in Nat /\ BatchSize \in Nat
      /\ Cardinality(ChangedIds(PageEvents)) \in Nat
      /\ Cardinality(ChangedIds(PageEvents)) <= HistoryPage
  <2>1. Len(PageEvents) <= HistoryPage
    BY HistoryInputs, MailboxAssumption
  <2>2. Len(PageEvents) \in Nat /\ Cardinality(ChangedIds(PageEvents)) \in 0..Len(PageEvents)
    BY HistoryInputs
  <2> QED BY <2>1, <2>2, MailboxAssumption, SyncAssumption
<1>3. NextOffset = Cardinality(ChangedIds(PageEvents))
  BY <1>1, <1>2, HistoryInputs
<1>4. ASSUME NEW id \in ChangedIds(PageEvents)
      PROVE  Place(PageEvents, id) \in run.cursor.offset..(NextOffset - 1)
  <2>1. /\ Place(PageEvents, id) \in Nat
        /\ Place(PageEvents, id) < Cardinality(ChangedIds(PageEvents))
    BY HistoryInputs, Places
  <2> QED BY <1>1, <1>2, <1>3, <2>1
<1> QED BY <1>3, <1>4 DEF Selected

\* What a page of the history does not mention is due later or as it was.
LEMMA HistoryIsFaithful ==
    ASSUME IInv, FaithInv, ListHistory, HistoryPage <= BatchSize,
           NEW m \in Mail, m \notin Due(fetch'.next), m \notin ChangedIds(PageEvents)
    PROVE  Truthful(messages[m], fetch'.next, m)
<1>1. /\ run.cursor \in Cursors /\ run.cursor.mode = "history" /\ run.cursor = checkpoint
      /\ fetch'.next.mode = "history"
  BY HistoryInputs, HistoryRead
<1>2. /\ PageStart \in Nat /\ PageStart <= HistoryId /\ HistoryId \in Nat
      /\ HistoryPage \in Nat /\ HistoryPage > 0
  BY HistoryInputs, HistoryIds, MailboxAssumption DEF IInv, Types
<1>3. StartOf(run.cursor) = PageStart
  BY <1>1 DEF StartOf, PageStart
<1>4. \/ StartOf(fetch'.next) = PageStart + HistoryPage /\ PageStart + HistoryPage < HistoryId
      \/ StartOf(fetch'.next) = HistoryId /\ PageStart + HistoryPage >= HistoryId
  <2>1. NextOffset = Cardinality(ChangedIds(PageEvents)) /\ NextOffset \in Nat
    BY WholePage, HistoryInputs
  <2> QED BY <1>1, <1>2, <2>1, HistoryRead DEF StartOf, HistoryStart
<1>5. m \notin Due(run.cursor)
  <2> SUFFICES ASSUME NEW i \in (PageStart + 1)..HistoryId, log[i].id = m
               PROVE  FALSE
    BY <1>3 DEF Due
  <2>1. i \in Nat /\ i > PageStart
    BY <1>2
  <2>2. i <= PageEnd
    <3> SUFFICES ASSUME i > PageEnd PROVE FALSE
      BY <2>1, HistoryInputs
    <3>1. i > StartOf(fetch'.next)
      BY <1>2, <1>4, <2>1, HistoryInputs
    <3>2. i \in (StartOf(fetch'.next) + 1)..HistoryId
      BY <1>2, <1>4, <2>1, <3>1
    <3> QED BY <3>2 DEF Due
  <2>3. i - PageStart \in 1..Len(PageEvents)
    BY <1>2, <2>1, <2>2, HistoryInputs
  <2>4. PageEvents[i - PageStart] = log[i]
    <3>1. PageStart + (i - PageStart) = i
      BY <1>2, <2>1
    <3> QED BY <2>3, <3>1, HistoryInputs
  <2>5. i - PageStart \in DOMAIN PageEvents
    BY <2>3, HistoryInputs
  <2> QED BY <2>4, <2>5 DEF ChangedIds
<1>6. Truthful(messages[m], checkpoint, m)
  BY <1>1, <1>5, CursorFields DEF FaithInv, Covers
<1> QED BY <1>1, <1>6 DEF Truthful, Passed

\* The records a batch leaves, over those it is laid on, are as its cursor says.
LEMMA LaidRecords ==
    ASSUME IInv, FaithInv, Delivered, NEW m \in Mail, m \notin Due(fetch.next)
    PROVE  Truthful(IF fetch.loaded[m] # Absent THEN fetch.loaded[m]
                ELSE IF m \in fetch.deleted THEN Absent
                ELSE Base[m], fetch.next, m)
<1>1. run.phase = "load" /\ fetch.pending = {}
  BY DEF Delivered
<1>2. CASE m \in fetch.deleted
  BY <1>1, <1>2 DEF IInv, BatchInv, Truthful, Present
<1>3. CASE m \notin fetch.deleted
  BY <1>1, <1>3 DEF FaithInv
<1> QED BY <1>2, <1>3

\* A change of the mailbox is due for every cursor that points before it.
LEMMA MailboxChangesFaith ==
    ASSUME IInv, FaithInv, MailboxChanges
    PROVE  FaithInv'
<1> USE DEF IInv, Types
<1>1. UNCHANGED <<messages, threads, checkpoint, cutoff, run, fetch, window>>
  BY DEF MailboxChanges, projectionVars
<1>2. /\ HistoryId \in Nat /\ HistoryId' \in Nat /\ HistoryId' >= HistoryId
      /\ \A i \in 1..HistoryId : log'[i] = log[i]
      /\ \A m \in Mail : mail'[m] # mail[m] =>
           HistoryId' = HistoryId + 1 /\ log'[HistoryId + 1].id = m
  BY MailboxMoves DEF MailboxChanges
<1> DEFINE After(c) == {log'[i].id : i \in (StartOf(c) + 1)..HistoryId'}
<1>3. ASSUME NEW c \in Cursors, InMailbox(c)
      PROVE  /\ Due(c) \subseteq After(c)
             /\ \A m \in Mail \ After(c) : mail'[m] = mail[m]
  <2>1. StartOf(c) \in Nat /\ StartOf(c) <= HistoryId
    BY <1>2, <1>3, CursorFields, MailboxAssumption DEF StartOf, HistoryStart, InMailbox
  <2>2. Due(c) \subseteq After(c)
    <3> SUFFICES ASSUME NEW i \in (StartOf(c) + 1)..HistoryId
                 PROVE  log[i].id \in After(c)
      BY DEF Due
    <3>1. i \in 1..HistoryId /\ i \in (StartOf(c) + 1)..HistoryId'
      BY <1>2, <2>1
    <3> QED BY <1>2, <3>1
  <2>3. ASSUME NEW m \in Mail, mail'[m] # mail[m]
        PROVE  m \in After(c)
    <3>1. HistoryId + 1 \in (StartOf(c) + 1)..HistoryId'
      BY <1>2, <2>1, <2>3
    <3> QED BY <1>2, <2>3, <3>1
  <2> QED BY <2>2, <2>3
<1>4. ASSUME NEW c, NEW m \in Mail, NEW record, mail'[m] = mail[m], Truthful(record, c, m)
      PROVE  /\ record # Absent => record = mail'[m]
             /\ m \in Present' /\ m > cutoff' /\ (c.mode = "full" => m >= c.page)
                  => record = mail'[m]
  BY <1>1, <1>4 DEF Truthful, Passed, Present
<1>5. ASSUME NEW c \in Cursors \cup {NoCursor}, InMailbox(c), NEW records, Covers(records, c)
      PROVE  IF c = NoCursor THEN records = NoRecords
             ELSE /\ c.offset = 0
                  /\ \A m \in Mail \ After(c) :
                       /\ records[m] # Absent => records[m] = mail'[m]
                       /\ m \in Present' /\ m > cutoff' /\ (c.mode = "full" => m >= c.page)
                            => records[m] = mail'[m]
  <2>1. CASE c = NoCursor
    BY <1>5, <2>1 DEF Covers
  <2>2. CASE c # NoCursor
    <3> HIDE DEF After
    <3>1. c \in Cursors /\ c.offset = 0
      BY <1>5, <2>2 DEF Covers
    <3>2. ASSUME NEW m \in Mail \ After(c)
          PROVE  mail'[m] = mail[m] /\ Truthful(records[m], c, m)
      BY <1>3, <1>5, <2>2, <3>1, <3>2 DEF Covers
    <3> QED BY <1>4, <2>2, <3>1, <3>2
  <2> QED BY <2>1, <2>2
<1>6. Covers(messages, checkpoint)'
  <2>1. checkpoint \in Cursors \cup {NoCursor} /\ InMailbox(checkpoint)
    BY DEF ProjectionTypeOK, RunInv
  <2>2. Covers(messages, checkpoint)
    BY DEF FaithInv
  <2> QED BY <1>1, <1>5, <2>1, <2>2
      DEF Covers, Truthful, Passed, Due, StartOf, HistoryStart, NoRecords
<1>7. Resyncing' => Covers(window.messages, run.cursor)'
  <2> SUFFICES ASSUME Resyncing PROVE Covers(window.messages, run.cursor)'
    BY <1>1 DEF Resyncing, Active
  <2>1. run.cursor \in Cursors \cup {NoCursor} /\ InMailbox(run.cursor)
    BY DEF RunTypes, RunInv
  <2>2. Covers(window.messages, run.cursor)
    BY DEF FaithInv
  <2> QED BY <1>1, <1>5, <2>1, <2>2
      DEF Covers, Truthful, Passed, Due, StartOf, HistoryStart, NoRecords
<1>8. ASSUME run'.phase = "load",
             NEW m \in Mail, m \notin (Due(fetch.next) \cup fetch.pending \cup fetch.deleted)'
      PROVE  Truthful(IF fetch.loaded[m] # Absent THEN fetch.loaded[m] ELSE Base[m],
                  fetch.next, m)'
  <2>1. fetch.next \in Cursors /\ InMailbox(fetch.next)
    BY <1>1, <1>8 DEF NextInv
  <2>2. m \notin After(fetch.next) /\ m \notin fetch.pending \cup fetch.deleted
    BY <1>1, <1>8 DEF Due, StartOf, HistoryStart
  <2> DEFINE record == IF fetch.loaded[m] # Absent THEN fetch.loaded[m] ELSE Base[m]
  <2>3. mail'[m] = mail[m] /\ Truthful(record, fetch.next, m)
    <3> HIDE DEF After
    <3> QED BY <1>1, <1>3, <1>8, <2>1, <2>2 DEF FaithInv
  <2>4. (IF fetch.loaded[m] # Absent THEN fetch.loaded[m] ELSE Base[m])' = record
    BY <1>1 DEF Base, Resyncing, Active
  <2> HIDE DEF record
  <2> QED BY <1>1, <1>4, <2>3, <2>4 DEF Truthful, Passed
<1>9. run'.phase = "load" => fetch'.next.offset = 0
  BY <1>1 DEF FaithInv
<1> QED BY <1>6, <1>7, <1>8, <1>9 DEF FaithInv

\* An account that was never synchronized promises nothing.
LEMMA InitFaith == Init => FaithInv
BY DEF Init, Idle, ProjectionInit, FaithInv, Covers, Resyncing, Active

\* Every step keeps what the stored cursor promises.
LEMMA FaithInvIsKept ==
    ASSUME IInv, FaithInv, [Next]_vars, HistoryPage <= BatchSize
    PROVE  FaithInv'
<1> USE DEF IInv, Types
<1>0. ASSUME UNCHANGED <<mail, log, cutoff, messages, checkpoint>>
      PROVE  Covers(messages, checkpoint)'
  BY <1>0, CoversStays DEF FaithInv
<1>1. CASE ReachBatchLimit \/ Abandon \/ RejectBatch
  <2>1. Covers(messages, checkpoint)'
    BY <1>0, <1>1 DEF ReachBatchLimit, Abandon, RejectBatch, RefuseBatch, mailboxVars,
                      projectionVars
  <2>2. run'.phase = "idle"
    BY <1>1 DEF ReachBatchLimit, Abandon, RejectBatch, Settle, Idle
  <2> QED BY <2>1, <2>2 DEF FaithInv, Resyncing, Active
<1>2. CASE StartSync
  <2>1. Covers(messages, checkpoint)'
    BY <1>0, <1>2 DEF StartSync, mailboxVars, projectionVars
  <2>2. run'.phase = "request" /\ run'.mode # "bounded-resync"
    BY <1>2 DEF StartSync, Idle
  <2> QED BY <2>1, <2>2 DEF FaithInv, Resyncing
<1>3. CASE ReadProfile
  <2>1. Covers(messages, checkpoint)'
    BY <1>0, <1>3 DEF ReadProfile, mailboxVars, projectionVars
  <2>2. /\ run'.cursor = run.cursor /\ run.cursor = NoCursor /\ run'.mode = run.mode
        /\ run.phase = "request" /\ window' = window
    BY <1>3 DEF ReadProfile, Requesting, RunTypes
  <2>3. Resyncing' => window.messages = NoRecords
    BY <2>2 DEF Resyncing, Active, FaithInv, Covers
  <2> QED BY <1>3, <2>1, <2>2, <2>3, NotLoading DEF FaithInv, Covers, NoRecords
<1>4. CASE RecoverCursor
  <2>1. Covers(messages, checkpoint)'
    BY <1>0, <1>4 DEF RecoverCursor, mailboxVars, projectionVars
  <2>2. /\ run'.cursor = NoCursor /\ window' = window /\ ~Resyncing
    BY <1>4 DEF RecoverCursor, RunTypes, Resyncing
  <2>3. window.messages = NoRecords
    BY <2>2 DEF RunInv, NoWindow
  <2> QED BY <1>4, <2>1, <2>2, <2>3, NotLoading DEF FaithInv, Covers, NoRecords
<1>5. CASE ListMessages
  <2>1. UNCHANGED <<mail, log, cutoff, messages, checkpoint, window>>
    BY <1>5 DEF ListMessages, mailboxVars, projectionVars
  <2>2. Covers(messages, checkpoint)'
    BY <1>0, <2>1
  <2>3. /\ run'.cursor = run.cursor /\ run'.mode = run.mode /\ run.phase # "idle"
        /\ run'.phase = "load"
    BY <1>5, ListInputs DEF ListMessages, RunTypes
  <2>4. Resyncing' = Resyncing /\ Present' = Present /\ HistoryId' = HistoryId /\ Base' = Base
    BY <2>1, <2>3 DEF Resyncing, Active, Present, HistoryId, Base
  <2>5. Resyncing => Covers(window.messages, run.cursor)'
    <3> SUFFICES ASSUME Resyncing PROVE Covers(window.messages, run.cursor)'
      OBVIOUS
    <3>1. Covers(window.messages, run.cursor)
      BY DEF FaithInv
    <3> QED BY <2>1, <2>3, <2>4, <3>1
        DEF Covers, Truthful, Due, StartOf, Passed, NoRecords, HistoryStart
  <2>6. fetch'.next.offset = 0 /\ fetch'.pending = Listed /\ fetch'.loaded = NoRecords
    BY <1>5, MessagesListed
  <2>7. ASSUME NEW m \in Mail, m \notin (Due(fetch.next) \cup fetch.pending \cup fetch.deleted)'
        PROVE  Truthful(IF fetch.loaded[m] # Absent THEN fetch.loaded[m] ELSE Base[m],
                        fetch.next, m)'
    <3>1. m \notin Due(fetch'.next) /\ m \notin Listed
      BY <2>1, <2>4, <2>6, <2>7 DEF Due, StartOf, HistoryStart
    <3>2. Truthful(Base[m], fetch'.next, m)
      BY <1>5, <3>1, ListingIsFaithful
    <3> QED BY <2>1, <2>4, <2>6, <3>2, Empties DEF Truthful, Passed
  <2> QED BY <2>2, <2>4, <2>5, <2>6, <2>7 DEF FaithInv
<1>6. CASE ListHistory
  <2>1. UNCHANGED <<mail, log, cutoff, messages, checkpoint, window>>
    BY <1>6 DEF ListHistory, mailboxVars, projectionVars
  <2>2. Covers(messages, checkpoint)'
    BY <1>0, <2>1
  <2>3. ~Resyncing /\ run.phase = "request" /\ run'.mode = run.mode
    BY <1>6, HistoryInputs DEF ListHistory, RunTypes
  <2>4. /\ ~Resyncing' /\ Present' = Present /\ HistoryId' = HistoryId /\ Base' = messages
    BY <2>1, <2>3 DEF Resyncing, Active, Present, HistoryId, Base
  <2>5. /\ fetch'.next.offset = 0 /\ fetch'.loaded = NoRecords
        /\ ChangedIds(PageEvents) \subseteq fetch'.pending \cup fetch'.deleted
    <3>1. NextOffset = Cardinality(ChangedIds(PageEvents)) /\ Selected = ChangedIds(PageEvents)
          /\ NextOffset \in Nat
      BY <1>6, WholePage, HistoryInputs
    <3>2. \A id \in ChangedIds(PageEvents) : StateOf(PageEvents, id) \in {"load", "delete"}
      BY <1>6, SelectedStates
    <3> QED BY <1>6, <3>1, <3>2, HistoryRead
  <2>6. ASSUME NEW m \in Mail, m \notin (Due(fetch.next) \cup fetch.pending \cup fetch.deleted)'
        PROVE  Truthful(IF fetch.loaded[m] # Absent THEN fetch.loaded[m] ELSE Base[m],
                        fetch.next, m)'
    <3>1. m \notin Due(fetch'.next) /\ m \notin ChangedIds(PageEvents)
      BY <2>1, <2>4, <2>5, <2>6 DEF Due, StartOf, HistoryStart
    <3>2. Truthful(messages[m], fetch'.next, m)
      BY <1>6, <3>1, HistoryIsFaithful
    <3> QED BY <2>1, <2>4, <2>5, <3>2, Empties DEF Truthful, Passed
  <2> QED BY <2>2, <2>4, <2>5, <2>6 DEF FaithInv
<1>7. ASSUME NEW n \in Mail, LoadMessage(n)
      PROVE  FaithInv'
  <2>1. /\ UNCHANGED <<mail, log, cutoff, messages, checkpoint, window, run>>
        /\ run.phase = "load" /\ n \in fetch.pending
    BY <1>7 DEF LoadMessage, mailboxVars, projectionVars
  <2>2. Covers(messages, checkpoint)'
    BY <1>0, <2>1
  <2>3. Resyncing' = Resyncing /\ Present' = Present /\ HistoryId' = HistoryId /\ Base' = Base
    BY <2>1 DEF Resyncing, Active, Present, HistoryId, Base
  <2>4. Resyncing => Covers(window.messages, run.cursor)'
    <3> SUFFICES ASSUME Resyncing PROVE Covers(window.messages, run.cursor)'
      OBVIOUS
    <3>1. Covers(window.messages, run.cursor)
      BY DEF FaithInv
    <3> QED BY <2>1, <2>3, <3>1
        DEF Covers, Truthful, Due, StartOf, Passed, NoRecords, HistoryStart
  <2>5. /\ fetch'.next = fetch.next /\ fetch'.pending = fetch.pending \ {n}
        /\ \A m \in Mail : m # n => fetch'.loaded[m] = fetch.loaded[m]
        /\ n \in Present => fetch'.loaded[n] = mail[n] /\ mail[n] # Absent
        /\ fetch.deleted \subseteq fetch'.deleted
        /\ n \notin Present => n \in fetch'.deleted
    <3>1. n \in Present => mail[n] # Absent
      BY SyncAssumption, ProjectionAssumption DEF Present
    <3> QED BY <1>7, <3>1, Empties DEF LoadMessage, FetchTypes, Records
  <2>6. ASSUME NEW m \in Mail, m \notin (Due(fetch.next) \cup fetch.pending \cup fetch.deleted)'
        PROVE  Truthful(IF fetch.loaded[m] # Absent THEN fetch.loaded[m] ELSE Base[m],
                        fetch.next, m)'
    <3>1. m \notin Due(fetch.next)
      BY <2>1, <2>3, <2>5, <2>6 DEF Due, StartOf, HistoryStart
    <3>2. CASE m = n
      BY <2>1, <2>3, <2>5, <2>6, <3>2 DEF Truthful
    <3>3. CASE m # n
      <4>1. Truthful(IF fetch.loaded[m] # Absent THEN fetch.loaded[m] ELSE Base[m],
                     fetch.next, m)
        BY <2>1, <2>5, <2>6, <3>1, <3>3 DEF FaithInv
      <4> QED BY <2>1, <2>3, <2>5, <3>3, <4>1 DEF Truthful, Passed
    <3> QED BY <3>2, <3>3
  <2> QED BY <2>1, <2>2, <2>3, <2>4, <2>5, <2>6 DEF FaithInv
<1>8. CASE GatherBatch
  <2>1. /\ UNCHANGED <<mail, log, cutoff, messages, checkpoint>> /\ window' = Gathered
        /\ Delivered /\ Resyncing
    BY <1>8 DEF GatherBatch, Delivered, mailboxVars, projectionVars, Resyncing, Active
  <2>2. Covers(messages, checkpoint)'
    BY <1>0, <2>1
  <2>3. run'.cursor = fetch.next /\ run'.phase = "request"
    BY <1>8 DEF GatherBatch, RunTypes
  <2>4. fetch.next # NoCursor /\ fetch.next.offset = 0
    BY <2>1, CursorFields DEF Delivered, NextInv, FaithInv
  <2>5. \A m \in Mail \ Due(fetch.next) : Truthful(Gathered.messages[m], fetch.next, m)
    BY <2>1, LaidRecords, WindowRecords DEF Base
  <2>6. Present' = Present /\ HistoryId' = HistoryId
    BY <2>1 DEF Present, HistoryId
  <2>7. Covers(window.messages, run.cursor)'
    BY <2>1, <2>3, <2>4, <2>5, <2>6 DEF Covers, Truthful, Due, StartOf, Passed, HistoryStart
  <2> QED BY <2>2, <2>3, <2>7 DEF FaithInv
<1>9. CASE CommitBatch
  <2>1. /\ UNCHANGED <<mail, log, cutoff>> /\ checkpoint' = fetch.next
        /\ Delivered /\ (Resyncing => fetch.complete)
        /\ run.mode = "bounded-resync" => Resyncing
    BY <1>9 DEF CommitBatch, ApplyBatch, Batch, Committing, Delivered, mailboxVars, Resyncing,
                Active
  <2>2. fetch.next # NoCursor /\ fetch.next.offset = 0
    BY <2>1, CursorFields DEF Delivered, NextInv, FaithInv
  <2>3. \A m \in Mail \ Due(fetch.next) : Truthful(messages'[m], fetch.next, m)
    <3>1. run.mode = "bounded-resync" <=> Resyncing
      BY <2>1 DEF Resyncing
    <3> QED BY <1>9, <2>1, <3>1, LaidRecords, CommittedRecords DEF Base
  <2>4. Present' = Present /\ HistoryId' = HistoryId
    BY <2>1 DEF Present, HistoryId
  <2>5. Covers(messages, checkpoint)'
    BY <2>1, <2>2, <2>3, <2>4 DEF Covers, Truthful, Due, StartOf, Passed, HistoryStart
  <2>6. ~Resyncing'
    <3>1. CASE fetch.complete
      BY <1>9, <3>1 DEF CommitBatch, Settle, Idle, Resyncing, Active
    <3>2. CASE ~fetch.complete
      BY <1>9, <2>1, <3>2 DEF CommitBatch, RunTypes, Resyncing
    <3> QED BY <3>1, <3>2
  <2> QED BY <1>9, <2>5, <2>6, NotLoading DEF FaithInv
<1>10. CASE MailboxChanges
  BY <1>10, MailboxChangesFaith
<1>11. CASE ClockMoves \/ UNCHANGED vars
  <2>1. /\ UNCHANGED <<mail, log, messages, checkpoint, run, fetch, window>>
        /\ cutoff' >= cutoff /\ cutoff \in Nat /\ cutoff' \in Nat
    BY <1>11, SyncAssumption DEF ClockMoves, vars, mailboxVars, projectionVars, RunTypes
  <2>2. Resyncing' = Resyncing /\ Present' = Present /\ HistoryId' = HistoryId /\ Base' = Base
    BY <2>1 DEF Resyncing, Active, Present, HistoryId, Base
  <2>3. \A m \in Mail : m > cutoff' => m > cutoff
    BY <2>1, MailboxAssumption DEF Mail
  <2>4. ASSUME NEW c, NEW m \in Mail, NEW record, Truthful(record, c, m)
        PROVE  /\ record # Absent => record = mail[m]
               /\ m \in Present /\ m > cutoff' /\ (c.mode = "full" => m >= c.page)
                    => record = mail[m]
    BY <2>3, <2>4 DEF Truthful, Passed
  <2>5. Covers(messages, checkpoint)'
    <3>1. Covers(messages, checkpoint)
      BY DEF FaithInv
    <3> QED BY <2>1, <2>2, <2>4, <3>1
        DEF Covers, Truthful, Passed, Due, StartOf, HistoryStart, NoRecords
  <2>6. Resyncing => Covers(window.messages, run.cursor)'
    <3> SUFFICES ASSUME Resyncing PROVE Covers(window.messages, run.cursor)'
      OBVIOUS
    <3>1. Covers(window.messages, run.cursor)
      BY DEF FaithInv
    <3>2. CASE run.cursor = NoCursor
      BY <2>1, <3>1, <3>2 DEF Covers, NoRecords
    <3>3. CASE run.cursor # NoCursor
      <4>1. /\ run.cursor.offset = 0
            /\ \A m \in Mail \ Due(run.cursor) : Truthful(window.messages[m], run.cursor, m)
        BY <3>1, <3>3 DEF Covers
      <4>2. Due(run.cursor)' = Due(run.cursor)
        BY <2>1, <2>2 DEF Due, StartOf, HistoryStart
      <4>3. ASSUME NEW m \in Mail \ Due(run.cursor)
            PROVE  Truthful(window.messages[m], run.cursor, m)'
        BY <2>1, <2>2, <2>4, <4>1, <4>3 DEF Truthful, Passed
      <4> QED BY <2>1, <3>3, <4>1, <4>2, <4>3 DEF Covers
    <3> QED BY <3>2, <3>3
  <2>7. ASSUME run.phase = "load",
               NEW m \in Mail, m \notin (Due(fetch.next) \cup fetch.pending \cup fetch.deleted)'
        PROVE  Truthful(IF fetch.loaded[m] # Absent THEN fetch.loaded[m] ELSE Base[m],
                        fetch.next, m)'
    <3>1. m \notin Due(fetch.next) \cup fetch.pending \cup fetch.deleted
      BY <2>1, <2>2, <2>7 DEF Due, StartOf, HistoryStart
    <3>2. Truthful(IF fetch.loaded[m] # Absent THEN fetch.loaded[m] ELSE Base[m], fetch.next, m)
      BY <2>7, <3>1 DEF FaithInv
    <3> QED BY <2>1, <2>2, <2>4, <3>2 DEF Truthful, Passed
  <2> QED BY <2>1, <2>2, <2>5, <2>6, <2>7 DEF FaithInv
<1>12. CASE Retain
  <2>1. /\ UNCHANGED <<mail, log, cutoff, checkpoint, run>> /\ run.phase = "idle"
        /\ cutoff \in Nat /\ Expired(cutoff) # {}
    BY <1>12, SyncAssumption DEF Retain, ApplyRetention, mailboxVars, RunTypes
  <2>2. \A m \in Mail : messages'[m] = IF m \in Expired(cutoff) THEN Absent ELSE messages[m]
    BY <1>12, Empties DEF Retain, ApplyRetention
  <2>3. checkpoint # NoCursor /\ checkpoint.offset = 0
    <3>1. messages # NoRecords
      BY <2>1, Empties DEF Expired, Stored
    <3> QED BY <3>1 DEF FaithInv, Covers
  <2>4. ASSUME NEW m \in Mail \ Due(checkpoint)
        PROVE  Truthful(messages'[m], checkpoint, m)
    <3>1. Truthful(messages[m], checkpoint, m)
      BY <2>3, <2>4 DEF FaithInv, Covers
    <3>2. m \in Expired(cutoff) => ~(m > cutoff)
      BY <2>1, MailboxAssumption DEF Expired, Mail
    <3> QED BY <2>2, <3>1, <3>2 DEF Truthful, Passed
  <2>5. Present' = Present /\ HistoryId' = HistoryId
    BY <2>1 DEF Present, HistoryId
  <2>6. Covers(messages, checkpoint)'
    BY <2>1, <2>3, <2>4, <2>5 DEF Covers, Truthful, Due, StartOf, Passed, HistoryStart
  <2> QED BY <2>1, <2>6 DEF FaithInv, Resyncing, Active
<1> QED
  BY <1>1, <1>2, <1>3, <1>4, <1>5, <1>6, <1>7, <1>8, <1>9, <1>10, <1>11, <1>12
  DEF Next, RunStep

\* A cursor that has caught up tells the truth, however the mailbox changed between the
\* requests, where a page of the history holds no more changes than a batch takes: the
\* adapter asks for pages of SYNC_BATCH_SIZE records (fetchHistory), so that this is so while
\* every record is about one message.  Where it is not so, the run sync_offset refutes it.
THEOREM CaughtUpIsTrue ==
    ASSUME HistoryPage <= BatchSize
    PROVE  Spec => []CaughtUpIsFaithful
<1>1. IInv /\ FaithInv => CaughtUpIsFaithful
  <2> SUFFICES ASSUME IInv, FaithInv, CaughtUp
               PROVE  /\ \A m \in Stored(messages) : messages[m] = mail[m]
                      /\ \A m \in Present : m > cutoff => messages[m] = mail[m]
    BY DEF CaughtUpIsFaithful
  <2>1. HistoryId \in Nat /\ HistoryId \in 0..MaxEvents
    BY HistoryIds DEF IInv, Types
  <2>2. /\ checkpoint \in Cursors /\ checkpoint.mode = "history"
        /\ checkpoint.historyId = HistoryId /\ checkpoint.page = 0
    BY <2>1, HistoryCursors, MailboxAssumption DEF CaughtUp
  <2>3. Due(checkpoint) = {}
    BY <2>1, <2>2 DEF Due, StartOf, HistoryStart
  <2>4. \A m \in Mail : Truthful(messages[m], checkpoint, m)
    BY <2>2, <2>3, CursorFields DEF FaithInv, Covers
  <2> QED BY <2>2, <2>4, Empties DEF Truthful, Passed, Stored, Present
<1>2. Init => FaithInv
  BY InitFaith
<1>3. IInv /\ FaithInv /\ [Next]_vars => FaithInv'
  BY FaithInvIsKept
<1> QED BY <1>1, <1>2, <1>3, AlwaysIInv, PTL DEF Spec
=============================================================================
