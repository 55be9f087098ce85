------------------- MODULE ProviderMailLifecycleOwner_proofs -------------------
(***************************************************************************)
(* Proofs about ProviderMailLifecycleOwner: the types of all variables,    *)
(* for every set of calls; and that nothing works while an erasure runs    *)
(* and nothing is left suspended, as long as no deletion command reopens   *)
(* the gate under another one (ReopensAlone).                              *)
(*                                                                         *)
(* The invariant says who is at work.  Only the head of the queue works    *)
(* (QueueInv), so a sync is active only while the head is a syncing call   *)
(* (SyncInv), retention is paused and quiet behind a call that has         *)
(* suspended it (RetentionInv), all of it stays quiet while the owner is   *)
(* not running (QuietInv), where only a shutdown works and where alone a   *)
(* deletion is admitted (GateInv); and what is suspended in a running      *)
(* owner is held by a call that will resume it (ResumeInv).                *)
(***************************************************************************)
EXTENDS ProviderMailLifecycleOwner, FiniteSetTheorems, TLAPS

\* No deletion command reopens the gate (its finally, or a refusal) while
\* another deletion command stands behind it.  The code does not ensure this:
\* two commands share the owner's one gate.
ReopensAlone ==
    state = "suspended" /\ state' = "running"
        => \A c \in DeletionCalls : pc'[c] \notin {"gated", "erasing"}

\* The call has suspended retention and will resume it.
Holds(c) ==
    \/ pc[c] \in {"pausing", "syncing", "stopping"}
    \/ c \in DisconnectCalls /\ pc[c] = "erasing"

\* The call has had its turn and has not left the queue.
Working(c) == pc[c] = "settling" \/ Holds(c)

\* A call is queued once; the calls in the queue wait, all but the head; a
\* call that works is the head.
QueueInv ==
    /\ \A i, j \in 1..Len(queue) : queue[i] = queue[j] => i = j
    /\ \A i \in 1..Len(queue) : pc[queue[i]] = "queued" \/ (i = 1 /\ Working(queue[i]))
    /\ \A c \in Calls : Working(c) => IsHead(c)

\* A sync is active only for the call at the head.
SyncInv ==
    active # {} => /\ queue # <<>>
                   /\ pc[Head(queue)] = "syncing"
                   /\ active = {Target[Head(queue)]}

\* A deletion is behind the gate only while the owner is not running, one at
\* a time; then a shutdown alone works.
GateInv ==
    /\ \A c \in DeletionCalls :
         /\ pc[c] \in {"gated", "erasing"} => state # "running"
         /\ pc[c] = "erasing" <=> deleting = c
    /\ state # "running" => \A c \in Calls : Working(c) => c \in ShutdownCalls

\* Behind a call that holds it, retention is paused, and quiet unless the call
\* still awaits its run; it is stopped by a shutdown that will stop the owner.
RetentionInv ==
    /\ paused => ~scheduled
    /\ retentionStopped =>
         /\ paused
         /\ state = "stopped" \/ \E c \in ShutdownCalls : pc[c] \in {"pausing", "stopping"}
    /\ \A c \in Calls :
         Holds(c) => /\ paused
                     /\ retentionRunning => pc[c] = "pausing" /\ c \in pausing
                     /\ c \in ShutdownCalls => retentionStopped

\* All is quiet while the owner is not running, and it does not run again when
\* the worker keys are gone for good; a deletion that has failed without them
\* leaves the command available.
QuietInv ==
    /\ state # "running" => paused /\ ~retentionRunning /\ active = {}
    /\ ~available => state # "running"

\* What is suspended in a running owner, a call in the queue will resume.
ResumeInv ==
    state = "running" =>
        /\ syncSuspended => \E c \in DisconnectCalls \cup DeletionCalls \cup ShutdownCalls :
                                 pc[c] = "queued" \/ Working(c)
        /\ paused => \E c \in Calls : Holds(c)

IInv ==
    /\ TypeOK
    /\ QueueInv
    /\ SyncInv
    /\ GateInv
    /\ RetentionInv
    /\ QuietInv
    /\ ResumeInv

-----------------------------------------------------------------------------
(* Types *)

\* The types hold at the start.
LEMMA TypeHolds == Init => TypeOK
<1> SUFFICES ASSUME Init PROVE TypeOK
  OBVIOUS
<1>1. queue \in Seq(Calls) /\ deleting \in DeletionCalls \cup {NoCall}
  BY DEF Init
<1>2. {syncSuspended, paused, scheduled, retentionRunning, retentionStopped,
        available, pendingDeletion, keysDestroyed} \subseteq BOOLEAN
  BY DEF Init
<1> QED BY <1>1, <1>2 DEF Init, TypeOK

\* The steps that are no step of a call.
LEMMA TypeOfWorld ==
   ASSUME TypeOK,
          \/ \E a \in Accounts : SyncSettles(a)
          \/ RetentionFires
          \/ RetentionEnds
          \/ \E c \in SyncCalls : AttemptTimesOut(c)
   PROVE  TypeOK'
<1> USE CallsAssumption
      DEF TypeOK, queueVars, syncVars, retentionVars, commandVars, dataVars, Calls, AccountCalls
<1>1. ASSUME NEW a \in Accounts, SyncSettles(a) PROVE TypeOK'
  BY <1>1 DEF SyncSettles
<1>2. CASE RetentionFires BY <1>2 DEF RetentionFires
<1>3. CASE RetentionEnds BY <1>3 DEF RetentionEnds
<1>4. ASSUME NEW c \in SyncCalls, AttemptTimesOut(c) PROVE TypeOK'
  BY <1>4 DEF AttemptTimesOut
<1> QED BY <1>1, <1>2, <1>3, <1>4

\* The entry points.
LEMMA TypeOfCall ==
   ASSUME TypeOK, NEW c \in Calls,
          \/ c \in SyncOrActivate /\ SyncCall(c)
          \/ c \in DisconnectCalls /\ CallDisconnect(c)
          \/ c \in DeletionCalls /\ CallDeletion(c)
          \/ c \in ShutdownCalls /\ CallShutdown(c)
   PROVE  TypeOK'
<1> USE DEF queueVars, syncVars, retentionVars, commandVars, dataVars
<1>1. CASE Enqueue(c) /\ UNCHANGED <<state, syncVars, retentionVars, commandVars, dataVars>>
  BY <1>1 DEF TypeOK, Enqueue, GoTo
<1>2. CASE SyncSuspend(c) /\ Enqueue(c)
           /\ UNCHANGED <<state, retentionVars, commandVars, dataVars>>
  BY <1>2 DEF TypeOK, Enqueue, GoTo, SyncSuspend
<1>3. CASE Rejected(c)
  BY <1>3 DEF TypeOK, Rejected, GoTo
<1>4. CASE GoTo(c, "gated")
           /\ UNCHANGED <<state, queue, syncVars, retentionVars, commandVars, dataVars>>
  BY <1>4 DEF TypeOK, GoTo
<1>5. CASE c \in SyncOrActivate /\ SyncCall(c)
  BY <1>5, <1>1 DEF SyncCall, CallSync, CallActivate
<1>6. CASE c \in DisconnectCalls /\ CallDisconnect(c)
  BY <1>6, <1>2, <1>3 DEF CallDisconnect
<1>7. CASE c \in DeletionCalls /\ CallDeletion(c)
  BY <1>7, <1>2, <1>3, <1>4 DEF CallDeletion, TypeOK
<1>8. CASE c \in ShutdownCalls /\ CallShutdown(c)
  BY <1>8, <1>2 DEF CallShutdown
<1> QED BY <1>5, <1>6, <1>7, <1>8

\* Where the steps of a call can go.
Places == {"queued", "settling", "pausing", "gated", "syncing", "erasing", "joined",
           "stopping", "done"}

\* A call goes on, or leaves the queue for a place.
LEMMA TypeOfPlace ==
   ASSUME TypeOK, NEW c \in Calls, NEW where \in Places,
          Leave(c, where) \/ (GoTo(c, where) /\ UNCHANGED queue)
   PROVE  /\ queue' \in Seq(Calls)
          /\ pc' \in [Calls -> {"idle"} \cup Places]
BY DEF TypeOK, Leave, GoTo, IsHead, Places

\* RetentionSuspend and RetentionResume keep the types of retention.
LEMMA TypeOfRetention ==
   ASSUME TypeOK, NEW c \in Calls,
          RetentionSuspend(c) \/ RetentionResume \/ UNCHANGED retentionVars
   PROVE  /\ {paused', scheduled', retentionRunning', retentionStopped'} \subseteq BOOLEAN
          /\ pausing' \subseteq Calls
BY DEF TypeOK, RetentionSuspend, RetentionResume, retentionVars

\* The steps of syncs and activations.
LEMMA TypeOfSyncStep ==
   ASSUME TypeOK, NEW c \in SyncOrActivate, SyncStep(c)
   PROVE  TypeOK'
<1> USE CallsAssumption
      DEF SyncOrActivate, Calls, AccountCalls, Places, queueVars, syncVars, commandVars, dataVars
<1>1. Target[c] \in Accounts
  OBVIOUS
<1>2. CASE BeginSync(c)
  <2>1. /\ Leave(c, "done") \/ (GoTo(c, "pausing") /\ UNCHANGED queue)
        /\ RetentionSuspend(c) \/ UNCHANGED retentionVars
        /\ UNCHANGED <<state, syncVars, commandVars, dataVars>>
    BY <1>2 DEF BeginSync
  <2> QED BY <2>1, TypeOfPlace, TypeOfRetention DEF TypeOK
<1>3. CASE StartSync(c)
  <2>1. /\ Leave(c, "done") \/ (GoTo(c, "syncing") /\ UNCHANGED queue)
        /\ RetentionResume \/ UNCHANGED retentionVars
        /\ active' = active \/ active' = active \cup {Target[c]}
        /\ syncRows' = syncRows \/ syncRows' = syncRows \cup {Target[c]}
        /\ UNCHANGED <<state, syncSuspended, aborted, awaited, timedOut, commandVars, connected>>
    BY <1>3 DEF StartSync, FinishSync, retentionVars
  <2> QED BY <1>1, <2>1, TypeOfPlace, TypeOfRetention DEF TypeOK
<1>4. CASE EndSync(c)
  <2>1. /\ Leave(c, "done")
        /\ RetentionResume \/ UNCHANGED retentionVars
        /\ syncRows' = syncRows \cup {Target[c]}
        /\ UNCHANGED <<state, syncVars, commandVars, connected>>
    BY <1>4 DEF EndSync, FinishSync
  <2> QED BY <1>1, <2>1, TypeOfPlace, TypeOfRetention DEF TypeOK
<1> QED BY <1>2, <1>3, <1>4 DEF SyncStep

\* The steps of disconnects.
LEMMA TypeOfDisconnectStep ==
   ASSUME TypeOK, NEW c \in DisconnectCalls, DisconnectStep(c)
   PROVE  TypeOK'
<1> USE CallsAssumption
      DEF Calls, AccountCalls, Places, queueVars, syncVars, commandVars, dataVars
<1>1. CASE BeginSettling(c)
  BY <1>1, TypeOfPlace, TypeOfRetention DEF TypeOK, BeginSettling
<1>2. CASE SyncSettled(c)
  BY <1>2, TypeOfPlace, TypeOfRetention DEF TypeOK, SyncSettled
<1>3. CASE BeginDisconnect(c)
  BY <1>3, TypeOfPlace, TypeOfRetention DEF TypeOK, BeginDisconnect
<1>4. CASE EndDisconnect(c)
  <2>1. /\ Leave(c, "done")
        /\ RetentionResume \/ UNCHANGED retentionVars
        /\ connected' \subseteq connected /\ syncRows' \subseteq syncRows
        /\ syncSuspended' \in {syncSuspended, FALSE}
        /\ UNCHANGED <<state, active, aborted, awaited, timedOut, commandVars>>
    BY <1>4 DEF EndDisconnect, retentionVars
  <2> QED BY <2>1, TypeOfPlace, TypeOfRetention DEF TypeOK
<1> QED BY <1>1, <1>2, <1>3, <1>4 DEF DisconnectStep

\* The steps of deletions.
LEMMA TypeOfDeletionStep ==
   ASSUME TypeOK, NEW c \in DeletionCalls, DeletionStep(c)
   PROVE  TypeOK'
<1> USE CallsAssumption
      DEF Calls, AccountCalls, Places, queueVars, syncVars, commandVars, dataVars
<1>1. CASE BeginSettling(c)
  BY <1>1, TypeOfPlace, TypeOfRetention DEF TypeOK, BeginSettling
<1>2. CASE AlreadySuspended(c)
  BY <1>2, TypeOfPlace, TypeOfRetention DEF TypeOK, AlreadySuspended
<1>3. CASE SyncSettled(c)
  BY <1>3, TypeOfPlace, TypeOfRetention DEF TypeOK, SyncSettled
<1>4. CASE OwnerSuspended(c)
  BY <1>4, TypeOfPlace, TypeOfRetention DEF TypeOK, OwnerSuspended
<1>5. CASE StartDelete(c)
  BY <1>5, TypeOfPlace, TypeOfRetention DEF TypeOK, StartDelete
<1>6. CASE JoinDelete(c)
  BY <1>6, TypeOfPlace, TypeOfRetention DEF TypeOK, JoinDelete
<1>7. ReopenGate => /\ RetentionResume \/ UNCHANGED retentionVars
                    /\ state' \in {state, "running"}
                    /\ syncSuspended' \in {syncSuspended, FALSE}
                    /\ UNCHANGED <<active, aborted, awaited, timedOut>>
  BY DEF ReopenGate, OwnerResume
<1>8. CASE DeleteRefused(c)
  BY <1>7, <1>8, TypeOfPlace, TypeOfRetention DEF TypeOK, DeleteRefused
<1>9. DeleteSettles(c) => pc' \in [Calls -> {"idle"} \cup Places]
  BY DEF DeleteSettles, TypeOK
<1>10. CASE DeleteSucceeds(c)
  BY <1>9, <1>10, TypeOfRetention DEF TypeOK, DeleteSucceeds
<1>11. CASE DeleteFails(c)
  <2>1. connected' \in {connected, {}} /\ syncRows' \in {syncRows, {}}
    BY <1>11 DEF DeleteFails
  <2> QED BY <1>7, <1>9, <1>11, <2>1, TypeOfRetention DEF TypeOK, DeleteFails
<1> QED
  BY <1>1, <1>2, <1>3, <1>4, <1>5, <1>6, <1>8, <1>10, <1>11 DEF DeletionStep

\* The steps of shutdowns.
LEMMA TypeOfShutdownStep ==
   ASSUME TypeOK, NEW c \in ShutdownCalls, ShutdownStep(c)
   PROVE  TypeOK'
<1> USE CallsAssumption
      DEF Calls, AccountCalls, Places, queueVars, syncVars, commandVars, dataVars
<1>1. CASE BeginShutdown(c)
  BY <1>1, TypeOfPlace, TypeOfRetention DEF TypeOK, BeginShutdown
<1>2. CASE StopRetention(c)
  BY <1>2, TypeOfPlace DEF TypeOK, StopRetention
<1>3. CASE ShutdownSync(c)
  BY <1>3, TypeOfPlace, TypeOfRetention DEF TypeOK, ShutdownSync, SyncSuspend
<1>4. CASE EndShutdown(c)
  BY <1>4, TypeOfPlace, TypeOfRetention DEF TypeOK, EndShutdown
<1> QED BY <1>1, <1>2, <1>3, <1>4 DEF ShutdownStep

\* Every step keeps the types.
LEMMA TypeIsKept == TypeOK /\ [Next]_vars => TypeOK'
<1> SUFFICES ASSUME TypeOK, [Next]_vars PROVE TypeOK'
  OBVIOUS
<1>1. ASSUME NEW c \in Calls, Refuse(c) PROVE TypeOK'
  BY <1>1, TypeOfPlace, TypeOfRetention
    DEF TypeOK, Refuse, Places, syncVars, commandVars, dataVars
<1>2. ASSUME NEW c \in Calls, Step(c) PROVE TypeOK'
  BY <1>1, <1>2, TypeOfSyncStep, TypeOfDisconnectStep, TypeOfDeletionStep, TypeOfShutdownStep
    DEF Step
<1>3. CASE UNCHANGED vars
  BY <1>3 DEF TypeOK, vars, queueVars, syncVars, retentionVars, commandVars, dataVars
<1>4. SyncOrActivate \cup DisconnectCalls \cup DeletionCalls \cup ShutdownCalls = Calls
  BY DEF SyncOrActivate, Calls, AccountCalls
<1> QED BY <1>2, <1>3, <1>4, TypeOfWorld, TypeOfCall DEF Next

\* Every variable of the owner, of the coordinator and of retention keeps its
\* type.
THEOREM TypeCorrect == Spec => []TypeOK
BY TypeHolds, TypeIsKept, PTL DEF Spec

-----------------------------------------------------------------------------
(* The queue *)

\* What the steps do to the queue: a call is accepted, the head leaves it, or
\* it stays and a call that is no head in its turn does not begin to work.
Stays ==
    /\ queue' = queue
    /\ \A d \in Calls :
         \/ pc'[d] = pc[d]
         \/ IsHead(d) /\ Working(d)'
         \/ pc[d] # "queued" /\ ~Working(d) /\ ~Working(d)'

QueueStep ==
    \/ \E c \in Calls : pc[c] = "idle" /\ Enqueue(c)
    \/ \E c \in Calls, where \in {"gated", "done"} : Leave(c, where)
    \/ Stays

\* A call that is accepted was not in the queue.
LEMMA QueueAfterEnqueue ==
   ASSUME TypeOK, TypeOK', QueueInv, NEW c \in Calls, pc[c] = "idle", Enqueue(c)
   PROVE  QueueInv'
<1>1. /\ Len(queue') = Len(queue) + 1 /\ queue'[Len(queue) + 1] = c
      /\ \A i \in 1..Len(queue) : queue'[i] = queue[i] /\ queue[i] \in Calls /\ queue[i] # c
      /\ pc' = [pc EXCEPT ![c] = "queued"]
  BY DEF Enqueue, GoTo, TypeOK, QueueInv, Working, Holds
<1>2. queue # <<>> => Head(queue') = Head(queue)
  BY DEF Enqueue, TypeOK
<1>3. \A i, j \in 1..Len(queue') : queue'[i] = queue'[j] => i = j
  BY <1>1 DEF TypeOK, QueueInv
<1>4. ASSUME NEW i \in 1..Len(queue')
      PROVE  pc'[queue'[i]] = "queued" \/ (i = 1 /\ Working(queue[i])')
  <2>1. CASE i = Len(queue) + 1
    BY <1>1, <2>1 DEF TypeOK
  <2>2. CASE i \in 1..Len(queue)
    BY <1>1, <2>2 DEF TypeOK, QueueInv, Working, Holds
  <2> QED BY <1>1, <2>1, <2>2 DEF TypeOK
<1>5. \A d \in Calls : Working(d)' => IsHead(d)'
  BY <1>1, <1>2 DEF TypeOK, QueueInv, Working, Holds, IsHead
<1> QED BY <1>3, <1>4, <1>5 DEF QueueInv

\* When the head leaves, those behind it wait and none works.
LEMMA QueueAfterLeave ==
   ASSUME TypeOK, TypeOK', QueueInv, NEW c \in Calls, NEW where \in {"gated", "done"},
          Leave(c, where)
   PROVE  QueueInv'
<1> USE DEF TypeOK, QueueInv, Working, Holds, IsHead
<1>1. /\ queue # <<>> /\ queue[1] = c
      /\ Len(queue') = Len(queue) - 1
      /\ \A i \in 1..Len(queue') : queue'[i] = queue[i + 1] /\ queue[i + 1] \in Calls
      /\ pc' = [pc EXCEPT ![c] = where]
  BY DEF Leave, GoTo
<1>2. \A d \in Calls : ~Working(d)'
  BY <1>1
<1> QED BY <1>1, <1>2

\* A step that leaves the queue alone.
LEMMA QueueAfterStay ==
   ASSUME TypeOK, TypeOK', QueueInv, Stays
   PROVE  QueueInv'
<1> USE DEF Stays
<1>1. ASSUME NEW d \in Calls PROVE Working(d)' => IsHead(d)'
  BY DEF QueueInv, Working, Holds, IsHead
<1>2. ASSUME NEW i \in 1..Len(queue)
      PROVE  pc'[queue[i]] = "queued" \/ (i = 1 /\ Working(queue[i])')
  <2>1. queue[i] \in Calls
    BY DEF TypeOK
  <2>2. IsHead(queue[i]) => i = 1
    BY DEF IsHead, TypeOK, QueueInv
  <2> QED BY <2>1, <2>2 DEF QueueInv, Working, Holds
<1> QED BY <1>1, <1>2 DEF QueueInv, Working, Holds

\* Every step is one of the three.
LEMMA StepsAreQueueSteps ==
   ASSUME TypeOK, QueueInv, [Next]_vars
   PROVE  QueueStep
<1> USE CallsAssumption
      DEF TypeOK, QueueInv, QueueStep, Stays, Working, Holds, IsHead, GoTo, Leave, queueVars,
          Calls, AccountCalls, SyncOrActivate
<1>1. ASSUME NEW a \in Accounts, SyncSettles(a) PROVE QueueStep
  BY <1>1 DEF SyncSettles
<1>2. CASE RetentionFires \/ RetentionEnds
  BY <1>2 DEF RetentionFires, RetentionEnds
<1>3. ASSUME NEW c \in Calls, Refuse(c) PROVE QueueStep
  BY <1>3 DEF Refuse
<1>4. ASSUME NEW c \in SyncOrActivate, BeginSync(c) PROVE QueueStep
  <2>1. CASE Leave(c, "done") BY <2>1
  <2>2. CASE GoTo(c, "pausing") /\ UNCHANGED queue
    <3>1. Stays BY <1>4, <2>2 DEF BeginSync
    <3> QED BY <3>1
  <2> QED BY <1>4, <2>1, <2>2 DEF BeginSync
<1>5. ASSUME NEW c \in SyncOrActivate, StartSync(c) PROVE QueueStep
  <2>1. CASE Leave(c, "done") BY <2>1
  <2>2. CASE GoTo(c, "syncing") /\ UNCHANGED queue
    <3>1. Stays BY <1>5, <2>2 DEF StartSync
    <3> QED BY <3>1
  <2> QED BY <1>5, <2>1, <2>2 DEF StartSync, FinishSync
<1>6. ASSUME NEW c \in SyncOrActivate, EndSync(c) PROVE QueueStep
  BY <1>6 DEF EndSync, FinishSync
<1>7. ASSUME NEW c \in DisconnectCalls \cup DeletionCalls, BeginSettling(c) PROVE QueueStep
  BY <1>7 DEF BeginSettling
<1>8. ASSUME NEW c \in DisconnectCalls \cup DeletionCalls, SyncSettled(c) PROVE QueueStep
  BY <1>8 DEF SyncSettled
<1>9. ASSUME NEW c \in DisconnectCalls, BeginDisconnect(c) \/ EndDisconnect(c)
      PROVE  QueueStep
  BY <1>9 DEF BeginDisconnect, EndDisconnect
<1>10. ASSUME NEW c \in DeletionCalls, AlreadySuspended(c) \/ OwnerSuspended(c)
       PROVE  QueueStep
  BY <1>10 DEF AlreadySuspended, OwnerSuspended
<1>11. ASSUME NEW c \in DeletionCalls, StartDelete(c) \/ JoinDelete(c) \/ DeleteRefused(c)
       PROVE  QueueStep
  BY <1>11 DEF StartDelete, JoinDelete, DeleteRefused
<1>12. ASSUME NEW c \in DeletionCalls, DeleteSucceeds(c) \/ DeleteFails(c)
       PROVE  QueueStep
  <2>1. queue' = queue /\ DeleteSettles(c) /\ pc[c] = "erasing"
    BY <1>12 DEF DeleteSucceeds, DeleteFails
  <2>2. Stays
    BY <2>1 DEF DeleteSettles
  <2> QED BY <2>2
<1>13. ASSUME NEW c \in ShutdownCalls, BeginShutdown(c) \/ StopRetention(c) \/ ShutdownSync(c)
       PROVE  QueueStep
  BY <1>13 DEF BeginShutdown, StopRetention, ShutdownSync
<1>14. ASSUME NEW c \in ShutdownCalls, EndShutdown(c) PROVE QueueStep
  BY <1>14 DEF EndShutdown
<1>15. ASSUME NEW c \in SyncOrActivate, SyncCall(c) PROVE QueueStep
  BY <1>15 DEF SyncCall, CallSync, CallActivate
<1>16. ASSUME NEW c \in SyncCalls, AttemptTimesOut(c) PROVE QueueStep
  BY <1>16 DEF AttemptTimesOut
<1>17. ASSUME NEW c \in DisconnectCalls, CallDisconnect(c) PROVE QueueStep
  BY <1>17 DEF CallDisconnect, Rejected
<1>18. ASSUME NEW c \in DeletionCalls, CallDeletion(c) PROVE QueueStep
  <2>1. CASE Enqueue(c) BY <1>18, <2>1 DEF CallDeletion
  <2>2. CASE queue' = queue /\ (GoTo(c, "gated") \/ GoTo(c, "done"))
    <3>1. Stays BY <1>18, <2>2 DEF CallDeletion
    <3> QED BY <3>1
  <2> QED BY <1>18, <2>1, <2>2 DEF CallDeletion, Rejected
<1>19. ASSUME NEW c \in ShutdownCalls, CallShutdown(c) PROVE QueueStep
  BY <1>19 DEF CallShutdown
<1>20. CASE UNCHANGED vars
  BY <1>20 DEF vars
<1> QED
  BY <1>1, <1>2, <1>3, <1>4, <1>5, <1>6, <1>7, <1>8, <1>9, <1>10, <1>11, <1>12, <1>13,
     <1>14, <1>15, <1>16, <1>17, <1>18, <1>19, <1>20
    DEF Next, Step, SyncStep, DisconnectStep, DeletionStep, ShutdownStep

\* Every step keeps the invariant of the queue.
LEMMA QueueIsKept ==
   ASSUME TypeOK, QueueInv, [Next]_vars
   PROVE  QueueInv'
<1>1. TypeOK'
  BY TypeIsKept
<1> QED
  BY <1>1, StepsAreQueueSteps, QueueAfterEnqueue, QueueAfterLeave, QueueAfterStay
    DEF QueueStep

-----------------------------------------------------------------------------
(* Sync, the gate, retention *)

\* A sync begins with its call at the head, and the call leaves only when the
\* sync has settled.
LEMMA SyncIsKept ==
   ASSUME TypeOK, QueueInv, SyncInv, QueueInv', [Next]_vars
   PROVE  SyncInv'
<1> USE CallsAssumption
      DEF TypeOK, QueueInv, SyncInv, Working, Holds, IsHead,
          GoTo, Enqueue, Leave, queueVars, syncVars, retentionVars, commandVars, dataVars, Calls,
          AccountCalls, SyncOrActivate
<1>1. ASSUME NEW a \in Accounts, SyncSettles(a) PROVE SyncInv'
  BY <1>1 DEF SyncSettles
<1>2. CASE RetentionFires \/ RetentionEnds
  BY <1>2 DEF RetentionFires, RetentionEnds
<1>3. ASSUME NEW c \in Calls, Refuse(c) PROVE SyncInv'
  BY <1>3 DEF Refuse
<1>4. ASSUME NEW c \in SyncOrActivate, SyncStep(c) PROVE SyncInv'
  BY <1>4
    DEF SyncStep, BeginSync, StartSync, EndSync, FinishSync, RetentionSuspend,
        RetentionResume
<1>5. ASSUME NEW c \in DisconnectCalls, DisconnectStep(c) PROVE SyncInv'
  BY <1>5
    DEF DisconnectStep, BeginSettling, SyncSettled, BeginDisconnect, EndDisconnect,
        RetentionSuspend, RetentionResume
<1>6. ASSUME NEW c \in DeletionCalls, DeletionStep(c) PROVE SyncInv'
  BY <1>6
    DEF DeletionStep, BeginSettling, AlreadySuspended, SyncSettled, OwnerSuspended,
        StartDelete, JoinDelete, DeleteRefused, DeleteSucceeds, DeleteFails, DeleteSettles,
        ReopenGate, OwnerResume, RetentionSuspend, RetentionResume
<1>7. ASSUME NEW c \in ShutdownCalls, ShutdownStep(c) PROVE SyncInv'
  BY <1>7
    DEF ShutdownStep, BeginShutdown, StopRetention, ShutdownSync, EndShutdown, SyncSuspend
<1>8. ASSUME NEW c \in SyncOrActivate, SyncCall(c) PROVE SyncInv'
  BY <1>8 DEF SyncCall, CallSync, CallActivate
<1>9. ASSUME NEW c \in SyncCalls, AttemptTimesOut(c) PROVE SyncInv'
  BY <1>9 DEF AttemptTimesOut
<1>10. ASSUME NEW c \in DisconnectCalls, CallDisconnect(c) PROVE SyncInv'
  BY <1>10 DEF CallDisconnect, SyncSuspend, Rejected
<1>11. ASSUME NEW c \in DeletionCalls, CallDeletion(c) PROVE SyncInv'
  <2>1. CASE state = "running"
    BY <1>11, <2>1 DEF CallDeletion, SyncSuspend, Rejected
  <2>2. CASE state = "suspended"
    BY <1>11, <2>2 DEF CallDeletion, SyncSuspend, Rejected
  <2>3. CASE state = "stopped"
    BY <1>11, <2>3 DEF CallDeletion, SyncSuspend, Rejected
  <2> QED BY <2>1, <2>2, <2>3
<1>12. ASSUME NEW c \in ShutdownCalls, CallShutdown(c) PROVE SyncInv'
  BY <1>12 DEF CallShutdown, SyncSuspend
<1>13. CASE UNCHANGED vars
  BY <1>13 DEF vars
<1> QED
  BY <1>1, <1>2, <1>3, <1>4, <1>5, <1>6, <1>7, <1>8, <1>9, <1>10, <1>11, <1>12, <1>13
    DEF Next, Step

\* A deletion passes the gate when the owner has been suspended, and ReopensAlone
\* says that nobody opens it again under another deletion.
LEMMA GateIsKept ==
   ASSUME TypeOK, QueueInv, GateInv, QueueInv', ReopensAlone, [Next]_vars
   PROVE  GateInv'
<1> USE CallsAssumption
      DEF TypeOK, QueueInv, GateInv, ReopensAlone, Working, Holds, IsHead,
          GoTo, Enqueue, Leave, queueVars, syncVars, retentionVars, commandVars, dataVars, Calls,
          AccountCalls, SyncOrActivate
<1>1. ASSUME NEW a \in Accounts, SyncSettles(a) PROVE GateInv'
  BY <1>1 DEF SyncSettles
<1>2. CASE RetentionFires \/ RetentionEnds
  BY <1>2 DEF RetentionFires, RetentionEnds
<1>3. ASSUME NEW c \in Calls, Refuse(c) PROVE GateInv'
  BY <1>3 DEF Refuse
<1>4. ASSUME NEW c \in SyncOrActivate, SyncStep(c) PROVE GateInv'
  BY <1>4
    DEF SyncStep, BeginSync, StartSync, EndSync, FinishSync, RetentionSuspend,
        RetentionResume
<1>5. ASSUME NEW c \in DisconnectCalls, DisconnectStep(c) PROVE GateInv'
  BY <1>5
    DEF DisconnectStep, BeginSettling, SyncSettled, BeginDisconnect, EndDisconnect,
        RetentionSuspend, RetentionResume
<1>6. ASSUME NEW c \in DeletionCalls, DeletionStep(c) PROVE GateInv'
  BY <1>6
    DEF DeletionStep, BeginSettling, AlreadySuspended, SyncSettled, OwnerSuspended,
        StartDelete, JoinDelete, DeleteRefused, DeleteSucceeds, DeleteFails, DeleteSettles,
        ReopenGate, OwnerResume, RetentionSuspend, RetentionResume
<1>7. ASSUME NEW c \in ShutdownCalls, ShutdownStep(c) PROVE GateInv'
  BY <1>7
    DEF ShutdownStep, BeginShutdown, StopRetention, ShutdownSync, EndShutdown, SyncSuspend
<1>8. ASSUME NEW c \in SyncOrActivate, SyncCall(c) PROVE GateInv'
  BY <1>8 DEF SyncCall, CallSync, CallActivate
<1>9. ASSUME NEW c \in SyncCalls, AttemptTimesOut(c) PROVE GateInv'
  BY <1>9 DEF AttemptTimesOut
<1>10. ASSUME NEW c \in DisconnectCalls, CallDisconnect(c) PROVE GateInv'
  BY <1>10 DEF CallDisconnect, SyncSuspend, Rejected
<1>11. ASSUME NEW c \in DeletionCalls, CallDeletion(c) PROVE GateInv'
  <2>1. CASE state = "running"
    BY <1>11, <2>1 DEF CallDeletion, SyncSuspend, Rejected
  <2>2. CASE state = "suspended"
    BY <1>11, <2>2 DEF CallDeletion, SyncSuspend, Rejected
  <2>3. CASE state = "stopped"
    BY <1>11, <2>3 DEF CallDeletion, SyncSuspend, Rejected
  <2> QED BY <2>1, <2>2, <2>3
<1>12. ASSUME NEW c \in ShutdownCalls, CallShutdown(c) PROVE GateInv'
  BY <1>12 DEF CallShutdown, SyncSuspend
<1>13. CASE UNCHANGED vars
  BY <1>13 DEF vars
<1> QED
  BY <1>1, <1>2, <1>3, <1>4, <1>5, <1>6, <1>7, <1>8, <1>9, <1>10, <1>11, <1>12, <1>13
    DEF Next, Step

\* Retention runs and is resumed only when nobody holds it.
LEMMA RetentionIsKept ==
   ASSUME TypeOK, QueueInv, GateInv, RetentionInv, QueueInv', [Next]_vars
   PROVE  RetentionInv'
<1> USE CallsAssumption
      DEF TypeOK, QueueInv, GateInv, RetentionInv, Working, Holds, IsHead,
          GoTo, Enqueue, Leave, queueVars, syncVars, retentionVars, commandVars, dataVars, Calls,
          AccountCalls, SyncOrActivate
<1>1. ASSUME NEW a \in Accounts, SyncSettles(a) PROVE RetentionInv'
  BY <1>1 DEF SyncSettles
<1>2. CASE RetentionFires \/ RetentionEnds
  BY <1>2 DEF RetentionFires, RetentionEnds
<1>3. ASSUME NEW c \in Calls, Refuse(c) PROVE RetentionInv'
  BY <1>3 DEF Refuse
<1>4. ASSUME NEW c \in SyncOrActivate, SyncStep(c) PROVE RetentionInv'
  BY <1>4
    DEF SyncStep, BeginSync, StartSync, EndSync, FinishSync, RetentionSuspend,
        RetentionResume
<1>5. ASSUME NEW c \in DisconnectCalls, DisconnectStep(c) PROVE RetentionInv'
  BY <1>5
    DEF DisconnectStep, BeginSettling, SyncSettled, BeginDisconnect, EndDisconnect,
        RetentionSuspend, RetentionResume
<1>6. ASSUME NEW c \in DeletionCalls, DeletionStep(c) PROVE RetentionInv'
  BY <1>6
    DEF DeletionStep, BeginSettling, AlreadySuspended, SyncSettled, OwnerSuspended,
        StartDelete, JoinDelete, DeleteRefused, DeleteSucceeds, DeleteFails, DeleteSettles,
        ReopenGate, OwnerResume, RetentionSuspend, RetentionResume
<1>7. ASSUME NEW c \in ShutdownCalls, ShutdownStep(c) PROVE RetentionInv'
  BY <1>7
    DEF ShutdownStep, BeginShutdown, StopRetention, ShutdownSync, EndShutdown, SyncSuspend
<1>8. ASSUME NEW c \in SyncOrActivate, SyncCall(c) PROVE RetentionInv'
  BY <1>8 DEF SyncCall, CallSync, CallActivate
<1>9. ASSUME NEW c \in SyncCalls, AttemptTimesOut(c) PROVE RetentionInv'
  BY <1>9 DEF AttemptTimesOut
<1>10. ASSUME NEW c \in DisconnectCalls, CallDisconnect(c) PROVE RetentionInv'
  BY <1>10 DEF CallDisconnect, SyncSuspend, Rejected
<1>11. ASSUME NEW c \in DeletionCalls, CallDeletion(c) PROVE RetentionInv'
  <2>1. CASE state = "running"
    BY <1>11, <2>1 DEF CallDeletion, SyncSuspend, Rejected
  <2>2. CASE state = "suspended"
    BY <1>11, <2>2 DEF CallDeletion, SyncSuspend, Rejected
  <2>3. CASE state = "stopped"
    BY <1>11, <2>3 DEF CallDeletion, SyncSuspend, Rejected
  <2> QED BY <2>1, <2>2, <2>3
<1>12. ASSUME NEW c \in ShutdownCalls, CallShutdown(c) PROVE RetentionInv'
  BY <1>12 DEF CallShutdown, SyncSuspend
<1>13. CASE UNCHANGED vars
  BY <1>13 DEF vars
<1> QED
  BY <1>1, <1>2, <1>3, <1>4, <1>5, <1>6, <1>7, <1>8, <1>9, <1>10, <1>11, <1>12, <1>13
    DEF Next, Step

\* The owner is suspended or stopped by a call that has made everything quiet.
LEMMA QuietIsKept ==
   ASSUME TypeOK, QueueInv, SyncInv, GateInv, RetentionInv, QuietInv, [Next]_vars
   PROVE  QuietInv'
<1> USE CallsAssumption
      DEF TypeOK, QueueInv, SyncInv, GateInv, RetentionInv, QuietInv, Working, Holds, IsHead,
          GoTo, Enqueue, Leave, queueVars, syncVars, retentionVars, commandVars, dataVars, Calls,
          AccountCalls, SyncOrActivate
<1>1. ASSUME NEW a \in Accounts, SyncSettles(a) PROVE QuietInv'
  BY <1>1 DEF SyncSettles
<1>2. CASE RetentionFires \/ RetentionEnds
  BY <1>2 DEF RetentionFires, RetentionEnds
<1>3. ASSUME NEW c \in Calls, Refuse(c) PROVE QuietInv'
  BY <1>3 DEF Refuse
<1>4. ASSUME NEW c \in SyncOrActivate, SyncStep(c) PROVE QuietInv'
  BY <1>4
    DEF SyncStep, BeginSync, StartSync, EndSync, FinishSync, RetentionSuspend,
        RetentionResume
<1>5. ASSUME NEW c \in DisconnectCalls, DisconnectStep(c) PROVE QuietInv'
  BY <1>5
    DEF DisconnectStep, BeginSettling, SyncSettled, BeginDisconnect, EndDisconnect,
        RetentionSuspend, RetentionResume
<1>6. ASSUME NEW c \in DeletionCalls, DeletionStep(c) PROVE QuietInv'
  BY <1>6
    DEF DeletionStep, BeginSettling, AlreadySuspended, SyncSettled, OwnerSuspended,
        StartDelete, JoinDelete, DeleteRefused, DeleteSucceeds, DeleteFails, DeleteSettles,
        ReopenGate, OwnerResume, RetentionSuspend, RetentionResume
<1>7. ASSUME NEW c \in ShutdownCalls, ShutdownStep(c) PROVE QuietInv'
  BY <1>7
    DEF ShutdownStep, BeginShutdown, StopRetention, ShutdownSync, EndShutdown, SyncSuspend
<1>8. ASSUME NEW c \in SyncOrActivate, SyncCall(c) PROVE QuietInv'
  BY <1>8 DEF SyncCall, CallSync, CallActivate
<1>9. ASSUME NEW c \in SyncCalls, AttemptTimesOut(c) PROVE QuietInv'
  BY <1>9 DEF AttemptTimesOut
<1>10. ASSUME NEW c \in DisconnectCalls, CallDisconnect(c) PROVE QuietInv'
  BY <1>10 DEF CallDisconnect, SyncSuspend, Rejected
<1>11. ASSUME NEW c \in DeletionCalls, CallDeletion(c) PROVE QuietInv'
  <2>1. CASE state = "running"
    BY <1>11, <2>1 DEF CallDeletion, SyncSuspend, Rejected
  <2>2. CASE state = "suspended"
    BY <1>11, <2>2 DEF CallDeletion, SyncSuspend, Rejected
  <2>3. CASE state = "stopped"
    BY <1>11, <2>3 DEF CallDeletion, SyncSuspend, Rejected
  <2> QED BY <2>1, <2>2, <2>3
<1>12. ASSUME NEW c \in ShutdownCalls, CallShutdown(c) PROVE QuietInv'
  BY <1>12 DEF CallShutdown, SyncSuspend
<1>13. CASE UNCHANGED vars
  BY <1>13 DEF vars
<1> QED
  BY <1>1, <1>2, <1>3, <1>4, <1>5, <1>6, <1>7, <1>8, <1>9, <1>10, <1>11, <1>12, <1>13
    DEF Next, Step

\* A call that leaves the queue of a running owner resumes what it has suspended.
LEMMA ResumeIsKept ==
   ASSUME TypeOK, QueueInv, GateInv, RetentionInv, ResumeInv, QueueInv', ReopensAlone, [Next]_vars
   PROVE  ResumeInv'
<1> USE CallsAssumption
      DEF TypeOK, QueueInv, GateInv, RetentionInv, ResumeInv, ReopensAlone, Working, Holds, IsHead,
          GoTo, Enqueue, Leave, queueVars, syncVars, retentionVars, commandVars, dataVars, Calls,
          AccountCalls, SyncOrActivate
<1>1. ASSUME NEW a \in Accounts, SyncSettles(a) PROVE ResumeInv'
  BY <1>1 DEF SyncSettles
<1>2. CASE RetentionFires \/ RetentionEnds
  BY <1>2 DEF RetentionFires, RetentionEnds
<1>3. ASSUME NEW c \in Calls, Refuse(c) PROVE ResumeInv'
  BY <1>3 DEF Refuse
<1>4. ASSUME NEW c \in SyncOrActivate, SyncStep(c) PROVE ResumeInv'
  BY <1>4
    DEF SyncStep, BeginSync, StartSync, EndSync, FinishSync, RetentionSuspend,
        RetentionResume
<1>5. ASSUME NEW c \in DisconnectCalls, DisconnectStep(c) PROVE ResumeInv'
  BY <1>5
    DEF DisconnectStep, BeginSettling, SyncSettled, BeginDisconnect, EndDisconnect,
        RetentionSuspend, RetentionResume
<1>6. ASSUME NEW c \in DeletionCalls, DeletionStep(c) PROVE ResumeInv'
  BY <1>6
    DEF DeletionStep, BeginSettling, AlreadySuspended, SyncSettled, OwnerSuspended,
        StartDelete, JoinDelete, DeleteRefused, DeleteSucceeds, DeleteFails, DeleteSettles,
        ReopenGate, OwnerResume, RetentionSuspend, RetentionResume
<1>7. ASSUME NEW c \in ShutdownCalls, ShutdownStep(c) PROVE ResumeInv'
  BY <1>7
    DEF ShutdownStep, BeginShutdown, StopRetention, ShutdownSync, EndShutdown, SyncSuspend
<1>8. ASSUME NEW c \in SyncOrActivate, SyncCall(c) PROVE ResumeInv'
  BY <1>8 DEF SyncCall, CallSync, CallActivate
<1>9. ASSUME NEW c \in SyncCalls, AttemptTimesOut(c) PROVE ResumeInv'
  BY <1>9 DEF AttemptTimesOut
<1>10. ASSUME NEW c \in DisconnectCalls, CallDisconnect(c) PROVE ResumeInv'
  BY <1>10 DEF CallDisconnect, SyncSuspend, Rejected
<1>11. ASSUME NEW c \in DeletionCalls, CallDeletion(c) PROVE ResumeInv'
  <2>1. CASE state = "running"
    BY <1>11, <2>1 DEF CallDeletion, SyncSuspend, Rejected
  <2>2. CASE state = "suspended"
    BY <1>11, <2>2 DEF CallDeletion, SyncSuspend, Rejected
  <2>3. CASE state = "stopped"
    BY <1>11, <2>3 DEF CallDeletion, SyncSuspend, Rejected
  <2> QED BY <2>1, <2>2, <2>3
<1>12. ASSUME NEW c \in ShutdownCalls, CallShutdown(c) PROVE ResumeInv'
  BY <1>12 DEF CallShutdown, SyncSuspend
<1>13. CASE UNCHANGED vars
  BY <1>13 DEF vars
<1> QED
  BY <1>1, <1>2, <1>3, <1>4, <1>5, <1>6, <1>7, <1>8, <1>9, <1>10, <1>11, <1>12, <1>13
    DEF Next, Step

-----------------------------------------------------------------------------
(* The theorems *)

\* The invariant holds at the start.
LEMMA IInvHolds == Init => IInv
<1> SUFFICES ASSUME Init PROVE IInv
  OBVIOUS
<1>1. TypeOK
  BY TypeHolds
<1> QED
  BY <1>1, CallsAssumption
    DEF Init, IInv, QueueInv, SyncInv, GateInv, RetentionInv, QuietInv, ResumeInv, Working,
        Holds, Calls

\* Every step that reopens the gate alone keeps the invariant.
LEMMA IInvIsKept == IInv /\ [Next]_vars /\ [ReopensAlone]_vars => IInv'
<1> SUFFICES ASSUME IInv, [Next]_vars, [ReopensAlone]_vars PROVE IInv'
  OBVIOUS
<1>1. ReopensAlone
  BY DEF ReopensAlone, vars, queueVars
<1>2. QueueInv'
  BY QueueIsKept DEF IInv
<1> QED
  BY <1>1, <1>2, TypeIsKept, SyncIsKept, GateIsKept, RetentionIsKept, QuietIsKept,
     ResumeIsKept
    DEF IInv

\* The invariant always holds while no deletion reopens the gate under another.
LEMMA AlwaysIInv == Spec /\ [][ReopensAlone]_vars => []IInv
BY IInvHolds, IInvIsKept, PTL DEF Spec

\* A disconnect erases at the head of the queue of a running owner, a deletion
\* behind the gate of one that is not.
LEMMA OneErasure ==
   ASSUME IInv
   PROVE  Cardinality(Erasing) <= 1
<1>1. \A c, d \in Erasing : c = d
  BY CallsAssumption
    DEF IInv, Erasing, QueueInv, GateInv, Working, Holds, IsHead, Calls, AccountCalls
<1>2. CASE Erasing = {}
  BY <1>2, FS_EmptySet
<1>3. CASE Erasing # {}
  <2>1. PICK c \in Erasing : TRUE
    BY <1>3
  <2>2. Erasing = {c}
    BY <1>1, <2>1
  <2>3. Cardinality({c}) = 1
    BY FS_Singleton
  <2> QED BY <2>2, <2>3
<1> QED BY <1>2, <1>3

\* While a disconnect or a deletion erases, and once a shutdown or a completed
\* deletion has destroyed the worker keys, no sync is active and no retention run
\* is, and no other erasure; whatever calls there are, as long as the gate is not
\* reopened under a deletion.  After a deletion that failed in its last phase,
\* work without keys is resumed, which the property sets apart.
THEOREM NothingWorksWhileErasing == Spec /\ [][ReopensAlone]_vars => []NoWorkWhileErasing
<1>1. ASSUME IInv
      PROVE  Erasing # {} \/ (keysDestroyed /\ ~FailedWithoutKeys)
                => active = {} /\ ~retentionRunning
  BY <1>1, CallsAssumption
    DEF IInv, Erasing, QueueInv, SyncInv, GateInv, RetentionInv, QuietInv, IsHead, Working,
        Holds, Calls, AccountCalls, FailedWithoutKeys
<1>2. IInv => NoWorkWhileErasing
  BY <1>1, OneErasure DEF NoWorkWhileErasing
<1> QED BY AlwaysIInv, <1>2, PTL

\* A running owner without an outstanding call has its coordinator and its
\* retention resumed.
THEOREM NothingIsLeftSuspended == Spec /\ [][ReopensAlone]_vars => []IdleMeansResumed
<1>1. IInv => IdleMeansResumed
  BY DEF IInv, IdleMeansResumed, ResumeInv, Holds, Working, Calls, AccountCalls
<1> QED BY AlwaysIInv, <1>1, PTL

\* With at most one deletion command, nobody else stands behind the gate when
\* it is reopened.
LEMMA OneDeletionReopensAlone ==
   ASSUME \A c, d \in DeletionCalls : c = d
   PROVE  Spec => [][ReopensAlone]_vars
<1>1. ASSUME TypeOK, [Next]_vars PROVE [ReopensAlone]_vars
  <2> SUFFICES ASSUME state = "suspended", state' = "running" PROVE ReopensAlone
    BY DEF ReopensAlone
  <2> USE <1>1 DEF Calls, AccountCalls
  <2>1. PICK c \in DeletionCalls : DeleteRefused(c) \/ DeleteFails(c)
    BY DEF Next, Step, SyncStep, DisconnectStep, DeletionStep, ShutdownStep, SyncCall, vars,
           queueVars, SyncSettles, RetentionFires, RetentionEnds, Refuse, BeginSync, StartSync,
           EndSync, FinishSync, BeginSettling, SyncSettled, BeginDisconnect, EndDisconnect,
           AlreadySuspended, OwnerSuspended, StartDelete, JoinDelete, DeleteSucceeds,
           BeginShutdown, StopRetention, ShutdownSync, EndShutdown, CallSync, CallActivate,
           AttemptTimesOut, CallDisconnect, CallDeletion, CallShutdown, Rejected
  <2>2. pc'[c] = "done"
    BY <2>1 DEF TypeOK, DeleteRefused, DeleteFails, DeleteSettles, GoTo
  <2> QED BY <2>1, <2>2 DEF ReopensAlone
<1> QED BY <1>1, TypeCorrect, PTL DEF Spec

\* With at most one deletion command, and any number of other calls, both hold
\* in every behaviour.
THEOREM OneDeletionIsSafe ==
   ASSUME \A c, d \in DeletionCalls : c = d
   PROVE  Spec => [](NoWorkWhileErasing /\ IdleMeansResumed)
BY OneDeletionReopensAlone, NothingWorksWhileErasing, NothingIsLeftSuspended, PTL
=============================================================================
