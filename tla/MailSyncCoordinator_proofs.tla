---------------------- MODULE MailSyncCoordinator_proofs ----------------------
(***************************************************************************)
(* Proofs about MailSyncCoordinator: the types of all variables, that it   *)
(* never runs more accounts than it has slots, and that nothing runs once  *)
(* a suspension has settled.                                               *)
(*                                                                         *)
(* The counter of the gate is never less than the number of runs that hold *)
(* a slot (SlotInv); it may be more, for a slot that is handed to a run    *)
(* aborted at the same time is counted and held by nobody.  The queue of   *)
(* the gate says who waits, each once (QueueInv), which is why an abort    *)
(* leaves nobody waiting (AbortInv) and a released slot goes to a run that *)
(* is there.  A suspension is quiet because what was active when it began  *)
(* is on its list and nothing begins after it (QuietInv).                  *)
(***************************************************************************)
EXTENDS MailSyncCoordinator, FiniteSetTheorems, SequenceTheorems, TLAPS

Phases == {"none", "waiting", "handed", "rejected", "working", "committing"}

\* Runs that hold a slot are counted; the counter may count more.
SlotInv ==
    /\ phase \in [Accounts -> Phases]
    /\ slots \in Nat
    /\ slots <= Limit
    /\ Cardinality(Holding) <= slots

-------------------------------------------------------------------------------
(* Who holds a slot *)

\* The runs that hold a slot can be counted.
LEMMA HoldingFinite == IsFiniteSet(Holding) /\ Cardinality(Holding) \in Nat
<1>1. Holding \subseteq Accounts
  BY DEF Holding
<1> QED BY <1>1, FS_Subset, FS_CardinalityType, CoordinatorAssumption

\* They can still be counted after a step.
LEMMA HoldingFiniteNext == IsFiniteSet(Holding') /\ Cardinality(Holding') \in Nat
<1>1. Holding' \subseteq Accounts
  BY DEF Holding
<1> QED BY <1>1, FS_Subset, FS_CardinalityType, CoordinatorAssumption

\* A step that gives a slot to nobody and leaves the counter alone.
LEMMA NoNewHolder ==
    ASSUME SlotInv, phase' \in [Accounts -> Phases], UNCHANGED slots,
           Holding' \subseteq Holding
    PROVE  SlotInv'
<1>1. Cardinality(Holding') <= Cardinality(Holding)
  BY HoldingFinite, FS_Subset
<1> QED BY <1>1, HoldingFinite, HoldingFiniteNext, CoordinatorAssumption DEF SlotInv

\* enter takes a free slot or queues.
LEMMA EnterKeeps ==
    ASSUME SlotInv, NEW a \in Accounts, a \notin Active, Enter(a)
    PROVE  SlotInv'
<1>1. CASE slots < Limit
  <2>1. phase' = [phase EXCEPT ![a] = "working"] /\ slots' = slots + 1
    BY <1>1 DEF Enter
  <2>2. Holding' = Holding \cup {a}
    BY <2>1 DEF Holding, SlotInv, Phases
  <2>3. Cardinality(Holding') <= Cardinality(Holding) + 1
    <3>1. Cardinality(Holding \cup {a}) \in {Cardinality(Holding), Cardinality(Holding) + 1}
      BY HoldingFinite, FS_AddElement
    <3> QED BY <3>1, <2>2, HoldingFinite
  <2>4. phase' \in [Accounts -> Phases]
    BY <2>1 DEF SlotInv, Phases
  <2> QED
    BY <1>1, <2>1, <2>3, <2>4, HoldingFinite, HoldingFiniteNext, CoordinatorAssumption
    DEF SlotInv
<1>2. CASE ~(slots < Limit)
  <2>1. phase' = [phase EXCEPT ![a] = "waiting"] /\ UNCHANGED slots
    BY <1>2 DEF Enter
  <2>2. Holding' \subseteq Holding /\ phase' \in [Accounts -> Phases]
    BY <2>1 DEF Holding, SlotInv, Phases
  <2> QED BY <2>1, <2>2, NoNewHolder
<1> QED BY <1>1, <1>2

\* release passes the slot on or gives it back; either way one holder leaves.
LEMMA ReleaseKeeps ==
    ASSUME SlotInv, NEW a \in Holding, Release(a)
    PROVE  SlotInv'
<1>1. a \in Accounts
  BY DEF Holding
<1>2. Cardinality(Holding \ {a}) = Cardinality(Holding) - 1
  BY HoldingFinite, FS_RemoveElement
<1>3. CASE waiting = <<>>
  <2>1. phase' = [phase EXCEPT ![a] = "none"] /\ slots' = slots - 1
    BY <1>3 DEF Release, Settled
  <2>2. Holding' = Holding \ {a} /\ phase' \in [Accounts -> Phases]
    BY <1>1, <2>1 DEF Holding, SlotInv, Phases
  <2>3. Cardinality(Holding \ {a}) \in Nat
    BY <2>2, HoldingFiniteNext
  <2> QED
    BY <1>2, <2>1, <2>2, <2>3, HoldingFinite, CoordinatorAssumption DEF SlotInv
<1>4. CASE waiting # <<>>
  <2> DEFINE next == Head(waiting)
  <2>1. /\ phase' = [[phase EXCEPT ![next] = "handed"] EXCEPT ![a] = "none"]
        /\ UNCHANGED slots
    BY <1>4 DEF Release, Settled
  <2>2. phase' \in [Accounts -> Phases]
    BY <1>1, <2>1 DEF SlotInv, Phases
  <2>3. Holding' \subseteq (Holding \ {a}) \cup {next}
    BY <1>1, <2>1 DEF Holding, SlotInv
  <2>4. IsFiniteSet(Holding \ {a}) /\ Cardinality(Holding \ {a}) \in Nat
    BY HoldingFinite, FS_RemoveElement, FS_CardinalityType
  <2>5. /\ IsFiniteSet((Holding \ {a}) \cup {next})
        /\ Cardinality((Holding \ {a}) \cup {next}) \in
              {Cardinality(Holding \ {a}), Cardinality(Holding \ {a}) + 1}
    BY <2>4, FS_AddElement
  <2>6. Cardinality(Holding') <= Cardinality((Holding \ {a}) \cup {next})
    BY <2>3, <2>5, FS_Subset
  <2>7. Cardinality(Holding') <= Cardinality(Holding)
    BY <1>2, <2>4, <2>5, <2>6, HoldingFinite, HoldingFiniteNext
  <2> QED
    BY <2>1, <2>2, <2>7, HoldingFinite, HoldingFiniteNext, CoordinatorAssumption
    DEF SlotInv
<1> QED BY <1>3, <1>4

\* An abort gives a slot to nobody: a queued run is rejected, another goes on
\* to its own end.
LEMMA AbortKeeps ==
    ASSUME SlotInv, NEW A, AbortRuns(A)
    PROVE  SlotInv'
<1>1. phase' \in [Accounts -> Phases] /\ Holding' \subseteq Holding /\ UNCHANGED slots
  BY DEF AbortRuns, SlotInv, Holding, Phases
<1> QED BY <1>1, NoNewHolder

-------------------------------------------------------------------------------
(* The steps *)

\* Every step keeps the count of the slots.
LEMMA StepKeeps ==
    ASSUME SlotInv, [Next]_vars
    PROVE  SlotInv'
<1>1. ASSUME NEW a \in Accounts, SyncAccount(a) PROVE SlotInv'
  BY <1>1, EnterKeeps DEF SyncAccount
<1>2. ASSUME NEW a \in Accounts, TakeSlot(a) \/ BeginCommit(a) \/ FetchNext(a)
      PROVE  SlotInv'
  <2>1. /\ phase' \in [Accounts -> Phases] /\ Holding' \subseteq Holding
        /\ UNCHANGED slots
    BY <1>2
    DEF TakeSlot, BeginCommit, FetchNext, SlotInv, Holding, Phases, gateVars
  <2> QED BY <2>1, NoNewHolder
<1>3. ASSUME NEW a \in Accounts, LoseSlot(a) \/ LeaveQueue(a) PROVE SlotInv'
  <2>1. /\ phase' \in [Accounts -> Phases] /\ Holding' \subseteq Holding
        /\ UNCHANGED slots
    BY <1>3 DEF LoseSlot, LeaveQueue, Settled, SlotInv, Holding, Phases, gateVars
  <2> QED BY <2>1, NoNewHolder
<1>4. ASSUME NEW a \in Accounts, EndRun(a) PROVE SlotInv'
  <2>1. a \in Holding /\ Release(a)
    BY <1>4 DEF EndRun, Holding
  <2> QED BY <2>1, ReleaseKeeps
<1>5. ASSUME NEW a \in Accounts, CancelAccount(a) PROVE SlotInv'
  BY <1>5, AbortKeeps DEF CancelAccount
<1>6. ASSUME NEW c \in SuspendCalls, Suspend(c) PROVE SlotInv'
  BY <1>6, AbortKeeps DEF Suspend
<1>7. ASSUME NEW c \in AccountCalls, AbortAndWait(c) PROVE SlotInv'
  BY <1>7, AbortKeeps DEF AbortAndWait
<1>8. ASSUME NEW c \in Calls, CallContinues(c) PROVE SlotInv'
  <2>1. CASE c \in SupersedeCalls /\ ~Closed /\ Target[c] \notin Active
    <3>1. Target[c] \in Accounts
      BY <2>1, CoordinatorAssumption DEF AccountCalls
    <3> QED BY <1>8, <2>1, <3>1, EnterKeeps DEF CallContinues
  <2>2. CASE ~(c \in SupersedeCalls /\ ~Closed /\ Target[c] \notin Active)
    BY <1>8, <2>2 DEF CallContinues, gateVars, SlotInv, Holding
  <2> QED BY <2>1, <2>2
<1>9. CASE Resume \/ UNCHANGED vars
  BY <1>9 DEF Resume, vars, gateVars, SlotInv, Holding
<1> QED
  BY <1>1, <1>2, <1>3, <1>4, <1>5, <1>6, <1>7, <1>8, <1>9 DEF Next, RunStep

\* Never more runs than slots, for every set of accounts, limit and calls, also
\* while a slot passes from one run to the next and while runs are aborted.
THEOREM SlotsAreBounded == Spec => []AtMostLimit
<1>1. Init => SlotInv
  <2> SUFFICES ASSUME Init PROVE SlotInv
    OBVIOUS
  <2>1. Holding = {}
    BY DEF Init, Holding
  <2>2. Cardinality(Holding) = 0
    BY <2>1, FS_EmptySet
  <2> QED BY <2>2, CoordinatorAssumption DEF Init, SlotInv, Phases
<1>2. SlotInv /\ [Next]_vars => SlotInv'
  BY StepKeeps
<1>3. SlotInv => AtMostLimit
  BY HoldingFinite, CoordinatorAssumption DEF SlotInv, AtMostLimit
<1> QED BY <1>1, <1>2, <1>3, PTL DEF Spec

-------------------------------------------------------------------------------
(* Queues *)

\* Nobody is in an empty queue, and somebody in every other.
LEMMA EmptyQueue ==
    ASSUME NEW T, NEW queue \in Seq(T)
    PROVE  queue = <<>> <=> ToSet(queue) = {}
<1>1. Len(queue) \in Nat /\ DOMAIN queue = 1..Len(queue)
  OBVIOUS
<1>2. CASE queue = <<>>
  BY <1>2 DEF ToSet
<1>3. CASE queue # <<>>
  <2>1. Len(queue) # 0
    BY <1>3
  <2>2. 1 \in DOMAIN queue
    BY <1>1, <2>1
  <2> QED BY <1>3, <2>2 DEF ToSet
<1> QED BY <1>2, <1>3

\* Somebody new joins at the end.
LEMMA JoinQueue ==
    ASSUME NEW T, NEW queue \in Seq(T), NEW x \in T, x \notin ToSet(queue)
    PROVE  /\ Append(queue, x) \in Seq(T)
           /\ ToSet(Append(queue, x)) = ToSet(queue) \cup {x}
           /\ IsInjective(queue) => IsInjective(Append(queue, x))
<1> DEFINE longer == Append(queue, x)
           n == Len(queue)
<1>1. n \in Nat /\ DOMAIN queue = 1..n
  OBVIOUS
<1>2. longer \in Seq(T) /\ DOMAIN longer = 1..(n + 1) /\ longer[n + 1] = x
  OBVIOUS
<1>3. \A i \in 1..n : longer[i] = queue[i] /\ queue[i] # x
  BY DEF ToSet
<1> HIDE DEF longer, n
<1>4. \A i \in 1..(n + 1) : i \in 1..n \/ i = n + 1
  BY <1>1
<1>5. 1..n \subseteq 1..(n + 1) /\ n + 1 \in 1..(n + 1)
  BY <1>1
<1>6. ToSet(longer) = ToSet(queue) \cup {x}
  BY <1>1, <1>2, <1>3, <1>4, <1>5 DEF ToSet
<1>7. IsInjective(queue) => IsInjective(longer)
  BY <1>1, <1>2, <1>3, <1>4 DEF IsInjective
<1> QED BY <1>2, <1>6, <1>7 DEF longer

\* The first one leaves.
LEMMA LeaveFront ==
    ASSUME NEW T, NEW queue \in Seq(T), queue # <<>>, IsInjective(queue)
    PROVE  /\ Head(queue) \in T
           /\ Head(queue) \in ToSet(queue)
           /\ Tail(queue) \in Seq(T)
           /\ ToSet(Tail(queue)) = ToSet(queue) \ {Head(queue)}
           /\ IsInjective(Tail(queue))
<1> DEFINE rest == Tail(queue)
           n == Len(queue)
<1>1. n \in Nat /\ n # 0 /\ DOMAIN queue = 1..n
  OBVIOUS
<1>2. rest \in Seq(T) /\ DOMAIN rest = 1..(n - 1) /\ Head(queue) = queue[1]
  OBVIOUS
<1>3. \A i \in 1..(n - 1) : rest[i] = queue[i + 1]
  OBVIOUS
<1>4. \A i \in 1..n : queue[i] \in T
  OBVIOUS
<1> HIDE DEF rest, n
<1>5. 1 \in 1..n /\ \A i \in 1..(n - 1) : i \in Nat /\ i + 1 \in 1..n /\ i + 1 # 1
  BY <1>1
<1>6. \A i \in 1..n : i # 1 => i - 1 \in 1..(n - 1) /\ (i - 1) + 1 = i
  BY <1>1
<1>7. ToSet(rest) = ToSet(queue) \ {queue[1]}
  <2>1. ASSUME NEW i \in 1..(n - 1)
        PROVE  rest[i] \in ToSet(queue) /\ rest[i] # queue[1]
    BY <1>1, <1>3, <1>5 DEF ToSet, IsInjective
  <2>2. ASSUME NEW i \in 1..n, queue[i] # queue[1]
        PROVE  queue[i] \in ToSet(rest)
    BY <1>1, <1>2, <1>3, <1>6, <2>2 DEF ToSet
  <2> QED BY <1>1, <1>2, <2>1, <2>2 DEF ToSet
<1>8. IsInjective(rest)
  <2> SUFFICES ASSUME NEW i \in 1..(n - 1), NEW j \in 1..(n - 1), rest[i] = rest[j]
               PROVE  i = j
    BY <1>2 DEF IsInjective
  <2>1. i + 1 = j + 1
    BY <1>1, <1>3, <1>5 DEF IsInjective
  <2> QED BY <1>5, <2>1
<1> QED BY <1>1, <1>2, <1>4, <1>5, <1>7, <1>8 DEF rest, ToSet

\* What is left of a queue is a queue of the others, each as often as before.
LEMMA WithoutQueue ==
    ASSUME NEW T, NEW queue \in Seq(T), NEW gone
    PROVE  /\ Without(queue, gone) \in Seq(T)
           /\ ToSet(Without(queue, gone)) = ToSet(queue) \ gone
           /\ IsInjective(queue) => IsInjective(Without(queue, gone))
<1> DEFINE D == 1..Len(queue)
           kept == {i \in DOMAIN queue : queue[i] \notin gone}
           Upto(i) == {j \in kept : j <= i}
           place == [i \in kept |-> Cardinality(Upto(i))]
           n == Cardinality(kept)
           at == [k \in 1..n |->
                    CHOOSE i \in kept : Cardinality({j \in kept : j <= i}) = k]
<1>1. Len(queue) \in Nat /\ DOMAIN queue = D
  OBVIOUS
<1>2. kept \subseteq D /\ kept \subseteq Nat
  BY <1>1
<1>3. IsFiniteSet(D)
  BY <1>1, FS_Interval
<1>4. IsFiniteSet(kept) /\ n \in Nat
  <2> HIDE DEF kept, D
  <2> QED BY <1>2, <1>3, FS_Subset, FS_CardinalityType
<1> HIDE DEF kept, D
<1>5. ASSUME NEW i \in kept
      PROVE  place[i] \in 1..n
  <2>1. Upto(i) \subseteq kept /\ i \in Upto(i)
    BY <1>2
  <2>2. place[i] = Cardinality(Upto(i))
    OBVIOUS
  <2> HIDE DEF Upto, place
  <2>3. IsFiniteSet(Upto(i)) /\ Cardinality(Upto(i)) <= n /\ Cardinality(Upto(i)) \in Nat
    BY <1>4, <2>1, FS_Subset, FS_CardinalityType
  <2>4. Cardinality(Upto(i)) # 0
    BY <2>1, <2>3, FS_EmptySet
  <2> QED BY <1>4, <2>2, <2>3, <2>4
<1>6. ASSUME NEW i \in kept, NEW j \in kept, i < j
      PROVE  place[i] # place[j]
  <2>1. Upto(i) \subseteq Upto(j) /\ j \in Upto(j) /\ j \notin Upto(i) /\ Upto(j) \subseteq kept
    <3>1. i \in Nat /\ j \in Nat /\ i < j
      BY <1>2, <1>6
    <3>2. \A l \in kept : l \in Nat
      BY <1>2
    <3>3. \A l \in Upto(i) : l \in kept /\ l <= i
      OBVIOUS
    <3>4. \A l \in Upto(i) : l <= j
      BY <3>1, <3>2, <3>3
    <3>5. Upto(i) \subseteq Upto(j) /\ Upto(j) \subseteq kept
      BY <3>3, <3>4
    <3>6. j <= j /\ ~(j <= i)
      BY <3>1
    <3>7. j \in Upto(j)
      BY <3>6
    <3>8. j \notin Upto(i)
      BY <3>6
    <3> QED BY <3>5, <3>7, <3>8
  <2>2. place[i] = Cardinality(Upto(i)) /\ place[j] = Cardinality(Upto(j))
    OBVIOUS
  <2> HIDE DEF Upto, place
  <2>3. IsFiniteSet(Upto(j))
    BY <1>4, <2>1, FS_Subset
  <2>4. Cardinality(Upto(j)) = Cardinality(Upto(i)) => Upto(j) = Upto(i)
    BY <2>1, <2>3, FS_Subset
  <2> QED BY <2>1, <2>2, <2>4
<1>7. place \in Injection(kept, 1..n)
  <2>1. place \in [kept -> 1..n]
    BY <1>5
  <2>2. \A i, j \in kept : place[i] = place[j] => i = j
    <3> TAKE i, j \in kept
    <3>1. i \in Nat /\ j \in Nat
      BY <1>2
    <3> HIDE DEF place
    <3> QED BY <1>6, <3>1
  <2> HIDE DEF place
  <2> QED BY <2>1, <2>2 DEF Injection, IsInjective
<1>8. \A k \in 1..n : \E i \in kept : place[i] = k
  <2>1. IsFiniteSet(1..n) /\ Cardinality(1..n) = n
    BY <1>4, FS_Interval
  <2> HIDE DEF place
  <2>2. place \in Surjection(kept, 1..n)
    BY <1>4, <1>7, <2>1, FS_Injection
  <2> QED BY <2>2 DEF Surjection
<1>9. \A k \in 1..n : at[k] \in kept /\ place[at[k]] = k
  <2>1. \A i \in kept : place[i] = Cardinality({j \in kept : j <= i})
    OBVIOUS
  <2> HIDE DEF place
  <2> TAKE k \in 1..n
  <2>2. \E i \in kept : Cardinality({j \in kept : j <= i}) = k
    BY <1>8, <2>1
  <2>3. at[k] = CHOOSE i \in kept : Cardinality({j \in kept : j <= i}) = k
    OBVIOUS
  <2> HIDE DEF at
  <2>4. at[k] \in kept /\ Cardinality({j \in kept : j <= at[k]}) = k
    BY <2>2, <2>3
  <2> QED BY <2>1, <2>4
<1>10. Without(queue, gone) = [k \in 1..n |-> queue[at[k]]]
  <2>1. Without(queue, gone) =
            [k \in 1..n |-> queue[CHOOSE i \in kept : Cardinality({j \in kept : j <= i}) = k]]
    BY DEF Without, kept
  <2> QED BY <2>1
<1> HIDE DEF place, at
<1>11. \A i \in kept : queue[i] \in T /\ queue[i] \notin gone /\ i \in DOMAIN queue
  BY <1>1, <1>2 DEF kept, D
<1>12. Without(queue, gone) \in Seq(T) /\ DOMAIN Without(queue, gone) = 1..n
  BY <1>4, <1>9, <1>10, <1>11
<1>13. ToSet(Without(queue, gone)) = ToSet(queue) \ gone
  <2>1. ASSUME NEW x \in ToSet(queue) \ gone
        PROVE  x \in ToSet(Without(queue, gone))
    <3>1. PICK i \in DOMAIN queue : queue[i] = x
      BY <2>1 DEF ToSet
    <3>2. i \in kept
      BY <2>1, <3>1 DEF kept
    <3>3. at[place[i]] = i
      BY <1>5, <1>7, <1>9, <3>2 DEF Injection, IsInjective
    <3> QED BY <1>5, <1>10, <1>12, <3>1, <3>2, <3>3 DEF ToSet
  <2>2. ASSUME NEW x \in ToSet(Without(queue, gone))
        PROVE  x \in ToSet(queue) \ gone
    BY <1>9, <1>10, <1>11, <1>12, <2>2 DEF ToSet
  <2> QED BY <2>1, <2>2
<1>14. IsInjective(queue) => IsInjective(Without(queue, gone))
  BY <1>9, <1>10, <1>11, <1>12 DEF IsInjective
<1> QED BY <1>12, <1>13, <1>14
-------------------------------------------------------------------------------
(* Types and the queue *)

\* The runs that wait for a slot.
Waiting == {a \in Accounts : phase[a] = "waiting"}

\* The queue of the gate says who waits.
QueueInv ==
    /\ waiting \in Seq(Accounts)
    /\ ToSet(waiting) = Waiting
    /\ IsInjective(waiting)
    /\ waiting # <<>> => slots = Limit

\* A controller is aborted only while its run is there, and never while it waits.
AbortInv ==
    /\ aborted \subseteq Active
    /\ Waiting \cap aborted = {}

\* The switches and the calls have their types.
CallInv ==
    /\ suspended \in BOOLEAN /\ shuttingDown \in BOOLEAN
    /\ pc \in [Calls -> {"idle", "awaiting", "settled", "reopened"}]
    /\ awaited \in [Calls -> SUBSET Accounts]

\* The inductive invariant.
IInv == SlotInv /\ QueueInv /\ AbortInv /\ CallInv

\* The types follow from the invariant.
LEMMA TypesOfInvariant == IInv => TypeOK
BY DEF IInv, SlotInv, QueueInv, AbortInv, CallInv, TypeOK, Phases, Waiting

\* enter queues only when every slot is taken.
LEMMA EnterKeepsQueue ==
    ASSUME IInv, NEW a \in Accounts, a \notin Active, Enter(a), UNCHANGED aborted
    PROVE  QueueInv' /\ AbortInv' /\ Active' = Active \cup {a}
<1>0. phase \in [Accounts -> Phases] /\ phase[a] = "none"
  BY DEF IInv, SlotInv, Active
<1>1. CASE slots < Limit
  <2>1. phase' = [phase EXCEPT ![a] = "working"] /\ UNCHANGED waiting
    BY <1>1 DEF Enter
  <2>2. Waiting' = Waiting /\ Active' = Active \cup {a}
    BY <1>0, <2>1 DEF Waiting, Active
  <2>3. waiting = <<>>
    BY <1>1, CoordinatorAssumption DEF IInv, SlotInv, QueueInv
  <2> QED BY <2>1, <2>2, <2>3 DEF IInv, QueueInv, AbortInv
<1>2. CASE ~(slots < Limit)
  <2>1. /\ phase' = [phase EXCEPT ![a] = "waiting"] /\ UNCHANGED slots
        /\ waiting' = Append(waiting, a)
    BY <1>2 DEF Enter
  <2>2. Waiting' = Waiting \cup {a} /\ Active' = Active \cup {a} /\ a \notin Waiting
    BY <1>0, <2>1 DEF Waiting, Active
  <2>3. slots = Limit
    BY <1>2, CoordinatorAssumption DEF IInv, SlotInv
  <2>4. /\ waiting' \in Seq(Accounts) /\ ToSet(waiting') = Waiting'
        /\ IsInjective(waiting')
    BY <2>1, <2>2, JoinQueue DEF IInv, QueueInv
  <2>5. a \notin aborted
    BY DEF IInv, AbortInv
  <2> QED BY <2>1, <2>2, <2>3, <2>4, <2>5 DEF IInv, QueueInv, AbortInv
<1> QED BY <1>1, <1>2

\* The promise of a run settles that is not in the queue.
LEMMA SettledKeepsQueue ==
    ASSUME IInv, NEW a \in Accounts, a \notin Waiting, Settled(a, phase), UNCHANGED gateVars
    PROVE  QueueInv' /\ AbortInv' /\ Active' = Active \ {a}
<1>1. phase' = [phase EXCEPT ![a] = "none"] /\ aborted' = aborted \ {a}
  BY DEF Settled
<1>2. Waiting' = Waiting /\ Active' = Active \ {a}
  BY <1>1 DEF Waiting, Active, IInv, SlotInv, Phases
<1> QED BY <1>1, <1>2 DEF IInv, QueueInv, AbortInv, gateVars

\* The first in the queue leaves it with the slot.
LEMMA ReleaseKeepsQueue ==
    ASSUME IInv, NEW a \in Holding, Release(a)
    PROVE  QueueInv' /\ AbortInv' /\ Active' = Active \ {a}
<1>0. /\ a \in Accounts /\ a \notin Waiting
      /\ phase \in [Accounts -> Phases]
  BY DEF Holding, Waiting, IInv, SlotInv
<1>1. CASE waiting = <<>>
  <2>1. Settled(a, phase) /\ UNCHANGED waiting
    BY <1>1 DEF Release
  <2>2. phase' = [phase EXCEPT ![a] = "none"] /\ aborted' = aborted \ {a}
    BY <2>1 DEF Settled
  <2>3. Waiting' = Waiting /\ Active' = Active \ {a}
    BY <1>0, <2>2 DEF Waiting, Active
  <2> QED BY <1>1, <2>1, <2>2, <2>3 DEF IInv, QueueInv, AbortInv
<1>2. CASE waiting # <<>>
  <2> DEFINE next == Head(waiting)
  <2>1. /\ phase' = [[phase EXCEPT ![next] = "handed"] EXCEPT ![a] = "none"]
        /\ aborted' = aborted \ {a}
        /\ waiting' = Tail(waiting) /\ UNCHANGED slots
    BY <1>2 DEF Release, Settled
  <2>2. /\ next \in Waiting
        /\ Tail(waiting) \in Seq(Accounts) /\ IsInjective(Tail(waiting))
        /\ ToSet(Tail(waiting)) = Waiting \ {next}
    BY <1>2, LeaveFront DEF IInv, QueueInv
  <2> HIDE DEF next
  <2>3. Waiting' = Waiting \ {next} /\ Active' = Active \ {a}
    BY <1>0, <2>1, <2>2 DEF Waiting, Active
  <2> QED BY <1>2, <2>1, <2>2, <2>3 DEF IInv, QueueInv, AbortInv
<1> QED BY <1>1, <1>2

\* Whoever is aborted is in the queue no more.
LEMMA AbortKeepsQueue ==
    ASSUME IInv, NEW A, A \subseteq Active, AbortRuns(A)
    PROVE  QueueInv' /\ AbortInv' /\ Active' = Active
<1>1. /\ aborted' = aborted \cup A
      /\ waiting' = Without(waiting, A)
      /\ phase' = [a \in Accounts |->
                      IF a \in A /\ phase[a] = "waiting" THEN "rejected" ELSE phase[a]]
      /\ UNCHANGED slots
  BY DEF AbortRuns
<1>2. Waiting' = Waiting \ A /\ Active' = Active
  BY <1>1 DEF Waiting, Active
<1>3. /\ waiting' \in Seq(Accounts) /\ ToSet(waiting') = Waiting'
      /\ IsInjective(waiting')
  BY <1>1, <1>2, WithoutQueue DEF IInv, QueueInv
<1>4. waiting' # <<>> => waiting # <<>>
  <2>1. waiting' = <<>> <=> Waiting' = {}
    BY <1>3, EmptyQueue
  <2>2. waiting = <<>> <=> Waiting = {}
    BY EmptyQueue DEF IInv, QueueInv
  <2> QED BY <1>2, <2>1, <2>2
<1> QED BY <1>1, <1>2, <1>3, <1>4 DEF IInv, QueueInv, AbortInv

\* What each step does to the runs and their queue.
LEMMA StepKeepsQueue ==
    ASSUME IInv, [Next]_vars
    PROVE  QueueInv' /\ AbortInv'
<1>1. ASSUME NEW a \in Accounts, SyncAccount(a) PROVE QueueInv' /\ AbortInv'
  BY <1>1, EnterKeepsQueue DEF SyncAccount
<1>2. ASSUME NEW a \in Accounts, TakeSlot(a) \/ BeginCommit(a) \/ FetchNext(a)
      PROVE  QueueInv' /\ AbortInv'
  <2>1. Waiting' = Waiting /\ Active' = Active /\ UNCHANGED <<aborted, waiting, slots>>
    BY <1>2
    DEF TakeSlot, BeginCommit, FetchNext, IInv, SlotInv, Waiting, Active, Phases, gateVars
  <2> QED BY <2>1 DEF IInv, QueueInv, AbortInv
<1>3. ASSUME NEW a \in Accounts, LoseSlot(a) \/ LeaveQueue(a)
      PROVE  QueueInv' /\ AbortInv'
  <2>1. a \notin Waiting /\ Settled(a, phase) /\ UNCHANGED gateVars
    BY <1>3 DEF LoseSlot, LeaveQueue, Waiting
  <2> QED BY <2>1, SettledKeepsQueue
<1>4. ASSUME NEW a \in Accounts, EndRun(a) PROVE QueueInv' /\ AbortInv'
  <2>1. a \in Holding /\ Release(a)
    BY <1>4 DEF EndRun, Holding
  <2> QED BY <2>1, ReleaseKeepsQueue
<1>5. ASSUME NEW a \in Accounts, CancelAccount(a) PROVE QueueInv' /\ AbortInv'
  BY <1>5, AbortKeepsQueue DEF CancelAccount
<1>6. ASSUME NEW c \in SuspendCalls, Suspend(c) PROVE QueueInv' /\ AbortInv'
  BY <1>6, AbortKeepsQueue DEF Suspend
<1>7. ASSUME NEW c \in AccountCalls, AbortAndWait(c) PROVE QueueInv' /\ AbortInv'
  <2>1. AbortRuns({Target[c]} \cap Active)
    BY <1>7 DEF AbortAndWait
  <2> QED BY <2>1, AbortKeepsQueue
<1>8. ASSUME NEW c \in Calls, CallContinues(c) PROVE QueueInv' /\ AbortInv'
  <2>1. CASE c \in SupersedeCalls /\ ~Closed /\ Target[c] \notin Active
    <3>1. Target[c] \in Accounts
      BY <2>1, CoordinatorAssumption DEF AccountCalls
    <3> QED BY <1>8, <2>1, <3>1, EnterKeepsQueue DEF CallContinues
  <2>2. CASE ~(c \in SupersedeCalls /\ ~Closed /\ Target[c] \notin Active)
    BY <1>8, <2>2
    DEF CallContinues, gateVars, IInv, QueueInv, AbortInv, Waiting, Active
  <2> QED BY <2>1, <2>2
<1>9. CASE Resume \/ UNCHANGED vars
  BY <1>9 DEF Resume, vars, gateVars, IInv, QueueInv, AbortInv, Waiting, Active
<1> QED
  BY <1>1, <1>2, <1>3, <1>4, <1>5, <1>6, <1>7, <1>8, <1>9 DEF Next, RunStep

-------------------------------------------------------------------------------
(* The calls *)

\* A suspension that waits has everything that runs on its list, and one that has
\* settled has found nothing left.
QuietInv ==
    \A c \in SuspendCalls :
        /\ pc[c] = "awaiting" => suspended /\ Active \subseteq awaited[c]
        /\ pc[c] = "settled" => suspended /\ Active = {}

\* A step that leaves the calls and the switches alone.
LEMMA CallsKept ==
    ASSUME IInv, UNCHANGED <<switchVars, callVars>>
    PROVE  CallInv'
BY DEF IInv, CallInv, switchVars, callVars

\* A run that settles leaves every list.
LEMMA SettledKeepsCalls ==
    ASSUME IInv, QuietInv, NEW a \in Accounts, NEW next, Settled(a, next),
           Active' = Active \ {a}
    PROVE  CallInv' /\ QuietInv'
<1>1. awaited' = [c \in Calls |-> awaited[c] \ {a}] /\ UNCHANGED <<switchVars, pc>>
  BY DEF Settled
<1>2. CallInv'
  BY <1>1 DEF IInv, CallInv, switchVars
<1>3. QuietInv'
  BY <1>1 DEF QuietInv, switchVars, Calls
<1> QED BY <1>2, <1>3

\* What each step does to the calls.
LEMMA StepKeepsCalls ==
    ASSUME IInv, QuietInv, [Next]_vars
    PROVE  CallInv' /\ QuietInv'
<1>0. Calls = SuspendCalls \cup AccountCalls /\ SuspendCalls \cap AccountCalls = {}
  BY CoordinatorAssumption DEF Calls
<1>1. ASSUME NEW a \in Accounts, SyncAccount(a) PROVE CallInv' /\ QuietInv'
  <2>1. ~suspended /\ UNCHANGED <<switchVars, callVars>>
    BY <1>1 DEF SyncAccount, Closed
  <2> QED BY <2>1, CallsKept DEF QuietInv, switchVars, callVars
<1>2. ASSUME NEW a \in Accounts, TakeSlot(a) \/ BeginCommit(a) \/ FetchNext(a)
      PROVE  CallInv' /\ QuietInv'
  <2>1. Active' = Active /\ UNCHANGED <<switchVars, callVars>>
    BY <1>2 DEF TakeSlot, BeginCommit, FetchNext, IInv, SlotInv, Active, Phases
  <2> QED BY <2>1, CallsKept DEF QuietInv, switchVars, callVars
<1>3. ASSUME NEW a \in Accounts, LoseSlot(a) \/ LeaveQueue(a)
      PROVE  CallInv' /\ QuietInv'
  <2>1. a \notin Waiting /\ Settled(a, phase) /\ UNCHANGED gateVars
    BY <1>3 DEF LoseSlot, LeaveQueue, Waiting
  <2> QED BY <2>1, SettledKeepsQueue, SettledKeepsCalls
<1>4. ASSUME NEW a \in Accounts, EndRun(a) PROVE CallInv' /\ QuietInv'
  <2>1. a \in Holding /\ Release(a)
    BY <1>4 DEF EndRun, Holding
  <2>2. Active' = Active \ {a}
    BY <2>1, ReleaseKeepsQueue
  <2>3. \/ Settled(a, phase)
        \/ Settled(a, [phase EXCEPT ![Head(waiting)] = "handed"])
    BY <2>1 DEF Release
  <2> QED BY <2>2, <2>3, SettledKeepsCalls
<1>5. ASSUME NEW a \in Accounts, CancelAccount(a) PROVE CallInv' /\ QuietInv'
  <2>1. Active' = Active /\ UNCHANGED <<switchVars, callVars>>
    BY <1>5, AbortKeepsQueue DEF CancelAccount
  <2> QED BY <2>1, CallsKept DEF QuietInv, switchVars, callVars
<1>6. ASSUME NEW c \in SuspendCalls, Suspend(c) PROVE CallInv' /\ QuietInv'
  <2>1. /\ Active' = Active /\ suspended' = TRUE
        /\ shuttingDown' = (shuttingDown \/ c \in ShutdownCalls)
        /\ awaited' = [awaited EXCEPT ![c] = Active]
        /\ pc' = [pc EXCEPT ![c] = "awaiting"]
    BY <1>6, AbortKeepsQueue DEF Suspend
  <2>2. Active \subseteq Accounts
    BY DEF Active
  <2>3. CallInv'
    BY <1>0, <2>1, <2>2 DEF IInv, CallInv
  <2>4. QuietInv'
    BY <1>0, <2>1 DEF IInv, CallInv, QuietInv
  <2> QED BY <2>3, <2>4
<1>7. ASSUME NEW c \in AccountCalls, AbortAndWait(c) PROVE CallInv' /\ QuietInv'
  <2>1. /\ AbortRuns({Target[c]} \cap Active) /\ UNCHANGED switchVars
        /\ awaited' = [awaited EXCEPT ![c] = {Target[c]} \cap Active]
        /\ pc' = [pc EXCEPT ![c] = "awaiting"]
    BY <1>7 DEF AbortAndWait
  <2>2. Active' = Active /\ {Target[c]} \cap Active \subseteq Accounts
    BY <2>1, AbortKeepsQueue DEF Active
  <2>3. CallInv'
    BY <1>0, <2>1, <2>2 DEF IInv, CallInv, switchVars
  <2>4. QuietInv'
    BY <1>0, <2>1, <2>2 DEF IInv, CallInv, QuietInv, switchVars
  <2> QED BY <2>3, <2>4
<1>8. ASSUME NEW c \in Calls, CallContinues(c) PROVE CallInv' /\ QuietInv'
  <2>1. /\ pc[c] \in {"awaiting", "reopened"} /\ awaited[c] = {}
        /\ pc' = [pc EXCEPT ![c] = IF @ = "reopened" THEN "idle" ELSE "settled"]
        /\ UNCHANGED <<switchVars, awaited>>
    BY <1>8 DEF CallContinues
  <2>2. CallInv'
    BY <2>1 DEF IInv, CallInv, switchVars
  <2>3. suspended => Active' = Active
    BY <1>8 DEF CallContinues, Closed, Active
  <2>4. QuietInv'
    BY <1>0, <2>1, <2>3 DEF IInv, CallInv, QuietInv, switchVars
  <2> QED BY <2>2, <2>4
<1>9. CASE Resume
  <2>1. /\ suspended' = FALSE /\ UNCHANGED <<phase, shuttingDown, awaited>>
        /\ pc' = [c \in Calls |->
                    IF c \in AccountCalls THEN pc[c]
                    ELSE IF pc[c] = "awaiting" THEN "reopened"
                    ELSE IF pc[c] = "settled" THEN "idle" ELSE pc[c]]
    BY <1>9 DEF Resume
  <2>2. CallInv'
    BY <2>1 DEF IInv, CallInv
  <2>3. QuietInv'
    BY <1>0, <2>1 DEF IInv, CallInv, QuietInv
  <2> QED BY <2>2, <2>3
<1>10. CASE UNCHANGED vars
  <2>1. Active' = Active /\ UNCHANGED <<switchVars, callVars>>
    BY <1>10 DEF vars, Active
  <2> QED BY <2>1, CallsKept DEF QuietInv, switchVars, callVars
<1> QED
  BY <1>1, <1>2, <1>3, <1>4, <1>5, <1>6, <1>7, <1>8, <1>9, <1>10 DEF Next, RunStep

\* Both invariants hold at the start.
LEMMA InitGives == Init => IInv /\ QuietInv
<1> SUFFICES ASSUME Init PROVE IInv /\ QuietInv
  OBVIOUS
<1>1. Holding = {} /\ Waiting = {} /\ Active = {}
  BY DEF Init, Holding, Waiting, Active
<1>2. SlotInv
  <2>1. Cardinality(Holding) = 0
    BY <1>1, FS_EmptySet
  <2> QED BY <2>1, CoordinatorAssumption DEF Init, SlotInv, Phases
<1>3. QueueInv
  <2>1. waiting \in Seq(Accounts) /\ DOMAIN waiting = {}
    BY DEF Init
  <2> QED BY <1>1, <2>1 DEF Init, QueueInv, ToSet, IsInjective
<1>4. AbortInv /\ CallInv /\ QuietInv
  BY <1>1, CoordinatorAssumption DEF Init, AbortInv, CallInv, QuietInv, Calls
<1> QED BY <1>2, <1>3, <1>4 DEF IInv

\* Both invariants always hold.
LEMMA InvariantHolds == Spec => [](IInv /\ QuietInv)
<1>1. IInv /\ QuietInv /\ [Next]_vars => (IInv /\ QuietInv)'
  BY StepKeeps, StepKeepsQueue, StepKeepsCalls DEF IInv
<1> QED BY <1>1, InitGives, PTL DEF Spec

\* Every variable keeps its type, and the queue of the gate holds exactly the runs that
\* wait for a slot, each once and none of them aborted, for every number of accounts
\* and calls.
THEOREM TypeCorrect == Spec => []TypeOK
BY InvariantHolds, TypesOfInvariant, PTL

\* When a suspension has settled nothing runs, waits or commits until resume, whichever
\* runs were superseded, cancelled or handed a slot meanwhile.
THEOREM SuspensionsAreQuiet == Spec => []SuspendedMeansQuiet
<1>1. QuietInv => SuspendedMeansQuiet
  BY DEF QuietInv, SuspendedMeansQuiet
<1> QED BY <1>1, InvariantHolds, PTL
=============================================================================
