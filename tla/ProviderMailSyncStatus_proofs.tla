--------------------- MODULE ProviderMailSyncStatus_proofs ---------------------
(***************************************************************************)
(* Proofs about ProviderMailSyncStatus: the types of all variables, that   *)
(* rows are true, and that cooldowns survive and are honoured.             *)
(*                                                                         *)
(* A row speaks of mail that a run, a disconnect or a repair changes at    *)
(* other times than the row, and a disconnect that stops half way leaves   *)
(* accounts whose row is no longer about their mail.  What makes the       *)
(* property inductive is that an account id is connected once: nothing is  *)
(* stored or queued for an account before its connection is complete       *)
(* (FreshInv), and no account becomes connected again.  An account without *)
(* a row must have no mail (CursorInv), since its first run begins there.  *)
(***************************************************************************)
EXTENDS ProviderMailSyncStatus, TLAPS

\* No connection has used the account, or its connection is not complete.
Fresh(a) == a \notin known \/ a \in connecting

\* Nothing exists of a fresh account but its credential, and nothing is asked
\* for it.
FreshInv ==
    \A a \in Accounts :
        Fresh(a) => /\ rows[a] = NoRow
                    /\ mail[a] = 0
                    /\ ~attempts[a].connected
                    /\ \A i \in 1..Len(queue) : queue[i].account # a

\* A row without a cursor is one of an account without mail.
CursorInv == \A a \in Connected : Current(a).cursor = mail[a]

\* While the process runs, a row in status syncing has its run; excused are an
\* outcome that was not written and a bootstrap that repaired nothing.
StatusInv ==
    up => \A a \in Connected :
              rows[a] # NoRow /\ rows[a].status = "syncing"
                  => Running(a) \/ a \in unrecorded \/ ~recovered

IInv == TypeOK /\ FreshInv /\ CursorInv /\ StatusInv

-----------------------------------------------------------------------------
(* Rows *)

\* A pause is at least one and at most four units long.
LEMMA DurationBound ==
   ASSUME NEW streak \in 1..MaxStreak
   PROVE  Duration(streak) \in 1..4
<1>1. 2 ^ 0 = 1 /\ 2 ^ 1 = 2 /\ 2 ^ 2 = 4
  OBVIOUS
<1>2. CASE streak = 1
  <2>1. streak - 1 = 0
    BY <1>2
  <2> QED BY <1>1, <2>1 DEF Duration
<1>3. CASE streak = 2
  <2>1. streak - 1 = 1
    BY <1>3
  <2> QED BY <1>1, <2>1 DEF Duration
<1>4. CASE streak = 3
  <2>1. streak - 1 = 2
    BY <1>4
  <2> QED BY <1>1, <2>1 DEF Duration
<1> QED BY <1>2, <1>3, <1>4 DEF MaxStreak

\* A cooldown keeps the rest of the row; the streak stays within its cap and
\* never shrinks, and the wait is measured from now.
LEMMA CooldownRow ==
   ASSUME now \in 0..MaxTime, NEW row \in Row, NEW increment \in BOOLEAN
   PROVE  /\ WithCooldown(row, increment) \in Row
          /\ WithCooldown(row, increment).status = row.status
          /\ WithCooldown(row, increment).code = row.code
          /\ WithCooldown(row, increment).cursor = row.cursor
          /\ WithCooldown(row, increment).streak >= row.streak
<1> DEFINE grown == row.streak + (IF increment THEN 1 ELSE 0)
           streak == IF grown = 0 THEN 1 ELSE IF grown > MaxStreak THEN MaxStreak ELSE grown
<1>1. streak \in 1..MaxStreak /\ streak >= row.streak
  BY DEF Row, MaxStreak
<1>2. now + Duration(streak) \in 0..(MaxTime + 4)
  BY <1>1, DurationBound, StatusAssumption
<1>3. WithCooldown(row, increment)
        = [row EXCEPT !.streak = streak, !.notBefore = now + Duration(streak)]
  BY DEF WithCooldown
<1> DEFINE end == now + Duration(streak)
<1>4. end \in 0..(MaxTime + 4) /\ streak \in 0..MaxStreak
  BY <1>1, <1>2 DEF MaxStreak
<1> HIDE DEF streak, end
<1>5. [row EXCEPT !.streak = streak, !.notBefore = end] \in Row
  BY <1>4 DEF Row
<1>6. LET new == [row EXCEPT !.streak = streak, !.notBefore = end]
      IN  /\ new.status = row.status /\ new.code = row.code /\ new.cursor = row.cursor
          /\ new.streak = streak
  BY DEF Row
<1>7. WithCooldown(row, increment) = [row EXCEPT !.streak = streak, !.notBefore = end]
  BY <1>3 DEF end
<1> QED BY <1>1, <1>5, <1>6, <1>7

\* The row of an account that has none is a row.
LEMMA BlankRow == Blank \in Row
BY StatusAssumption DEF Blank, Row, MaxStreak

\* The rows the code writes are rows.
LEMMA RowsWritten ==
   ASSUME TypeOK, NEW a \in Accounts
   PROVE  /\ Current(a) \in Row
          /\ \A status \in {"idle", "syncing", "error"}, code \in Codes \cup {NoCode} :
               /\ Saved(a, status, code) \in Row
               /\ Saved(a, status, code).status = status
               /\ Saved(a, status, code).cursor = Current(a).cursor
               /\ Saved(a, status, code).streak = Current(a).streak
               /\ Saved(a, status, code).notBefore = Current(a).notBefore
          /\ Succeeded(a) \in Row /\ Succeeded(a).status = "idle"
          /\ Succeeded(a).cursor = mail[a]
<1>1. Current(a) \in Row
  BY BlankRow DEF TypeOK, Current
<1>2. mail[a] \in 0..MaxPages
  BY DEF TypeOK
<1> QED BY <1>1, <1>2, BlankRow DEF Saved, Succeeded, Row, Blank

\* What a failure writes.
LEMMA FailedRow ==
   ASSUME TypeOK, NEW a \in Accounts, NEW code \in Codes
   PROVE  /\ Failed(a, code) \in Row
          /\ Failed(a, code).status \in {"idle", "error"}
          /\ Failed(a, code).cursor = Current(a).cursor
          /\ Failed(a, code).streak >= Current(a).streak
<1>1. now \in 0..MaxTime
  BY DEF TypeOK
<1>2. CASE code = "SYNC_CANCELLED"
  <2>1. Failed(a, code) = Saved(a, "idle", NoCode)
    BY <1>2 DEF Failed
  <2>2. Current(a) \in Row /\ Current(a).streak \in Nat
    BY RowsWritten DEF Row, MaxStreak
  <2>3. /\ Saved(a, "idle", NoCode) \in Row /\ Saved(a, "idle", NoCode).status = "idle"
        /\ Saved(a, "idle", NoCode).cursor = Current(a).cursor
        /\ Saved(a, "idle", NoCode).streak = Current(a).streak
    BY RowsWritten
  <2> QED BY <2>1, <2>2, <2>3
<1>3. CASE code # "SYNC_CANCELLED"
  <2> DEFINE row == Saved(a, "error", code)
  <2>1. /\ row \in Row /\ row.status = "error" /\ row.cursor = Current(a).cursor
        /\ row.streak = Current(a).streak
    BY RowsWritten
  <2>2. Failed(a, code) = IF code = "QUOTA_EXHAUSTED" THEN WithCooldown(row, TRUE) ELSE row
    BY <1>3 DEF Failed
  <2>3. row.streak \in Nat
    BY <2>1 DEF Row, MaxStreak
  <2> HIDE DEF row
  <2>4. /\ WithCooldown(row, TRUE) \in Row
        /\ WithCooldown(row, TRUE).status = row.status
        /\ WithCooldown(row, TRUE).cursor = row.cursor
        /\ WithCooldown(row, TRUE).streak >= row.streak
    BY <1>1, <2>1, CooldownRow
  <2>5. CASE code = "QUOTA_EXHAUSTED"
    BY <2>1, <2>2, <2>4, <2>5
  <2>6. CASE code # "QUOTA_EXHAUSTED"
    BY <2>1, <2>2, <2>3, <2>6
  <2> QED BY <2>5, <2>6
<1> QED BY <1>2, <1>3

\* What a commit writes.
LEMMA CommittedRow ==
   ASSUME TypeOK, NEW a \in Accounts, NEW cursor \in 0..MaxPages
   PROVE  /\ Committed(a, cursor) \in Row
          /\ Committed(a, cursor).status = "idle"
          /\ Committed(a, cursor).cursor = cursor
          /\ Committed(a, cursor).streak = Current(a).streak
          /\ Committed(a, cursor).notBefore = Current(a).notBefore
<1>1. Current(a) \in Row
  BY RowsWritten
<1> QED BY <1>1, BlankRow DEF Committed, Row, Blank

\* What startup makes of a row that was left syncing.
LEMMA RecoveredRow ==
   ASSUME TypeOK, NEW a \in Accounts
   PROVE  /\ RecoverInterrupted(a) \in Row \cup {NoRow}
          /\ rows[a] = NoRow => RecoverInterrupted(a) = NoRow
          /\ rows[a] # NoRow =>
               /\ RecoverInterrupted(a) \in Row
               /\ RecoverInterrupted(a).status # "syncing"
               /\ RecoverInterrupted(a).cursor = rows[a].cursor
               /\ RecoverInterrupted(a).streak = rows[a].streak
               /\ RecoverInterrupted(a).notBefore = rows[a].notBefore
<1>1. rows[a] # NoRow => rows[a] \in Row
  BY DEF TypeOK
<1>2. "SYNC_INTERRUPTED" \in Codes
  BY DEF Codes
<1> QED BY <1>1, <1>2, RowsWritten DEF RecoverInterrupted, Current

-----------------------------------------------------------------------------
(* Jobs and attempts *)

AttemptSteps == {"none", "inspecting", "confirming", "reinspecting", "dispatched"}

AttemptRecords == [step : AttemptSteps, intent : Intents \cup {"none"},
                   connected : BOOLEAN, row : Row \cup {NoRow}]

\* Every attempt has its type.
LEMMA AttemptType ==
   ASSUME TypeOK
   PROVE  /\ attempts \in [Accounts -> AttemptRecords]
          /\ NoAttempt \in AttemptRecords /\ ~NoAttempt.connected
BY DEF TypeOK, AttemptRecords, AttemptSteps, NoAttempt

\* What the command does to an attempt.
LEMMA AttemptKept ==
   ASSUME TypeOK, NEW a \in Accounts, NEW step \in AttemptSteps,
          Attempt(a, step) \/ Release(a)
   PROVE  /\ attempts' \in [Accounts -> AttemptRecords]
          /\ \A b \in Accounts : attempts'[b].connected => attempts[b].connected
          /\ \A b \in Accounts : b # a => attempts'[b] = attempts[b]
<1> DEFINE r == attempts[a]
<1>1. r \in AttemptRecords /\ NoAttempt \in AttemptRecords /\ ~NoAttempt.connected
  BY AttemptType
<1>2. [r EXCEPT !.step = step] \in AttemptRecords
      /\ [r EXCEPT !.step = step].connected = r.connected
  BY <1>1 DEF AttemptRecords
<1>3. attempts' = [attempts EXCEPT ![a] = [r EXCEPT !.step = step]]
      \/ attempts' = [attempts EXCEPT ![a] = NoAttempt]
  BY DEF Attempt, Release
<1> HIDE DEF r
<1>4. attempts'[a] \in {[r EXCEPT !.step = step], NoAttempt}
      /\ \A b \in Accounts : b # a => attempts'[b] = attempts[b]
  BY <1>3, AttemptType
<1>5. attempts' \in [Accounts -> AttemptRecords]
  BY <1>1, <1>2, <1>3, AttemptType
<1>6. attempts'[a].connected => attempts[a].connected
  BY <1>1, <1>2, <1>4 DEF r
<1> QED BY <1>4, <1>5, <1>6

\* A job joins the queue behind those that are there.
LEMMA JobJoins ==
   ASSUME TypeOK, NEW j \in Jobs, queue' = Append(queue, j)
   PROVE  /\ queue' \in Seq(Jobs)
          /\ Len(queue') = Len(queue) + 1 /\ queue'[Len(queue) + 1] = j
          /\ \A i \in 1..Len(queue) : queue'[i] = queue[i]
          /\ queue # <<>> => queue' # <<>> /\ Head(queue') = Head(queue)
BY DEF TypeOK

\* The head leaves, and its attempt with it.
LEMMA JobLeaves ==
   ASSUME TypeOK, NEW a \in Accounts, queue # <<>>, Leave(a)
   PROVE  /\ queue' \in Seq(Jobs) /\ expired' \subseteq Jobs /\ stage' = "waiting"
          /\ Len(queue') = Len(queue) - 1
          /\ \A i \in 1..Len(queue') : i + 1 \in 1..Len(queue) /\ queue'[i] = queue[i + 1]
          /\ attempts' \in [Accounts -> AttemptRecords]
          /\ \A b \in Accounts : attempts'[b].connected => attempts[b].connected
<1>1. /\ queue' \in Seq(Jobs) /\ expired' \subseteq Jobs /\ stage' = "waiting"
      /\ Len(queue') = Len(queue) - 1
      /\ \A i \in 1..Len(queue') : i + 1 \in 1..Len(queue) /\ queue'[i] = queue[i + 1]
  BY DEF TypeOK, Leave
<1>2. attempts' = attempts \/ attempts' = [attempts EXCEPT ![a] = NoAttempt]
  BY DEF Leave
<1>3. attempts' \in [Accounts -> AttemptRecords]
  BY <1>2, AttemptType
<1>4. \A b \in Accounts : attempts'[b].connected => attempts[b].connected
  BY <1>2, AttemptType
<1> QED BY <1>1, <1>3, <1>4

\* An attempt goes on only for a connected account whose sync has failed.
LEMMA EligibleAttempt ==
   ASSUME TypeOK, NEW a \in Accounts, Eligible(a)
   PROVE  attempts[a].connected /\ rows[a] \in Row /\ rows[a].status = "error"
BY DEF TypeOK, Eligible

\* A reservation, or none, keeps the row but for its cooldown.
LEMMA ReservedRow ==
   ASSUME TypeOK, NEW a \in Accounts, Eligible(a),
          rows' = rows \/ rows' = [rows EXCEPT ![a] = WithCooldown(rows[a], FALSE)]
   PROVE  /\ rows' \in [Accounts -> Row \cup {NoRow}]
          /\ rows'[a] \in Row /\ rows'[a].status = "error"
          /\ rows'[a].cursor = rows[a].cursor
          /\ \A b \in Accounts : b # a => rows'[b] = rows[b]
<1>1. now \in 0..MaxTime /\ rows \in [Accounts -> Row \cup {NoRow}] /\ FALSE \in BOOLEAN
  BY DEF TypeOK
<1>2. rows[a] \in Row /\ rows[a].status = "error"
  BY EligibleAttempt
<1>3. /\ WithCooldown(rows[a], FALSE) \in Row
      /\ WithCooldown(rows[a], FALSE).status = rows[a].status
      /\ WithCooldown(rows[a], FALSE).cursor = rows[a].cursor
  BY <1>1, <1>2, CooldownRow
<1> QED BY <1>1, <1>2, <1>3

\* The outcome of a failed run: its row, or none written.
LEMMA FailureRecorded ==
   ASSUME TypeOK, NEW a \in Accounts, SyncFails(a)
   PROVE  /\ queue # <<>> /\ Leave(a)
          /\ \/ UNCHANGED rows /\ unrecorded' = unrecorded \cup {a}
             \/ /\ UNCHANGED unrecorded
                /\ rows' \in [Accounts -> Row \cup {NoRow}]
                /\ rows'[a] \in Row /\ rows'[a].status # "syncing"
                /\ rows'[a].cursor = Current(a).cursor
                /\ rows'[a].streak >= Current(a).streak
                /\ \A b \in Accounts : b # a => rows'[b] = rows[b]
<1>1. queue # <<>> /\ Leave(a)
  BY DEF SyncFails, Running, SyncAtHead, AtHead, EndRun
<1>2. PICK code \in Outcomes(a) : Record(a, Failed(a, code))
  BY DEF SyncFails
<1>3. code \in Codes
  BY StatusAssumption DEF Outcomes, Codes
<1>4. CASE UNCHANGED rows /\ unrecorded' = unrecorded \cup {a}
  BY <1>1, <1>4
<1>5. CASE rows' = [rows EXCEPT ![a] = Failed(a, code)] /\ UNCHANGED unrecorded
  <2>1. rows \in [Accounts -> Row \cup {NoRow}]
    BY DEF TypeOK
  <2> QED BY <1>1, <1>3, <1>5, <2>1, FailedRow
<1> QED BY <1>2, <1>4, <1>5 DEF Record

\* The connection and the renewals.
LEMMA TypeOfConnection ==
   ASSUME TypeOK, FreshInv, NEW a \in Accounts, ConnectStep(a)
   PROVE  TypeOK'
<1> USE DEF TypeOK, storeVars, callVars, ownerVars, bootVars, Job, Jobs, Connected
<1>1. CASE StoreCredential(a) BY <1>1 DEF StoreCredential
<1>2. CASE StoreProvider(a) BY <1>2 DEF StoreProvider
<1>3. CASE RecoverConnection(a) BY <1>3 DEF RecoverConnection
<1>4. CASE Renew(a) BY <1>4 DEF Renew
<1> QED BY <1>1, <1>2, <1>3, <1>4 DEF ConnectStep

\* The retry command.
LEMMA TypeOfCommand ==
   ASSUME TypeOK, NEW a \in Accounts,
          \/ \E intent \in Intents : Execute(a, intent)
          \/ \E kind \in {"retry", "renewed"} : WindowPasses(a, kind)
          \/ RetryStep(a)
          \/ AnswerReview(a)
   PROVE  TypeOK'
<1> USE DEF storeVars, callVars, ownerVars, bootVars, Job, Jobs
<1>1. ASSUME NEW intent \in Intents, Execute(a, intent) PROVE TypeOK'
  BY <1>1 DEF TypeOK, Execute
<1>2. ASSUME NEW kind \in {"retry", "renewed"}, WindowPasses(a, kind) PROVE TypeOK'
  BY <1>2 DEF TypeOK, WindowPasses
<1>3. CASE Refuse(a)
  <2>1. attempts' \in [Accounts -> AttemptRecords]
    BY <1>3, AttemptKept DEF Refuse, AttemptSteps
  <2> QED BY <1>3, <2>1 DEF TypeOK, Refuse, Release, AttemptRecords, AttemptSteps
<1>4. CASE SetUpCooldown(a)
  <2>1. attempts' \in [Accounts -> AttemptRecords]
    BY <1>4, AttemptKept DEF SetUpCooldown, AttemptSteps
  <2>2. rows' \in [Accounts -> Row \cup {NoRow}]
    BY <1>4, ReservedRow DEF SetUpCooldown
  <2> QED BY <1>4, <2>1, <2>2 DEF TypeOK, SetUpCooldown, Release, AttemptRecords, AttemptSteps
<1>5. CASE Dispatch(a)
  <2>1. attempts' \in [Accounts -> AttemptRecords]
    BY <1>5, AttemptKept DEF Dispatch, Dispatched, AttemptSteps
  <2>2. rows' \in [Accounts -> Row \cup {NoRow}]
    BY <1>5, ReservedRow DEF Dispatch
  <2>3. queue' \in Seq(Jobs)
    BY <1>5 DEF TypeOK, Dispatch, Dispatched
  <2> QED BY <1>5, <2>1, <2>2, <2>3 DEF TypeOK, Dispatch, AttemptRecords, AttemptSteps
<1>6. CASE AskReview(a)
  <2>1. rows[a] \in Row \cup {NoRow} /\ attempts[a] \in AttemptRecords
    BY AttemptType DEF TypeOK
  <2>2. attempts' = [attempts EXCEPT ![a] = [@ EXCEPT !.step = "confirming", !.row = rows[a]]]
    BY <1>6 DEF AskReview
  <2>3. attempts' \in [Accounts -> AttemptRecords]
    BY <2>1, <2>2, AttemptType DEF AttemptRecords, AttemptSteps
  <2> QED BY <1>6, <2>3 DEF TypeOK, AskReview, AttemptRecords, AttemptSteps
<1>7. CASE AnswerReview(a)
  <2>1. CASE Release(a)
    <3>1. attempts' \in [Accounts -> AttemptRecords]
      BY <2>1, AttemptKept DEF AttemptSteps
    <3> QED BY <1>7, <2>1, <3>1 DEF TypeOK, AnswerReview, Release, AttemptRecords, AttemptSteps
  <2>2. CASE attempts' = [attempts EXCEPT ![a].step = "reinspecting",
                                          ![a].connected = a \in Connected]
             /\ UNCHANGED expired
    <3>1. (a \in Connected) \in BOOLEAN /\ attempts[a] \in AttemptRecords
      BY AttemptType
    <3>2. attempts' \in [Accounts -> AttemptRecords]
      BY <2>2, <3>1, AttemptType DEF AttemptRecords, AttemptSteps
    <3> QED BY <1>7, <2>2, <3>2 DEF TypeOK, AnswerReview, AttemptRecords, AttemptSteps
  <2> QED BY <1>7, <2>1, <2>2 DEF AnswerReview
<1>8. CASE DispatchReviewed(a)
  <2>1. attempts' \in [Accounts -> AttemptRecords]
    BY <1>8, AttemptKept DEF DispatchReviewed, Dispatched, AttemptSteps
  <2>2. \/ queue' = Append(queue, Job("retry", a)) /\ UNCHANGED expired /\ receipt' = "consumed"
        \/ expired' = expired \ {Job("retry", a)} /\ UNCHANGED <<receipt, queue>>
    BY <1>8 DEF DispatchReviewed, Dispatched, Release
  <2>3. Job("retry", a) \in Jobs
    OBVIOUS
  <2>4. queue' \in Seq(Jobs)
    BY <2>2, <2>3, JobJoins DEF TypeOK
  <2>5. expired' \subseteq Jobs /\ receipt' \in {"unused", "consumed"}
    BY <2>2 DEF TypeOK
  <2> QED BY <1>8, <2>1, <2>4, <2>5 DEF TypeOK, DispatchReviewed, AttemptRecords, AttemptSteps
<1> QED BY <1>1, <1>2, <1>3, <1>4, <1>5, <1>6, <1>7, <1>8 DEF RetryStep

\* The runs of the lifecycle owner.
LEMMA TypeOfRun ==
   ASSUME TypeOK, NEW a \in Accounts, RunStep(a)
   PROVE  TypeOK'
<1> USE DEF storeVars, callVars, ownerVars, bootVars, Job, Jobs, AtHead, SyncAtHead, Running
<1>1. CASE SkipExpired(a)
  BY <1>1, JobLeaves DEF TypeOK, SkipExpired, AttemptRecords, AttemptSteps
<1>2. CASE StartSync(a)
  BY <1>2, RowsWritten DEF TypeOK, StartSync
<1>3. CASE FetchPage(a)
  BY <1>3 DEF TypeOK, FetchPage
<1>4. ASSUME NEW cursor \in 0..MaxPages, CommitPage(a, cursor) PROVE TypeOK'
  BY <1>4, CommittedRow DEF TypeOK, CommitPage
<1>5. CASE SyncSucceeds(a)
  BY <1>5, JobLeaves, RowsWritten DEF TypeOK, SyncSucceeds, EndRun, AttemptRecords, AttemptSteps
<1>6. CASE SyncFails(a)
  <2>1. rows' \in [Accounts -> Row \cup {NoRow}] /\ unrecorded' \subseteq Accounts
    BY <1>6, FailureRecorded DEF TypeOK
  <2> QED
    BY <1>6, <2>1, FailureRecorded, JobLeaves
      DEF TypeOK, SyncFails, EndRun, AttemptRecords, AttemptSteps
<1> QED BY <1>1, <1>2, <1>3, <1>4, <1>5, <1>6 DEF RunStep

\* Disconnects, crashes and the bootstrap.
LEMMA TypeOfDisconnect ==
   ASSUME TypeOK, FreshInv, NEW a \in Accounts, CallDisconnect(a) \/ DisconnectStep(a)
   PROVE  TypeOK'
<1> USE DEF storeVars, callVars, ownerVars, bootVars, Job, Jobs, AtHead, Connected
<1>1. CASE CallDisconnect(a)
  BY <1>1 DEF TypeOK, CallDisconnect
<1>2. AtHead(a, {"disconnect"}) => a \notin connecting
  BY DEF TypeOK, FreshInv, Fresh
<1>3. CASE EraseCredential(a)
  BY <1>2, <1>3 DEF TypeOK, EraseCredential
<1>4. CASE EraseState(a)
  <2>1. /\ queue' \in Seq(Jobs) /\ expired' \subseteq Jobs
        /\ attempts' \in [Accounts -> AttemptRecords]
    BY <1>4, JobLeaves DEF EraseState
  <2>2. rows' \in [Accounts -> Row \cup {NoRow}] /\ mail' \in [Accounts -> 0..MaxPages]
    BY <1>4, StatusAssumption DEF TypeOK, EraseState
  <2>3. stage' = "waiting"
    BY <1>4 DEF EraseState, Leave
  <2> QED
    BY <1>4, <2>1, <2>2, <2>3 DEF TypeOK, EraseState, AttemptRecords, AttemptSteps
<1>5. CASE DisconnectFails(a)
  BY <1>5, JobLeaves DEF TypeOK, DisconnectFails, AttemptRecords, AttemptSteps
<1> QED BY <1>1, <1>3, <1>4, <1>5 DEF DisconnectStep

\* A crash and the start after it keep the types.
LEMMA TypeOfRestart ==
   ASSUME TypeOK, Crash \/ Boot
   PROVE  TypeOK'
<1> USE DEF storeVars, callVars, ownerVars, bootVars
<1>1. CASE Crash
  <2>1. attempts' \in [Accounts -> AttemptRecords]
    BY <1>1, AttemptType DEF Crash
  <2>2. crashes' \in 0..MaxCrashes
    BY <1>1, StatusAssumption DEF TypeOK, Crash
  <2>3. queue' \in Seq(Jobs)
    BY <1>1 DEF Crash
  <2>4. {up', recovered', suspended'} \subseteq BOOLEAN
    BY <1>1 DEF TypeOK, Crash
  <2> QED BY <1>1, <2>1, <2>2, <2>3, <2>4 DEF TypeOK, Crash, AttemptRecords, AttemptSteps
<1>2. CASE Boot
  <2>1. rows' \in [Accounts -> Row \cup {NoRow}]
    BY <1>2, RecoveredRow DEF TypeOK, Boot
  <2> QED BY <1>2, <2>1 DEF TypeOK, Boot
<1> QED BY <1>1, <1>2

\* Every step keeps the types.
LEMMA TypeIsKept ==
   ASSUME TypeOK, FreshInv, [Next]_vars
   PROVE  TypeOK'
<1>1. CASE UNCHANGED vars
  BY <1>1 DEF TypeOK, vars, storeVars, callVars, ownerVars, bootVars
<1>2. CASE Tick
  BY <1>2, StatusAssumption DEF TypeOK, Tick, storeVars, callVars, ownerVars, bootVars
<1> QED
  BY <1>1, <1>2, TypeOfConnection, TypeOfCommand, TypeOfRun, TypeOfDisconnect, TypeOfRestart
    DEF Next

-----------------------------------------------------------------------------
(* Fresh accounts *)

\* A connection and a disconnect begin and end for accounts that are known.
LEMMA FreshAfterConnection ==
   ASSUME TypeOK, FreshInv, NEW a \in Accounts,
          ConnectStep(a) \/ CallDisconnect(a) \/ EraseCredential(a)
   PROVE  FreshInv'
<1> USE DEF TypeOK, FreshInv, Fresh, storeVars, callVars, ownerVars, bootVars, Job, Jobs,
           Connected, AtHead
<1>1. CASE StoreCredential(a) BY <1>1 DEF StoreCredential
<1>2. CASE StoreProvider(a) BY <1>2 DEF StoreProvider
<1>3. CASE RecoverConnection(a) BY <1>3 DEF RecoverConnection
<1>4. CASE Renew(a) BY <1>4 DEF Renew
<1>5. CASE CallDisconnect(a) BY <1>5 DEF CallDisconnect
<1>6. CASE EraseCredential(a) BY <1>6 DEF EraseCredential
<1> QED BY <1>1, <1>2, <1>3, <1>4, <1>5, <1>6 DEF ConnectStep


\* A command, its retries and its review give no row to a fresh account.
LEMMA FreshAfterCommand ==
   ASSUME TypeOK, TypeOK', FreshInv, NEW a \in Accounts,
          \/ \E intent \in Intents : Execute(a, intent)
          \/ \E kind \in {"retry", "renewed"} : WindowPasses(a, kind)
          \/ RetryStep(a)
          \/ AnswerReview(a)
   PROVE  FreshInv'
<1> USE DEF storeVars, callVars, ownerVars, bootVars
<1>1. ASSUME NEW intent \in Intents, Execute(a, intent) PROVE FreshInv'
  BY <1>1 DEF TypeOK, FreshInv, Fresh, Execute, Connected
<1>2. ASSUME NEW kind \in {"retry", "renewed"}, WindowPasses(a, kind) PROVE FreshInv'
  BY <1>2 DEF TypeOK, FreshInv, Fresh, WindowPasses
<1>3. CASE Refuse(a)
  BY <1>3, AttemptKept DEF FreshInv, Fresh, Refuse, AttemptSteps
<1>4. attempts[a].connected => ~Fresh(a)
  BY DEF FreshInv
<1>5. CASE SetUpCooldown(a)
  BY <1>4, <1>5, AttemptKept, EligibleAttempt, ReservedRow
    DEF FreshInv, Fresh, SetUpCooldown, AttemptSteps
<1>6. Job("retry", a) \in Jobs /\ Job("retry", a).account = a
  BY DEF Job, Jobs
<1>7. CASE Dispatch(a)
  <2>1. \A b \in Accounts : attempts'[b].connected => attempts[b].connected
    BY <1>7, AttemptKept DEF Dispatch, Dispatched, AttemptSteps
  <2>2. \A b \in Accounts : b # a => rows'[b] = rows[b]
    BY <1>7, ReservedRow DEF Dispatch
  <2>3. ~Fresh(a)
    BY <1>4, <1>7, EligibleAttempt DEF Dispatch
  <2>4. queue' = Append(queue, Job("retry", a))
    BY <1>7 DEF Dispatch, Dispatched
  <2>5. \A i \in 1..Len(queue') :
           queue'[i].account = a \/ (i \in 1..Len(queue) /\ queue'[i] = queue[i])
    BY <1>6, <2>4, JobJoins
  <2>6. UNCHANGED <<mail, known, connecting>>
    BY <1>7 DEF Dispatch
  <2> QED BY <2>1, <2>2, <2>3, <2>5, <2>6 DEF FreshInv, Fresh
<1>8. CASE AskReview(a)
  BY <1>8 DEF TypeOK, FreshInv, Fresh, AskReview
<1>9. CASE AnswerReview(a)
  <2>1. ASSUME NEW b \in Accounts, Fresh(b), attempts'[b].connected
        PROVE  attempts[b].connected
    <3>1. CASE Release(a) BY <2>1, <3>1, AttemptKept DEF AttemptSteps
    <3>2. CASE attempts' = [attempts EXCEPT ![a].step = "reinspecting",
                                            ![a].connected = a \in Connected]
      <4>1. CASE b = a
        BY <2>1, <3>2, <4>1 DEF TypeOK, Fresh, Connected
      <4>2. CASE b # a
        BY <2>1, <3>2, <4>2 DEF TypeOK
      <4> QED BY <4>1, <4>2
    <3> QED BY <1>9, <3>1, <3>2 DEF AnswerReview
  <2> QED BY <1>9, <2>1 DEF FreshInv, Fresh, AnswerReview
<1>10. CASE DispatchReviewed(a)
  <2>1. \A b \in Accounts : attempts'[b].connected => attempts[b].connected
    BY <1>10, AttemptKept DEF DispatchReviewed, Dispatched, AttemptSteps
  <2>2. \/ queue' = Append(queue, Job("retry", a)) /\ ~Fresh(a)
        \/ UNCHANGED queue
    BY <1>4, <1>10 DEF DispatchReviewed, Dispatched
  <2> QED BY <1>6, <1>10, <2>1, <2>2, JobJoins DEF FreshInv, Fresh, DispatchReviewed
<1> QED
  BY <1>1, <1>2, <1>3, <1>5, <1>7, <1>8, <1>9, <1>10 DEF RetryStep

\* A run and a disconnect are those of the head, so not of a fresh account.
LEMMA FreshAfterRun ==
   ASSUME TypeOK, TypeOK', FreshInv, NEW a \in Accounts,
          RunStep(a) \/ EraseState(a) \/ DisconnectFails(a)
   PROVE  FreshInv'
<1> USE DEF storeVars, callVars, ownerVars, bootVars, AtHead, SyncAtHead, Running
<1>1. queue # <<>> /\ Head(queue).account = a => ~Fresh(a)
  BY DEF TypeOK, FreshInv
<1>2. ASSUME queue # <<>>, Leave(a), NEW b \in Accounts, Fresh(b)
       PROVE  /\ ~attempts'[b].connected
              /\ \A i \in 1..Len(queue') : queue'[i].account # b
  BY <1>2, JobLeaves DEF FreshInv
<1>3. CASE SkipExpired(a)
  BY <1>3, <1>2 DEF FreshInv, Fresh, SkipExpired
<1>4. CASE StartSync(a)
  BY <1>1, <1>4 DEF TypeOK, FreshInv, Fresh, StartSync
<1>5. CASE FetchPage(a)
  BY <1>5 DEF FreshInv, Fresh, FetchPage
<1>6. ASSUME NEW cursor \in 0..MaxPages, CommitPage(a, cursor) PROVE FreshInv'
  BY <1>1, <1>6 DEF TypeOK, FreshInv, Fresh, CommitPage
<1>7. CASE SyncSucceeds(a)
  <2>1. \A b \in Accounts : b # a => rows'[b] = rows[b]
    BY <1>7 DEF TypeOK, SyncSucceeds
  <2> QED BY <1>1, <1>7, <1>2, <2>1 DEF FreshInv, Fresh, SyncSucceeds, EndRun
<1>8. CASE SyncFails(a)
  <2>1. \A b \in Accounts : b # a => rows'[b] = rows[b]
    BY <1>8, FailureRecorded
  <2> QED BY <1>1, <1>8, <1>2, <2>1 DEF FreshInv, Fresh, SyncFails, EndRun
<1>9. CASE EraseState(a)
  <2>1. \A b \in Accounts : b # a => rows'[b] = rows[b] /\ mail'[b] = mail[b]
    BY <1>9 DEF TypeOK, EraseState
  <2> QED BY <1>1, <1>9, <1>2, <2>1 DEF FreshInv, Fresh, EraseState
<1>10. CASE DisconnectFails(a)
  BY <1>10, <1>2 DEF FreshInv, Fresh, DisconnectFails
<1> QED BY <1>3, <1>4, <1>5, <1>6, <1>7, <1>8, <1>9, <1>10 DEF RunStep

\* Every step keeps FreshInv.
LEMMA FreshIsKept ==
   ASSUME TypeOK, FreshInv, [Next]_vars
   PROVE  FreshInv'
<1>1. TypeOK'
  BY TypeIsKept
<1> USE DEF vars, storeVars, callVars, ownerVars, bootVars
<1>2. CASE UNCHANGED vars \/ Tick
  BY <1>2 DEF FreshInv, Fresh, Tick
<1>3. CASE Crash
  BY <1>3, AttemptType DEF FreshInv, Fresh, Crash, TypeOK, NoAttempt
<1>4. CASE Boot
  BY <1>4, RecoveredRow DEF FreshInv, Fresh, Boot, TypeOK
<1> QED
  BY <1>1, <1>2, <1>3, <1>4, FreshAfterConnection, FreshAfterCommand, FreshAfterRun
    DEF Next, DisconnectStep

-----------------------------------------------------------------------------
(* Rows are true *)

\* The row of an account that stays connected follows its mail.
LEMMA CursorIsKept ==
   ASSUME TypeOK, FreshInv, CursorInv, [Next]_vars
   PROVE  CursorInv'
<1> USE DEF storeVars, callVars, ownerVars, bootVars, Connected
<1>1. TypeOK'
  BY TypeIsKept
<1>2. ASSUME Connected' \subseteq Connected, UNCHANGED mail,
             \A a \in Connected : Current(a)'.cursor = Current(a).cursor
      PROVE  CursorInv'
  BY <1>1, <1>2 DEF TypeOK, CursorInv
<1>3. ASSUME UNCHANGED <<rows, mail, credentials, providers>> PROVE CursorInv'
  BY <1>3 DEF CursorInv, Current
<1>4. ASSUME NEW a \in Accounts, UNCHANGED <<mail, credentials, providers>>,
              rows'[a] \in Row, rows'[a].cursor = Current(a).cursor \/ rows'[a].cursor = mail[a],
              \A b \in Accounts : b # a => rows'[b] = rows[b]
       PROVE  CursorInv'
  <2>1. ASSUME NEW b \in Connected PROVE Current(b)'.cursor = mail[b]
    <3>1. CASE b = a
      BY <1>4, <2>1, <3>1, NoRowAssumption DEF CursorInv, Current
    <3>2. CASE b # a
      BY <1>4, <2>1, <3>2 DEF TypeOK, CursorInv, Current
    <3> QED BY <3>1, <3>2
  <2> QED BY <1>4, <2>1 DEF CursorInv
<1>5. CASE UNCHANGED vars \/ Tick \/ Crash
  BY <1>3, <1>5 DEF vars, Tick, Crash
<1>6. ASSUME NEW a \in Accounts, ConnectStep(a) PROVE CursorInv'
  BY <1>6 DEF TypeOK, FreshInv, Fresh, CursorInv, Current, Blank, ConnectStep,
              StoreCredential, StoreProvider, RecoverConnection, Renew
<1>7. ASSUME NEW a \in Accounts, NEW intent \in Intents, Execute(a, intent) PROVE CursorInv'
  BY <1>3, <1>7 DEF Execute
<1>8. ASSUME NEW a \in Accounts, NEW kind \in {"retry", "renewed"}, WindowPasses(a, kind)
      PROVE  CursorInv'
  BY <1>3, <1>8 DEF WindowPasses
<1>9. ASSUME NEW a \in Accounts, RetryStep(a) \/ AnswerReview(a) PROVE CursorInv'
  <2>1. CASE SetUpCooldown(a) \/ Dispatch(a)
    <3>1. /\ rows[a] # NoRow => rows'[a].cursor = rows[a].cursor
          /\ rows[a] \in Row /\ rows'[a] \in Row
          /\ \A b \in Accounts : b # a => rows'[b] = rows[b]
      BY <2>1, ReservedRow, EligibleAttempt DEF SetUpCooldown, Dispatch
    <3>2. UNCHANGED <<mail, credentials, providers>>
      BY <2>1 DEF SetUpCooldown, Dispatch
    <3> QED BY <1>4, <3>1, <3>2, NoRowAssumption DEF Current
  <2>2. CASE UNCHANGED <<rows, mail, credentials, providers>>
    BY <1>3, <2>2
  <2> QED
    BY <1>9, <2>1, <2>2 DEF RetryStep, Refuse, AskReview, AnswerReview, DispatchReviewed
<1>10. ASSUME NEW a \in Accounts, RunStep(a) PROVE CursorInv'
  <2>1. CASE SkipExpired(a) \/ FetchPage(a)
    BY <1>3, <2>1 DEF SkipExpired, FetchPage
  <2>2. CASE StartSync(a)
    <3>1. /\ rows' = [rows EXCEPT ![a] = Saved(a, "syncing", NoCode)]
          /\ UNCHANGED <<mail, credentials, providers>>
      BY <2>2 DEF StartSync
    <3>2. /\ Saved(a, "syncing", NoCode) \in Row
          /\ Saved(a, "syncing", NoCode).cursor = Current(a).cursor
      BY RowsWritten
    <3> QED BY <1>4, <3>1, <3>2 DEF TypeOK
  <2>3. ASSUME NEW cursor \in 0..MaxPages, CommitPage(a, cursor) PROVE CursorInv'
    <3>1. /\ rows' = [rows EXCEPT ![a] = Committed(a, cursor)]
          /\ mail' = [mail EXCEPT ![a] = cursor]
          /\ UNCHANGED <<credentials, providers>>
      BY <2>3 DEF CommitPage
    <3>2. Committed(a, cursor) \in Row /\ Committed(a, cursor).cursor = cursor
      BY CommittedRow
    <3>3. ASSUME NEW b \in Connected PROVE Current(b)'.cursor = mail'[b]
      BY <3>1, <3>2, <3>3, NoRowAssumption DEF TypeOK, CursorInv, Current
    <3> QED BY <3>1, <3>3 DEF CursorInv
  <2>4. CASE SyncSucceeds(a)
    <3>1. /\ rows' = [rows EXCEPT ![a] = Succeeded(a)]
          /\ UNCHANGED <<mail, credentials, providers>>
      BY <2>4 DEF SyncSucceeds, EndRun
    <3>2. Succeeded(a) \in Row /\ Succeeded(a).cursor = mail[a]
      BY RowsWritten
    <3> QED BY <1>4, <3>1, <3>2 DEF TypeOK
  <2>5. CASE SyncFails(a)
    <3>1. UNCHANGED <<mail, credentials, providers>>
      BY <2>5 DEF SyncFails, EndRun
    <3>2. CASE UNCHANGED rows BY <1>3, <3>1, <3>2
    <3>3. CASE /\ rows'[a] \in Row /\ rows'[a].cursor = Current(a).cursor
               /\ \A b \in Accounts : b # a => rows'[b] = rows[b]
      BY <1>4, <3>1, <3>3
    <3> QED BY <2>5, <3>2, <3>3, FailureRecorded
  <2> QED BY <1>10, <2>1, <2>2, <2>3, <2>4, <2>5 DEF RunStep
<1>11. ASSUME NEW a \in Accounts, CallDisconnect(a) \/ DisconnectStep(a) PROVE CursorInv'
  BY <1>11 DEF TypeOK, CursorInv, Current, CallDisconnect, DisconnectStep, EraseCredential,
               EraseState, DisconnectFails
<1>12. CASE Boot
  <2>1. \A a \in Accounts : rows'[a] = rows[a] \/ rows'[a] = RecoverInterrupted(a)
    BY <1>12 DEF TypeOK, Boot
  <2>2. \A a \in Accounts : Current(a)'.cursor = Current(a).cursor
    BY <2>1, RecoveredRow, NoRowAssumption DEF Current
  <2> QED BY <1>2, <1>12, <2>2 DEF TypeOK, Boot
<1> QED
  BY <1>5, <1>6, <1>7, <1>8, <1>9, <1>10, <1>11, <1>12 DEF Next

\* A run that goes on still goes on, or it ends with a row that says so.
LEMMA StatusIsKept ==
   ASSUME TypeOK, FreshInv, StatusInv, [Next]_vars
   PROVE  StatusInv'
<1> USE DEF storeVars, callVars, ownerVars, bootVars, Connected, Running, AtHead, SyncAtHead
<1>1. TypeOK'
  BY TypeIsKept
<1>2. ASSUME UNCHANGED <<rows, credentials, providers, up, recovered, unrecorded>>,
             \A a \in Accounts : Running(a) => Running(a)'
      PROVE  StatusInv'
  BY <1>2 DEF TypeOK, StatusInv
<1>3. CASE UNCHANGED vars \/ Tick
  BY <1>3, <1>2 DEF vars, Tick
<1>4. CASE Crash
  BY <1>4 DEF Crash, StatusInv
<1>5. CASE Boot
  BY <1>1, <1>5, RecoveredRow DEF TypeOK, Boot, StatusInv
<1>6. ASSUME NEW a \in Accounts, ConnectStep(a) PROVE StatusInv'
  <2>1. \A j \in Jobs : queue' = Append(queue, j) /\ stage' = stage
          => \A b \in Accounts : Running(b) => Running(b)'
    BY JobJoins
  <2>2. Job("first", a) \in Jobs /\ Job("renewed", a) \in Jobs
    BY DEF Job, Jobs
  <2>3. CASE StoreCredential(a)
    BY <2>3 DEF TypeOK, FreshInv, Fresh, StatusInv, StoreCredential
  <2>4. CASE StoreProvider(a)
    BY <2>1, <2>2, <2>4 DEF TypeOK, FreshInv, Fresh, StatusInv, StoreProvider
  <2>5. CASE RecoverConnection(a)
    BY <2>5 DEF TypeOK, StatusInv, RecoverConnection
  <2>6. CASE Renew(a)
    BY <1>2, <2>1, <2>2, <2>6 DEF Renew
  <2> QED BY <1>6, <2>3, <2>4, <2>5, <2>6 DEF ConnectStep
<1>7. ASSUME NEW a \in Accounts,
             \/ \E intent \in Intents : Execute(a, intent)
             \/ \E kind \in {"retry", "renewed"} : WindowPasses(a, kind)
             \/ RetryStep(a) \/ AnswerReview(a)
      PROVE  StatusInv'
  <2>1. UNCHANGED <<credentials, providers, stage, up, recovered, unrecorded>>
        /\ (queue' = queue \/ queue' = Append(queue, Job("retry", a)))
    BY <1>7 DEF Execute, WindowPasses, RetryStep, AnswerReview, Refuse, SetUpCooldown, Dispatch,
                AskReview, DispatchReviewed, Dispatched
  <2>2. Job("retry", a) \in Jobs
    BY DEF Job, Jobs
  <2>3. \A b \in Accounts : Running(b) => Running(b)'
    BY <2>1, <2>2, JobJoins
  <2>4. CASE UNCHANGED rows
    BY <1>2, <2>1, <2>3, <2>4
  <2>5. CASE SetUpCooldown(a) \/ Dispatch(a)
    <3>1. /\ rows'[a] \in Row /\ rows'[a].status = "error"
          /\ \A b \in Accounts : b # a => rows'[b] = rows[b]
      BY <2>5, ReservedRow DEF SetUpCooldown, Dispatch
    <3> QED BY <2>1, <2>3, <3>1 DEF StatusInv, TypeOK
  <2> QED
    BY <1>7, <2>4, <2>5 DEF Execute, WindowPasses, RetryStep, AnswerReview, Refuse,
                            AskReview, DispatchReviewed
<1>8. ASSUME NEW a \in Accounts, RunStep(a) PROVE StatusInv'
  <2>1. CASE SkipExpired(a)
    BY <1>2, <2>1 DEF SkipExpired
  <2>2. CASE StartSync(a)
    BY <2>2 DEF TypeOK, StatusInv, StartSync
  <2>3. CASE FetchPage(a)
    BY <1>2, <2>3 DEF FetchPage
  <2>4. ASSUME NEW cursor \in 0..MaxPages, CommitPage(a, cursor) PROVE StatusInv'
    BY <2>4, CommittedRow DEF TypeOK, StatusInv, CommitPage
  <2>5. CASE SyncSucceeds(a)
    BY <2>5, RowsWritten DEF TypeOK, StatusInv, SyncSucceeds, EndRun
  <2>6. CASE SyncFails(a)
    <3>1. /\ UNCHANGED <<credentials, providers, up, recovered>>
          /\ \A b \in Accounts : Running(b) => b = a
      BY <2>6 DEF SyncFails, EndRun
    <3> QED BY <2>6, <3>1, FailureRecorded DEF TypeOK, StatusInv
  <2> QED BY <1>8, <2>1, <2>2, <2>3, <2>4, <2>5, <2>6 DEF RunStep
<1>9. ASSUME NEW a \in Accounts, CallDisconnect(a) \/ DisconnectStep(a) PROVE StatusInv'
  <2>1. CASE CallDisconnect(a)
    <3>1. Job("disconnect", a) \in Jobs
      BY DEF Job, Jobs
    <3>2. \A b \in Accounts : Running(b) => Running(b)'
      BY <2>1, <3>1, JobJoins DEF CallDisconnect
    <3> QED BY <1>2, <2>1, <3>2 DEF CallDisconnect
  <2>2. AtHead(a, {"disconnect"}) => \A b \in Accounts : ~Running(b)
    OBVIOUS
  <2>3. CASE EraseCredential(a)
    BY <2>2, <2>3 DEF TypeOK, StatusInv, EraseCredential
  <2>4. CASE EraseState(a)
    BY <2>2, <2>4 DEF TypeOK, StatusInv, EraseState
  <2>5. CASE DisconnectFails(a)
    BY <2>2, <2>5 DEF TypeOK, StatusInv, DisconnectFails
  <2> QED BY <1>9, <2>1, <2>3, <2>4, <2>5 DEF DisconnectStep
<1> QED
  BY <1>3, <1>4, <1>5, <1>6, <1>7, <1>8, <1>9 DEF Next

\* The invariant holds at the start.
LEMMA IInvHolds == Init => IInv
<1> SUFFICES ASSUME Init PROVE IInv
  OBVIOUS
<1>1. Blank \in Row /\ LegacyRow \in Row /\ LegacyRow.status = "error" /\ LegacyRow.cursor = 0
  BY BlankRow DEF Blank, LegacyRow, Row, Codes
<1>2. rows \in [Accounts -> Row \cup {NoRow}] /\ mail \in [Accounts -> 0..MaxPages]
  BY <1>1, StatusAssumption DEF Init
<1>3. attempts \in [Accounts -> AttemptRecords] /\ queue \in Seq(Jobs)
  BY DEF Init, NoAttempt, AttemptRecords, AttemptSteps
<1>4. {up, recovered, suspended} \subseteq BOOLEAN
  BY DEF Init
<1>5. TypeOK
  BY <1>2, <1>3, <1>4, StatusAssumption DEF Init, TypeOK, AttemptRecords, AttemptSteps
<1>6. FreshInv
  BY DEF Init, FreshInv, Fresh, NoAttempt
<1>7. CursorInv /\ StatusInv
  BY <1>1 DEF Init, CursorInv, StatusInv, Current, Blank, Connected
<1> QED BY <1>5, <1>6, <1>7 DEF IInv

\* The invariant always holds.
LEMMA AlwaysIInv == Spec => []IInv
<1>1. IInv /\ [Next]_vars => IInv'
  BY TypeIsKept, FreshIsKept, CursorIsKept, StatusIsKept DEF IInv
<1> QED BY IInvHolds, <1>1, PTL DEF Spec

\* Every variable keeps its type; a connection that is not complete has a
\* credential and no account state, and the streak its three values.
THEOREM TypeCorrect == Spec => []TypeOK
<1>1. IInv => TypeOK
  BY DEF IInv
<1> QED BY AlwaysIInv, <1>1, PTL

\* For every connected account, through pages, failures, cooldowns, disconnects
\* that fail, crashes and repairs: the row's cursor is that of the stored mail,
\* and it says "syncing" only while a run goes on, for every set of accounts and
\* of failures and every number of pages, ticks and crashes.
THEOREM RowsStayTrue == Spec => []RowsAreTrue
<1>1. IInv => RowsAreTrue
  BY DEF IInv, CursorInv, StatusInv, RowsAreTrue, Current
<1> QED BY AlwaysIInv, <1>1, PTL

-----------------------------------------------------------------------------
(* Cooldowns *)

\* What the availability of a retry says about the wait of its row.
LEMMA AvailabilityTellsWait ==
   ASSUME TypeOK, NEW a \in Accounts, rows[a] \in Row
   PROVE  /\ Availability(rows[a]) = "available" => rows[a].streak = 0
          /\ Availability(rows[a]) = "quota-setup" => rows[a].streak = 0
          /\ Availability(rows[a]) = "quota-ready" => now >= rows[a].notBefore
<1>1. /\ rows[a].streak \in Nat /\ rows[a].notBefore \in Nat /\ now \in Nat
      /\ rows[a] # NoRow
  BY NoRowAssumption, StatusAssumption DEF TypeOK, Row, MaxStreak
<1>2. CASE rows[a].streak > 0
  BY <1>1, <1>2 DEF Availability, ByDisposition, CooldownAnswer
<1>3. CASE rows[a].streak = 0
  BY <1>1, <1>3 DEF Availability, ByDisposition, CooldownAnswer
<1> QED BY <1>1, <1>2, <1>3

\* An ordinary attempt that is eligible finds no wait, or one that is over.
LEMMA EligibleFindsNoWait ==
   ASSUME TypeOK, NEW a \in Accounts, Eligible(a), attempts[a].intent # "reviewed"
   PROVE  /\ rows[a].streak = 0 \/ now >= rows[a].notBefore
          /\ attempts[a].intent = "start-cooldown" => rows[a].streak = 0
<1>1. rows[a] \in Row
  BY EligibleAttempt
<1>2. /\ attempts[a].intent = Intended(a)
      /\ Availability(rows[a]) \in {"available", "quota-setup", "quota-ready"}
  BY DEF Eligible
<1>3. Intended(a) = "start-cooldown" => Availability(rows[a]) = "quota-setup"
  BY DEF Intended
<1> QED BY <1>1, <1>2, <1>3, AvailabilityTellsWait

\* What a step may do to the cooldown of a row.
CooldownKept(a) ==
    rows[a] # NoRow /\ rows'[a] # NoRow =>
        /\ rows'[a].streak < rows[a].streak => Running(a) /\ stage = "done"
        /\ rows[a].streak > 0 /\ now < rows[a].notBefore
             => rows'[a].notBefore = rows[a].notBefore \/ Running(a)

\* No step shortens the cooldown of an account.
LEMMA CooldownStep ==
   ASSUME TypeOK, [Next]_vars, NEW c \in Accounts
   PROVE  CooldownKept(c)
<1> USE DEF storeVars, callVars, ownerVars, bootVars
<1>1. rows[c] # NoRow =>
        /\ rows[c] \in Row /\ Current(c) = rows[c]
        /\ rows[c].streak \in Nat /\ rows[c].notBefore \in Nat /\ now \in Nat
  BY StatusAssumption DEF TypeOK, Current, Row, MaxStreak
<1>2. ASSUME rows'[c] = rows[c] PROVE CooldownKept(c)
  BY <1>1, <1>2 DEF CooldownKept
<1>3. ASSUME rows'[c].streak = Current(c).streak, rows'[c].notBefore = Current(c).notBefore
      PROVE  CooldownKept(c)
  BY <1>1, <1>3 DEF CooldownKept
<1>4. CASE UNCHANGED vars \/ Tick \/ Crash
  BY <1>2, <1>4 DEF vars, Tick, Crash
<1>5. ASSUME NEW a \in Accounts, ConnectStep(a) PROVE CooldownKept(c)
  BY <1>2, <1>5 DEF TypeOK, CooldownKept, ConnectStep, StoreCredential, StoreProvider,
                    RecoverConnection, Renew
<1>6. ASSUME NEW a \in Accounts,
             \/ \E intent \in Intents : Execute(a, intent)
             \/ \E kind \in {"retry", "renewed"} : WindowPasses(a, kind)
             \/ RetryStep(a) \/ AnswerReview(a)
      PROVE  CooldownKept(c)
  <2>1. CASE UNCHANGED rows BY <1>2, <2>1
  <2>2. CASE a = c /\ rows' = [rows EXCEPT ![c] = WithCooldown(rows[c], FALSE)]
             /\ Eligible(c) /\ attempts[c].intent # "reviewed"
    <3>1. rows[c].streak = 0 \/ now >= rows[c].notBefore
      BY <2>2, EligibleFindsNoWait
    <3>2. now \in 0..MaxTime /\ rows[c] \in Row /\ rows'[c] = WithCooldown(rows[c], FALSE)
      BY <2>2, EligibleAttempt DEF TypeOK
    <3>3. rows'[c] \in Row /\ rows'[c].streak >= rows[c].streak
      BY <3>2, CooldownRow
    <3>4. rows'[c].streak \in Nat
      BY <3>3 DEF Row, MaxStreak
    <3> QED BY <1>1, <3>1, <3>3, <3>4 DEF CooldownKept
  <2>3. CASE a # c /\ \E row \in Row : rows' = [rows EXCEPT ![a] = row]
    BY <1>2, <2>3 DEF TypeOK
  <2>4. CASE SetUpCooldown(a) \/ Dispatch(a)
    <3>1. UNCHANGED rows \/ rows' = [rows EXCEPT ![a] = WithCooldown(rows[a], FALSE)]
      BY <2>4 DEF SetUpCooldown, Dispatch
    <3>2. Eligible(a) /\ attempts[a].intent # "reviewed"
      BY <2>4 DEF SetUpCooldown, Dispatch
    <3>3. WithCooldown(rows[a], FALSE) \in Row
      BY <3>2, EligibleAttempt, CooldownRow DEF TypeOK
    <3> QED BY <2>1, <2>2, <2>3, <3>1, <3>2, <3>3
  <2> QED
    BY <1>6, <2>1, <2>4 DEF Execute, WindowPasses, RetryStep, AnswerReview, Refuse,
                            AskReview, DispatchReviewed
<1>7. ASSUME NEW a \in Accounts, RunStep(a) PROVE CooldownKept(c)
  <2>1. CASE SkipExpired(a) \/ FetchPage(a)
    BY <1>2, <2>1 DEF SkipExpired, FetchPage
  <2>2. CASE StartSync(a)
    BY <1>2, <1>3, <2>2, RowsWritten DEF TypeOK, StartSync
  <2>3. ASSUME NEW cursor \in 0..MaxPages, CommitPage(a, cursor) PROVE CooldownKept(c)
    BY <1>2, <1>3, <2>3, CommittedRow DEF TypeOK, CommitPage
  <2>4. CASE SyncSucceeds(a)
    BY <1>2, <2>4 DEF TypeOK, SyncSucceeds, CooldownKept
  <2>5. CASE SyncFails(a)
    <3>1. CASE a # c \/ UNCHANGED rows
      BY <1>2, <2>5, <3>1, FailureRecorded
    <3>2. CASE a = c /\ rows'[c] \in Row /\ rows'[c].streak >= Current(c).streak
      <4>1. Running(c)
        BY <2>5, <3>2 DEF SyncFails
      <4>2. rows'[c].streak \in Nat
        BY <3>2 DEF Row, MaxStreak
      <4> QED BY <1>1, <3>2, <4>1, <4>2 DEF CooldownKept
    <3> QED BY <2>5, <3>1, <3>2, FailureRecorded
  <2> QED BY <1>7, <2>1, <2>2, <2>3, <2>4, <2>5 DEF RunStep
<1>8. ASSUME NEW a \in Accounts, CallDisconnect(a) \/ DisconnectStep(a) PROVE CooldownKept(c)
  BY <1>2, <1>8 DEF TypeOK, CooldownKept, CallDisconnect, DisconnectStep, EraseCredential,
                    EraseState, DisconnectFails
<1>9. CASE Boot
  <2>1. rows'[c] = rows[c] \/ rows'[c] = RecoverInterrupted(c)
    BY <1>9 DEF TypeOK, Boot
  <2> QED BY <1>1, <1>2, <1>3, <2>1, RecoveredRow DEF CooldownKept
<1> QED
  BY <1>4, <1>5, <1>6, <1>7, <1>8, <1>9 DEF Next

\* The history of quota failures ends with a complete sync only, and a wait is
\* not begun again by asking again.
THEOREM CooldownsSurvive == Spec => CooldownSurvives
<1>1. IInv /\ [Next]_vars => [\A a \in Accounts : CooldownKept(a)]_vars
  BY CooldownStep DEF IInv
<1> QED BY AlwaysIInv, <1>1, PTL DEF Spec, CooldownSurvives, CooldownKept

\* No ordinary retry is sent within a wait.
THEOREM RetriesHonourCooldowns == Spec => RetryHonoursCooldown
<1> DEFINE Honours(a) ==
      attempts[a].step = "inspecting" /\ attempts'[a].step = "dispatched"
          => rows[a].streak = 0 \/ now >= rows[a].notBefore
<1>1. ASSUME TypeOK, [Next]_vars, NEW c \in Accounts PROVE Honours(c)
  <2> USE <1>1
  <2> SUFFICES ASSUME attempts[c].step = "inspecting", attempts'[c].step = "dispatched"
               PROVE  Dispatch(c)
    BY EligibleFindsNoWait DEF Dispatch
  <2> USE DEF storeVars, callVars, ownerVars, bootVars
  <2>1. ASSUME attempts'[c] = attempts[c] \/ attempts'[c] = NoAttempt PROVE FALSE
    BY <2>1 DEF NoAttempt
  <2>2. \A a \in Accounts : Release(a) \/ Leave(a) => attempts'[c] \in {attempts[c], NoAttempt}
    BY DEF TypeOK, Release, Leave
  <2>3. CASE UNCHANGED vars \/ Tick \/ Crash \/ Boot
    BY <2>1, <2>3 DEF vars, Tick, Crash, Boot
  <2>4. ASSUME NEW a \in Accounts, ConnectStep(a) PROVE FALSE
    BY <2>1, <2>4 DEF ConnectStep, StoreCredential, StoreProvider, RecoverConnection, Renew
  <2>5. ASSUME NEW a \in Accounts, NEW intent \in Intents, Execute(a, intent) PROVE FALSE
    BY <2>5 DEF TypeOK, Execute
  <2>6. ASSUME NEW a \in Accounts, NEW kind \in {"retry", "renewed"}, WindowPasses(a, kind)
        PROVE  FALSE
    BY <2>1, <2>6 DEF WindowPasses
  <2>7. ASSUME NEW a \in Accounts, RetryStep(a) \/ AnswerReview(a) PROVE Dispatch(c)
    <3>1. CASE Refuse(a) \/ SetUpCooldown(a)
      BY <2>1, <2>2, <3>1 DEF Refuse, SetUpCooldown
    <3>2. CASE Dispatch(a)
      BY <3>2 DEF TypeOK, Dispatch, Dispatched, Attempt
    <3>3. CASE AskReview(a)
      BY <3>3 DEF TypeOK, AskReview
    <3>4. CASE AnswerReview(a)
      BY <2>1, <2>2, <3>4 DEF TypeOK, AnswerReview
    <3>5. CASE DispatchReviewed(a)
      BY <2>1, <2>2, <3>5 DEF TypeOK, DispatchReviewed, Dispatched, Attempt
    <3> QED BY <2>7, <3>1, <3>2, <3>3, <3>4, <3>5 DEF RetryStep
  <2>8. ASSUME NEW a \in Accounts, RunStep(a) PROVE FALSE
    BY <2>1, <2>2, <2>8 DEF RunStep, SkipExpired, StartSync, FetchPage, CommitPage,
                            SyncSucceeds, SyncFails, EndRun
  <2>9. ASSUME NEW a \in Accounts, CallDisconnect(a) \/ DisconnectStep(a) PROVE FALSE
    BY <2>1, <2>2, <2>9 DEF CallDisconnect, DisconnectStep, EraseCredential, EraseState,
                            DisconnectFails
  <2> QED BY <2>3, <2>4, <2>5, <2>6, <2>7, <2>8, <2>9 DEF Next
<1>2. IInv /\ [Next]_vars => [\A a \in Accounts : Honours(a)]_vars
  BY <1>1 DEF IInv
<1> QED BY AlwaysIInv, <1>2, PTL DEF Spec, RetryHonoursCooldown
=============================================================================
