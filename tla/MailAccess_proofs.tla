--------------------------- MODULE MailAccess_proofs ---------------------------
(***************************************************************************)
(* Proofs that an access token never outlives its credential, that the key *)
(* of the projection never goes before its work, and that no request and   *)
(* no admission of the pacer is left of a run that has ended, for every    *)
(* number of accounts, refreshes, renewals, messages and operations.       *)
(*                                                                         *)
(* The pacer has no part in the first two.  What is stored must be tied to *)
(* what a refresh has read when it began (UnabortedReadsWhatIsStored), and *)
(* what a disconnect has invalidated must still be so when it erases the   *)
(* credential (DisconnectHasInvalidated), for which no run may ask again   *)
(* before the end of the operation (GateIsClosed).                         *)
(*                                                                         *)
(* The last two rest on the queue of the pacer: a request waits in it at   *)
(* most once and is not admitted while it waits (Sound), and an account    *)
(* asks for one page at a time (Page), through a run that waits for one    *)
(* operation of the worker at a time (JobInv).  Withdrawing what has been  *)
(* aborted goes through the queue one place at a time, and the induction   *)
(* over the places is one over a set of numbers (UpTo).                    *)
(***************************************************************************)
EXTENDS MailAccess, SequenceTheorems, WellFoundedInduction, TLAPS

\* A refresh that has not been aborted has read the credential that is stored.
UnabortedReadsWhatIsStored ==
    \A r \in Refreshes :
        Running(r) =>
            /\ refreshes[r].account \in Accounts
            /\ ~refreshes[r].aborted /\ refreshes[r].account \notin overwritten
                 => refreshes[r].token = credential[refreshes[r].account]

TokensInv ==
    /\ TokensTypeOK
    /\ TokenMatchesCredential
    /\ RefreshesAreShared
    /\ UnabortedReadsWhatIsStored

\* While an operation of the owner goes on, no run asks for a token.
GateIsClosed ==
    /\ operation.kind # "none" => suspended
    /\ operation.kind = "disconnect" => operation.account \in Accounts

DisconnectHasInvalidated ==
    At("disconnect", "revoking") =>
        LET a == operation.account
        IN a \in Accounts /\ cache[a] = None /\ shared[a] = None

\* The key of the projection goes only when no operation is accepted any more.
KeyInv ==
    /\ KeyOutlivesWork
    /\ "projection" \notin keys => closed
    /\ At("quit", "closed") => closed

IInv == TypeOK /\ TokensInv /\ GateIsClosed /\ DisconnectHasInvalidated /\ KeyInv

-----------------------------------------------------------------------------
(* The tokens *)

\* A renewal makes another token, and no token is a refresh.
LEMMA TokenTypes ==
    /\ None \in Token /\ 1 \in Token
    /\ \A t \in 1..MaxRenewals : t + 1 \in Token
    /\ None \notin Refreshes
BY TokenAssumption DEF None, Token, Refreshes

\* At the start nothing is cached, shared or under way.
LEMMA TokensStart == TokensInit => TokensInv
<1> SUFFICES ASSUME TokensInit PROVE TokensInv
  OBVIOUS
<1>1. TokensTypeOK
  BY TokenTypes DEF TokensInit, TokensTypeOK, Settled
<1>2. TokenMatchesCredential /\ RefreshesAreShared /\ UnabortedReadsWhatIsStored
  BY DEF TokensInit, TokenMatchesCredential, RefreshesAreShared,
         UnabortedReadsWhatIsStored, Running, Settled
<1> QED BY <1>1, <1>2 DEF TokensInv

\* An abort, of whatever refreshes, changes nothing else.
LEMMA AbortedType ==
    ASSUME TokensTypeOK, NEW rs
    PROVE  /\ Aborted(rs) \in [Refreshes -> [account : Accounts \cup {NoAccount},
                                  step : {"settled", "reading", "reprotecting", "requesting"},
                                  token : Token, aborted : BOOLEAN]]
           /\ \A r \in Refreshes :
                /\ Aborted(rs)[r].account = refreshes[r].account
                /\ Aborted(rs)[r].step = refreshes[r].step
                /\ Aborted(rs)[r].token = refreshes[r].token
                /\ Aborted(rs)[r].aborted = (refreshes[r].aborted \/ r \in rs)
BY DEF Aborted, TokensTypeOK

\* A caller that joins a refresh only drops what is cached.
LEMMA JoinKeeps ==
    ASSUME TokensInv, NEW a \in Accounts, NEW r \in Refreshes, JoinRefresh(a, r)
    PROVE  TokensInv'
BY TokenTypes
   DEF JoinRefresh, TokensInv, TokensTypeOK, TokenMatchesCredential,
       RefreshesAreShared, UnabortedReadsWhatIsStored, Running

\* A refresh that begins reads what is stored.
LEMMA BeginKeeps ==
    ASSUME TokensInv, NEW a \in Accounts, NEW r \in Refreshes, BeginRefresh(a, r)
    PROVE  TokensInv'
<1>1. TokensTypeOK'
  BY TokenTypes DEF BeginRefresh, TokensInv, TokensTypeOK
<1>2. TokenMatchesCredential'
  BY DEF BeginRefresh, TokensInv, TokenMatchesCredential
<1>3. RefreshesAreShared'
  BY DEF BeginRefresh, TokensInv, TokensTypeOK, RefreshesAreShared, Running, None,
         Refreshes
<1>4. UnabortedReadsWhatIsStored'
  BY DEF BeginRefresh, TokensInv, UnabortedReadsWhatIsStored, Running
<1> QED BY <1>1, <1>2, <1>3, <1>4 DEF TokensInv

\* What is aborted is shared as before.
LEMMA AbortKeeps ==
    ASSUME TokensInv, NEW rs, AbortRefreshes(rs)
    PROVE  TokensInv'
BY AbortedType
   DEF AbortRefreshes, TokensInv, TokensTypeOK, TokenMatchesCredential,
       RefreshesAreShared, UnabortedReadsWhatIsStored, Running

\* What was read is unprotected, or written again.
LEMMA ReadKeeps ==
    ASSUME TokensInv, NEW r \in Refreshes, Unprotected(r) \/ Reprotected(r)
    PROVE  TokensInv'
<1>1. CASE Unprotected(r)
  BY <1>1
     DEF Unprotected, TokensInv, TokensTypeOK, TokenMatchesCredential,
         RefreshesAreShared, UnabortedReadsWhatIsStored, Running
<1>2. CASE Reprotected(r)
  BY <1>2
     DEF Reprotected, TokensInv, TokensTypeOK, TokenMatchesCredential,
         RefreshesAreShared, UnabortedReadsWhatIsStored, Running
<1> QED BY <1>1, <1>2

\* A refresh that settles caches only what it read unaborted.
LEMMA SettleKeeps ==
    ASSUME TokensInv, NEW r \in Refreshes, NEW outcome, SettleRefresh(r, outcome)
    PROVE  TokensInv'
<1>1. TokensTypeOK'
  BY TokenTypes DEF SettleRefresh, Forget, Settled, TokensInv, TokensTypeOK
<1>2. TokenMatchesCredential'
  BY DEF SettleRefresh, Caches, TokensInv, TokenMatchesCredential,
         UnabortedReadsWhatIsStored
<1>3. RefreshesAreShared'
  BY DEF SettleRefresh, Forget, Settled, TokensInv, TokensTypeOK, RefreshesAreShared,
         UnabortedReadsWhatIsStored, Running
<1>4. UnabortedReadsWhatIsStored'
  BY DEF SettleRefresh, Settled, TokensInv, UnabortedReadsWhatIsStored, Running
<1> QED BY <1>1, <1>2, <1>3, <1>4 DEF TokensInv

\* An invalidation leaves no refresh of the account that may still cache.
LEMMA InvalidateKeeps ==
    ASSUME TokensInv, NEW a \in Accounts, InvalidateForDisconnect(a) \/ Renew(a)
    PROVE  TokensInv'
<1>1. Invalidate(a)
  BY DEF InvalidateForDisconnect, Renew
<1>2. \A r \in Refreshes :
        Running(r) /\ refreshes[r].account = a => refreshes'[r].aborted
  BY <1>1, AbortedType DEF Invalidate, TokensInv, RefreshesAreShared
<1>3. /\ credential' \in [Accounts -> Token]
      /\ overwritten' \subseteq overwritten /\ overwritten \subseteq overwritten' \cup {a}
      /\ \A b \in Accounts \ {a} : credential'[b] = credential[b]
      /\ UNCHANGED destroyed
  BY TokenTypes DEF InvalidateForDisconnect, Renew, TokensInv, TokensTypeOK
<1>4. TokensTypeOK'
  BY <1>1, <1>3, AbortedType, TokenTypes DEF Invalidate, TokensInv, TokensTypeOK
<1>5. TokenMatchesCredential'
  BY <1>1, <1>3 DEF Invalidate, TokensInv, TokensTypeOK, TokenMatchesCredential
<1>6. RefreshesAreShared'
  BY <1>1, <1>2, AbortedType DEF Invalidate, TokensInv, RefreshesAreShared, Running
<1>7. UnabortedReadsWhatIsStored'
  BY <1>1, <1>2, <1>3, AbortedType
     DEF Invalidate, TokensInv, UnabortedReadsWhatIsStored, Running
<1> QED BY <1>4, <1>5, <1>6, <1>7 DEF TokensInv

\* The credential of an account is erased when nothing of it is left in memory.
LEMMA EraseKeeps ==
    ASSUME TokensInv, NEW a \in Accounts, cache[a] = None, shared[a] = None,
           EraseCredential(a)
    PROVE  TokensInv'
BY TokenTypes
   DEF EraseCredential, TokensInv, TokensTypeOK, TokenMatchesCredential,
       RefreshesAreShared, UnabortedReadsWhatIsStored, Running

\* A deletion erases every credential together with what was cached of it.
LEMMA EraseAllKeeps ==
    ASSUME TokensInv, EraseCredentials
    PROVE  TokensInv'
BY TokenTypes
   DEF EraseCredentials, TokensInv, TokensTypeOK, TokenMatchesCredential,
       RefreshesAreShared, UnabortedReadsWhatIsStored, Running

\* Quit forgets every token and aborts every refresh that is shared.
LEMMA DestroyKeeps ==
    ASSUME TokensInv, DestroyTokens
    PROVE  TokensInv'
<1>1. \A r \in Refreshes : Running(r) => refreshes'[r].aborted
  BY AbortedType
     DEF DestroyTokens, TokensInv, RefreshesAreShared, UnabortedReadsWhatIsStored
<1>2. TokensTypeOK'
  BY AbortedType, TokenTypes DEF DestroyTokens, TokensInv, TokensTypeOK
<1>3. TokenMatchesCredential' /\ RefreshesAreShared' /\ UnabortedReadsWhatIsStored'
  BY <1>1, AbortedType
     DEF DestroyTokens, TokensInv, TokenMatchesCredential, RefreshesAreShared,
         UnabortedReadsWhatIsStored, Running
<1> QED BY <1>2, <1>3 DEF TokensInv
-----------------------------------------------------------------------------
(* The composition *)

\* Every operation of the worker has its type.
LEMMA JobsAreJobs ==
    ASSUME NEW a \in Accounts
    PROVE  Load(a) \in Jobs /\ Commit(a) \in Jobs /\ Erase(a) \in Jobs /\ Read \in Jobs
BY AccessAssumption DEF AllJobs, Load, Commit, Erase, Read

\* The invariant holds at the start.
LEMMA IInvHolds == Init => IInv
<1> SUFFICES ASSUME Init PROVE IInv
  OBVIOUS
<1>1. TokensInv
  BY TokensStart DEF Init
<1>2. WorkersTypeOK
  <2>1. jobs \in Seq(Jobs) /\ Len(jobs) = 0
    BY DEF Init, WorkersInit
  <2>2. 0 <= MaxPending
    BY WorkerAssumption
  <2> QED BY <2>1, <2>2 DEF Init, WorkersInit, WorkersTypeOK
<1>3. TypeOK
  BY <1>1, <1>2 DEF Init, TokensInv, TypeOK, NoOperation
<1>4. GateIsClosed /\ DisconnectHasInvalidated
  BY DEF Init, NoOperation, GateIsClosed, DisconnectHasInvalidated, At
<1>5. KeyInv
  BY DEF Init, WorkersInit, NoOperation, Owners, KeyInv, KeyOutlivesWork, At
<1> QED BY <1>1, <1>3, <1>4, <1>5 DEF IInv

\* What a behaviour is about is of the accounts and refreshes there are.
LEMMA ScopeIsTyped ==
    ASSUME TypeOK
    PROVE  /\ scope.runs \subseteq Accounts /\ scope.commanded \subseteq Accounts
           /\ 1..scope.refreshes \subseteq Refreshes
<1>1. scope.runs \subseteq Accounts /\ scope.commanded \subseteq Accounts
  BY AccessAssumption DEF TypeOK
<1>2. scope.refreshes \in 1..MaxRefreshes
  BY AccessAssumption DEF TypeOK, Refreshes
<1> QED BY <1>1, <1>2, TokenAssumption DEF Refreshes

\* Every step keeps the invariant of the tokens.
LEMMA TokensAreKept ==
    ASSUME IInv, Next
    PROVE  TokensInv'
<1> USE DEF IInv
<1>1. CASE UNCHANGED tokenVars
  BY <1>1
     DEF tokenVars, TokensInv, TokensTypeOK, TokenMatchesCredential,
         RefreshesAreShared, UnabortedReadsWhatIsStored, Running
<1>2. ASSUME NEW a \in Accounts, NEW r \in 1..scope.refreshes, AwaitRefresh(a, r)
      PROVE  TokensInv'
  BY <1>2, ScopeIsTyped, JoinKeeps, BeginKeeps DEF AwaitRefresh
<1>3. ASSUME NEW A, AbortRuns(A)
      PROVE  TokensInv'
  BY <1>3, AbortKeeps DEF AbortRuns
<1>4. ASSUME NEW r \in Refreshes, RefreshGoesOn(r) \/ RefreshSettles(r)
      PROVE  TokensInv'
  BY <1>4, ReadKeeps, SettleKeeps DEF RefreshGoesOn, RefreshSettles
<1>5. ASSUME NEW a \in scope.commanded, RenewCredential(a)
      PROVE  TokensInv'
  BY <1>5, InvalidateKeeps, ScopeIsTyped DEF RenewCredential
<1>6. CASE DisconnectInvalidates
  BY <1>6, InvalidateKeeps DEF DisconnectInvalidates, Drained, GateIsClosed
<1>7. CASE DisconnectErasesCredential
  BY <1>7, EraseKeeps DEF DisconnectErasesCredential, DisconnectHasInvalidated
<1>8. CASE DeletionErasesCredentials
  BY <1>8, EraseAllKeeps DEF DeletionErasesCredentials
<1>9. CASE QuitDestroysTokens
  BY <1>9, DestroyKeeps DEF QuitDestroysTokens
<1> QED
  BY <1>1, <1>2, <1>3, <1>4, <1>5, <1>6, <1>7, <1>8, <1>9
     DEF Next, Step, WorkerStep, OwnerStep, StartRun, CancelRun, BeginDisconnect,
         BeginDeletion, BeginQuit, Begin, RendererReads, RetentionRuns, JobSettles,
         UseCachedToken, CacheHit, TimerFires, Tick, DisconnectErasesRecords,
         DeletionDestroysKeys, OperationFails, QuitClosesWorker, QuitZeroesKey,
         Answered, RequestFails

\* The worker takes an operation only while its key is there, and settles them in turn.
LEMMA EnqueueKeeps ==
    ASSUME WorkersTypeOK, KeyInv, NEW job \in Jobs, Enqueue(job)
    PROVE  WorkersTypeOK' /\ KeyOutlivesWork' /\ UNCHANGED <<closed, keys>>
BY WorkerAssumption DEF Enqueue, Accepts, WorkersTypeOK, KeyInv, KeyOutlivesWork

\* An operation that settles leaves the worker and its key as they are.
LEMMA SettleOneKeeps ==
    ASSUME WorkersTypeOK, KeyInv, Settle
    PROVE  WorkersTypeOK' /\ KeyOutlivesWork' /\ UNCHANGED <<closed, keys>>
<1>1. jobs' \in Seq(Jobs) /\ Len(jobs') = Len(jobs) - 1
  BY DEF Settle, WorkersTypeOK
<1>2. Len(jobs') <= MaxPending
  BY <1>1, WorkerAssumption DEF WorkersTypeOK
<1> QED BY <1>1, <1>2 DEF Settle, WorkersTypeOK, KeyInv, KeyOutlivesWork

\* No step zeroes a key that has work.
LEMMA WorkersAreKept ==
    ASSUME IInv, Next
    PROVE  WorkersTypeOK' /\ KeyInv'
<1> USE DEF IInv, TypeOK
<1> DEFINE Kept == WorkersTypeOK' /\ KeyInv'
           Reached == ~At("quit", "closed")' \/ UNCHANGED operation
<1>1. CASE UNCHANGED <<closed, keys>> /\ WorkersTypeOK' /\ KeyOutlivesWork' /\ Reached
  BY <1>1 DEF KeyInv, At
<1>2. CASE UNCHANGED workerVars /\ Reached
  BY <1>2 DEF workerVars, WorkersTypeOK, KeyInv, KeyOutlivesWork, At
<1>3. ASSUME NEW a \in scope.runs, StartRun(a)
      PROVE  Kept
  BY <1>1, <1>3, ScopeIsTyped, EnqueueKeeps, JobsAreJobs DEF StartRun, ownerVars
<1>4. CASE RendererReads
  BY <1>1, <1>4, EnqueueKeeps, AccessAssumption DEF RendererReads, ownerVars, AllJobs
<1>5. CASE JobSettles
  BY <1>1, <1>5, SettleOneKeeps DEF JobSettles, NoOperation, At
<1>6. ASSUME NEW a \in Accounts, UseCachedToken(a) \/ \E r \in Refreshes : AwaitRefresh(a, r)
      PROVE  Kept
  BY <1>1, <1>6, SettleOneKeeps DEF UseCachedToken, AwaitRefresh, Loaded, ownerVars
<1>7. ASSUME NEW r \in asked, Answered(r)
      PROVE  Kept
  <2>1. CASE UNCHANGED workerVars
    BY <1>2, <1>7, <2>1 DEF Answered, ownerVars
  <2>2. CASE Outstanding(r[1]) = {r} /\ Commits(r[1], r)
    <3>1. r \in Requests
      BY <2>2 DEF Outstanding, Of
    <3>2. r[1] \in Accounts
      BY <3>1 DEF Requests
    <3> QED BY <1>1, <1>7, <2>1, <2>2, <3>2, EnqueueKeeps, JobsAreJobs
               DEF Commits, Answered, ownerVars
  <2> QED BY <1>7, <2>1, <2>2 DEF Answered
<1>8. CASE RetentionRuns
  BY <1>8
     DEF RetentionRuns, StartRetention, EndRetention, WorkersTypeOK, KeyInv,
         KeyOutlivesWork, ownerVars, At
<1>9. CASE DisconnectErasesRecords
  BY <1>1, <1>9, EnqueueKeeps, JobsAreJobs
     DEF DisconnectErasesRecords, GateIsClosed, At, Reaches
<1>10. CASE DeletionDestroysKeys
  <2>1. WorkersTypeOK' /\ KeyOutlivesWork' /\ ("projection" \notin keys => closed)'
    BY <1>10
       DEF DeletionDestroysKeys, DestroyKeys, Busy, WorkersTypeOK, KeyInv,
           KeyOutlivesWork
  <2>2. ~At("quit", "closed")'
    <3>1. CASE Busy = {}
      BY <1>10, <3>1 DEF DeletionDestroysKeys, Reaches, At
    <3>2. CASE Busy # {}
      <4>1. operation' = NoOperation
        BY <1>10, <3>2 DEF DeletionDestroysKeys
      <4> QED BY <4>1 DEF NoOperation, At
    <3> QED BY <3>1, <3>2
  <2> QED BY <2>1, <2>2 DEF KeyInv
<1>11. CASE QuitClosesWorker
  BY <1>11 DEF QuitClosesWorker, Close, WorkersTypeOK, KeyInv, KeyOutlivesWork
<1>12. CASE QuitZeroesKey
  BY <1>12 DEF QuitZeroesKey, ZeroProjectionKey, WorkersTypeOK, KeyInv, KeyOutlivesWork
<1>13. ASSUME NEW kind \in {"disconnect", "deletion", "quit"}, NEW a, Begin(kind, a)
       PROVE  Kept
  BY <1>2, <1>13 DEF Begin, At
<1>14. CASE DisconnectInvalidates \/ DisconnectErasesCredential
  BY <1>2, <1>14 DEF DisconnectInvalidates, DisconnectErasesCredential, Reaches, At
<1>15. CASE DeletionErasesCredentials \/ QuitDestroysTokens
  BY <1>2, <1>15 DEF DeletionErasesCredentials, QuitDestroysTokens, Reaches, At
<1>16. CASE OperationFails
  BY <1>2, <1>16 DEF OperationFails, NoOperation, At
<1>17. CASE UNCHANGED workerVars /\ UNCHANGED operation
  BY <1>2, <1>17
<1> QED
  BY ScopeIsTyped, <1>3, <1>4, <1>5, <1>6, <1>7, <1>8, <1>9, <1>10, <1>11, <1>12,
     <1>13, <1>14, <1>15, <1>16, <1>17
     DEF Next, Step, WorkerStep, OwnerStep, CancelRun, RenewCredential,
         BeginDisconnect, BeginDeletion, BeginQuit, TimerFires, Tick, RefreshGoesOn,
         RefreshSettles, RequestFails, ownerVars

\* The type of operation.
Operation ==
    [kind : {"none", "disconnect", "deletion", "quit"}, account : Accounts \cup {NoAccount},
     step : {"none", "draining", "revoking", "removing", "removed", "destroying", "deleted",
             "closing", "closed", "stopped"}]

OwnerInv == operation \in Operation /\ suspended \in BOOLEAN /\ GateIsClosed

\* Every step keeps the gate closed for the operation that closed it.
LEMMA OwnerIsKept ==
    ASSUME IInv, Next
    PROVE  OwnerInv'
<1>1. OwnerInv /\ scope.commanded \subseteq Accounts
  BY ScopeIsTyped DEF IInv, TypeOK, OwnerInv, Operation
<1>2. CASE UNCHANGED ownerVars
  BY <1>1, <1>2 DEF OwnerInv, GateIsClosed, ownerVars
<1>3. CASE operation' = NoOperation /\ suspended' \in BOOLEAN
  BY <1>3 DEF NoOperation, Operation, OwnerInv, GateIsClosed
<1>4. CASE JobSettles
  <2>1. CASE Head(jobs)[1] = "erase"
    BY <1>3, <1>4, <2>1 DEF JobSettles
  <2>2. CASE Head(jobs)[1] # "erase"
    BY <1>1, <1>2, <1>4, <2>2 DEF JobSettles, OwnerInv, ownerVars
  <2> QED BY <2>1, <2>2
<1>5. ASSUME NEW kind \in {"disconnect", "deletion", "quit"}, NEW a \in Accounts \cup {NoAccount},
             kind = "disconnect" => a \in Accounts, Begin(kind, a)
      PROVE  OwnerInv'
  BY <1>5 DEF Begin, Operation, OwnerInv, GateIsClosed
<1>6. ASSUME NEW step \in {"revoking", "removing", "removed", "destroying", "deleted",
                           "closing", "closed", "stopped"}, Reaches(step)
      PROVE  OwnerInv'
  BY <1>1, <1>6 DEF Reaches, Operation, OwnerInv, GateIsClosed
<1>7. CASE OperationFails
  BY <1>3, <1>7 DEF OperationFails
<1>8. CASE DeletionDestroysKeys
  BY <1>3, <1>6, <1>8 DEF DeletionDestroysKeys
<1>9. ASSUME NEW a \in scope.commanded, BeginDisconnect(a)
      PROVE  OwnerInv'
  BY <1>1, <1>5, <1>9 DEF BeginDisconnect
<1> QED
  BY <1>2, <1>4, <1>5, <1>6, <1>7, <1>8, <1>9
     DEF Next, Step, WorkerStep, OwnerStep, StartRun, CancelRun, RenewCredential,
         BeginDeletion, BeginQuit, RendererReads, RetentionRuns, UseCachedToken,
         AwaitRefresh, TimerFires, Tick, RefreshGoesOn, RefreshSettles, Answered,
         RequestFails, DisconnectInvalidates, DisconnectErasesCredential,
         DisconnectErasesRecords, DeletionErasesCredentials, QuitDestroysTokens,
         QuitClosesWorker, QuitZeroesKey

\* No run asks for a token of an account between its invalidation and the erasure
\* of its credential, and a refresh that was under way does not bring one back.
LEMMA InvalidationIsKept ==
    ASSUME IInv, Next
    PROVE  DisconnectHasInvalidated'
<1> DEFINE a == operation.account
           Gone == a \in Accounts /\ cache[a] = None /\ shared[a] = None
<1>1. TokensTypeOK /\ scope.commanded \subseteq Accounts
  BY ScopeIsTyped DEF IInv, TypeOK
<1>2. ~At("disconnect", "revoking")' => DisconnectHasInvalidated'
  BY DEF DisconnectHasInvalidated
<1>3. CASE DisconnectInvalidates
  <2>1. a \in Accounts /\ a' = a
    BY <1>3 DEF IInv, GateIsClosed, DisconnectInvalidates, Drained, Reaches
  <2> QED BY <1>1, <1>3, <2>1
             DEF DisconnectInvalidates, InvalidateForDisconnect, Invalidate,
                 TokensTypeOK, DisconnectHasInvalidated
<1>4. ASSUME NEW step \in {"removing", "removed", "destroying", "deleted", "closing", "closed",
                           "stopped"}, Reaches(step)
      PROVE  DisconnectHasInvalidated'
  BY <1>2, <1>4 DEF Reaches, At
<1>5. CASE operation' = NoOperation
  BY <1>2, <1>5 DEF NoOperation, At
<1>6. ASSUME NEW kind, NEW b, Begin(kind, b)
      PROVE  DisconnectHasInvalidated'
  BY <1>2, <1>6 DEF Begin, At
<1>7. CASE UNCHANGED operation /\ (At("disconnect", "revoking") /\ Gone => Gone')
  BY <1>2, <1>7 DEF IInv, DisconnectHasInvalidated, At
<1>8. CASE UNCHANGED <<operation, cache, shared>>
  BY <1>7, <1>8
<1>9. ASSUME NEW b \in Accounts, NEW r \in 1..scope.refreshes, AwaitRefresh(b, r)
      PROVE  DisconnectHasInvalidated'
  BY <1>7, <1>9 DEF IInv, GateIsClosed, AwaitRefresh, Loaded, At, ownerVars
<1>10. ASSUME NEW r \in Refreshes, RefreshSettles(r)
       PROVE  DisconnectHasInvalidated'
  <2>1. PICK outcome : SettleRefresh(r, outcome) /\ UNCHANGED operation
    BY <1>10 DEF RefreshSettles, ownerVars
  <2> SUFFICES ASSUME Gone PROVE Gone'
    BY <1>7, <2>1
  <2>2. ~(Caches(r, outcome) /\ refreshes[r].account = a)
    BY <2>1, TokenTypes DEF IInv, TokensInv, RefreshesAreShared, SettleRefresh, Caches
  <2> QED BY <1>1, <2>1, <2>2 DEF SettleRefresh, Forget
<1>11. ASSUME NEW b \in scope.commanded, RenewCredential(b)
       PROVE  DisconnectHasInvalidated'
  BY <1>1, <1>7, <1>11 DEF RenewCredential, Renew, Invalidate, ownerVars
<1>12. CASE JobSettles
  BY <1>5, <1>8, <1>12 DEF JobSettles, tokenVars
<1>13. CASE DeletionDestroysKeys
  BY <1>4, <1>5, <1>13 DEF DeletionDestroysKeys
<1>14. ASSUME NEW A, AbortRuns(A), UNCHANGED operation
       PROVE  DisconnectHasInvalidated'
  BY <1>8, <1>14 DEF AbortRuns, AbortRefreshes
<1>15. CASE UNCHANGED <<operation, tokenVars>>
  BY <1>8, <1>15 DEF tokenVars
<1>16. ASSUME NEW r \in Refreshes, RefreshGoesOn(r)
       PROVE  DisconnectHasInvalidated'
  BY <1>8, <1>16 DEF RefreshGoesOn, Unprotected, Reprotected, ownerVars
<1> QED
  BY <1>3, <1>4, <1>5, <1>6, <1>9, <1>10, <1>11, <1>12, <1>13, <1>14, <1>15, <1>16
     DEF Next, Step, WorkerStep, OwnerStep, StartRun, CancelRun, BeginDisconnect,
         BeginDeletion, BeginQuit, RendererReads, RetentionRuns, UseCachedToken,
         CacheHit, TimerFires, Tick, Answered, RequestFails, DisconnectErasesCredential,
         DisconnectErasesRecords, DeletionErasesCredentials, OperationFails,
         QuitDestroysTokens, QuitClosesWorker, QuitZeroesKey, ownerVars

\* What is left of the type: what a run waits for.
LEMMA RunsAreKept ==
    ASSUME IInv, Next
    PROVE  /\ scope' \in Scopes
           /\ run' \in [Accounts -> {"idle", "loading", "awaiting token", "reading", "committing"}]
           /\ joined' \in [Accounts -> {None} \cup Refreshes]
<1> DEFINE Run == run' \in [Accounts -> {"idle", "loading", "awaiting token", "reading",
                                         "committing"}]
           Joined == joined' \in [Accounts -> {None} \cup Refreshes]
<1> USE DEF IInv, TypeOK
<1>1. CASE UNCHANGED <<run, joined>>
  BY <1>1 DEF Next
<1>2. CASE UNCHANGED runVars
  BY <1>1, <1>2 DEF runVars
<1>3. ASSUME NEW A, AbortRuns(A)
      PROVE  Run /\ Joined
  BY <1>3 DEF AbortRuns
<1>4. ASSUME NEW a, NEW requests, NEW others, Asks(a, requests, others)
      PROVE  Run
  BY <1>4 DEF Asks
<1>5. ASSUME NEW a \in Accounts, NEW r \in 1..scope.refreshes, AwaitRefresh(a, r)
      PROVE  Run /\ Joined
  BY <1>5, ScopeIsTyped DEF AwaitRefresh
<1>6. ASSUME NEW r \in Refreshes, RefreshSettles(r)
      PROVE  Run /\ Joined
  BY <1>4, <1>6 DEF RefreshSettles, runVars
<1>7. ASSUME NEW r, Answered(r)
      PROVE  Run /\ Joined
  BY <1>4, <1>7 DEF Answered, Commits
<1>8. ASSUME NEW a, StartRun(a) \/ UseCachedToken(a)
      PROVE  Run /\ Joined
  BY <1>4, <1>8 DEF StartRun, UseCachedToken
<1>9. scope' \in Scopes
  BY DEF Next
<1>10. CASE JobSettles
  <2>1. /\ run' = run \/ run' = [run EXCEPT ![Head(jobs)[2]] = "idle"]
        /\ UNCHANGED joined
    BY <1>10 DEF JobSettles
  <2> QED BY <1>9, <2>1
<1> QED
  BY <1>1, <1>2, <1>3, <1>5, <1>6, <1>7, <1>8, <1>9, <1>10
     DEF Next, Step, WorkerStep, OwnerStep, CancelRun, RenewCredential,
         BeginDisconnect, BeginDeletion, BeginQuit, Begin, RendererReads, RetentionRuns,
         TimerFires, Tick, RefreshGoesOn, RequestFails, DisconnectInvalidates,
         DisconnectErasesCredential, DisconnectErasesRecords, DeletionErasesCredentials,
         DeletionDestroysKeys, OperationFails, QuitDestroysTokens, QuitClosesWorker,
         QuitZeroesKey

\* Every step keeps the invariant.
LEMMA IInvIsKept == IInv /\ [Next]_vars => IInv'
<1> SUFFICES ASSUME IInv, [Next]_vars PROVE IInv'
  OBVIOUS
<1>1. CASE Next
  <2>1. TokensTypeOK'
    BY <1>1, TokensAreKept DEF TokensInv
  <2>2. TypeOK'
    BY <1>1, <2>1, WorkersAreKept, OwnerIsKept, RunsAreKept
       DEF TypeOK, OwnerInv, Operation
  <2> QED BY <1>1, <2>2, TokensAreKept, WorkersAreKept, OwnerIsKept, InvalidationIsKept
             DEF IInv, OwnerInv
<1>2. CASE UNCHANGED vars
  BY <1>2
     DEF vars, tokenVars, pacerVars, workerVars, runVars, ownerVars, IInv, TypeOK,
         TokensInv, TokensTypeOK, WorkersTypeOK, TokenMatchesCredential,
         RefreshesAreShared, UnabortedReadsWhatIsStored, Running, GateIsClosed,
         DisconnectHasInvalidated, KeyInv, KeyOutlivesWork, At
<1> QED BY <1>1, <1>2

-----------------------------------------------------------------------------
(* The theorems *)

\* The invariant always holds.
LEMMA AlwaysIInv == Spec => []IInv
BY IInvHolds, IInvIsKept, PTL DEF Spec

\* Every variable of the runs, the tokens and the workers has its type.
THEOREM TypeCorrect == Spec => []TypeOK
BY AlwaysIInv DEF IInv

\* getAccessToken never answers with a token of a credential that has been replaced or
\* removed: an aborted refresh caches nothing, and an invalidation aborts what it forgets.
THEOREM TokensMatchTheirCredential == Spec => []TokenMatchesCredential
BY AlwaysIInv, PTL DEF IInv, TokensInv

\* The pending map is never without the refresh that its account's callers share.
THEOREM RefreshesStayShared == Spec => []RefreshesAreShared
BY AlwaysIInv, PTL DEF IInv, TokensInv

\* Neither deletion nor quit zeroes a key that an accepted operation is to be given.
THEOREM KeysOutliveTheirWork == Spec => []KeyOutlivesWork
BY AlwaysIInv, PTL DEF IInv, KeyInv

-----------------------------------------------------------------------------
(* Induction, and the queue of the pacer *)

\* Induction, for a set: what holds of 0 and of every successor holds up to n.
LEMMA UpTo ==
    ASSUME NEW n \in Nat, NEW S, 0 \in S,
           \A i \in 0..n : i \in S /\ i # n => i + 1 \in S
    PROVE  0..n \subseteq S
<1> DEFINE Rest == (0..n) \ S
           R == OpToRel(<, Nat)
<1> SUFFICES ASSUME Rest # {} PROVE FALSE
  OBVIOUS
<1>1. Rest \subseteq Nat
  OBVIOUS
<1>2. IsWellFoundedOn(R, Nat)
  BY NatLessThanWellFounded
<1>3. PICK x \in Rest : \A y \in Rest : ~(<<y, x>> \in R)
  <2> HIDE DEF R, Rest
  <2> QED BY <1>1, <1>2, WFMin, Zenon
<1>4. x \in 0..n /\ x \notin S /\ x # 0
  OBVIOUS
<1>5. x - 1 \in 0..n /\ x - 1 # n /\ (x - 1) + 1 = x /\ x - 1 < x /\ x - 1 \in Nat /\ x \in Nat
  BY <1>4
<1>6. x - 1 \notin S
  BY <1>4, <1>5
<1>7. <<x - 1, x>> \in R
  BY <1>5, Zenon DEF OpToRel
<1> QED BY <1>3, <1>5, <1>6, <1>7

\* Steps that stay in a set can be taken one after the other.
Stepwise(n, P) == [(1..n) \X P -> P]

IsIteration(g, n, P, base, step) ==
    /\ g \in [0..n -> P]
    /\ g[0] = base
    /\ \A i \in 1..n : g[i] = step[<<i, g[i - 1]>>]

\* What n steps make of a first value.
LEMMA Iterates ==
    ASSUME NEW n \in Nat, NEW P, NEW base \in P, NEW step \in Stepwise(n, P)
    PROVE  \E g : IsIteration(g, n, P, base, step)
<1> USE DEF Stepwise
<1> DEFINE Good(m, g) == /\ g \in [0..m -> P]
                         /\ g[0] = base
                         /\ \A i \in 1..m : g[i] = step[<<i, g[i - 1]>>]
           S == {m \in 0..n : \E g : Good(m, g)}
<1>1. 0 \in S
  <2>1. Good(0, [i \in 0..0 |-> base])
    OBVIOUS
  <2> HIDE DEF Good
  <2>2. \E g : Good(0, g)
    BY <2>1
  <2> QED BY <2>2
<1>2. ASSUME NEW m \in 0..n, m \in S, m # n
      PROVE  m + 1 \in S
  <2>1. PICK g : Good(m, g)
    BY <1>2
  <2>2. m \in Nat /\ m + 1 \in 1..n /\ m + 1 \in 0..n
    BY <1>2
  <2> DEFINE h == [i \in 0..(m + 1) |-> IF i <= m THEN g[i] ELSE step[<<m + 1, g[m]>>]]
  <2>3. h \in [0..(m + 1) -> P]
    BY <2>1, <2>2
  <2>4. h[0] = base
    BY <2>1, <2>2
  <2>5. \A i \in 1..(m + 1) : h[i] = step[<<i, h[i - 1]>>]
    <3> TAKE i \in 1..(m + 1)
    <3>1. CASE i <= m
      <4>1. i \in 1..m /\ i \in 0..(m + 1) /\ i - 1 \in 0..(m + 1) /\ i - 1 <= m
        BY <2>2, <3>1
      <4>2. h[i] = g[i] /\ h[i - 1] = g[i - 1]
        BY <3>1, <4>1
      <4> QED BY <2>1, <4>1, <4>2
    <3>2. CASE ~(i <= m)
      <4>1. i = m + 1 /\ i \in 0..(m + 1) /\ i - 1 = m /\ m \in 0..(m + 1) /\ m <= m
        BY <2>2, <3>2
      <4>2. h[i] = step[<<m + 1, g[m]>>] /\ h[i - 1] = g[m]
        BY <3>2, <4>1
      <4> QED BY <4>1, <4>2
    <3> QED BY <3>1, <3>2
  <2> HIDE DEF h
  <2>6. Good(m + 1, h)
    BY <2>3, <2>4, <2>5
  <2> QED BY <2>2, <2>6
<1>3. n \in S
  <2> HIDE DEF S
  <2>1. 0..n \subseteq S
    BY <1>1, <1>2, UpTo
  <2> QED BY <2>1
<1> QED BY <1>3 DEF IsIteration

\* Somebody new joins at the end.
LEMMA JoinQueue ==
    ASSUME NEW T, NEW queue \in Seq(T), NEW x \in T, x \notin ToSet(queue)
    PROVE  /\ Append(queue, x) \in Seq(T)
           /\ ToSet(Append(queue, x)) = ToSet(queue) \cup {x}
           /\ IsInjective(queue) => IsInjective(Append(queue, x))
<1> DEFINE longer == Append(queue, x)
           n == Len(queue)
<1>1. n \in Nat /\ DOMAIN queue = 1..n
  OBVIOUS
<1>2. longer \in Seq(T) /\ DOMAIN longer = 1..(n + 1) /\ longer[n + 1] = x
  OBVIOUS
<1>3. \A i \in 1..n : longer[i] = queue[i] /\ queue[i] # x
  BY DEF ToSet
<1> HIDE DEF longer, n
<1>4. \A i \in 1..(n + 1) : i \in 1..n \/ i = n + 1
  BY <1>1
<1>5. 1..n \subseteq 1..(n + 1) /\ n + 1 \in 1..(n + 1)
  BY <1>1
<1>6. ToSet(longer) = ToSet(queue) \cup {x}
  BY <1>1, <1>2, <1>3, <1>4, <1>5 DEF ToSet
<1>7. IsInjective(queue) => IsInjective(longer)
  BY <1>1, <1>2, <1>3, <1>4 DEF IsInjective
<1> QED BY <1>2, <1>6, <1>7 DEF longer

\* The first one leaves.
LEMMA LeaveFront ==
    ASSUME NEW T, NEW queue \in Seq(T), queue # <<>>, IsInjective(queue)
    PROVE  /\ Head(queue) \in T
           /\ Head(queue) \in ToSet(queue)
           /\ Tail(queue) \in Seq(T)
           /\ ToSet(Tail(queue)) = ToSet(queue) \ {Head(queue)}
           /\ IsInjective(Tail(queue))
<1> DEFINE rest == Tail(queue)
           n == Len(queue)
<1>1. n \in Nat /\ n # 0 /\ DOMAIN queue = 1..n
  OBVIOUS
<1>2. rest \in Seq(T) /\ DOMAIN rest = 1..(n - 1) /\ Head(queue) = queue[1]
  OBVIOUS
<1>3. \A i \in 1..(n - 1) : rest[i] = queue[i + 1]
  OBVIOUS
<1>4. \A i \in 1..n : queue[i] \in T
  OBVIOUS
<1> HIDE DEF rest, n
<1>5. 1 \in 1..n /\ \A i \in 1..(n - 1) : i \in Nat /\ i + 1 \in 1..n /\ i + 1 # 1
  BY <1>1
<1>6. \A i \in 1..n : i # 1 => i - 1 \in 1..(n - 1) /\ (i - 1) + 1 = i
  BY <1>1
<1>7. ToSet(rest) = ToSet(queue) \ {queue[1]}
  <2>1. ASSUME NEW i \in 1..(n - 1)
        PROVE  rest[i] \in ToSet(queue) /\ rest[i] # queue[1]
    BY <1>1, <1>3, <1>5 DEF ToSet, IsInjective
  <2>2. ASSUME NEW i \in 1..n, queue[i] # queue[1]
        PROVE  queue[i] \in ToSet(rest)
    BY <1>1, <1>2, <1>3, <1>6, <2>2 DEF ToSet
  <2> QED BY <1>1, <1>2, <2>1, <2>2 DEF ToSet
<1>8. IsInjective(rest)
  <2> SUFFICES ASSUME NEW i \in 1..(n - 1), NEW j \in 1..(n - 1), rest[i] = rest[j]
               PROVE  i = j
    BY <1>2 DEF IsInjective
  <2>1. i + 1 = j + 1
    BY <1>1, <1>3, <1>5 DEF IsInjective
  <2> QED BY <1>5, <2>1
<1> QED BY <1>1, <1>2, <1>4, <1>5, <1>7, <1>8 DEF rest, ToSet

\* One leaves the queue from its place.
LEMMA LeavePlace ==
    ASSUME NEW T, NEW queue \in Seq(T), NEW x \in ToSet(queue)
    PROVE  LET rest == Spliced(queue, x)
           IN  /\ rest \in Seq(T)
               /\ ToSet(rest) \subseteq ToSet(queue)
               /\ ToSet(queue) \subseteq ToSet(rest) \cup {x}
               /\ IsInjective(queue) => IsInjective(rest) /\ x \notin ToSet(rest)
<1> DEFINE n == Len(queue)
           at == CHOOSE i \in DOMAIN queue : queue[i] = x
           rest == RemoveAt(queue, at)
<1>1. n \in Nat /\ DOMAIN queue = 1..n
  OBVIOUS
<1>2. at \in 1..n /\ queue[at] = x
  <2>1. \E i \in DOMAIN queue : queue[i] = x
    BY DEF ToSet
  <2> QED BY <1>1, <2>1
<1> HIDE DEF at
<1>3. /\ SubSeq(queue, 1, at - 1) \in Seq(T) /\ Len(SubSeq(queue, 1, at - 1)) = at - 1
      /\ \A i \in 1..(at - 1) : SubSeq(queue, 1, at - 1)[i] = queue[i]
  <2>1. at - 1 \in Int /\ at - 1 <= n /\ at - 1 >= 0
    BY <1>1, <1>2
  <2> QED BY <1>1, <2>1, SubSeqProperties
<1>4. /\ SubSeq(queue, at + 1, n) \in Seq(T) /\ Len(SubSeq(queue, at + 1, n)) = n - at
      /\ \A i \in 1..(n - at) : SubSeq(queue, at + 1, n)[i] = queue[at + i]
  <2>1. at + 1 \in Int /\ n \in Int /\ at + 1 >= 1 /\ at <= n
    BY <1>1, <1>2
  <2>2. \A i \in (at + 1)..n : queue[i] \in T
    BY <1>1, <1>2
  <2> DEFINE end == SubSeq(queue, at + 1, n)
  <2> HIDE DEF n
  <2>3. /\ end \in Seq(T)
        /\ Len(end) = IF at + 1 <= n THEN n - (at + 1) + 1 ELSE 0
        /\ \A i \in 1..(n - (at + 1) + 1) : end[i] = queue[(at + 1) + i - 1]
    BY <2>1, <2>2, SubSeqProperties
  <2> HIDE DEF end
  <2>4. Len(end) = n - at /\ n - (at + 1) + 1 = n - at
    BY <1>1, <1>2, <2>3
  <2>5. \A i \in 1..(n - at) : (at + 1) + i - 1 = at + i
    BY <1>1, <1>2
  <2>6. \A i \in 1..(n - at) : end[i] = queue[at + i]
    BY <2>3, <2>4, <2>5
  <2> QED BY <2>3, <2>4, <2>6 DEF end
<1>5. rest = SubSeq(queue, 1, at - 1) \o SubSeq(queue, at + 1, n)
  BY DEF RemoveAt
<1>6. rest \in Seq(T) /\ Len(rest) = n - 1
  <2>1. (at - 1) + (n - at) = n - 1
    BY <1>1, <1>2
  <2> QED BY <1>3, <1>4, <1>5, <2>1
<1>7. DOMAIN rest = 1..(n - 1)
  BY <1>6
<1>8. \A i \in 1..(n - 1) : rest[i] = IF i < at THEN queue[i] ELSE queue[i + 1]
  <2> TAKE i \in 1..(n - 1)
  <2>1. CASE i < at
    <3>1. i \in 1..(at - 1)
      BY <1>1, <1>2, <2>1
    <3> QED BY <1>3, <1>4, <1>5, <2>1, <3>1
  <2>2. CASE ~(i < at)
    <3>1. i - (at - 1) \in 1..(n - at) /\ at + (i - (at - 1)) = i + 1 /\ i > at - 1
      BY <1>1, <1>2, <2>2
    <3> DEFINE start == SubSeq(queue, 1, at - 1)
               end == SubSeq(queue, at + 1, n)
    <3>0. /\ start \in Seq(T) /\ end \in Seq(T) /\ rest = start \o end
          /\ Len(start) = at - 1 /\ Len(end) = n - at
      BY <1>3, <1>4, <1>5
    <3> HIDE DEF start, end, rest, n
    <3>2. rest[i] = end[i - (at - 1)]
      BY <1>1, <1>2, <3>0, <3>1
    <3> USE DEF end
    <3>3. SubSeq(queue, at + 1, n)[i - (at - 1)] = queue[at + (i - (at - 1))]
      BY <1>4, <3>1
    <3> QED BY <2>2, <3>1, <3>2, <3>3
  <2> QED BY <2>1, <2>2
<1> HIDE DEF rest, n
<1> DEFINE old(i) == IF i < at THEN i ELSE i + 1
<1>9. \A i \in 1..(n - 1) : old(i) \in 1..n /\ old(i) # at /\ rest[i] = queue[old(i)]
  BY <1>1, <1>2, <1>8
<1>10. \A j \in 1..n : j # at => \E i \in 1..(n - 1) : old(i) = j
  <2> TAKE j \in 1..n
  <2> HAVE j # at
  <2>1. CASE j < at
    <3>1. j \in 1..(n - 1) /\ old(j) = j
      BY <1>1, <1>2, <2>1
    <3> QED BY <3>1
  <2>2. CASE ~(j < at)
    <3>1. j - 1 \in 1..(n - 1) /\ ~(j - 1 < at) /\ (j - 1) + 1 = j
      BY <1>1, <1>2, <2>2
    <3>2. old(j - 1) = j
      BY <3>1
    <3> QED BY <3>1, <3>2
  <2> QED BY <2>1, <2>2
<1>11. \A i, j \in 1..(n - 1) : old(i) = old(j) => i = j
  BY <1>1, <1>2
<1> HIDE DEF old
<1>12. ToSet(rest) \subseteq ToSet(queue)
  BY <1>1, <1>7, <1>9 DEF ToSet
<1>13. ToSet(queue) \subseteq ToSet(rest) \cup {x}
  <2> SUFFICES ASSUME NEW j \in 1..n, queue[j] # x PROVE queue[j] \in ToSet(rest)
    BY <1>1 DEF ToSet
  <2>1. PICK i \in 1..(n - 1) : old(i) = j
    BY <1>2, <1>10
  <2> QED BY <1>7, <1>9, <2>1 DEF ToSet
<1>14. IsInjective(queue) => x \notin ToSet(rest)
  BY <1>1, <1>2, <1>7, <1>9 DEF ToSet, IsInjective
<1>15. IsInjective(queue) => IsInjective(rest)
  <2> SUFFICES ASSUME IsInjective(queue), NEW i \in 1..(n - 1), NEW j \in 1..(n - 1),
                      rest[i] = rest[j]
               PROVE  i = j
    BY <1>7 DEF IsInjective
  <2>1. old(i) = old(j)
    BY <1>1, <1>9 DEF IsInjective
  <2> QED BY <1>11, <2>1
<1> QED BY <1>6, <1>12, <1>13, <1>14, <1>15 DEF rest, at, Spliced

-----------------------------------------------------------------------------
(* The pacer *)

Pacers ==
    [waiting : Seq(Requests), timer : BOOLEAN, wait : Int, spacing : Nat,
     admitted : SUBSET Requests, refused : BOOLEAN]

\* What the pacer knows of.
Known(p) == ToSet(p.waiting) \cup p.admitted

\* A request waits once or has been admitted, and what is left of the last charge
\* is not more than the time to wait.
Sound(p) ==
    /\ p \in Pacers
    /\ IsInjective(p.waiting)
    /\ ToSet(p.waiting) \cap p.admitted = {}
    /\ p.spacing = 0 \/ p.spacing <= p.wait

\* Arming the timer changes nothing else.
LEMMA RearmOutcome ==
    ASSUME NEW p \in Pacers
    PROVE  /\ Rearm(p) \in Pacers
           /\ Rearm(p).waiting = p.waiting /\ Rearm(p).admitted = p.admitted
           /\ Rearm(p).wait = p.wait /\ Rearm(p).spacing = p.spacing
BY DEF Rearm, Pacers

\* A charge is to be waited for in full.
LEMMA ChargedOutcome ==
    ASSUME NEW p \in Pacers, NEW charge \in Nat
    PROVE  LET c == Charged(p, charge)
           IN  /\ c \in Pacers /\ c.wait = charge /\ c.spacing = charge
               /\ c.waiting = p.waiting /\ c.admitted = p.admitted
<1> DEFINE b == [p EXCEPT !.wait = charge]
           c == [b EXCEPT !.spacing = charge]
<1>1. /\ b \in Pacers /\ b.wait = charge
      /\ b.waiting = p.waiting /\ b.admitted = p.admitted
  BY DEF Pacers
<1>2. Charged(p, charge) = c
  BY DEF Charged
<1> HIDE DEF b
<1>3. /\ c \in Pacers /\ c.wait = b.wait /\ c.spacing = charge
      /\ c.waiting = b.waiting /\ c.admitted = b.admitted
  BY <1>1 DEF Pacers
<1> HIDE DEF c
<1> QED BY <1>1, <1>2, <1>3

\* drain admits the head or nothing.
LEMMA DrainOutcome ==
    ASSUME NEW p \in Pacers
    PROVE  /\ Drain(p) \in Pacers
           /\ \/ /\ Drain(p).waiting = p.waiting /\ Drain(p).admitted = p.admitted
                 /\ Drain(p).wait = p.wait /\ Drain(p).spacing = p.spacing
              \/ /\ p.waiting # <<>> /\ p.wait <= 0
                 /\ Drain(p).waiting = Tail(p.waiting)
                 /\ Drain(p).admitted = p.admitted \cup {Head(p.waiting)}
                 /\ Drain(p).spacing = Drain(p).wait
<1>1. p.waiting \in Seq(Requests) /\ p.wait \in Int /\ p.admitted \subseteq Requests
  BY DEF Pacers
<1>2. CASE p.waiting = <<>> \/ p.wait > 0
  <2>1. Drain(p) = Rearm(p)
    BY <1>2 DEF Drain
  <2> QED BY <2>1, RearmOutcome
<1>3. CASE ~(p.waiting = <<>> \/ p.wait > 0)
  <2> DEFINE head == Head(p.waiting)
             charge == Units(head)
             c == Charged(p, charge)
             q == [c EXCEPT !.waiting = Tail(p.waiting), !.admitted = p.admitted \cup {head}]
  <2>1. p.waiting # <<>> /\ p.wait <= 0
    BY <1>1, <1>3
  <2>2. head \in Requests /\ Tail(p.waiting) \in Seq(Requests)
    BY <1>1, <2>1
  <2>3. charge \in Nat /\ charge \in Int
    BY <2>2, AccessAssumption
  <2>4. Drain(p) = Rearm(q)
    BY <1>3 DEF Drain
  <2> HIDE DEF head, charge
  <2>5. /\ c \in Pacers /\ c.wait = charge /\ c.spacing = charge
        /\ c.waiting = p.waiting /\ c.admitted = p.admitted
    BY <2>3, ChargedOutcome
  <2> HIDE DEF c
  <2>6. /\ q \in Pacers
        /\ q.waiting = Tail(p.waiting) /\ q.admitted = p.admitted \cup {head}
        /\ q.wait = c.wait /\ q.spacing = c.spacing
    BY <1>1, <2>2, <2>5 DEF Pacers
  <2> HIDE DEF q
  <2> QED BY <2>1, <2>4, <2>5, <2>6, RearmOutcome DEF head
<1> QED BY <1>2, <1>3

\* It loses and invents nothing, and admits only when nothing is left to wait for.
LEMMA DrainKeeps ==
    ASSUME NEW p, Sound(p)
    PROVE  /\ Sound(Drain(p))
           /\ Known(Drain(p)) = Known(p)
           /\ ToSet(Drain(p).waiting) \subseteq ToSet(p.waiting)
           /\ Drain(p).wait = p.wait \/ p.wait <= 0
<1>1. /\ p \in Pacers /\ p.waiting \in Seq(Requests) /\ IsInjective(p.waiting)
      /\ Drain(p) \in Pacers /\ Drain(p).wait \in Int /\ Drain(p).spacing \in Nat
  BY DrainOutcome DEF Sound, Pacers
<1>2. CASE /\ Drain(p).waiting = p.waiting /\ Drain(p).admitted = p.admitted
           /\ Drain(p).wait = p.wait /\ Drain(p).spacing = p.spacing
  BY <1>1, <1>2 DEF Sound, Known
<1>3. CASE /\ p.waiting # <<>> /\ p.wait <= 0
           /\ Drain(p).waiting = Tail(p.waiting)
           /\ Drain(p).admitted = p.admitted \cup {Head(p.waiting)}
           /\ Drain(p).spacing = Drain(p).wait
  <2>1. /\ ToSet(Tail(p.waiting)) = ToSet(p.waiting) \ {Head(p.waiting)}
        /\ IsInjective(Tail(p.waiting)) /\ Head(p.waiting) \in ToSet(p.waiting)
    BY <1>1, <1>3, LeaveFront
  <2>2. Drain(p).spacing <= Drain(p).wait
    BY <1>1, <1>3
  <2> QED BY <1>1, <1>3, <2>1, <2>2 DEF Sound, Known
<1> QED BY <1>1, <1>2, <1>3, DrainOutcome

\* acquire() adds a request or refuses it.
LEMMA AcquiredType ==
    ASSUME NEW p \in Pacers, NEW request \in Requests
    PROVE  Acquired(p, request) \in Pacers
<1>1. [p EXCEPT !.refused = TRUE] \in Pacers
  BY DEF Pacers
<1>2. Append(p.waiting, request) \in Seq(Requests)
  BY DEF Pacers
<1>3. [p EXCEPT !.waiting = Append(@, request)] \in Pacers
  BY <1>2 DEF Pacers
<1> QED BY <1>1, <1>3, DrainOutcome DEF Acquired

\* A request that is new to the pacer waits or is admitted.
LEMMA AcquiredKeeps ==
    ASSUME NEW p, Sound(p), NEW request \in Requests, request \notin Known(p)
    PROVE  /\ Sound(Acquired(p, request))
           /\ Known(Acquired(p, request)) \subseteq Known(p) \cup {request}
           /\ Acquired(p, request).wait = p.wait \/ p.wait <= 0
<1>1. p \in Pacers /\ p.waiting \in Seq(Requests) /\ IsInjective(p.waiting)
  BY DEF Sound, Pacers
<1>2. CASE Len(p.waiting) >= MaxWaiting
  <2> DEFINE q == [p EXCEPT !.refused = TRUE]
  <2>1. /\ q \in Pacers /\ q.waiting = p.waiting /\ q.admitted = p.admitted
        /\ q.wait = p.wait /\ q.spacing = p.spacing
    BY <1>1 DEF Pacers
  <2>2. Acquired(p, request) = q
    BY <1>2 DEF Acquired
  <2> HIDE DEF q
  <2> QED BY <2>1, <2>2 DEF Sound, Known
<1>3. CASE ~(Len(p.waiting) >= MaxWaiting)
  <2> DEFINE q == [p EXCEPT !.waiting = Append(@, request)]
  <2>1. /\ Append(p.waiting, request) \in Seq(Requests)
        /\ ToSet(Append(p.waiting, request)) = ToSet(p.waiting) \cup {request}
        /\ IsInjective(Append(p.waiting, request))
    BY <1>1, JoinQueue DEF Known
  <2>2. /\ q \in Pacers /\ q.waiting = Append(p.waiting, request)
        /\ q.admitted = p.admitted /\ q.wait = p.wait /\ q.spacing = p.spacing
    BY <1>1, <2>1 DEF Pacers
  <2>3. Acquired(p, request) = Drain(q)
    BY <1>3 DEF Acquired
  <2> HIDE DEF q
  <2>4. Sound(q) /\ Known(q) = Known(p) \cup {request}
    BY <2>1, <2>2 DEF Sound, Known
  <2> QED BY <2>2, <2>3, <2>4, DrainKeeps
<1> QED BY <1>2, <1>3

\* The requests of a group are acquired one after the other.
LEMMA AcquiredAllKeeps ==
    ASSUME Sound(Pacer), NEW requests \in Seq(Requests), IsInjective(requests),
           ToSet(requests) \cap ToSet(waiting) = {}
    PROVE  /\ Sound(AcquiredAll(requests))
           /\ Known(AcquiredAll(requests)) \subseteq ToSet(waiting) \cup ToSet(requests)
           /\ AcquiredAll(requests).wait = wait \/ wait <= 0
<1> DEFINE n == Len(requests)
           Steps(f) == f = [i \in 0..n |-> IF i = 0 THEN Pacer
                                           ELSE Acquired(f[i - 1], requests[i])]
           after == CHOOSE f : Steps(f)
           step == [a \in (1..n) \X Pacers |-> Acquired(a[2], requests[a[1]])]
<1>1. n \in Nat /\ DOMAIN requests = 1..n /\ \A i \in 1..n : requests[i] \in Requests
  OBVIOUS
<1>2. Pacer \in Pacers
  BY DEF Sound
<1>3. \E f : Steps(f)
  <2>1. step \in Stepwise(n, Pacers)
    BY <1>1, AcquiredType DEF Stepwise
  <2> HIDE DEF step, n
  <2>0. n \in Nat
    BY <1>1
  <2>2. PICK g : IsIteration(g, n, Pacers, Pacer, step)
    <3> HIDE DEF after, Steps
    <3> QED BY <1>2, <2>0, <2>1, Iterates
  <2>3. \A i \in 0..n : i # 0 => i \in 1..n /\ i - 1 \in 0..n
    BY <1>1
  <2>4. \A i \in 1..n : g[i] = Acquired(g[i - 1], requests[i])
    <3> TAKE i \in 1..n
    <3>1. i \in 0..n /\ i # 0
      BY <1>1
    <3>2. g[i - 1] \in Pacers
      BY <2>2, <2>3, <3>1 DEF IsIteration
    <3>3. step[<<i, g[i - 1]>>] = Acquired(g[i - 1], requests[i])
      BY <3>2 DEF step
    <3> QED BY <2>2, <3>3 DEF IsIteration
  <2>5. \A i \in 0..n : g[i] = IF i = 0 THEN Pacer ELSE Acquired(g[i - 1], requests[i])
    BY <2>2, <2>3, <2>4 DEF IsIteration
  <2>6. Steps(g)
    BY <2>2, <2>5 DEF IsIteration
  <2> QED BY <2>6
<1>4. Steps(after)
  <2> HIDE DEF Steps
  <2> QED BY <1>3
<1>5. AcquiredAll(requests) = after[n]
  BY DEF AcquiredAll
<1> HIDE DEF after
<1>6. /\ after[0] = Pacer
      /\ \A i \in 0..n : i # n => after[i + 1] = Acquired(after[i], requests[i + 1])
  <2>0. n \in Nat
    BY <1>1
  <2> HIDE DEF n
  <2>1. 0 \in 0..n /\ \A i \in 0..n : i # n => i + 1 \in 0..n /\ i + 1 # 0 /\ (i + 1) - 1 = i
    BY <2>0
  <2> QED BY <1>4, <2>1
<1> DEFINE Asked(i) == {requests[j] : j \in 1..i}
           Holds(i) == /\ Sound(after[i])
                       /\ Known(after[i]) \subseteq ToSet(waiting) \cup Asked(i)
                       /\ after[i].wait = wait \/ wait <= 0
           S == {i \in 0..n : Holds(i)}
<1>7. Pacer.waiting = waiting /\ Pacer.wait = wait /\ Pacer.admitted = {}
  BY DEF Pacer
<1>8. 0 \in S
  <2>1. Sound(after[0]) /\ after[0].wait = wait
    BY <1>6, <1>7
  <2>2. Known(after[0]) = ToSet(waiting)
    BY <1>6, <1>7 DEF Known
  <2>3. 0 \in 0..n
    BY <1>1
  <2> HIDE DEF n
  <2> QED BY <2>1, <2>2, <2>3
<1>9. ASSUME NEW i \in 0..n, Holds(i), i # n
      PROVE  Holds(i + 1)
  <2>0. n \in Nat
    BY <1>1
  <2>1. i \in Nat /\ i + 1 \in 1..n /\ \A j \in 1..i : j \in 1..n /\ j # i + 1
    <3> HIDE DEF n, Holds
    <3> QED BY <1>9, <2>0
  <2>2. requests[i + 1] \notin Asked(i)
    BY <1>1, <2>1 DEF IsInjective
  <2>3. requests[i + 1] \in ToSet(requests) /\ requests[i + 1] \in Requests
    BY <1>1, <2>1 DEF ToSet
  <2>4. requests[i + 1] \notin Known(after[i])
    BY <1>9, <2>2, <2>3
  <2>5. \A j \in 1..i : j \in 1..(i + 1)
    BY <2>1
  <2>6. i + 1 \in 1..(i + 1)
    BY <2>1
  <2>7. Asked(i) \cup {requests[i + 1]} \subseteq Asked(i + 1)
    BY <2>5, <2>6
  <2> HIDE DEF Asked
  <2>8. /\ Sound(after[i + 1])
        /\ Known(after[i + 1]) \subseteq Known(after[i]) \cup {requests[i + 1]}
        /\ after[i + 1].wait = after[i].wait \/ after[i].wait <= 0
    BY <1>6, <1>9, <2>3, <2>4, AcquiredKeeps
  <2> QED BY <1>9, <2>7, <2>8
<1>10. Holds(n)
  <2>1. \A i \in 0..n : i \in S /\ i # n => i + 1 \in S
    <3>0. n \in Nat
      BY <1>1
    <3> HIDE DEF Holds, n
    <3> TAKE i \in 0..n
    <3>1. i # n => i + 1 \in 0..n
      BY <3>0
    <3> QED BY <1>9, <3>1
  <2> HIDE DEF S, n
  <2>2. n \in 0..n /\ 0..n \subseteq S
    BY <1>1, <1>8, <2>1, UpTo
  <2> USE DEF S
  <2> HIDE DEF Holds
  <2> QED BY <2>2
<1>11. Asked(n) \subseteq ToSet(requests)
  BY <1>1 DEF ToSet
<1> QED BY <1>5, <1>10, <1>11

\* An abort takes a request that waits out of the queue.
LEMMA LeavesType ==
    ASSUME NEW p \in Pacers, NEW request
    PROVE  Leaves(p, request) \in Pacers
<1> DEFINE queue == p.waiting
           rest == Spliced(queue, request)
           q == [p EXCEPT !.waiting = rest]
<1>1. CASE request \in ToSet(p.waiting)
  <2>1. p.waiting \in Seq(Requests)
    BY DEF Pacers
  <2>2. rest \in Seq(Requests)
    <3>1. queue \in Seq(Requests) /\ request \in ToSet(queue)
      BY <1>1, <2>1
    <3> HIDE DEF queue
    <3> QED BY <3>1, LeavePlace
  <2>3. Leaves(p, request) = Drain(q)
    BY <1>1 DEF Leaves
  <2> HIDE DEF rest
  <2>4. q \in Pacers
    BY <2>2 DEF Pacers
  <2> QED BY <2>3, <2>4, DrainOutcome
<1>2. CASE request \notin ToSet(p.waiting)
  BY <1>2 DEF Leaves
<1> QED BY <1>1, <1>2

\* An abort takes its request out of the queue and admits at most the next one.
LEMMA LeavesKeeps ==
    ASSUME NEW p, Sound(p), NEW request
    PROVE  LET q == Leaves(p, request)
           IN  /\ Sound(q)
               /\ Known(q) \subseteq Known(p)
               /\ ToSet(q.waiting) \subseteq ToSet(p.waiting)
               /\ request \notin ToSet(q.waiting)
               /\ q.wait = p.wait \/ p.wait <= 0
<1> DEFINE queue == p.waiting
           rest == Spliced(queue, request)
           q == [p EXCEPT !.waiting = rest]
<1>1. p \in Pacers /\ p.waiting \in Seq(Requests) /\ IsInjective(p.waiting)
  BY DEF Sound, Pacers
<1>2. CASE request \in ToSet(p.waiting)
  <2>1. /\ rest \in Seq(Requests) /\ ToSet(rest) \subseteq ToSet(p.waiting)
        /\ IsInjective(rest) /\ request \notin ToSet(rest)
    <3>1. queue \in Seq(Requests) /\ request \in ToSet(queue) /\ IsInjective(queue)
          /\ ToSet(p.waiting) = ToSet(queue)
      BY <1>1, <1>2
    <3> HIDE DEF queue
    <3> QED BY <3>1, LeavePlace
  <2>2. Leaves(p, request) = Drain(q)
    BY <1>2 DEF Leaves
  <2> HIDE DEF rest
  <2>3. /\ q \in Pacers /\ q.waiting = rest /\ q.admitted = p.admitted
        /\ q.wait = p.wait /\ q.spacing = p.spacing
    BY <1>1, <2>1 DEF Pacers
  <2> HIDE DEF q
  <2>4. Sound(q) /\ Known(q) \subseteq Known(p)
    BY <2>1, <2>3 DEF Sound, Known
  <2> QED BY <2>1, <2>2, <2>3, <2>4, DrainKeeps
<1>3. CASE request \notin ToSet(p.waiting)
  BY <1>3 DEF Leaves
<1> QED BY <1>2, <1>3

\* Whatever is aborted, none of it waits any more, and nothing is admitted that did not.
LEMMA WithdrawnKeeps ==
    ASSUME NEW p, Sound(p), NEW gone
    PROVE  LET q == Withdrawn(p, gone)
           IN  /\ Sound(q)
               /\ Known(q) \subseteq Known(p)
               /\ ToSet(q.waiting) \subseteq ToSet(p.waiting) \ gone
               /\ q.wait = p.wait \/ p.wait <= 0
<1> DEFINE queue == p.waiting
           n == Len(queue)
           Next1(q, i) == IF queue[i] \in gone THEN Leaves(q, queue[i]) ELSE q
           Steps(f) == f = [i \in 0..n |-> IF i = 0 THEN p
                                           ELSE IF queue[i] \in gone
                                                THEN Leaves(f[i - 1], queue[i])
                                                ELSE f[i - 1]]
           after == CHOOSE f : Steps(f)
           step == [a \in (1..n) \X Pacers |-> Next1(a[2], a[1])]
<1>1. p \in Pacers /\ queue \in Seq(Requests)
  BY DEF Sound, Pacers
<1>2. n \in Nat /\ DOMAIN queue = 1..n
  BY <1>1
<1>3. Withdrawn(p, gone) = after[n]
  BY DEF Withdrawn
<1> HIDE DEF queue, n
<1>4. \E f : Steps(f)
  <2>1. step \in Stepwise(n, Pacers)
    BY <1>1, LeavesType DEF Stepwise
  <2> HIDE DEF step
  <2>2. PICK g : IsIteration(g, n, Pacers, p, step)
    <3> HIDE DEF after, Steps, Next1
    <3> QED BY <1>1, <1>2, <2>1, Iterates
  <2>3. \A i \in 0..n : i # 0 => i \in 1..n /\ i - 1 \in 0..n
    BY <1>2
  <2>4. \A i \in 1..n : g[i] = Next1(g[i - 1], i)
    <3> TAKE i \in 1..n
    <3>1. i \in 0..n /\ i # 0
      BY <1>2
    <3>2. g[i - 1] \in Pacers
      BY <2>2, <2>3, <3>1 DEF IsIteration
    <3> HIDE DEF Next1
    <3>3. step[<<i, g[i - 1]>>] = Next1(g[i - 1], i)
      BY <3>2 DEF step
    <3> QED BY <2>2, <3>3 DEF IsIteration
  <2>5. \A i \in 0..n : g[i] = IF i = 0 THEN p ELSE Next1(g[i - 1], i)
    <3> HIDE DEF Next1
    <3> QED BY <2>2, <2>3, <2>4 DEF IsIteration
  <2>6. g = [i \in 0..n |-> IF i = 0 THEN p ELSE Next1(g[i - 1], i)]
    <3> HIDE DEF Next1
    <3> QED BY <2>2, <2>5 DEF IsIteration
  <2>7. Steps(g)
    BY <2>6
  <2> QED BY <2>7
<1>5. Steps(after)
  <2> HIDE DEF Steps
  <2> QED BY <1>4
<1> HIDE DEF after
<1>6. /\ after[0] = p
      /\ \A i \in 0..n : i # n => after[i + 1] = Next1(after[i], i + 1)
  <2>1. 0 \in 0..n /\ \A i \in 0..n : i # n => i + 1 \in 0..n /\ i + 1 # 0 /\ (i + 1) - 1 = i
    BY <1>2
  <2> QED BY <1>5, <2>1
<1> DEFINE Holds(i) == /\ Sound(after[i])
                       /\ Known(after[i]) \subseteq Known(p)
                       /\ ToSet(after[i].waiting) \subseteq ToSet(queue)
                       /\ \A j \in 1..i : queue[j] \in gone =>
                                              queue[j] \notin ToSet(after[i].waiting)
                       /\ after[i].wait = p.wait \/ p.wait <= 0
           S == {i \in 0..n : Holds(i)}
<1>7. 0 \in S
  <2>1. Sound(after[0]) /\ after[0].waiting = queue /\ after[0].wait = p.wait
    BY <1>6 DEF queue
  <2>2. 0 \in 0..n /\ Known(after[0]) = Known(p)
    BY <1>2, <1>6
  <2> QED BY <2>1, <2>2
<1>8. ASSUME NEW i \in 0..n, Holds(i), i # n
      PROVE  Holds(i + 1)
  <2>1. \A j \in 1..(i + 1) : j \in 1..i \/ j = i + 1
    BY <1>2, <1>8
  <2>2. CASE queue[i + 1] \in gone
    <3>1. after[i + 1] = Leaves(after[i], queue[i + 1])
      BY <1>6, <1>8, <2>2
    <3>2. /\ Sound(after[i + 1])
          /\ Known(after[i + 1]) \subseteq Known(after[i])
          /\ ToSet(after[i + 1].waiting) \subseteq ToSet(after[i].waiting)
          /\ queue[i + 1] \notin ToSet(after[i + 1].waiting)
          /\ after[i + 1].wait = after[i].wait \/ after[i].wait <= 0
      BY <1>8, <3>1, LeavesKeeps
    <3> QED BY <1>8, <2>1, <3>2
  <2>3. CASE queue[i + 1] \notin gone
    <3>1. after[i + 1] = after[i]
      BY <1>6, <1>8, <2>3
    <3> QED BY <1>8, <2>1, <2>3, <3>1
  <2> QED BY <2>2, <2>3
<1>9. Holds(n)
  <2>1. \A i \in 0..n : i \in S /\ i # n => i + 1 \in S
    <3> HIDE DEF Holds
    <3> TAKE i \in 0..n
    <3>1. i # n => i + 1 \in 0..n
      BY <1>2
    <3> QED BY <1>8, <3>1
  <2> HIDE DEF S
  <2>2. n \in 0..n /\ 0..n \subseteq S
    BY <1>2, <1>7, <2>1, UpTo
  <2> USE DEF S
  <2> HIDE DEF Holds
  <2> QED BY <2>2
<1>10. ToSet(after[n].waiting) \cap gone = {}
  <2> SUFFICES ASSUME NEW x \in ToSet(after[n].waiting), x \in gone PROVE FALSE
    OBVIOUS
  <2>1. x \in ToSet(queue)
    BY <1>9
  <2>2. PICK j \in 1..n : queue[j] = x
    BY <1>2, <2>1 DEF ToSet
  <2> QED BY <1>9, <2>2
<1> QED BY <1>3, <1>9, <1>10 DEF queue

-----------------------------------------------------------------------------
(* Runs and their requests *)

\* The requests that are waiting or under way.
Out == asked \cup ToSet(waiting)

\* Of the requests of one account none but the only one begins a page, and no two
\* are for the same message.
Page(S) == \A r, s \in S : r[1] = s[1] /\ r # s => r[2] # 0 /\ r[2] # s[2]

\* A request waits or is under way, and belongs to a run that reads.
RequestInv ==
    /\ Sound(Pacer)
    /\ asked \subseteq Requests /\ asked \cap ToSet(waiting) = {}
    /\ Page(Out)
    /\ RequestsHaveRun

\* A run that loads or commits has one operation of the worker, and no other run has.
JobInv ==
    \A a \in Accounts :
        /\ Load(a) \in ToSet(jobs) => run[a] = "loading"
        /\ Commit(a) \in ToSet(jobs) => run[a] = "committing"
        /\ \A i, j \in DOMAIN jobs :
              jobs[i] = jobs[j] /\ jobs[i] \in {Load(a), Commit(a)} => i = j

\* A caller of a refresh is a run that waits for its token.
JoinInv == \A a \in Accounts : joined[a] # None => run[a] = "awaiting token"

\* The time to wait grows only when none is left.
Spaced == wait' <= wait \/ wait <= 0

\* What RequestInv says of each variable.
LEMMA RequestTypes ==
    ASSUME RequestInv
    PROVE  /\ Out \subseteq Requests /\ Out = asked \cup ToSet(waiting)
           /\ waiting \in Seq(Requests) /\ wait \in Int /\ spacing \in Nat
           /\ spacing = 0 \/ spacing <= wait
           /\ Pacer \in Pacers /\ Pacer.waiting = waiting /\ Pacer.wait = wait
           /\ Known(Pacer) = ToSet(waiting)
<1>1. /\ Pacer.waiting = waiting /\ Pacer.wait = wait /\ Pacer.spacing = spacing
      /\ Pacer.admitted = {}
  BY DEF Pacer
<1>2. /\ Pacer \in Pacers /\ waiting \in Seq(Requests) /\ wait \in Int /\ spacing \in Nat
      /\ spacing = 0 \/ spacing <= wait
  BY <1>1 DEF RequestInv, Sound, Pacers
<1>3. ToSet(waiting) \subseteq Requests
  BY <1>2 DEF ToSet
<1>4. Known(Pacer) = ToSet(waiting)
  BY <1>1 DEF Known
<1> QED BY <1>1, <1>2, <1>3, <1>4 DEF RequestInv, Out

\* What the pacer becomes is as sound.
LEMMA BecomesSound ==
    ASSUME NEW q, Sound(q), PacerBecomes(q)
    PROVE  Sound(Pacer)' /\ waiting' = q.waiting /\ wait' = q.wait
<1>1. /\ waiting' = q.waiting /\ timer' = q.timer /\ wait' = q.wait /\ spacing' = q.spacing
  BY DEF PacerBecomes
<1>2. Pacer' = [waiting |-> q.waiting, timer |-> q.timer, wait |-> q.wait,
                spacing |-> q.spacing, admitted |-> {}, refused |-> FALSE]
  BY <1>1 DEF Pacer
<1>3. Pacer' \in Pacers
  BY <1>2 DEF Sound, Pacers
<1>4. Sound(Pacer')
  BY <1>2, <1>3 DEF Sound
<1> QED BY <1>1, <1>4

\* The requests of an account are those that name it.
LEMMA OfItself ==
    ASSUME NEW a \in Accounts
    PROVE  /\ Of(a) \subseteq Requests
           /\ \A r \in Requests : r[1] \in Accounts /\ (r[1] = a <=> r \in Of(a))
BY DEF Of, Requests

\* Fewer requests are still of one page.
LEMMA PageOfLess ==
    ASSUME NEW S, NEW R, Page(S), R \subseteq S
    PROVE  Page(R)
BY DEF Page

\* A run asks for requests of its own that nobody has asked for.
LEMMA AsksKeeps ==
    ASSUME RequestInv, TypeOK,
           NEW a \in Accounts, NEW requests \in Seq(Of(a)), IsInjective(requests),
           NEW others, others \subseteq asked,
           ToSet(requests) \cap (others \cup ToSet(waiting)) = {},
           Page(others \cup ToSet(waiting) \cup ToSet(requests)),
           Asks(a, requests, others)
    PROVE  /\ RequestInv' /\ Spaced
           /\ \E step \in {"idle", "reading"} : run' = [run EXCEPT ![a] = step]
<1> DEFINE p == AcquiredAll(requests)
           gone == IF p.refused THEN Of(a) ELSE {}
           q == Withdrawn(p, gone)
<1>1. /\ PacerBecomes(q)
      /\ asked' = (others \cup q.admitted) \ gone
      /\ run' = [run EXCEPT ![a] = IF p.refused THEN "idle" ELSE "reading"]
  BY DEF Asks
<1>2. /\ requests \in Seq(Requests) /\ ToSet(requests) \subseteq Of(a)
      /\ ToSet(requests) \cap ToSet(waiting) = {}
  BY OfItself DEF ToSet
<1>3. /\ Sound(p) /\ Known(p) \subseteq ToSet(waiting) \cup ToSet(requests)
      /\ p.wait = wait \/ wait <= 0
  BY <1>2, AcquiredAllKeeps DEF RequestInv
<1> HIDE DEF p
<1>4. /\ Sound(q) /\ Known(q) \subseteq Known(p)
      /\ ToSet(q.waiting) \subseteq ToSet(p.waiting) \ gone
      /\ q.wait = p.wait \/ p.wait <= 0
  BY <1>3, WithdrawnKeeps
<1>5. Of(a) \subseteq Requests /\ gone \in {{}, Of(a)}
  BY OfItself
<1> HIDE DEF q, gone
<1>6. Sound(Pacer)' /\ waiting' = q.waiting /\ wait' = q.wait
  BY <1>1, <1>4, BecomesSound
<1>7. q.wait \in Int /\ p.wait \in Int /\ wait \in Int /\ q.admitted \subseteq Requests
  BY <1>3, <1>4, RequestTypes DEF Sound, Pacers
<1>8. Spaced
  BY <1>3, <1>4, <1>6, <1>7 DEF Spaced
<1>9. /\ ToSet(q.waiting) \cap q.admitted = {}
      /\ Known(q) = ToSet(q.waiting) \cup q.admitted
  BY <1>4 DEF Sound, Known
<1>10. Out' = asked' \cup ToSet(q.waiting)
  BY <1>6 DEF Out
<1>11. Out' \subseteq (others \cup ToSet(waiting) \cup ToSet(requests)) \ gone
  BY <1>1, <1>3, <1>4, <1>9, <1>10
<1>12. Page(Out)'
  <2>1. Page(Out')
    BY <1>11, PageOfLess
  <2> QED BY <2>1 DEF Page
<1>13. asked' \subseteq Requests /\ asked' \cap ToSet(q.waiting) = {}
  <2>1. others \cap ToSet(q.waiting) = {}
    BY <1>3, <1>4, <1>9 DEF RequestInv
  <2> QED BY <1>1, <1>7, <1>9, <2>1 DEF RequestInv
<1>14. \A r \in Out' : run'[r[1]] = "reading"
  <2> TAKE r \in Out'
  <2>1. r \in Requests /\ r[1] \in Accounts
    BY <1>2, <1>5, <1>11, RequestTypes, OfItself DEF RequestInv
  <2>2. CASE r[1] = a
    <3>1. r \in Of(a)
      BY <2>1, <2>2, OfItself
    <3>2. ~p.refused
      BY <1>11, <3>1 DEF gone
    <3> QED BY <1>1, <2>1, <2>2, <3>2 DEF TypeOK
  <2>3. CASE r[1] # a
    <3>1. r \notin ToSet(requests)
      BY <1>2, <2>1, <2>3, OfItself
    <3>2. r \in Out
      BY <1>11, <3>1, RequestTypes
    <3>3. run[r[1]] = "reading"
      BY <3>2 DEF RequestInv, RequestsHaveRun, Out
    <3> QED BY <1>1, <2>1, <2>3, <3>3 DEF TypeOK
  <2> QED BY <2>2, <2>3
<1>15. RequestsHaveRun'
  BY <1>6, <1>14 DEF RequestsHaveRun, Out
<1>16. RequestInv'
  BY <1>6, <1>12, <1>13, <1>15 DEF RequestInv
<1> QED BY <1>1, <1>8, <1>16

\* The jobs of the worker, one by one.
LEMMA JobsDiffer ==
    ASSUME NEW a \in Accounts, NEW b \in Accounts
    PROVE  /\ Load(a) # Commit(b) /\ Load(a) # Read /\ Commit(a) # Read
           /\ Load(a) # Erase(b) /\ Commit(a) # Erase(b)
           /\ Load(a) = Load(b) => a = b
           /\ Commit(a) = Commit(b) => a = b
           /\ Load(a)[1] = "load" /\ Load(a)[2] = a
           /\ Commit(a)[1] = "commit" /\ Commit(a)[2] = a
BY DEF Load, Commit, Erase, Read

\* The first operation of the worker names its account.
LEMMA HeadJob ==
    ASSUME WorkersTypeOK, jobs # <<>>
    PROVE  /\ Head(jobs) \in ToSet(jobs)
           /\ Head(jobs)[1] \in {"load", "commit"} =>
                  /\ Head(jobs)[2] \in Accounts
                  /\ Head(jobs) \in {Load(Head(jobs)[2]), Commit(Head(jobs)[2])}
<1>1. jobs \in Seq(AllJobs)
  BY AccessAssumption DEF WorkersTypeOK
<1>2. 1 \in DOMAIN jobs /\ Head(jobs) = jobs[1]
  BY <1>1
<1>3. Head(jobs) \in AllJobs
  BY <1>1
<1> QED BY <1>2, <1>3 DEF ToSet, AllJobs, Load, Commit, Read

\* A run that waits for no operation of the worker may change as it will.
LEMMA RunChangesJobs ==
    ASSUME JobInv, TypeOK, UNCHANGED jobs,
           \A a \in Accounts : run'[a] = run[a] \/ run[a] \notin {"loading", "committing"}
    PROVE  JobInv'
BY DEF JobInv

\* The last operation is queued.
LEMMA EnqueueOther ==
    ASSUME JobInv, TypeOK, NEW job \in Jobs, Enqueue(job), UNCHANGED run,
           \A a \in Accounts : job \notin {Load(a), Commit(a)}
    PROVE  JobInv'
<1>1. jobs \in Seq(Jobs) /\ jobs' = Append(jobs, job)
  BY DEF TypeOK, WorkersTypeOK, Enqueue
<1>2. Len(jobs) \in Nat /\ DOMAIN jobs = 1..Len(jobs)
  BY <1>1
<1>3. /\ DOMAIN jobs' = 1..(Len(jobs) + 1) /\ jobs'[Len(jobs) + 1] = job
      /\ \A i \in DOMAIN jobs : jobs'[i] = jobs[i]
      /\ \A i \in DOMAIN jobs' : i \in DOMAIN jobs \/ i = Len(jobs) + 1
  BY <1>1, <1>2
<1>4. ToSet(jobs') \subseteq ToSet(jobs) \cup {job}
  BY <1>3 DEF ToSet
<1> QED BY <1>3, <1>4 DEF JobInv

\* A run that enqueues its own operation waits for it.
LEMMA EnqueueOwn ==
    ASSUME JobInv, TypeOK, NEW a \in Accounts, run[a] \notin {"loading", "committing"},
           NEW step, NEW job \in Jobs, Enqueue(job),
           run' = [run EXCEPT ![a] = step],
           \/ job = Load(a) /\ step = "loading"
           \/ job = Commit(a) /\ step = "committing"
    PROVE  JobInv'
<1>1. jobs \in Seq(Jobs) /\ jobs' = Append(jobs, job)
  BY DEF TypeOK, WorkersTypeOK, Enqueue
<1>2. Len(jobs) \in Nat /\ DOMAIN jobs = 1..Len(jobs)
  BY <1>1
<1>3. /\ DOMAIN jobs' = 1..(Len(jobs) + 1) /\ jobs'[Len(jobs) + 1] = job
      /\ \A i \in DOMAIN jobs : jobs'[i] = jobs[i] /\ jobs[i] \in ToSet(jobs)
      /\ \A i \in DOMAIN jobs' : i \in DOMAIN jobs \/ i = Len(jobs) + 1
  BY <1>1, <1>2 DEF ToSet
<1>4. ToSet(jobs') \subseteq ToSet(jobs) \cup {job}
  BY <1>3 DEF ToSet
<1>5. Load(a) \notin ToSet(jobs) /\ Commit(a) \notin ToSet(jobs)
  BY DEF JobInv
<1>6. run'[a] = step /\ \A b \in Accounts \ {a} : run'[b] = run[b]
  BY DEF TypeOK
<1> SUFFICES ASSUME NEW b \in Accounts
             PROVE  /\ Load(b) \in ToSet(jobs') => run'[b] = "loading"
                    /\ Commit(b) \in ToSet(jobs') => run'[b] = "committing"
                    /\ \A i, j \in DOMAIN jobs' :
                          jobs'[i] = jobs'[j] /\ jobs'[i] \in {Load(b), Commit(b)} => i = j
  BY DEF JobInv
<1>7. CASE b = a
  <2>1. \A i \in DOMAIN jobs : jobs'[i] \notin {Load(a), Commit(a)}
    BY <1>3, <1>5
  <2> QED BY <1>3, <1>4, <1>5, <1>6, <1>7, <2>1, JobsDiffer
<1>8. CASE b # a
  <2>1. job \notin {Load(b), Commit(b)}
    BY <1>8, JobsDiffer
  <2> QED BY <1>3, <1>4, <1>6, <1>8, <2>1 DEF JobInv
<1> QED BY <1>7, <1>8

\* The first operation settles.
LEMMA TailOfJobs ==
    ASSUME JobInv, TypeOK, Settle
    PROVE  /\ Head(jobs) \in ToSet(jobs)
           /\ ToSet(jobs') \subseteq ToSet(jobs)
           /\ \A b \in Accounts :
                 /\ \A i, j \in DOMAIN jobs' :
                       jobs'[i] = jobs'[j] /\ jobs'[i] \in {Load(b), Commit(b)} => i = j
                 /\ Head(jobs) \in {Load(b), Commit(b)} => Head(jobs) \notin ToSet(jobs')
<1>1. jobs \in Seq(Jobs) /\ jobs # <<>> /\ jobs' = Tail(jobs)
  BY DEF TypeOK, WorkersTypeOK, Settle
<1>2. Len(jobs) \in Nat /\ DOMAIN jobs = 1..Len(jobs) /\ Len(jobs) # 0
  BY <1>1
<1>3. /\ DOMAIN jobs' = 1..(Len(jobs) - 1) /\ Head(jobs) = jobs[1] /\ 1 \in DOMAIN jobs
      /\ \A i \in 1..(Len(jobs) - 1) : jobs'[i] = jobs[i + 1]
  BY <1>1, <1>2
<1>4. \A i \in 1..(Len(jobs) - 1) : i + 1 \in DOMAIN jobs /\ i + 1 # 1 /\ i \in Nat
  BY <1>2
<1>5. ToSet(jobs') \subseteq ToSet(jobs)
  BY <1>3, <1>4 DEF ToSet
<1>6. ASSUME NEW b \in Accounts
      PROVE  \A i, j \in DOMAIN jobs' :
                jobs'[i] = jobs'[j] /\ jobs'[i] \in {Load(b), Commit(b)} => i = j
  <2> TAKE i, j \in DOMAIN jobs'
  <2> HAVE jobs'[i] = jobs'[j] /\ jobs'[i] \in {Load(b), Commit(b)}
  <2>1. i + 1 = j + 1
    BY <1>3, <1>4 DEF JobInv
  <2> QED BY <1>3, <1>4, <2>1
<1>7. ASSUME NEW b \in Accounts, Head(jobs) \in {Load(b), Commit(b)}
      PROVE  Head(jobs) \notin ToSet(jobs')
  <2>1. \A i \in DOMAIN jobs' : jobs'[i] # Head(jobs)
    BY <1>3, <1>4, <1>7 DEF JobInv
  <2> QED BY <2>1 DEF ToSet
<1>8. Head(jobs) \in ToSet(jobs)
  BY <1>3 DEF ToSet
<1> QED BY <1>5, <1>6, <1>7, <1>8

\* An operation that is not a run's settles.
LEMMA SettleKeepsJobs ==
    ASSUME JobInv, TypeOK, Settle, UNCHANGED run
    PROVE  JobInv'
BY TailOfJobs DEF JobInv

\* It is a run's, and the run goes on.
LEMMA SettleKeepsOwn ==
    ASSUME JobInv, TypeOK, Settle, NEW a \in Accounts,
           Head(jobs) \in {Load(a), Commit(a)},
           \A b \in Accounts \ {a} : run'[b] = run[b]
    PROVE  JobInv'
<1>1. Load(a) \notin ToSet(jobs') /\ Commit(a) \notin ToSet(jobs')
  BY TailOfJobs DEF JobInv
<1> QED BY <1>1, TailOfJobs DEF JobInv

-----------------------------------------------------------------------------
(* The steps *)

\* The invariant of the requests.
AccessInv == RequestInv /\ JobInv /\ JoinInv

\* Nobody asks or stops reading.
LEMMA RequestsStay ==
    ASSUME RequestInv, UNCHANGED <<pacerVars, asked>>,
           \A a \in Accounts : run[a] = "reading" => run'[a] = "reading"
    PROVE  RequestInv' /\ Spaced
<1>1. UNCHANGED <<waiting, timer, wait, spacing, asked>>
  BY DEF pacerVars
<1>2. Sound(Pacer)'
  <2>1. Pacer' = Pacer
    BY <1>1 DEF Pacer
  <2>2. Sound(Pacer')
    BY <2>1 DEF RequestInv
  <2> QED BY <2>2
<1>3. Page(Out)'
  BY <1>1 DEF RequestInv, Page, Out
<1>4. RequestsHaveRun'
  <2>1. \A r \in asked \cup ToSet(waiting) : r[1] \in Accounts /\ run[r[1]] = "reading"
    BY RequestTypes, OfItself DEF RequestInv, RequestsHaveRun, Requests
  <2> QED BY <1>1, <2>1 DEF RequestsHaveRun
<1> QED BY <1>1, <1>2, <1>3, <1>4, RequestTypes DEF RequestInv, Spaced

\* A step of the rest of the system.
LEMMA NothingChanges ==
    ASSUME AccessInv, UNCHANGED <<pacerVars, runVars, jobs>>
    PROVE  AccessInv' /\ Spaced
<1>1. UNCHANGED <<run, joined, asked, jobs, pacerVars>>
  BY DEF runVars
<1>2. RequestInv' /\ Spaced
  BY <1>1, RequestsStay DEF AccessInv
<1>3. JobInv' /\ JoinInv'
  BY <1>1 DEF AccessInv, JobInv, JoinInv
<1> QED BY <1>2, <1>3 DEF AccessInv

\* A run that does not read has asked for nothing: it may begin a page.
LEMMA AsksFirst ==
    ASSUME RequestInv, TypeOK, NEW a \in Accounts, run[a] # "reading",
           Asks(a, <<<<a, 0, 1>>>>, asked)
    PROVE  /\ RequestInv' /\ Spaced
           /\ \E step \in {"idle", "reading"} : run' = [run EXCEPT ![a] = step]
<1> DEFINE r == <<a, 0, 1>>
           requests == <<r>>
<1>1. r \in Of(a) /\ r[1] = a /\ r[2] = 0
  BY AccessAssumption DEF Of, Requests, Slots
<1>2. \A s \in Out : s[1] # a
  BY DEF RequestInv, RequestsHaveRun, Out
<1> HIDE DEF r
<1>3. requests \in Seq(Of(a)) /\ IsInjective(requests) /\ ToSet(requests) = {r}
  <2>1. Len(requests) = 1 /\ requests[1] = r /\ requests \in Seq(Of(a))
    BY <1>1
  <2>2. DOMAIN requests = {1}
    BY <2>1
  <2> HIDE DEF requests
  <2> QED BY <2>1, <2>2 DEF IsInjective, ToSet
<1>4. ToSet(requests) \cap (asked \cup ToSet(waiting)) = {}
  BY <1>1, <1>2, <1>3 DEF Out
<1>5. Page(asked \cup ToSet(waiting) \cup ToSet(requests))
  BY <1>1, <1>2, <1>3 DEF Out, Page, RequestInv
<1>6. Asks(a, requests, asked)
  BY DEF r
<1> HIDE DEF requests
<1> QED BY <1>3, <1>4, <1>5, <1>6, AsksKeeps

\* A run starts by loading the state of its account.
LEMMA StartRunKeeps ==
    ASSUME IInv, AccessInv, NEW a \in Accounts, StartRun(a)
    PROVE  AccessInv' /\ Spaced
<1>1. /\ run[a] = "idle" /\ Enqueue(Load(a)) /\ run' = [run EXCEPT ![a] = "loading"]
      /\ UNCHANGED <<pacerVars, joined, asked>>
  BY DEF StartRun
<1>2. JobInv'
  BY <1>1, JobsAreJobs, EnqueueOwn DEF IInv, AccessInv
<1>3. RequestInv' /\ Spaced
  BY <1>1, RequestsStay DEF IInv, TypeOK, AccessInv
<1>4. JoinInv'
  BY <1>1 DEF IInv, TypeOK, AccessInv, JoinInv
<1> QED BY <1>2, <1>3, <1>4 DEF AccessInv

\* A read or an erasure is enqueued behind the runs.
LEMMA EnqueueKeepsRuns ==
    ASSUME IInv, AccessInv, NEW job \in Jobs, Enqueue(job), UNCHANGED <<pacerVars, runVars>>,
           job = Read \/ \E a \in Accounts : job = Erase(a)
    PROVE  AccessInv' /\ Spaced
<1>1. UNCHANGED <<run, joined, asked, pacerVars>>
  BY DEF runVars
<1>2. JobInv'
  BY <1>1, JobsDiffer, EnqueueOther DEF IInv, AccessInv
<1>3. RequestInv' /\ Spaced
  BY <1>1, RequestsStay DEF AccessInv
<1>4. JoinInv'
  BY <1>1 DEF AccessInv, JoinInv
<1> QED BY <1>2, <1>3, <1>4 DEF AccessInv

\* The worker answers: the run whose operation it was goes on or ends.
LEMMA JobSettlesKeeps ==
    ASSUME IInv, AccessInv, JobSettles
    PROVE  AccessInv' /\ Spaced
<1> DEFINE a == Head(jobs)[2]
<1>1. /\ Settle /\ jobs # <<>> /\ UNCHANGED <<pacerVars, joined, asked>>
      /\ run' = IF Head(jobs)[1] \in {"load", "commit"} THEN [run EXCEPT ![a] = "idle"] ELSE run
  BY DEF JobSettles, Settle
<1>2. CASE Head(jobs)[1] \in {"load", "commit"}
  <2>1. a \in Accounts /\ Head(jobs) \in {Load(a), Commit(a)} /\ Head(jobs) \in ToSet(jobs)
    BY <1>1, <1>2, HeadJob DEF IInv, TypeOK
  <2> HIDE DEF a
  <2>2. run[a] \in {"loading", "committing"} /\ run' = [run EXCEPT ![a] = "idle"]
    BY <1>1, <1>2, <2>1 DEF AccessInv, JobInv
  <2>3. JobInv'
    BY <1>1, <2>1, <2>2, SettleKeepsOwn DEF IInv, TypeOK, AccessInv
  <2>4. RequestInv' /\ Spaced
    BY <1>1, <2>1, <2>2, RequestsStay DEF IInv, TypeOK, AccessInv
  <2>5. JoinInv'
    BY <1>1, <2>1, <2>2 DEF IInv, TypeOK, AccessInv, JoinInv
  <2> QED BY <2>3, <2>4, <2>5 DEF AccessInv
<1>3. CASE Head(jobs)[1] \notin {"load", "commit"}
  <2>1. UNCHANGED run
    BY <1>1, <1>3
  <2>2. JobInv'
    BY <1>1, <2>1, SettleKeepsJobs DEF IInv, AccessInv
  <2>3. RequestInv' /\ Spaced
    BY <1>1, <2>1, RequestsStay DEF AccessInv
  <2> QED BY <1>1, <2>1, <2>2, <2>3 DEF AccessInv, JoinInv
<1> QED BY <1>2, <1>3

\* Its checkpoint is loaded: the run goes on.
LEMMA LoadedRun ==
    ASSUME IInv, AccessInv, NEW a \in Accounts, Loaded(a)
    PROVE  run[a] = "loading" /\ joined[a] = None /\ Settle /\ Head(jobs) = Load(a)
<1>1. jobs # <<>> /\ Head(jobs) = Load(a) /\ Settle
  BY DEF Loaded
<1>2. Load(a) \in ToSet(jobs)
  BY <1>1, HeadJob DEF IInv, TypeOK
<1> QED BY <1>1, <1>2 DEF AccessInv, JobInv, JoinInv

\* A run that finds its token in the cache asks for its first page.
LEMMA UseCachedTokenKeeps ==
    ASSUME IInv, AccessInv, NEW a \in Accounts, UseCachedToken(a)
    PROVE  AccessInv' /\ Spaced
<1>1. Loaded(a) /\ Asks(a, <<<<a, 0, 1>>>>, asked) /\ UNCHANGED joined
  BY DEF UseCachedToken
<1>2. run[a] = "loading" /\ joined[a] = None /\ Settle /\ Head(jobs) = Load(a)
  BY <1>1, LoadedRun
<1>3. RequestInv' /\ Spaced
  BY <1>1, <1>2, AsksFirst DEF IInv, AccessInv
<1>4. PICK step \in {"idle", "reading"} : run' = [run EXCEPT ![a] = step]
  BY <1>1, <1>2, AsksFirst DEF IInv, AccessInv
<1>5. JobInv'
  BY <1>2, <1>4, SettleKeepsOwn DEF IInv, TypeOK, AccessInv
<1>6. JoinInv'
  BY <1>1, <1>2, <1>4 DEF IInv, TypeOK, AccessInv, JoinInv
<1> QED BY <1>3, <1>5, <1>6 DEF AccessInv

\* A run that waits for its token has asked for nothing.
LEMMA AwaitRefreshKeeps ==
    ASSUME IInv, AccessInv, NEW a \in Accounts, NEW r \in Refreshes, AwaitRefresh(a, r)
    PROVE  AccessInv' /\ Spaced
<1>1. /\ Loaded(a) /\ joined' = [joined EXCEPT ![a] = r]
      /\ run' = [run EXCEPT ![a] = "awaiting token"] /\ UNCHANGED <<pacerVars, asked>>
  BY DEF AwaitRefresh
<1>2. run[a] = "loading" /\ Settle /\ Head(jobs) = Load(a)
  BY <1>1, LoadedRun
<1>3. RequestInv' /\ Spaced
  BY <1>1, <1>2, RequestsStay DEF IInv, TypeOK, AccessInv
<1>4. JobInv'
  BY <1>1, <1>2, SettleKeepsOwn DEF IInv, TypeOK, AccessInv
<1>5. JoinInv'
  BY <1>1 DEF IInv, TypeOK, AccessInv, JoinInv
<1> QED BY <1>3, <1>4, <1>5 DEF AccessInv

\* The runs that wait for a refresh ask for their first page, or end.
LEMMA RefreshSettlesKeeps ==
    ASSUME IInv, AccessInv, NEW r \in Refreshes, RefreshSettles(r)
    PROVE  AccessInv' /\ Spaced
<1> DEFINE a == refreshes[r].account
<1>1. PICK outcome :
        /\ SettleRefresh(r, outcome)
        /\ IF joined[a] # r THEN UNCHANGED <<pacerVars, runVars>>
           ELSE /\ joined' = [joined EXCEPT ![a] = None]
                /\ IF outcome = "token" THEN Asks(a, <<<<a, 0, 1>>>>, asked)
                   ELSE /\ run' = [run EXCEPT ![a] = "idle"]
                        /\ UNCHANGED <<pacerVars, asked>>
        /\ UNCHANGED workerVars
  BY DEF RefreshSettles
<1>2. a \in Accounts
  BY <1>1 DEF SettleRefresh, IInv, TokensInv, UnabortedReadsWhatIsStored
<1>3. UNCHANGED jobs
  BY <1>1 DEF workerVars
<1> HIDE DEF a
<1>4. CASE joined[a] # r
  BY <1>1, <1>3, <1>4, NothingChanges
<1>5. CASE joined[a] = r
  <2>1. run[a] = "awaiting token"
    BY <1>2, <1>5, TokenTypes DEF AccessInv, JoinInv
  <2>2. RequestInv' /\ Spaced /\ \E step \in {"idle", "reading"} : run' = [run EXCEPT ![a] = step]
    <3>1. CASE outcome = "token"
      BY <1>1, <1>2, <1>5, <2>1, <3>1, AsksFirst DEF IInv, AccessInv
    <3>2. CASE outcome # "token"
      <4>1. run' = [run EXCEPT ![a] = "idle"] /\ UNCHANGED <<pacerVars, asked>>
        BY <1>1, <1>5, <3>2
      <4> QED BY <1>2, <2>1, <4>1, RequestsStay DEF IInv, TypeOK, AccessInv
    <3> QED BY <3>1, <3>2
  <2>3. PICK step \in {"idle", "reading"} : run' = [run EXCEPT ![a] = step]
    BY <2>2
  <2>4. joined' = [joined EXCEPT ![a] = None]
    BY <1>1, <1>5
  <2>5. JobInv'
    BY <1>2, <1>3, <2>1, <2>3, RunChangesJobs DEF IInv, TypeOK, AccessInv
  <2>6. JoinInv'
    BY <1>2, <2>3, <2>4 DEF IInv, TypeOK, AccessInv, JoinInv
  <2> QED BY <2>2, <2>5, <2>6 DEF AccessInv
<1> QED BY <1>4, <1>5

\* The timer admits at most one request.
LEMMA TimerFiresKeeps ==
    ASSUME IInv, AccessInv, TimerFires
    PROVE  AccessInv' /\ Spaced
<1> DEFINE p == [Pacer EXCEPT !.timer = FALSE]
           q == Drain(p)
<1>1. PacerBecomes(q) /\ asked' = asked \cup q.admitted /\ UNCHANGED <<jobs, run, joined>>
  BY DEF TimerFires, workerVars
<1>2. /\ p \in Pacers /\ p.waiting = waiting /\ p.wait = wait /\ p.spacing = spacing
      /\ p.admitted = {}
  <2>1. /\ Pacer \in Pacers /\ Pacer.waiting = waiting /\ Pacer.wait = wait
        /\ Pacer.spacing = spacing /\ Pacer.admitted = {}
    BY RequestTypes DEF AccessInv, Pacer
  <2> HIDE DEF Pacer
  <2> QED BY <2>1 DEF Pacers
<1> HIDE DEF p
<1>3. Sound(p) /\ Known(p) = ToSet(waiting)
  BY <1>2, RequestTypes DEF Sound, Known, AccessInv, RequestInv, Pacer
<1>4. /\ Sound(q) /\ Known(q) = ToSet(waiting) /\ ToSet(q.waiting) \subseteq ToSet(waiting)
      /\ q.wait = wait \/ wait <= 0
  BY <1>2, <1>3, DrainKeeps
<1> HIDE DEF q
<1>5. Sound(Pacer)' /\ waiting' = q.waiting /\ wait' = q.wait
  BY <1>1, <1>4, BecomesSound
<1>6. /\ ToSet(q.waiting) \cap q.admitted = {} /\ q.admitted \subseteq Requests
      /\ q.admitted \subseteq ToSet(waiting) /\ q.wait \in Int
  BY <1>4 DEF Sound, Known, Pacers
<1>7. Spaced
  BY <1>4, <1>5, <1>6, RequestTypes DEF Spaced, AccessInv
<1>8. Out' \subseteq Out
  BY <1>1, <1>4, <1>5, <1>6 DEF Out
<1>9. Page(Out)'
  <2>1. Page(Out')
    BY <1>8, PageOfLess DEF AccessInv, RequestInv
  <2> QED BY <2>1 DEF Page
<1>10. RequestsHaveRun'
  BY <1>1, <1>8 DEF AccessInv, RequestInv, RequestsHaveRun, Out
<1>11. asked' \subseteq Requests /\ (asked \cap ToSet(waiting) = {})'
  BY <1>1, <1>4, <1>5, <1>6 DEF AccessInv, RequestInv
<1>12. JobInv' /\ JoinInv'
  BY <1>1 DEF AccessInv, JobInv, JoinInv
<1> QED BY <1>5, <1>7, <1>9, <1>10, <1>11, <1>12 DEF AccessInv, RequestInv

\* Time passes.
LEMMA TickKeeps ==
    ASSUME IInv, AccessInv, Tick
    PROVE  AccessInv' /\ Spaced
<1>1. /\ wait' = wait - 1
      /\ spacing' = IF spacing > 0 THEN spacing - 1 ELSE 0
      /\ UNCHANGED <<waiting, timer, asked, run, joined, jobs>>
  BY DEF Tick, Pass, workerVars, runVars
<1>2. /\ waiting \in Seq(Requests) /\ wait \in Int /\ spacing \in Nat
      /\ spacing = 0 \/ spacing <= wait
  BY RequestTypes DEF AccessInv
<1>3. wait' \in Int /\ spacing' \in Nat /\ (spacing' = 0 \/ spacing' <= wait') /\ Spaced
  BY <1>1, <1>2 DEF Spaced
<1>4. Sound(Pacer)'
  <2> DEFINE q == [waiting |-> waiting, timer |-> timer, wait |-> wait', spacing |-> spacing',
                   admitted |-> {}, refused |-> FALSE]
  <2>1. Pacer' = q
    BY <1>1 DEF Pacer
  <2>2. timer \in BOOLEAN /\ IsInjective(waiting)
    BY DEF AccessInv, RequestInv, Sound, Pacers, Pacer
  <2>3. q \in Pacers
    BY <1>2, <1>3, <2>2 DEF Pacers
  <2>4. Sound(q)
    BY <1>3, <2>2, <2>3 DEF Sound
  <2>5. Sound(Pacer')
    BY <2>1, <2>4
  <2> QED BY <2>5
<1>5. RequestInv'
  BY <1>1, <1>4 DEF AccessInv, RequestInv, Page, Out, RequestsHaveRun
<1>6. JobInv' /\ JoinInv'
  BY <1>1 DEF AccessInv, JobInv, JoinInv
<1> QED BY <1>3, <1>5, <1>6 DEF AccessInv

\* Whoever is aborted has nothing outstanding.
LEMMA AbortRunsKeeps ==
    ASSUME IInv, AccessInv, NEW A \in SUBSET Accounts, AbortRuns(A), UNCHANGED jobs
    PROVE  AccessInv' /\ Spaced
<1> DEFINE gone == {r \in Requests : r[1] \in A}
           p == Withdrawn(Pacer, gone)
<1>1. /\ joined' = [a \in Accounts |-> IF a \in A THEN None ELSE joined[a]]
      /\ PacerBecomes(p)
      /\ asked' = (asked \cup p.admitted) \ gone
      /\ run' = [a \in Accounts |-> IF a \in A /\ run[a] \in {"awaiting token", "reading"}
                                    THEN "idle" ELSE run[a]]
  BY DEF AbortRuns
<1>2. /\ Sound(p) /\ Known(p) \subseteq ToSet(waiting)
      /\ ToSet(p.waiting) \subseteq ToSet(waiting) \ gone
      /\ p.wait = wait \/ wait <= 0
  BY WithdrawnKeeps, RequestTypes DEF AccessInv, RequestInv
<1>3. \A r \in Requests : r[1] \in Accounts /\ (r[1] \in A => r \in gone)
  BY DEF Requests
<1> HIDE DEF gone, p
<1>4. Sound(Pacer)' /\ waiting' = p.waiting /\ wait' = p.wait
  BY <1>1, <1>2, BecomesSound
<1>5. /\ ToSet(p.waiting) \cap p.admitted = {} /\ p.admitted \subseteq Requests
      /\ p.admitted \subseteq ToSet(waiting) /\ p.wait \in Int
  BY <1>2 DEF Sound, Known, Pacers
<1>6. Spaced
  BY <1>2, <1>4, <1>5, RequestTypes DEF Spaced, AccessInv
<1>7. Out' \subseteq Out \ gone
  BY <1>1, <1>2, <1>4, <1>5 DEF Out
<1>8. Page(Out)'
  <2>1. Page(Out')
    BY <1>7, PageOfLess DEF AccessInv, RequestInv
  <2> QED BY <2>1 DEF Page
<1>9. RequestsHaveRun'
  <2>1. \A r \in Out : r \in Requests /\ run[r[1]] = "reading"
    BY RequestTypes DEF AccessInv, RequestInv, RequestsHaveRun, Out
  <2>2. \A r \in Out' : r[1] \in Accounts \ A /\ run[r[1]] = "reading"
    BY <1>3, <1>7, <2>1
  <2> QED BY <1>1, <2>2 DEF RequestsHaveRun, Out
<1>10. asked' \subseteq Requests /\ (asked \cap ToSet(waiting) = {})'
  BY <1>1, <1>2, <1>4, <1>5 DEF AccessInv, RequestInv
<1>11. JobInv'
  BY <1>1, RunChangesJobs DEF IInv, AccessInv
<1>12. JoinInv'
  BY <1>1 DEF AccessInv, JoinInv
<1> QED BY <1>4, <1>6, <1>8, <1>9, <1>10, <1>11, <1>12 DEF AccessInv, RequestInv

\* What else is outstanding of the account when an answer comes.
LEMMA OthersOfAccount ==
    ASSUME AccessInv, NEW r \in asked
    PROVE  /\ r[1] \in Accounts /\ r \in Out /\ run[r[1]] = "reading"
           /\ r \notin ToSet(waiting)
           /\ r[2] \in Slots
           /\ (asked \ {r}) \cup ToSet(waiting) = Out \ {r}
           /\ \A s \in Out \ {r} : s[1] = r[1] => r[2] # 0 /\ s[2] # 0 /\ s[2] # r[2]
<1>1. r \in Out /\ r \in Requests /\ r \notin ToSet(waiting)
  BY DEF AccessInv, RequestInv, Out
<1>2. r[1] \in Accounts /\ r[2] \in Slots
  BY <1>1 DEF Requests
<1>3. run[r[1]] = "reading"
  BY <1>1 DEF AccessInv, RequestInv, RequestsHaveRun, Out
<1>4. (asked \ {r}) \cup ToSet(waiting) = Out \ {r}
  BY <1>1 DEF Out
<1>5. \A s \in Out \ {r} : s[1] = r[1] => r[2] # 0 /\ s[2] # 0 /\ s[2] # r[2]
  BY <1>1 DEF AccessInv, RequestInv, Page
<1> QED BY <1>1, <1>2, <1>3, <1>4, <1>5

\* A group of messages is asked for when the read that began the page is answered.
LEMMA GroupKeeps ==
    ASSUME IInv, AccessInv, NEW r \in asked, r[2] = 0, NEW n \in 1..scope.messages,
           Asks(r[1], Group(r[1], n), asked \ {r})
    PROVE  /\ RequestInv' /\ Spaced
           /\ \E step \in {"idle", "reading"} : run' = [run EXCEPT ![r[1]] = step]
<1> DEFINE a == r[1]
           requests == Group(a, n)
<1>1. /\ a \in Accounts
      /\ (asked \ {r}) \cup ToSet(waiting) = Out \ {r}
      /\ \A s \in Out \ {r} : s[1] # a
  BY OthersOfAccount
<1>2. scope.messages \in 1..Parallel /\ Parallel \in Nat
  BY AccessAssumption DEF IInv, TypeOK
<1>3. n \in Nat /\ \A k \in 1..n : k \in Slots /\ k # 0
  BY <1>2 DEF Slots
<1>4. Asks(a, requests, asked \ {r})
  OBVIOUS
<1>5. \A k \in 1..n : <<a, k, 1>> \in Of(a)
  BY <1>1, <1>3 DEF Of, Requests
<1> HIDE DEF a
<1>6. requests = [k \in 1..n |-> <<a, k, 1>>]
  BY DEF Group
<1> HIDE DEF requests
<1>7. requests \in Seq(Of(a)) /\ DOMAIN requests = 1..n
  BY <1>3, <1>5, <1>6
<1>8. IsInjective(requests)
  BY <1>6, <1>7 DEF IsInjective
<1>9. \A s \in ToSet(requests) : s[1] = a /\ s[2] # 0 /\ s[3] = 1
  BY <1>3, <1>6, <1>7 DEF ToSet
<1>10. \A s, t \in ToSet(requests) : s # t => s[2] # t[2]
  BY <1>6, <1>7 DEF ToSet
<1>11. ToSet(requests) \cap ((asked \ {r}) \cup ToSet(waiting)) = {}
  BY <1>1, <1>9
<1>12. Page((asked \ {r}) \cup ToSet(waiting) \cup ToSet(requests))
  BY <1>1, <1>9, <1>10 DEF Page, AccessInv, RequestInv
<1> QED BY <1>1, <1>4, <1>7, <1>8, <1>11, <1>12, AsksKeeps DEF IInv, AccessInv, a

\* The text body of a message is asked for when the message is answered.
LEMMA BodyKeeps ==
    ASSUME IInv, AccessInv, NEW r \in asked, r[2] # 0,
           Asks(r[1], <<<<r[1], r[2], 2>>>>, asked \ {r})
    PROVE  /\ RequestInv' /\ Spaced
           /\ \E step \in {"idle", "reading"} : run' = [run EXCEPT ![r[1]] = step]
<1> DEFINE a == r[1]
           slot == r[2]
           s == <<a, slot, 2>>
           requests == <<s>>
<1>1. /\ a \in Accounts /\ slot \in Slots /\ slot # 0
      /\ (asked \ {r}) \cup ToSet(waiting) = Out \ {r}
      /\ \A t \in Out \ {r} : t[1] = a => t[2] # 0 /\ t[2] # slot
  BY OthersOfAccount
<1>2. Asks(a, requests, asked \ {r})
  OBVIOUS
<1> HIDE DEF a, slot
<1>3. s \in Of(a) /\ s[1] = a /\ s[2] = slot
  BY <1>1 DEF Of, Requests
<1> HIDE DEF s
<1>4. requests \in Seq(Of(a)) /\ IsInjective(requests) /\ ToSet(requests) = {s}
  <2>1. Len(requests) = 1 /\ requests[1] = s /\ requests \in Seq(Of(a))
    BY <1>3
  <2>2. DOMAIN requests = {1}
    BY <2>1
  <2> HIDE DEF requests
  <2> QED BY <2>1, <2>2 DEF IsInjective, ToSet
<1> HIDE DEF requests
<1>5. ToSet(requests) \cap ((asked \ {r}) \cup ToSet(waiting)) = {}
  BY <1>1, <1>3, <1>4
<1>6. Page((asked \ {r}) \cup ToSet(waiting) \cup ToSet(requests))
  BY <1>1, <1>3, <1>4 DEF Page, AccessInv, RequestInv
<1> QED BY <1>1, <1>2, <1>4, <1>5, <1>6, AsksKeeps DEF IInv, AccessInv, a

\* An answer is followed by the next page, by bodies, by a commit or by nothing.
LEMMA AnsweredKeeps ==
    ASSUME IInv, AccessInv, NEW r \in asked, Answered(r)
    PROVE  AccessInv' /\ Spaced
<1> DEFINE a == r[1]
<1>1. a \in Accounts /\ run[a] = "reading" /\ joined[a] = None /\ UNCHANGED joined
  BY OthersOfAccount DEF Answered, AccessInv, JoinInv
<1>2. ASSUME RequestInv', Spaced, UNCHANGED jobs,
             \E step \in {"idle", "reading"} : run' = [run EXCEPT ![a] = step]
      PROVE  AccessInv' /\ Spaced
  <2>1. PICK step \in {"idle", "reading"} : run' = [run EXCEPT ![a] = step]
    BY <1>2
  <2> HIDE DEF a
  <2>2. JobInv'
    BY <1>1, <1>2, <2>1, RunChangesJobs DEF IInv, TypeOK, AccessInv
  <2>3. JoinInv'
    BY <1>1, <2>1 DEF IInv, TypeOK, AccessInv, JoinInv
  <2> QED BY <1>2, <2>2, <2>3 DEF AccessInv
<1>3. CASE r[2] = 0 /\ (\E n \in 1..scope.messages : Asks(a, Group(a, n), asked \ {r}))
           /\ UNCHANGED workerVars
  BY <1>2, <1>3, GroupKeeps DEF workerVars
<1>4. CASE r[2] # 0 /\ r[3] = 1 /\ Asks(a, <<<<a, r[2], 2>>>>, asked \ {r})
           /\ UNCHANGED workerVars
  BY <1>2, <1>4, BodyKeeps DEF workerVars
<1>5. ASSUME asked' = asked \ {r}, UNCHANGED pacerVars,
             \A b \in Accounts : (\E s \in Out \ {r} : s[1] = b) => run'[b] = run[b]
      PROVE  RequestInv' /\ Spaced
  <2>1. UNCHANGED <<waiting, timer, wait, spacing>>
    BY <1>5 DEF pacerVars
  <2>2. Out' = Out \ {r}
    BY <1>5, <2>1, OthersOfAccount DEF Out
  <2>3. Sound(Pacer)'
    <3>1. Pacer' = Pacer
      BY <2>1 DEF Pacer
    <3>2. Sound(Pacer')
      BY <3>1 DEF AccessInv, RequestInv
    <3> QED BY <3>2
  <2>4. Page(Out)'
    <3>1. Page(Out')
      BY <2>2, PageOfLess DEF AccessInv, RequestInv
    <3> QED BY <3>1 DEF Page
  <2>5. \A s \in Out : s[1] \in Accounts /\ run[s[1]] = "reading"
    <3>1. Out \subseteq Requests
      BY RequestTypes DEF AccessInv
    <3>2. \A s \in Requests : s[1] \in Accounts
      BY DEF Requests
    <3>3. \A s \in Out : run[s[1]] = "reading"
      BY DEF AccessInv, RequestInv, RequestsHaveRun, Out
    <3> QED BY <3>1, <3>2, <3>3
  <2>6. RequestsHaveRun'
    BY <1>5, <2>2, <2>5 DEF RequestsHaveRun, Out
  <2>7. asked' \subseteq Requests /\ (asked \cap ToSet(waiting) = {})'
    BY <1>5, <2>1 DEF AccessInv, RequestInv
  <2>8. Spaced
    BY <2>1, RequestTypes DEF Spaced, AccessInv
  <2> QED BY <2>3, <2>4, <2>6, <2>7, <2>8 DEF RequestInv
<1>6. CASE asked' = asked \ {r} /\ UNCHANGED <<pacerVars, workerVars, run>>
  <2>1. RequestInv' /\ Spaced
    BY <1>5, <1>6
  <2>2. JobInv' /\ JoinInv'
    BY <1>1, <1>6 DEF workerVars, AccessInv, JobInv, JoinInv
  <2> QED BY <2>1, <2>2 DEF AccessInv
<1>7. CASE Outstanding(a) = {r} /\ Commits(a, r)
  <2>1. \A s \in Out \ {r} : s[1] # a
    <3>1. \A s \in Out : s[1] = a => s \in Of(a)
      BY <1>1, RequestTypes, OfItself DEF AccessInv
    <3> QED BY <1>7, <3>1 DEF Outstanding, Out
  <2>2. asked' = asked \ {r} /\ UNCHANGED pacerVars
    BY <1>7 DEF Commits
  <2>3. CASE Accepts
    <3>1. Enqueue(Commit(a)) /\ run' = [run EXCEPT ![a] = "committing"]
      BY <1>7, <2>3 DEF Commits
    <3>2. RequestInv' /\ Spaced
      <4>1. \A b \in Accounts \ {a} : run'[b] = run[b]
        BY <3>1 DEF IInv, TypeOK
      <4> QED BY <1>5, <2>1, <2>2, <4>1
    <3>3. Commit(a) \in Jobs
      BY <1>1, JobsAreJobs
    <3> HIDE DEF a
    <3>4. JobInv'
      BY <1>1, <3>1, <3>3, EnqueueOwn DEF IInv, AccessInv
    <3>5. JoinInv'
      BY <1>1, <3>1 DEF IInv, TypeOK, AccessInv, JoinInv
    <3> QED BY <3>2, <3>4, <3>5 DEF AccessInv
  <2>4. CASE ~Accepts
    <3>1. UNCHANGED workerVars /\ run' = [run EXCEPT ![a] = "idle"]
      BY <1>7, <2>4 DEF Commits
    <3>2. RequestInv' /\ Spaced
      <4>1. \A b \in Accounts \ {a} : run'[b] = run[b]
        BY <3>1 DEF IInv, TypeOK
      <4> QED BY <1>5, <2>1, <2>2, <4>1
    <3> QED BY <1>2, <3>1, <3>2 DEF workerVars
  <2> QED BY <2>3, <2>4
<1> QED BY <1>3, <1>4, <1>6, <1>7 DEF Answered

\* Every step keeps the invariant and the admissions apart.
LEMMA AccessIsKept ==
    ASSUME IInv, AccessInv, [Next]_vars
    PROVE  AccessInv' /\ Spaced
<1>1. ASSUME NEW a \in scope.runs, StartRun(a) \/ CancelRun(a) PROVE AccessInv' /\ Spaced
  <2>1. a \in Accounts
    BY ScopeIsTyped DEF IInv
  <2>2. CASE CancelRun(a)
    BY <2>1, <2>2, AbortRunsKeeps DEF CancelRun, workerVars
  <2> QED BY <1>1, <2>1, <2>2, StartRunKeeps
<1>2. ASSUME NEW kind, NEW a, Begin(kind, a) PROVE AccessInv' /\ Spaced
  BY <1>2, AbortRunsKeeps DEF Begin, workerVars
<1>3. CASE RendererReads
  BY <1>3, EnqueueKeepsRuns, AccessAssumption DEF RendererReads, AllJobs
<1>4. CASE DisconnectErasesRecords
  <2>1. operation.account \in Accounts
    BY <1>4 DEF DisconnectErasesRecords, At, IInv, GateIsClosed
  <2> QED BY <1>4, <2>1, EnqueueKeepsRuns, JobsAreJobs DEF DisconnectErasesRecords
<1>5. CASE WorkerStep
  <2>1. \A r \in 1..scope.refreshes : r \in Refreshes
    BY ScopeIsTyped DEF IInv
  <2> QED BY <1>5, <2>1, JobSettlesKeeps, UseCachedTokenKeeps, AwaitRefreshKeeps DEF WorkerStep
<1>6. ASSUME NEW r \in Refreshes, RefreshSettles(r) PROVE AccessInv' /\ Spaced
  BY <1>6, RefreshSettlesKeeps
<1>7. ASSUME NEW r \in asked, Answered(r) \/ RequestFails(r) PROVE AccessInv' /\ Spaced
  <2>1. CASE RequestFails(r)
    <3>1. {r[1]} \in SUBSET Accounts
      BY OthersOfAccount
    <3> QED BY <2>1, <3>1, AbortRunsKeeps DEF RequestFails, workerVars
  <2> QED BY <1>7, <2>1, AnsweredKeeps
<1>8. CASE TimerFires \/ Tick
  BY <1>8, TimerFiresKeeps, TickKeeps
<1>9. CASE UNCHANGED <<pacerVars, runVars, jobs>>
  BY <1>9, NothingChanges
<1> QED
  BY <1>1, <1>2, <1>3, <1>4, <1>5, <1>6, <1>7, <1>8, <1>9
     DEF vars, Next, Step, OwnerStep, RenewCredential, BeginDisconnect, BeginDeletion, BeginQuit,
         RetentionRuns, StartRetention, EndRetention, RefreshGoesOn, DisconnectInvalidates,
         DisconnectErasesCredential, DeletionErasesCredentials, DeletionDestroysKeys,
         DestroyKeys, OperationFails, QuitDestroysTokens, QuitClosesWorker, Close,
         QuitZeroesKey, ZeroProjectionKey, workerVars

\* At the start nothing is outstanding.
LEMMA AccessStarts == Init => AccessInv
<1> SUFFICES ASSUME Init PROVE AccessInv
  OBVIOUS
<1>1. /\ waiting = <<>> /\ timer = FALSE /\ wait = 0 /\ spacing = 0 /\ asked = {} /\ jobs = <<>>
      /\ joined = [a \in Accounts |-> None]
  BY DEF Init, PacerInit, WorkersInit
<1>2. \A T : <<>> \in Seq(T) /\ DOMAIN <<>> = {}
  OBVIOUS
<1>3. ToSet(waiting) = {} /\ ToSet(jobs) = {} /\ IsInjective(waiting)
  BY <1>1, <1>2 DEF ToSet, IsInjective
<1>4. Sound(Pacer)
  <2>1. Pacer \in Pacers
    <3>1. waiting \in Seq(Requests)
      BY <1>1, EmptySeq
    <3>3. timer \in BOOLEAN
      BY <1>1
    <3>2. wait \in Int /\ spacing \in Nat
      BY <1>1
    <3> QED BY <3>1, <3>2, <3>3 DEF Pacer, Pacers
  <2> QED BY <1>1, <1>3, <2>1 DEF Sound, Pacer
<1>5. RequestInv
  BY <1>1, <1>3, <1>4 DEF RequestInv, Page, Out, RequestsHaveRun
<1>6. JobInv /\ JoinInv
  BY <1>1, <1>2, <1>3 DEF JobInv, JoinInv
<1> QED BY <1>5, <1>6 DEF AccessInv

\* Both invariants always hold.
LEMMA AlwaysAccessInv == Spec => [](IInv /\ AccessInv)
BY IInvHolds, IInvIsKept, AccessStarts, AccessIsKept, PTL DEF Spec

\* An aborted run leaves nothing behind: whatever waits in the pacer or is under way
\* belongs to a run that reads.
THEOREM RequestsBelongToRuns == Spec => []RequestsHaveRun
BY AlwaysAccessInv, PTL DEF AccessInv, RequestInv

\* Two admissions are at least the charge of the first apart, for every charge, every
\* number of requests that are withdrawn and however late the timer fires.
THEOREM AdmissionsStaySpaced == Spec => AdmissionsAreSpaced
<1>1. IInv /\ AccessInv /\ [Next]_vars => [wait' > wait => spacing = 0]_pacerVars
  <2> SUFFICES ASSUME IInv, AccessInv, [Next]_vars, wait' > wait
               PROVE  spacing = 0
    OBVIOUS
  <2>1. Spaced /\ AccessInv'
    BY AccessIsKept
  <2>2. wait \in Int /\ spacing \in Nat /\ (spacing = 0 \/ spacing <= wait)
    BY RequestTypes DEF AccessInv
  <2>3. wait' \in Int
    BY <2>1, RequestTypes DEF AccessInv, RequestInv, Sound, Pacers, Pacer
  <2> QED BY <2>1, <2>2, <2>3 DEF Spaced
<1> QED BY <1>1, AlwaysAccessInv, PTL DEF Spec, AdmissionsAreSpaced
=============================================================================
