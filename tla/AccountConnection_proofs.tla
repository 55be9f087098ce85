---------------------- MODULE AccountConnection_proofs ----------------------
(***************************************************************************)
(* Proofs about AccountConnection: the types of all variables, that no     *)
(* authorization leaves adapter or listener open, that an account with one *)
(* half only is explained, and that no recovery takes a half from a whole  *)
(* one.                                                                    *)
(*                                                                         *)
(* Adapter and listener are shared by the two commands, and both take a    *)
(* new session without looking at the old one.  What makes the property    *)
(* inductive is that sessions are not shared (FlowInv) and that the        *)
(* adapter's session belongs to an activation that will end, unless it is  *)
(* stuck (SessionInv): any other end releases it, and only its own.        *)
(***************************************************************************)
EXTENDS AccountConnection, TLAPS

\* An activation that is under way has a session of its own and an account; it
\* waits for a callback only before the exchange.
FlowInv ==
    /\ \A f \in Flows :
         /\ flow[f].step = "idle" => flow[f] = Idle
         /\ flow[f].step # "idle" => flow[f].session \in 1..issued /\ flow[f].account \in Accounts
         /\ flow[f].callback = "awaited" => flow[f].step = "waiting"
    /\ \A f, g \in Flows :
         flow[f].step # "idle" /\ flow[f].session = flow[g].session => f = g

\* The listener has no session but the adapter's; the adapter has none but a
\* stuck one or that of an activation between its begin and its grant, and the
\* services have no other.
SessionInv ==
    /\ loopback \in {NoSession, adapter}
    /\ adapter \notin {NoSession} \cup stuck =>
         \E f \in Flows : /\ flow[f].session = adapter
                           /\ flow[f].step \in {"waiting", "exchanging"}
    /\ \A f \in Flows : pending[f] # NoSession => flow[f].step \in {"waiting", "exchanging"}

\* Every open server and every waiter can still be reached, but those of an
\* overwritten session.
ListenInv ==
    /\ listening \subseteq {loopback} \cup displaced
    /\ \A f \in Flows :
         flow[f].callback = "awaited" => loopback = flow[f].session \/ flow[f].session \in displaced

\* The inductive invariant.
IInv ==
    /\ TypeOK
    /\ FlowInv
    /\ SessionInv
    /\ ListenInv
    /\ OneSidedIsExplained

-----------------------------------------------------------------------------
(* Types *)

\* TypeOK in three parts.
Activation ==
    [step : {"idle", "listening", "waiting", "exchanging", "protecting"},
     session : Sessions \cup {NoSession},
     account : Accounts \cup {NoAccount},
     callback : Callbacks \cup {"none", "awaited", "failed"},
     tries : 0..(MaxTries - 1)]

FlowTypes ==
    /\ flow \in [Flows -> Activation]
    /\ pending \in [Flows -> Sessions \cup {NoSession}]
    /\ cancelled \subseteq Flows
    /\ issued \in 0..MaxSessions

SessionTypes ==
    /\ {adapter, loopback} \subseteq Sessions \cup {NoSession}
    /\ listening \subseteq Sessions /\ overdue \subseteq Sessions
    /\ displaced \subseteq Sessions /\ stuck \subseteq Sessions
    /\ queued \in [Sessions -> Callbacks \cup {"none"}]

StoreTypes ==
    /\ credentials \subseteq Accounts /\ providers \subseteq Accounts
    /\ reconnect \subseteq providers
    /\ excused \subseteq Accounts /\ erasing \subseteq Accounts
    /\ confirmed \subseteq Recoveries
    /\ events \in 0..MaxEvents

\* The types of the flows, of the sessions and of the stores make up TypeOK.
LEMMA TypeParts == TypeOK <=> FlowTypes /\ SessionTypes /\ StoreTypes
  BY DEF TypeOK, FlowTypes, SessionTypes, StoreTypes, Activation

\* Idle is a state an activation can be in.
LEMMA IdleIsActivation == Idle \in Activation
  BY ConnectionAssumption DEF Idle, Activation, NoSession

\* What each handler assigns is of its type.
LEMMA UpdatedActivation ==
  ASSUME NEW r \in Activation
  PROVE  /\ \A step \in {"idle", "listening", "waiting", "exchanging", "protecting"} :
              [r EXCEPT !.step = step] \in Activation
         /\ \A answer \in Callbacks \cup {"none", "awaited", "failed"} :
              /\ [r EXCEPT !.callback = answer] \in Activation
              /\ \A n \in 0..(MaxTries - 1) :
                   [r EXCEPT !.tries = n, !.callback = answer] \in Activation
              /\ \A step \in {"idle", "listening", "waiting", "exchanging", "protecting"} :
                   [r EXCEPT !.step = step, !.callback = answer] \in Activation
  BY DEF Activation

\* The fields of an activation.
LEMMA FlowFields ==
  ASSUME FlowTypes, NEW f \in Flows
  PROVE  /\ flow[f] \in Activation
         /\ flow[f].session \in Sessions \cup {NoSession}
         /\ flow[f].tries \in 0..(MaxTries - 1)
         /\ flow[f].callback \in Callbacks \cup {"none", "awaited", "failed"}
  BY DEF FlowTypes, Activation

\* A flow under way has a session of its own.
LEMMA UnderWayHasSession ==
  ASSUME FlowInv, FlowTypes, NEW f \in Flows, flow[f].step # "idle"
  PROVE  flow[f].session \in Sessions
  BY ConnectionAssumption DEF FlowInv, FlowTypes, Sessions

\* A flow that ends is idle.
LEMMA EndTypes ==
  ASSUME FlowTypes, NEW f \in Flows, End(f)
  PROVE  FlowTypes'
  BY IdleIsActivation DEF FlowTypes, End, Activation, Sessions

\* Closing a session keeps the types.
LEMMA ReleaseTypes ==
  ASSUME SessionTypes, NEW s \in Sessions \cup {NoSession}, Release(s)
  PROVE  SessionTypes'
  BY DEF SessionTypes, Release, CloseSession, Sessions, Callbacks

\* A flow that gives up releases its session and ends.
LEMMA GiveUpTypes ==
  ASSUME FlowTypes, SessionTypes, StoreTypes, NEW f \in Flows, GiveUp(f)
  PROVE  FlowTypes' /\ SessionTypes' /\ StoreTypes'
<1>1. FlowTypes'
  BY EndTypes DEF GiveUp
<1>2. SessionTypes'
  BY ReleaseTypes, FlowFields DEF GiveUp
<1>3. StoreTypes'
  BY DEF GiveUp, StoreTypes, storeVars, lifecycleVars, Recoveries, OneSided
<1> QED BY <1>1, <1>2, <1>3

\* A session's callback reaches the flow that waits for it.
LEMMA AnsweredTypes ==
  ASSUME FlowTypes, NEW s, NEW answer \in Callbacks \cup {"failed"}, flow' = Answered(s, answer),
         UNCHANGED <<pending, cancelled, issued>>
  PROVE  FlowTypes'
<1>1. flow' \in [Flows -> Activation]
  BY UpdatedActivation, FlowFields DEF Answered
<1> QED BY <1>1 DEF FlowTypes

\* What a flow finds when it waits for its callback: one that came before, or none.
LEMMA NextCallbackTypes ==
  ASSUME SessionTypes, NEW f, NEW s \in Sessions, NEW active
  PROVE  NextCallback(f, s, active) \in Callbacks \cup {"none", "awaited", "failed"}
  BY DEF SessionTypes, NextCallback, Callbacks

\* A flow begins for one account.
LEMMA BeginTypes ==
  ASSUME FlowTypes, NEW f \in Flows, NEW a \in Accounts, Begin(f, a)
  PROVE  FlowTypes'
<1> DEFINE r == [Idle EXCEPT !.step = "listening", !.session = issued + 1, !.account = a]
<1>1. issued + 1 \in Sessions
  BY ConnectionAssumption DEF Begin, FlowTypes, Sessions
<1>2. r \in Activation
  BY <1>1, IdleIsActivation DEF Activation
<1>3. flow' = [flow EXCEPT ![f] = r]
  BY DEF Begin
<1>4. flow' \in [Flows -> Activation]
  BY <1>2, <1>3 DEF FlowTypes
<1> QED BY <1>1, <1>4, ConnectionAssumption DEF Begin, FlowTypes, Sessions

\* One case per action of a command.
LEMMA FlowActionsTypes ==
  ASSUME FlowTypes, SessionTypes, StoreTypes, FlowInv, NEW f \in Flows,
         FlowStep(f) \/ OpenFails(f) \/ Cancel(f)
  PROVE  FlowTypes' /\ SessionTypes' /\ StoreTypes'
<1> USE DEF storeVars, lifecycleVars, sessionVars, flowVars, Recoveries, OneSided
<1>1. CASE ListenFails(f)
  BY <1>1, EndTypes DEF ListenFails, SessionTypes, StoreTypes
<1>2. CASE Listened(f)
  <2> DEFINE s == flow[f].session
  <2>1. s \in Sessions
    BY <1>2, UnderWayHasSession DEF Listened
  <2>2. NextCallback(f, s, s) \in Callbacks \cup {"none", "awaited", "failed"}
    BY <2>1, NextCallbackTypes
  <2>3. flow' \in [Flows -> Activation]
    <3>1. flow' = [flow EXCEPT ![f] = [flow[f] EXCEPT !.step = "waiting",
                                                  !.callback = NextCallback(f, s, s)]]
      BY <1>2 DEF Listened, FlowTypes, Activation
    <3> QED BY <3>1, <2>2, UpdatedActivation, FlowFields DEF FlowTypes
  <2>4. FlowTypes'
    BY <1>2, <2>1, <2>3 DEF Listened, FlowTypes
  <2>5. SessionTypes'
    BY <1>2, <2>1 DEF Listened, SessionTypes
  <2>6. StoreTypes'
    BY <1>2 DEF Listened, StoreTypes
  <2> QED BY <2>4, <2>5, <2>6
<1>3. CASE Abandon(f)
  BY <1>3, GiveUpTypes DEF Abandon
<1>4. CASE Refused(f)
  BY <1>4, EndTypes, ReleaseTypes, FlowFields DEF Refused, StoreTypes
<1>5. CASE Rejected(f)
  <2> DEFINE s == flow[f].session
  <2>1. CASE Exhausted(f)
    BY <1>5, <2>1, GiveUpTypes DEF Rejected
  <2>2. CASE ~Exhausted(f)
    <3>1. s \in Sessions
      BY <1>5, UnderWayHasSession DEF Rejected, Delivered, WaitEnds
    <3>2. NextCallback(f, s, loopback) \in Callbacks \cup {"none", "awaited", "failed"}
      BY <3>1, NextCallbackTypes
    <3>3. flow[f].tries + 1 \in 0..(MaxTries - 1)
      BY <2>2, FlowFields, ConnectionAssumption DEF Exhausted
    <3>4. flow' = [flow EXCEPT ![f] = [flow[f] EXCEPT !.tries = flow[f].tries + 1,
                                                 !.callback = NextCallback(f, s, loopback)]]
      BY <1>5, <2>2 DEF Rejected, FlowTypes, Activation
    <3>5. flow' \in [Flows -> Activation]
      BY <3>2, <3>3, <3>4, UpdatedActivation, FlowFields DEF FlowTypes
    <3>6. FlowTypes'
      BY <1>5, <2>2, <3>5 DEF Rejected, FlowTypes
    <3>7. SessionTypes'
      BY <1>5, <2>2, <3>1 DEF Rejected, SessionTypes, Callbacks
    <3>8. StoreTypes'
      BY <1>5, <2>2 DEF Rejected, StoreTypes
    <3> QED BY <3>6, <3>7, <3>8
  <2> QED BY <2>1, <2>2
<1>6. CASE Exchange(f)
  <2>1. flow' \in [Flows -> Activation]
    BY <1>6, UpdatedActivation, FlowFields DEF Exchange, GoTo, FlowTypes
  <2> QED BY <1>6, <2>1 DEF Exchange, FlowTypes, SessionTypes, StoreTypes
<1>7. CASE ExchangeFails(f)
  BY <1>7, GiveUpTypes DEF ExchangeFails
<1>8. CASE Granted(f)
  <2>1. SessionTypes'
    BY <1>8, ReleaseTypes, FlowFields DEF Granted
  <2>2. StoreTypes'
    BY <1>8 DEF Granted, StoreTypes
  <2>3. CASE End(f)
    BY <2>1, <2>2, <2>3, EndTypes
  <2>4. CASE GoTo(f, "protecting") /\ pending' = [pending EXCEPT ![f] = NoSession]
             /\ UNCHANGED <<cancelled, issued>>
    <3>1. flow' \in [Flows -> Activation]
      BY <2>4, UpdatedActivation, FlowFields DEF GoTo, FlowTypes
    <3> QED BY <2>1, <2>2, <2>4, <3>1 DEF FlowTypes
  <2> QED BY <1>8, <2>3, <2>4 DEF Granted
<1>9. CASE StoreFails(f)
  BY <1>9, EndTypes DEF StoreFails, SessionTypes, StoreTypes
<1>10. CASE f = "renew" /\ StoreRenewed
  <2>1. flow[f].account \in Accounts
    BY <1>10, FlowFields DEF StoreRenewed, FlowInv
  <2> QED BY <1>10, <2>1, EndTypes DEF StoreRenewed, SessionTypes, StoreTypes
<1>11. CASE f = "connect" /\ StoreConnected
  <2>1. flow[f].account \in Accounts
    BY <1>11, FlowFields DEF StoreConnected, FlowInv
  <2> QED BY <1>11, <2>1, EndTypes DEF StoreConnected, SessionTypes, StoreTypes
<1>12. CASE f = "connect" /\ SaveFails
  <2>1. flow[f].account \in Accounts
    BY <1>12, FlowFields DEF SaveFails, FlowInv
  <2> QED BY <1>12, <2>1, EndTypes DEF SaveFails, RollBack, SessionTypes, StoreTypes
<1>13. CASE OpenFails(f)
  BY <1>13, GiveUpTypes DEF OpenFails
<1>14. CASE Cancel(f)
  <2>1. flow' \in [Flows -> Activation]
    BY <1>14, UpdatedActivation, FlowFields DEF Cancel, FlowTypes
  <2> QED BY <1>14, <2>1 DEF Cancel, FlowTypes, SessionTypes, StoreTypes
<1>15. CASE RefusedUnread(f)
  <2>1. flow[f].session \in Sessions
    BY <1>15, UnderWayHasSession DEF RefusedUnread, Delivered, WaitEnds
  <2> QED BY <1>15, <2>1, EndTypes DEF RefusedUnread, SessionTypes, StoreTypes
<1> QED
  BY <1>1, <1>2, <1>3, <1>4, <1>5, <1>6, <1>7, <1>8, <1>9, <1>10, <1>11, <1>12, <1>13, <1>14,
     <1>15
  DEF FlowStep

\* The steps of a listener: it ages, times out or is called back.
LEMMA ListenerTypes ==
  ASSUME FlowTypes, SessionTypes, StoreTypes,
         \/ \E s \in Sessions : Age(s) \/ TimerFires(s)
         \/ \E s \in Sessions, response \in Callbacks : Callback(s, response)
  PROVE  FlowTypes' /\ SessionTypes' /\ StoreTypes'
<1> USE DEF storeVars, lifecycleVars, sessionVars, flowVars, Recoveries, OneSided
<1>1. ASSUME NEW s \in Sessions, Age(s) PROVE FlowTypes' /\ SessionTypes' /\ StoreTypes'
  BY <1>1 DEF Age, FlowTypes, SessionTypes, StoreTypes
<1>2. ASSUME NEW s \in Sessions, TimerFires(s) PROVE FlowTypes' /\ SessionTypes' /\ StoreTypes'
  BY <1>2, AnsweredTypes DEF TimerFires, CloseSession, SessionTypes, StoreTypes
<1>3. ASSUME NEW s \in Sessions, NEW response \in Callbacks, Callback(s, response)
      PROVE  FlowTypes' /\ SessionTypes' /\ StoreTypes'
  <2>1. FlowTypes'
    <3>1. CASE flow' = Answered(s, response)
      BY <1>3, <3>1, AnsweredTypes DEF Callback
    <3>2. CASE UNCHANGED flow
      BY <1>3, <3>2 DEF Callback, FlowTypes
    <3> QED BY <1>3, <3>1, <3>2 DEF Callback
  <2>2. SessionTypes' /\ StoreTypes'
    BY <1>3, ConnectionAssumption DEF Callback, Happens, SessionTypes, StoreTypes
  <2> QED BY <2>1, <2>2
<1> QED BY <1>1, <1>2, <1>3

\* The steps on an account, and its recovery at startup.
LEMMA AccountTypes ==
  ASSUME FlowTypes, SessionTypes, StoreTypes,
         \/ \E a \in Accounts : AccountStep(a)
         \/ \E r \in Recoveries : Recover(r)
  PROVE  FlowTypes' /\ SessionTypes' /\ StoreTypes'
<1> USE DEF flowVars, sessionVars, storeVars, lifecycleVars
<1>1. ASSUME NEW a \in Accounts, AccountStep(a)
      PROVE  /\ UNCHANGED <<flowVars, sessionVars>>
             /\ StoreTypes'
  <2>1. UNCHANGED <<flowVars, sessionVars>>
    BY <1>1 DEF AccountStep, TokenExpires, EraseCredential, EraseState, EraseFails,
                ConfirmRecovery
  <2>2. confirmed' \subseteq Recoveries'
    BY <1>1 DEF AccountStep, TokenExpires, EraseCredential, EraseState, EraseFails,
                ConfirmRecovery, Recoveries, StoreTypes
  <2>3. credentials' \subseteq Accounts /\ providers' \subseteq Accounts
        /\ reconnect' \subseteq providers' /\ excused' \subseteq Accounts
        /\ erasing' \subseteq Accounts
    BY <1>1 DEF AccountStep, TokenExpires, EraseCredential, EraseState, EraseFails,
                ConfirmRecovery, StoreTypes, Connected
  <2>4. events' \in 0..MaxEvents
    BY <1>1, ConnectionAssumption
    DEF AccountStep, TokenExpires, EraseCredential, EraseState, EraseFails,
        ConfirmRecovery, StoreTypes, Happens
  <2> QED BY <2>1, <2>2, <2>3, <2>4 DEF StoreTypes
<1>2. ASSUME NEW r \in Recoveries, Recover(r)
      PROVE  /\ UNCHANGED <<flowVars, sessionVars>>
             /\ StoreTypes'
  BY <1>2 DEF Recover, Recoverable, StoreTypes
<1>3. FlowTypes /\ UNCHANGED flowVars => FlowTypes'
  BY DEF FlowTypes
<1>4. SessionTypes /\ UNCHANGED sessionVars => SessionTypes'
  BY DEF SessionTypes
<1> QED BY <1>1, <1>2, <1>3, <1>4

\* A crash forgets the flows and keeps the stores.
LEMMA CrashTypes ==
  ASSUME FlowTypes, SessionTypes, StoreTypes, FlowInv, Crash
  PROVE  FlowTypes' /\ SessionTypes' /\ StoreTypes'
<1>1. FlowTypes'
  BY IdleIsActivation DEF Crash, FlowTypes
<1>2. SessionTypes'
  BY DEF Crash, SessionTypes
<1>3. flow["connect"].step = "protecting" => flow["connect"].account \in Accounts
  BY DEF FlowInv, Flows
<1>4. StoreTypes'
  BY <1>3, ConnectionAssumption DEF Crash, StoreInCrash, Happens, StoreTypes, Recoveries
<1> QED BY <1>1, <1>2, <1>4

\* Every step keeps the types.
LEMMA TypesAreKept ==
  ASSUME IInv, [Next]_vars
  PROVE  TypeOK'
<1> SUFFICES FlowTypes' /\ SessionTypes' /\ StoreTypes'
  BY DEF TypeOK, FlowTypes, SessionTypes, StoreTypes, Activation
<1>1. FlowTypes /\ SessionTypes /\ StoreTypes /\ FlowInv
  BY TypeParts DEF IInv
<1>2. ASSUME NEW f \in Flows, NEW a \in Accounts, Begin(f, a)
      PROVE  FlowTypes' /\ SessionTypes' /\ StoreTypes'
  <2>1. FlowTypes'
    BY <1>1, <1>2, BeginTypes
  <2>2. SessionTypes' /\ StoreTypes'
    BY <1>1, <1>2
    DEF Begin, SessionTypes, StoreTypes, sessionVars, storeVars, lifecycleVars, Recoveries
  <2> QED BY <2>1, <2>2
<1>3. ASSUME NEW f \in Flows, FlowStep(f) \/ OpenFails(f) \/ Cancel(f)
      PROVE  FlowTypes' /\ SessionTypes' /\ StoreTypes'
  BY <1>1, <1>3, FlowActionsTypes
<1>4. CASE \/ \E s \in Sessions : Age(s) \/ TimerFires(s)
           \/ \E s \in Sessions, response \in Callbacks : Callback(s, response)
  BY <1>1, <1>4, ListenerTypes
<1>5. CASE (\E a \in Accounts : AccountStep(a)) \/ \E r \in Recoveries : Recover(r)
  BY <1>1, <1>5, AccountTypes
<1>6. CASE Crash
  BY <1>1, <1>6, CrashTypes
<1>7. CASE UNCHANGED vars
  <2>1. FlowTypes' /\ SessionTypes'
    BY <1>1, <1>7 DEF vars, flowVars, sessionVars, FlowTypes, SessionTypes
  <2>2. StoreTypes'
    BY <1>1, <1>7 DEF vars, storeVars, lifecycleVars, StoreTypes
  <2> QED BY <2>1, <2>2
<1> QED BY <1>2, <1>3, <1>4, <1>5, <1>6, <1>7 DEF Next

-----------------------------------------------------------------------------
(* The activations *)

\* An activation that ends gives its session up; no other one has it.
LEMMA EndKeepsFlows ==
  ASSUME NEW f \in Flows, TypeOK, FlowInv, End(f)
  PROVE  FlowInv'
<1>1. /\ flow'[f] = Idle
      /\ \A g \in Flows : g # f => flow'[g] = flow[g]
      /\ issued' = issued
  BY DEF End, TypeOK
<1>2. Idle.step = "idle" /\ Idle.callback = "none" /\ Idle.session = NoSession
  BY DEF Idle
<1>3. \A g \in Flows : flow[g].step # "idle" => flow[g].session # NoSession
  BY DEF FlowInv, NoSession, TypeOK
<1> QED BY <1>1, <1>2, <1>3 DEF FlowInv

\* A rejected callback is waited for again, or the flow gives up.
LEMMA RejectedKeepsFlows ==
  ASSUME NEW f \in Flows, IInv, Rejected(f)
  PROVE  FlowInv'
<1>1. CASE Exhausted(f)
  BY <1>1, EndKeepsFlows DEF Rejected, GiveUp, IInv
<1>2. CASE ~Exhausted(f)
  <2>1. /\ issued' = issued
        /\ flow[f].step = "waiting"
        /\ flow'[f].step = flow[f].step /\ flow'[f].session = flow[f].session
        /\ flow'[f].account = flow[f].account
        /\ \A g \in Flows : g # f => flow'[g] = flow[g]
    BY <1>2 DEF Rejected, Delivered, WaitEnds, IInv, TypeOK
  <2> QED BY <2>1 DEF IInv, FlowInv
<1> QED BY <1>1, <1>2

\* A callback changes only the flow of its session.
LEMMA CallbackKeepsFlows ==
  ASSUME NEW s \in Sessions, NEW response \in Callbacks, IInv, Callback(s, response)
  PROVE  FlowInv'
<1>1. CASE UNCHANGED flow
  BY <1>1 DEF Callback, IInv, FlowInv
<1>2. CASE flow' = Answered(s, response)
  <2>1. ASSUME NEW f \in Flows
        PROVE  /\ flow'[f].step = flow[f].step /\ flow'[f].session = flow[f].session
               /\ flow'[f].account = flow[f].account
               /\ flow'[f] # flow[f] => flow[f].callback = "awaited" /\ flow'[f].callback = response
    BY <1>2 DEF Answered, IInv, TypeOK
  <2>2. response # "awaited"
    BY DEF Callbacks
  <2> QED BY <2>1, <2>2 DEF Callback, IInv, FlowInv
<1> QED BY <1>1, <1>2 DEF Callback

\* Every step keeps the invariant of the flows.
LEMMA FlowInvIsKept ==
  ASSUME IInv, [Next]_vars
  PROVE  FlowInv'
<1> USE DEF IInv
<1>1. ASSUME NEW f \in Flows, NEW a \in Accounts, Begin(f, a)
      PROVE  FlowInv'
  BY <1>1 DEF Begin, FlowInv, TypeOK, Idle, Sessions, NoSession
<1>2. ASSUME NEW f \in Flows, End(f)
      PROVE  FlowInv'
  BY <1>2, EndKeepsFlows
<1>3. ASSUME NEW f \in Flows, Listened(f)
      PROVE  FlowInv'
  BY <1>3 DEF Listened, FlowInv, TypeOK, Idle
<1>4. ASSUME NEW f \in Flows, Rejected(f)
      PROVE  FlowInv'
  BY <1>4, RejectedKeepsFlows
<1>5. ASSUME NEW f \in Flows, Exchange(f)
      PROVE  FlowInv'
  BY <1>5 DEF Exchange, GoTo, Delivered, WaitEnds, FlowInv, TypeOK, Idle
<1>6. ASSUME NEW f \in Flows, Granted(f)
      PROVE  FlowInv'
  <2>1. flow[f].step = "exchanging" /\ (End(f) \/ (GoTo(f, "protecting") /\ issued' = issued))
    BY <1>6 DEF Granted
  <2>2. CASE GoTo(f, "protecting") /\ issued' = issued
    <3>1. /\ flow'[f].step = "protecting" /\ flow'[f].session = flow[f].session
          /\ flow'[f].account = flow[f].account /\ flow'[f].callback = flow[f].callback
          /\ \A g \in Flows : g # f => flow'[g] = flow[g]
      BY <2>2 DEF GoTo, TypeOK
    <3> QED BY <2>1, <2>2, <3>1 DEF FlowInv
  <2> QED BY <1>2, <2>1, <2>2
<1>7. ASSUME NEW f \in Flows, Cancel(f)
      PROVE  FlowInv'
  BY <1>7 DEF Cancel, FlowInv, TypeOK, Idle
<1>8. ASSUME NEW f \in Flows, FlowStep(f)
      PROVE  FlowInv'
  BY <1>2, <1>3, <1>4, <1>5, <1>6, <1>8
  DEF FlowStep, ListenFails, Abandon, RefusedUnread, Refused, ExchangeFails, GiveUp,
      StoreFails, StoreRenewed, StoreConnected, SaveFails
<1>9. ASSUME NEW f \in Flows, OpenFails(f)
      PROVE  FlowInv'
  BY <1>2, <1>9 DEF OpenFails, GiveUp
<1>10. ASSUME NEW s \in Sessions, TimerFires(s)
       PROVE  FlowInv'
  BY <1>10 DEF TimerFires, Answered, FlowInv, TypeOK, Idle
<1>11. ASSUME NEW s \in Sessions, NEW response \in Callbacks, Callback(s, response)
       PROVE  FlowInv'
  BY <1>11, CallbackKeepsFlows
<1>12. CASE Crash
  BY <1>12 DEF Crash, FlowInv, Idle, TypeOK
<1>13. CASE UNCHANGED flowVars
  BY <1>13 DEF flowVars, FlowInv
<1>14. ASSUME NEW a \in Accounts, AccountStep(a)
       PROVE  UNCHANGED flowVars
  BY <1>14 DEF AccountStep, TokenExpires, EraseCredential, EraseState, EraseFails,
               ConfirmRecovery
<1> QED
  BY <1>1, <1>7, <1>8, <1>9, <1>10, <1>11, <1>12, <1>13, <1>14
  DEF Next, Recover, Age, vars

-----------------------------------------------------------------------------
(* Adapter and listener *)

\* Every step keeps the invariant of the sessions.
LEMMA SessionInvIsKept ==
  ASSUME IInv, [Next]_vars
  PROVE  SessionInv'
<1> USE DEF IInv
<1>1. ASSUME NEW f \in Flows, NEW a \in Accounts, Begin(f, a)
      PROVE  SessionInv'
  BY <1>1 DEF Begin, SessionInv, TypeOK, Idle, sessionVars
<1>2. ASSUME NEW f \in Flows, GiveUp(f)
      PROVE  SessionInv'
  BY <1>2 DEF GiveUp, Release, CloseSession, End, SessionInv, TypeOK, Idle, FlowInv
<1>3. ASSUME NEW f \in Flows, Listened(f)
      PROVE  SessionInv'
  BY <1>3 DEF Listened, SessionInv, TypeOK, Idle, FlowInv
<1>4. ASSUME NEW f \in Flows, Rejected(f)
      PROVE  SessionInv'
  BY <1>2, <1>4 DEF Rejected, Delivered, WaitEnds, SessionInv, TypeOK, FlowInv
<1>5. ASSUME NEW f \in Flows, Exchange(f)
      PROVE  SessionInv'
  BY <1>5 DEF Exchange, GoTo, Delivered, WaitEnds, SessionInv, TypeOK, sessionVars
<1>6. ASSUME NEW f \in Flows, Granted(f)
      PROVE  SessionInv'
  BY <1>6 DEF Granted, GoTo, Release, CloseSession, End, SessionInv, TypeOK, Idle, FlowInv
<1>7. ASSUME NEW f \in Flows, Cancel(f)
      PROVE  SessionInv'
  BY <1>7 DEF Cancel, SessionInv, TypeOK, sessionVars
<1>8. ASSUME NEW f \in Flows, Refused(f)
      PROVE  SessionInv'
  BY <1>2, <1>8 DEF Refused, GiveUp
<1>9. ASSUME NEW f \in Flows, flow[f].step \in {"listening", "protecting"}, End(f),
             UNCHANGED sessionVars
      PROVE  SessionInv'
  BY <1>9 DEF End, SessionInv, TypeOK, Idle, FlowInv, sessionVars
<1>17. ASSUME NEW f \in Flows, RefusedUnread(f)
       PROVE  SessionInv'
  BY <1>17 DEF RefusedUnread, Delivered, WaitEnds, End, SessionInv, TypeOK, Idle, FlowInv
<1>10. ASSUME NEW f \in Flows, FlowStep(f)
       PROVE  SessionInv'
  BY <1>2, <1>3, <1>4, <1>5, <1>6, <1>8, <1>9, <1>10, <1>17
  DEF FlowStep, ListenFails, Abandon, ExchangeFails, StoreFails, StoreRenewed,
      StoreConnected, SaveFails
<1>11. ASSUME NEW f \in Flows, OpenFails(f)
       PROVE  SessionInv'
  BY <1>2, <1>11 DEF OpenFails
<1>12. ASSUME NEW s \in Sessions, TimerFires(s)
       PROVE  SessionInv'
  BY <1>12 DEF TimerFires, CloseSession, Answered, SessionInv, TypeOK
<1>13. ASSUME NEW s \in Sessions, NEW response \in Callbacks, Callback(s, response)
       PROVE  SessionInv'
  BY <1>13 DEF Callback, Answered, SessionInv, TypeOK
<1>14. CASE Crash
  BY <1>14 DEF Crash, SessionInv, Idle
<1>15. CASE UNCHANGED <<flowVars, adapter, loopback, stuck>>
  BY <1>15 DEF flowVars, SessionInv
<1>16. ASSUME NEW a \in Accounts, AccountStep(a)
       PROVE  UNCHANGED <<flowVars, adapter, loopback, stuck>>
  BY <1>16 DEF AccountStep, TokenExpires, EraseCredential, EraseState, EraseFails,
               ConfirmRecovery, sessionVars
<1> QED
  BY <1>1, <1>7, <1>10, <1>11, <1>12, <1>13, <1>14, <1>15, <1>16
  DEF Next, Recover, Age, vars, sessionVars

\* A server that listens replaces the active session, which can then only be displaced.
LEMMA ListenedKeepsListeners ==
  ASSUME NEW f \in Flows, IInv, Listened(f)
  PROVE  ListenInv'
<1> DEFINE s == flow[f].session
<1>1. listening' \subseteq {loopback'} \cup displaced'
  BY DEF IInv, ListenInv, Listened, TypeOK, NoSession, Sessions
<1>2. ASSUME NEW g \in Flows, flow'[g].callback = "awaited"
      PROVE  loopback' = flow'[g].session \/ flow'[g].session \in displaced'
  <2>1. CASE g = f
    BY <2>1 DEF IInv, TypeOK, Listened
  <2>2. CASE g # f
    <3>1. flow'[g] = flow[g]
      BY <2>2 DEF IInv, TypeOK, Listened
    <3>2. flow[g].session \in Sessions
      BY <1>2, <3>1, UnderWayHasSession, TypeParts DEF IInv, FlowInv
    <3> QED BY <1>2, <3>1, <3>2 DEF IInv, ListenInv, Listened, Sessions, NoSession
  <2> QED BY <2>1, <2>2
<1> QED BY <1>1, <1>2 DEF ListenInv

\* Every step keeps the invariant of the listeners.
LEMMA ListenInvIsKept ==
  ASSUME IInv, [Next]_vars
  PROVE  ListenInv'
<1> USE DEF IInv
<1>1. ASSUME NEW f \in Flows, NEW a \in Accounts, Begin(f, a)
      PROVE  ListenInv'
  BY <1>1 DEF Begin, ListenInv, TypeOK, Idle, sessionVars
<1>2. ASSUME NEW f \in Flows, GiveUp(f)
      PROVE  ListenInv'
  BY <1>2 DEF GiveUp, Release, CloseSession, End, ListenInv, TypeOK, Idle, FlowInv
<1>3. ASSUME NEW f \in Flows, Listened(f)
      PROVE  ListenInv'
  BY <1>3, ListenedKeepsListeners
<1>4. ASSUME NEW f \in Flows, Rejected(f)
      PROVE  ListenInv'
  BY <1>2, <1>4 DEF Rejected, NextCallback, ListenInv, TypeOK
<1>5. ASSUME NEW f \in Flows, Exchange(f)
      PROVE  ListenInv'
  BY <1>5 DEF Exchange, GoTo, ListenInv, TypeOK, sessionVars
<1>6. ASSUME NEW f \in Flows, Granted(f)
      PROVE  ListenInv'
  BY <1>6 DEF Granted, GoTo, Release, CloseSession, End, ListenInv, TypeOK, Idle, FlowInv
<1>7. ASSUME NEW f \in Flows, Cancel(f)
      PROVE  ListenInv'
  BY <1>7 DEF Cancel, ListenInv, TypeOK, sessionVars
<1>8. ASSUME NEW f \in Flows, Refused(f)
      PROVE  ListenInv'
  BY <1>2, <1>8 DEF Refused, GiveUp
<1>9. ASSUME NEW f \in Flows, End(f), UNCHANGED sessionVars
      PROVE  ListenInv'
  BY <1>9 DEF End, ListenInv, TypeOK, Idle, sessionVars
<1>17. ASSUME NEW f \in Flows, RefusedUnread(f)
       PROVE  ListenInv'
  BY <1>17 DEF RefusedUnread, End, ListenInv, TypeOK, Idle
<1>10. ASSUME NEW f \in Flows, FlowStep(f)
       PROVE  ListenInv'
  BY <1>2, <1>3, <1>4, <1>5, <1>6, <1>8, <1>9, <1>10, <1>17
  DEF FlowStep, ListenFails, Abandon, ExchangeFails, StoreFails, StoreRenewed,
      StoreConnected, SaveFails
<1>11. ASSUME NEW f \in Flows, OpenFails(f)
       PROVE  ListenInv'
  BY <1>2, <1>11 DEF OpenFails
<1>12. ASSUME NEW s \in Sessions, TimerFires(s)
       PROVE  ListenInv'
  BY <1>12 DEF TimerFires, CloseSession, Answered, ListenInv, TypeOK
<1>13. ASSUME NEW s \in Sessions, NEW response \in Callbacks, Callback(s, response)
       PROVE  ListenInv'
  BY <1>13 DEF Callback, Answered, ListenInv, TypeOK
<1>14. CASE Crash
  BY <1>14 DEF Crash, ListenInv, Idle
<1>15. CASE UNCHANGED <<flowVars, loopback, listening, displaced>>
  BY <1>15 DEF flowVars, ListenInv
<1>16. ASSUME NEW a \in Accounts, AccountStep(a)
       PROVE  UNCHANGED <<flowVars, loopback, listening, displaced>>
  BY <1>16 DEF AccountStep, TokenExpires, EraseCredential, EraseState, EraseFails,
               ConfirmRecovery, sessionVars
<1> QED
  BY <1>1, <1>7, <1>10, <1>11, <1>12, <1>13, <1>14, <1>15, <1>16
  DEF Next, Recover, Age, vars, sessionVars

-----------------------------------------------------------------------------
(* The two stores *)

\* What decides whether an account is one-sided, and why.
storesKept == <<credentials, providers, excused, erasing>>

\* Only the end of an activation, a disconnect, a recovery and a crash touch it.
LEMMA WhatWritesTheStores ==
  ASSUME [Next]_vars
  PROVE  \/ UNCHANGED storesKept
         \/ StoreRenewed \/ StoreConnected \/ SaveFails \/ Crash
         \/ \E a \in Accounts : AccountStep(a)
         \/ \E r \in Recoveries : Recover(r)
<1>1. ASSUME NEW f \in Flows, NEW a \in Accounts, Begin(f, a)
      PROVE  UNCHANGED storesKept
  BY <1>1 DEF Begin, storesKept, storeVars, lifecycleVars
<1>2. ASSUME NEW f \in Flows, FlowStep(f) \/ OpenFails(f) \/ Cancel(f)
      PROVE  UNCHANGED storesKept \/ StoreRenewed \/ StoreConnected \/ SaveFails
  BY <1>2 DEF FlowStep, ListenFails, Listened, Abandon, RefusedUnread, Refused, Rejected,
              Exchange, ExchangeFails, Granted, StoreFails, OpenFails, Cancel, GiveUp, storesKept,
              storeVars, lifecycleVars
<1>3. ASSUME NEW s \in Sessions, Age(s) \/ TimerFires(s)
       PROVE  UNCHANGED storesKept
  BY <1>3 DEF Age, TimerFires, storesKept, storeVars, lifecycleVars
<1>4. ASSUME NEW s \in Sessions, NEW response \in Callbacks, Callback(s, response)
       PROVE  UNCHANGED storesKept
  BY <1>4 DEF Callback, storesKept, storeVars, lifecycleVars
<1> QED
  BY <1>1, <1>2, <1>3, <1>4 DEF Next, vars, storeVars, lifecycleVars, storesKept

\* Every step explains the half that it leaves.
LEMMA OneSidedIsKept ==
  ASSUME IInv, [Next]_vars
  PROVE  OneSidedIsExplained'
<1> USE DEF IInv
<1>1. CASE UNCHANGED storesKept
  BY <1>1 DEF storesKept, OneSidedIsExplained, Status
<1>2. CASE StoreRenewed
  BY <1>2 DEF StoreRenewed, OneSidedIsExplained, Status, OneSided, lifecycleVars
<1>3. CASE StoreConnected
  BY <1>3 DEF StoreConnected, OneSidedIsExplained, Status, OneSided, lifecycleVars
<1>4. CASE SaveFails
  BY <1>4 DEF SaveFails, RollBack, OneSidedIsExplained, Status, OneSided, lifecycleVars
<1>5. ASSUME NEW a \in Accounts, AccountStep(a)
      PROVE  OneSidedIsExplained'
  BY <1>5 DEF AccountStep, TokenExpires, EraseCredential, EraseState, EraseFails,
              ConfirmRecovery, OneSidedIsExplained, Status, OneSided, lifecycleVars, storeVars,
              TypeOK, Connected
<1>6. ASSUME NEW r \in Recoveries, Recover(r)
      PROVE  OneSidedIsExplained'
  BY <1>6 DEF Recover, Recoverable, Recoveries, OneSidedIsExplained, Status, OneSided
<1>7. CASE Crash
  BY <1>7 DEF Crash, OneSidedIsExplained
<1> QED
  BY <1>1, <1>2, <1>3, <1>4, <1>5, <1>6, <1>7, WhatWritesTheStores

\* A recovery deletes what it was confirmed for, and finds the account in the
\* state confirmed: a whole account is none of these.
LEMMA WholeAccountsStep ==
  ASSUME IInv, [Next]_vars, NEW a \in Connected
  PROVE  a \in Connected' \/ a \in (erasing \cup erasing')
<1> USE DEF IInv, Connected
<1>1. CASE UNCHANGED storesKept
  BY <1>1 DEF storesKept
<1>2. CASE StoreRenewed
  BY <1>2 DEF StoreRenewed
<1>3. CASE StoreConnected
  BY <1>3 DEF StoreConnected
<1>4. CASE SaveFails
  BY <1>4 DEF SaveFails, RollBack
<1>5. ASSUME NEW b \in Accounts, AccountStep(b)
      PROVE  a \in Connected' \/ a \in (erasing \cup erasing')
  BY <1>5 DEF AccountStep, TokenExpires, EraseCredential, EraseState, EraseFails,
              ConfirmRecovery, storeVars
<1>6. ASSUME NEW r \in Recoveries, Recover(r)
      PROVE  a \in Connected' \/ a \in (erasing \cup erasing')
  BY <1>6 DEF Recover, Recoverable, Recoveries, Status, OneSided
<1>7. CASE Crash
  BY <1>7 DEF Crash, StoreInCrash
<1> QED
  BY <1>1, <1>2, <1>3, <1>4, <1>5, <1>6, <1>7, WhatWritesTheStores

-----------------------------------------------------------------------------
(* The theorems *)

\* The invariant holds at the start.
LEMMA IInvHolds ==
  ASSUME Init
  PROVE  IInv
<1>1. FlowTypes /\ SessionTypes /\ StoreTypes
  BY IdleIsActivation, ConnectionAssumption
  DEF Init, FlowTypes, SessionTypes, StoreTypes
<1>2. FlowInv /\ SessionInv /\ ListenInv
  BY DEF Init, FlowInv, SessionInv, ListenInv, Idle
<1>3. OneSidedIsExplained
  BY DEF Init, OneSidedIsExplained, Status, OneSided
<1> QED BY <1>1, <1>2, <1>3, TypeParts DEF IInv

\* The invariant always holds.
LEMMA AlwaysIInv == Spec => []IInv
<1>1. IInv /\ [Next]_vars => IInv'
  BY TypesAreKept, FlowInvIsKept, SessionInvIsKept, ListenInvIsKept, OneSidedIsKept DEF IInv
<1> QED BY IInvHolds, <1>1, PTL DEF Spec

\* Every variable has its type: no authorization is begun without its session,
\* and no session number, try or event leaves its bounds.
THEOREM TypeCorrect == Spec => []TypeOK
<1>1. IInv => TypeOK
  BY DEF IInv
<1> QED BY AlwaysIInv, <1>1, PTL

\* However an authorization ends, adapter, listener and services are free once no
\* activation is under way, and no server or waiter is out of reach but those of
\* a session that the other command has overwritten.  The one end that leaves the
\* session with the adapter, a response refused unread, is set apart.
THEOREM NothingStaysOpen == Spec => []NothingIsLeftOpen
<1>1. ASSUME IInv
      PROVE  NothingIsLeftOpen
  <2>1. ASSUME \A f \in Flows : flow[f].step = "idle"
        PROVE  /\ {adapter, loopback} \subseteq {NoSession} \cup stuck
               /\ pending = [f \in Flows |-> NoSession]
    BY <1>1, <2>1 DEF IInv, TypeOK, SessionInv
  <2> QED BY <1>1, <2>1 DEF NothingIsLeftOpen, IInv, ListenInv
<1> QED BY AlwaysIInv, <1>1, PTL

\* One half of an account stays behind only where something failed, crashed or
\* wrote over another, or while a disconnect is between its deletions.
THEOREM HalvesAreExplained == Spec => []OneSidedIsExplained
<1>1. IInv => OneSidedIsExplained
  BY DEF IInv
<1> QED BY AlwaysIInv, <1>1, PTL

\* The recovery of one-sided accounts, and every other step but an account's own
\* disconnect, leaves a whole account whole.
THEOREM WholeAccountsAreSafe == Spec => WholeAccountsStayWhole
<1>1. IInv /\ [Next]_vars
        => [\A a \in Connected : a \in Connected' \/ a \in (erasing \cup erasing')]_vars
  BY WholeAccountsStep
<1> QED BY AlwaysIInv, <1>1, PTL DEF Spec, WholeAccountsStayWhole
=============================================================================
