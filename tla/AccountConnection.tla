-------------------------- MODULE AccountConnection --------------------------
(***************************************************************************)
(* The authorization of a Google account, as composed in main: the connect *)
(* and the reauthorization command, each with an activation service and a  *)
(* connection service of its own; the one authorization adapter and the    *)
(* one loopback listener they share; the two stores an account lives in;   *)
(* and what else writes them: a disconnect and the recovery of an account  *)
(* of which only one half is left.                                         *)
(*                                                                         *)
(* Steps between two awaits that only settle in the microtask queue are    *)
(* one action.  A session id is the number of its begin.                   *)
(***************************************************************************)
EXTENDS Naturals, FiniteSets

CONSTANTS
    Accounts,
    Existing,      \* accounts connected at the start
    MaxSessions,   \* bound: authorizations begun
    MaxTries,      \* MAX_CALLBACK_ATTEMPTS
    MaxEvents,     \* bound: expired tokens, disconnects, crashes, over-long responses
    NoAccount

ASSUME ConnectionAssumption ==
    /\ Existing \subseteq Accounts
    /\ NoAccount \notin Accounts
    /\ MaxSessions \in Nat /\ MaxTries \in Nat \ {0} /\ MaxEvents \in Nat

Flows == {"connect", "renew"}
Sessions == 1..MaxSessions
NoSession == 0

\* What a request to the listener brings: the answer of the user, who consents or
\* declines, a response with the right state that the adapter rejects, or one
\* whose path fits the listener's limit and whose whole URL exceeds the adapter's.
Callbacks == {"answer", "rejected", "oversized"}

VARIABLES
    flow,         \* where the activation of each command stands
    pending,      \* the session each connection service has pending
    cancelled,    \* flows whose command has been cancelled
    issued,       \* sessions begun so far
    adapter,      \* the active session of the adapter
    loopback,     \* the active session of the loopback server
    listening,    \* sessions whose HTTP server listens
    queued,       \* a callback that arrived while nobody waited
    overdue,      \* sessions older than their lifetime
    displaced,    \* sessions another begin has overwritten
    stuck,        \* history: the adapter's session, if its completion was refused unread
    credentials,  \* accounts with a refresh token in the vault
    providers,    \* accounts with a provider-account record
    reconnect,    \* accounts whose last sync asks for reauthorization
    erasing,      \* accounts whose disconnect is between its two deletions
    confirmed,    \* recovery: the stored confirmation
    excused,      \* accounts left one-sided by something that failed
    events        \* how many of those there have been

flowVars == <<flow, pending, cancelled, issued>>
sessionVars == <<adapter, loopback, listening, queued, overdue, displaced, stuck>>
storeVars == <<credentials, providers, reconnect>>
lifecycleVars == <<erasing, confirmed>>
vars == <<flowVars, sessionVars, storeVars, lifecycleVars, excused, events>>

\* Bounds what happens that an authorization as it should be does not meet.
Happens == events < MaxEvents /\ events' = events + 1

Idle == [step |-> "idle", session |-> NoSession, account |-> NoAccount,
         callback |-> "none", tries |-> 0]

Connected == providers \cap credentials

\* inspectAccountConnectionConsistency
Status(a) ==
    IF a \in providers THEN IF a \in credentials THEN "connected" ELSE "provider-state-only"
                       ELSE IF a \in credentials THEN "credential-only" ELSE "absent"

OneSided == {"provider-state-only", "credential-only"}

\* loadEligibleState of the reauthorization service.
Eligible == Connected \cap reconnect

Init ==
    /\ flow = [f \in Flows |-> Idle]
    /\ pending = [f \in Flows |-> NoSession]
    /\ cancelled = {} /\ issued = 0
    /\ adapter = NoSession /\ loopback = NoSession
    /\ listening = {} /\ overdue = {} /\ displaced = {} /\ stuck = {}
    /\ queued = [s \in Sessions |-> "none"]
    /\ credentials = Existing /\ providers = Existing
    /\ reconnect \in SUBSET Existing
    /\ erasing = {} /\ confirmed = {}
    /\ excused = {} /\ events = 0

-----------------------------------------------------------------------------
(* GoogleOAuthLoopbackRedirectServer *)

\* closeSession of the active session: its waiter is told.
CloseSession(s) ==
    /\ loopback' = NoSession
    /\ listening' = listening \ {s}
    /\ queued' = [queued EXCEPT ![s] = "none"]

\* Mutant: the server of the session is left open.
ReleaseKeepingServer(s) ==
    /\ adapter' = IF adapter = s THEN NoSession ELSE adapter
    /\ loopback' = IF loopback = s THEN NoSession ELSE loopback
    /\ overdue' = overdue \ {s}
    /\ UNCHANGED <<listening, queued, displaced, stuck>>

\* The adapter's clearActive and release, for its own session only.
Release(s) ==
    /\ adapter' = IF adapter = s THEN NoSession ELSE adapter
    /\ IF adapter = s /\ loopback = s THEN CloseSession(s)
                                      ELSE UNCHANGED <<loopback, listening, queued>>
    /\ overdue' = overdue \ {s}
    /\ UNCHANGED <<displaced, stuck>>

\* nextCallback: a listener that is not this session's, a cancelled wait, a
\* callback that is already there, or a wait.
NextCallback(f, s, active) ==
    IF active # s \/ f \in cancelled THEN "failed"
    ELSE IF queued[s] # "none" THEN queued[s] ELSE "awaited"

\* The waiter of a session gets an answer.
Answered(s, answer) ==
    [f \in Flows |-> IF flow[f].session = s /\ flow[f].callback = "awaited"
                     THEN [flow[f] EXCEPT !.callback = answer] ELSE flow[f]]

Waited(s) == \E f \in Flows : flow[f].session = s /\ flow[f].callback = "awaited"

\* A request with the state of the session arrives at its server: the active
\* session hands it to the waiter, or keeps one; the others answer 410 or 429.
Callback(s, response) ==
    /\ s \in listening /\ loopback = s
    /\ \/ /\ Waited(s)
          /\ flow' = Answered(s, response)
          /\ UNCHANGED queued
       \/ /\ ~Waited(s) /\ queued[s] = "none"
          /\ queued' = [queued EXCEPT ![s] = response]
          /\ UNCHANGED flow
    /\ IF response = "oversized" THEN Happens ELSE UNCHANGED events
    /\ UNCHANGED <<pending, cancelled, issued, adapter, loopback, listening, overdue, displaced,
                   stuck, storeVars, lifecycleVars, excused>>

\* Five minutes have passed since the begin of the session.
Age(s) ==
    /\ s \in {adapter, loopback} \ overdue
    /\ overdue' = overdue \cup {s}
    /\ UNCHANGED <<flowVars, adapter, loopback, listening, queued, displaced, stuck, storeVars,
                   lifecycleVars, excused, events>>

\* Mutant: the timer is cleared by the first response.
TimerSparesAnswered(s) ==
    /\ s \in overdue /\ loopback = s
    /\ \A f \in Flows : flow[f].session = s => flow[f].tries = 0
    /\ CloseSession(s)
    /\ flow' = Answered(s, "failed")
    /\ UNCHANGED <<pending, cancelled, issued, adapter, overdue, displaced, stuck, storeVars,
                   lifecycleVars, excused, events>>

\* The expiry timer closes the session if it is still the active one.
TimerFires(s) ==
    /\ s \in overdue /\ loopback = s
    /\ CloseSession(s)
    /\ flow' = Answered(s, "failed")
    /\ UNCHANGED <<pending, cancelled, issued, adapter, overdue, displaced, stuck, storeVars,
                   lifecycleVars, excused, events>>

-----------------------------------------------------------------------------
(* AccountConnectionActivationService, up to the callback *)

GoTo(f, step) == flow' = [flow EXCEPT ![f].step = step]

\* The activation throws or returns: the command is free again.
End(f) ==
    /\ flow' = [flow EXCEPT ![f] = Idle]
    /\ pending' = [pending EXCEPT ![f] = NoSession]
    /\ cancelled' = cancelled \ {f}
    /\ UNCHANGED issued

\* A connection gets a fresh id: one that nothing refers to.
Fresh(a) ==
    /\ Status(a) = "absent" /\ a \notin erasing
    /\ \A f \in Flows : flow[f].account # a
    /\ \A r \in confirmed : r.account # a

\* begin: the account may be connected, or renewed; adapter and listener are
\* free; a server starts to listen.
Begin(f, a) ==
    /\ flow[f].step = "idle" /\ pending[f] = NoSession
    /\ IF f = "connect" THEN Fresh(a) ELSE a \in Eligible
    /\ adapter = NoSession /\ loopback = NoSession
    /\ issued < MaxSessions
    /\ issued' = issued + 1
    /\ flow' = [flow EXCEPT ![f] = [Idle EXCEPT !.step = "listening", !.session = issued + 1,
                                                !.account = a]]
    /\ UNCHANGED <<pending, cancelled, sessionVars, storeVars, lifecycleVars, excused, events>>

ListenFails(f) ==
    /\ flow[f].step = "listening"
    /\ End(f)
    /\ UNCHANGED <<sessionVars, storeVars, lifecycleVars, excused, events>>

\* The server listens: listener and adapter take the session as their active
\* one without looking again, the flow waits, and the browser is asked to open.  (Once
\* it has, nothing but the callback counts; it may open at any time.)
Listened(f) ==
    LET s == flow[f].session
    IN /\ flow[f].step = "listening"
       /\ listening' = listening \cup {s}
       /\ displaced' = IF loopback = NoSession THEN displaced ELSE displaced \cup {loopback}
       /\ loopback' = s /\ adapter' = s /\ stuck' = {}
       /\ pending' = [pending EXCEPT ![f] = s]
       /\ flow' = [flow EXCEPT ![f].step = "waiting", ![f].callback = NextCallback(f, s, s)]
       /\ UNCHANGED <<cancelled, issued, queued, overdue, storeVars, lifecycleVars, excused,
                      events>>

\* cleanup and cancelConnection: adapter.cancel, for its own session only.
GiveUp(f) ==
    /\ Release(flow[f].session)
    /\ End(f)
    /\ UNCHANGED <<storeVars, lifecycleVars, excused, events>>

\* The browser does not open.
OpenFails(f) == flow[f].step = "waiting" /\ flow[f].tries = 0 /\ GiveUp(f)

\* The cancel command; once completion starts, nobody looks at it any more.
Cancel(f) ==
    /\ flow[f].step \in {"listening", "waiting"} /\ f \notin cancelled
    /\ cancelled' = cancelled \cup {f}
    /\ flow' = IF flow[f].callback = "awaited" THEN [flow EXCEPT ![f].callback = "failed"]
                                               ELSE flow
    /\ UNCHANGED <<pending, issued, sessionVars, storeVars, lifecycleVars, excused, events>>

WaitEnds(f) == flow[f].step = "waiting" /\ flow[f].callback # "awaited"

\* No callback came, or it came together with a cancellation.
Abandon(f) ==
    /\ WaitEnds(f)
    /\ flow[f].callback = "failed" \/ f \in cancelled
    /\ GiveUp(f)

-----------------------------------------------------------------------------
(* AccountAuthorizationAdapter.complete *)

Delivered(f) == WaitEnds(f) /\ flow[f].callback # "failed" /\ f \notin cancelled

\* Every other response is read: the request to complete is well-formed.
WellFormed(f) == flow[f].callback # "oversized"

\* The first check of the adapter, and of it alone: a request that is not
\* well-formed is refused before the session is looked at.  The services are done
\* with it, and nobody cancels: adapter and listener keep the session.
RefusedUnread(f) ==
    LET s == flow[f].session
    IN /\ Delivered(f)
       /\ ~WellFormed(f)
       /\ stuck' = IF adapter = s THEN {s} ELSE stuck
       /\ End(f)
       /\ UNCHANGED <<adapter, loopback, listening, queued, overdue, displaced, storeVars,
                      lifecycleVars, excused, events>>

\* The session is not the adapter's, has expired, or Google declined.
Refused(f) ==
    LET s == flow[f].session
    IN /\ Delivered(f)
       /\ WellFormed(f)
       /\ adapter # s \/ s \in overdue \/ flow[f].callback = "answer"
       /\ Release(s)
       /\ End(f)
       /\ UNCHANGED <<storeVars, lifecycleVars, excused, events>>

\* Mutant: one more response is accepted.
ExhaustedLate(f) == flow[f].tries = MaxTries

\* MAX_CALLBACK_ATTEMPTS have been rejected.
Exhausted(f) == flow[f].tries + 1 = MaxTries

\* A rejected callback: wait for another one, a few times.
Rejected(f) ==
    LET s == flow[f].session
    IN /\ Delivered(f)
       /\ adapter = s /\ s \notin overdue /\ flow[f].callback = "rejected"
       /\ IF Exhausted(f)
          THEN GiveUp(f)
          ELSE /\ flow' = [flow EXCEPT ![f].tries = @ + 1,
                                       ![f].callback = NextCallback(f, s, loopback)]
               /\ queued' = [queued EXCEPT ![s] = "none"]
               /\ UNCHANGED <<pending, cancelled, issued, adapter, loopback, listening, overdue,
                              displaced, stuck, storeVars, lifecycleVars, excused, events>>

Exchange(f) ==
    LET s == flow[f].session
    IN /\ Delivered(f)
       /\ adapter = s /\ s \notin overdue /\ flow[f].callback = "answer"
       /\ GoTo(f, "exchanging")
       /\ UNCHANGED <<pending, cancelled, issued, sessionVars, storeVars, lifecycleVars,
                      excused, events>>

\* The token, the identity or the mailbox could not be had, or do not match.
ExchangeFails(f) == flow[f].step = "exchanging" /\ GiveUp(f)

\* A grant: the session is over for adapter, listener and service.  The service
\* looks at the account again: still to be connected, or to be renewed and the
\* same; the operating system is asked to protect the token.
Granted(f) ==
    LET a == flow[f].account
    IN /\ flow[f].step = "exchanging"
       /\ Release(flow[f].session)
       /\ \/ /\ IF f = "connect" THEN Status(a) = "absent" ELSE a \in Eligible
             /\ GoTo(f, "protecting")
             /\ pending' = [pending EXCEPT ![f] = NoSession]
             /\ UNCHANGED <<cancelled, issued>>
          \/ End(f)
       /\ UNCHANGED <<storeVars, lifecycleVars, excused, events>>

-----------------------------------------------------------------------------
(* The two services write: vault.set, and the record of a new account *)

StoreFails(f) ==
    /\ flow[f].step = "protecting"
    /\ End(f)
    /\ UNCHANGED <<sessionVars, storeVars, lifecycleVars, excused, events>>

\* The new token is written whatever happened to the account in the meantime.
\* The sync that follows may find that all is well again.
StoreRenewed ==
    LET a == flow["renew"].account
    IN /\ flow["renew"].step = "protecting"
       /\ credentials' = credentials \cup {a}
       /\ excused' = IF a \in providers THEN excused ELSE excused \cup {a}
       /\ reconnect' \in {reconnect, reconnect \ {a}}
       /\ End("renew")
       /\ UNCHANGED <<sessionVars, providers, lifecycleVars, events>>

StoreConnected ==
    LET a == flow["connect"].account
    IN /\ flow["connect"].step = "protecting"
       /\ credentials' = credentials \cup {a}
       /\ providers' = providers \cup {a}
       /\ End("connect")
       /\ UNCHANGED <<sessionVars, reconnect, lifecycleVars, excused, events>>

\* Mutant: the credential is not part of the rollback.
RollBackKeepingCredential(a) == credentials' = credentials \cup {a} /\ UNCHANGED excused

\* rollbackAfterAccountStateFailure, which may fail itself.
RollBack(a) ==
    \/ UNCHANGED <<credentials, excused>>
    \/ credentials' = credentials \cup {a} /\ excused' = excused \cup {a}

\* The credential is written, the record of the account is not.
SaveFails ==
    /\ flow["connect"].step = "protecting"
    /\ RollBack(flow["connect"].account)
    /\ End("connect")
    /\ UNCHANGED <<sessionVars, providers, reconnect, lifecycleVars, events>>

-----------------------------------------------------------------------------
(* The lifecycle of a connected account *)

\* A sync of the account fails: Google does not accept the token any more.
TokenExpires(a) ==
    /\ Happens
    /\ a \in Connected \ reconnect
    /\ reconnect' = reconnect \cup {a}
    /\ UNCHANGED <<flowVars, sessionVars, credentials, providers, lifecycleVars, excused>>

\* The disconnect command, or the connect command undoing its work because the
\* account could not be activated, deletes the credential...
EraseCredential(a) ==
    /\ Happens
    /\ a \in Connected \ erasing
    /\ credentials' = credentials \ {a}
    /\ erasing' = erasing \cup {a}
    /\ UNCHANGED <<flowVars, sessionVars, providers, reconnect, confirmed, excused>>

\* ...and deleteAccountState, the record and the sync state.  A credential that
\* a renewal has stored in the meantime stays.
EraseState(a) ==
    /\ a \in erasing
    /\ providers' = providers \ {a}
    /\ reconnect' = reconnect \ {a}
    /\ erasing' = erasing \ {a}
    /\ excused' = IF a \in credentials THEN excused \cup {a} ELSE excused \ {a}
    /\ UNCHANGED <<flowVars, sessionVars, credentials, confirmed, events>>

EraseFails(a) ==
    /\ a \in erasing
    /\ erasing' = erasing \ {a}
    /\ excused' = excused \cup {a}
    /\ UNCHANGED <<flowVars, sessionVars, storeVars, confirmed, events>>

-----------------------------------------------------------------------------
(* AccountConnectionRecoveryCommandService *)

Recoveries == [account : Accounts, expected : OneSided]

\* prepare and confirm: the text for the state shown has been entered within
\* the windows of challenge and confirmation.  One recovery at a time, a bound.
ConfirmRecovery(a) ==
    /\ Status(a) \in OneSided
    /\ confirmed = {}
    /\ confirmed' = {[account |-> a, expected |-> Status(a)]}
    /\ UNCHANGED <<flowVars, sessionVars, storeVars, erasing, excused, events>>

\* Mutant: the state confirmed is taken for the state found.
RecoverableUnchecked(r) == r \in confirmed

Recoverable(r) == r \in confirmed /\ Status(r.account) = r.expected

\* recover: the state is still the one confirmed; the confirmation is consumed
\* and the half that is left is deleted.
Recover(r) ==
    /\ Recoverable(r)
    /\ confirmed' = {}
    /\ IF r.expected = "credential-only"
       THEN credentials' = credentials \ {r.account} /\ UNCHANGED <<providers, reconnect>>
       ELSE providers' = providers \ {r.account} /\ reconnect' = reconnect \ {r.account}
            /\ UNCHANGED credentials
    /\ excused' = {a \in excused : Status(a)' \in OneSided}
    /\ UNCHANGED <<flowVars, sessionVars, erasing, events>>

-----------------------------------------------------------------------------
\* A crash may come between the two writes of a connection.
StoreInCrash ==
    \/ UNCHANGED credentials
    \/ /\ flow["connect"].step = "protecting"
       /\ credentials' = credentials \cup {flow["connect"].account}

\* The process dies and starts again; the stores and the stored confirmations
\* are what is left.
Crash ==
    /\ Happens
    /\ flow' = [f \in Flows |-> Idle]
    /\ pending' = [f \in Flows |-> NoSession]
    /\ cancelled' = {}
    /\ adapter' = NoSession /\ loopback' = NoSession
    /\ listening' = {} /\ overdue' = {} /\ displaced' = {} /\ stuck' = {}
    /\ queued' = [s \in Sessions |-> "none"]
    /\ StoreInCrash
    /\ erasing' = {}
    /\ UNCHANGED <<issued, providers, reconnect, confirmed>>
    /\ excused' = excused \cup {a \in Accounts : Status(a)' \in OneSided}

\* What an awaited call does to a flow.
FlowStep(f) ==
    \/ ListenFails(f) \/ Listened(f)
    \/ Abandon(f) \/ RefusedUnread(f) \/ Refused(f) \/ Rejected(f)
    \/ Exchange(f) \/ ExchangeFails(f) \/ Granted(f)
    \/ StoreFails(f)
    \/ f = "renew" /\ StoreRenewed
    \/ f = "connect" /\ (StoreConnected \/ SaveFails)

AccountStep(a) ==
    TokenExpires(a) \/ EraseCredential(a) \/ EraseState(a) \/ EraseFails(a) \/ ConfirmRecovery(a)

Next ==
    \/ \E f \in Flows, a \in Accounts : Begin(f, a)
    \/ \E f \in Flows : FlowStep(f) \/ OpenFails(f) \/ Cancel(f)
    \/ \E s \in Sessions : Age(s) \/ TimerFires(s)
    \/ \E s \in Sessions, response \in Callbacks : Callback(s, response)
    \/ \E a \in Accounts : AccountStep(a)
    \/ \E r \in Recoveries : Recover(r)
    \/ Crash

Spec == Init /\ [][Next]_vars

\* Awaited calls settle (the requests to Google carry a timeout), time passes
\* and timers fire.  The user and Google need not do anything.
Fairness ==
    /\ \A f \in Flows : WF_vars(FlowStep(f))
    /\ \A s \in Sessions : WF_vars(Age(s)) /\ WF_vars(TimerFires(s))

FairSpec == Spec /\ Fairness

-----------------------------------------------------------------------------
(* Properties *)

\* Every variable has its type.
TypeOK ==
    /\ flow \in [Flows -> [step : {"idle", "listening", "waiting", "exchanging", "protecting"},
                           session : Sessions \cup {NoSession},
                           account : Accounts \cup {NoAccount},
                           callback : Callbacks \cup {"none", "awaited", "failed"},
                           tries : 0..(MaxTries - 1)]]
    /\ pending \in [Flows -> Sessions \cup {NoSession}]
    /\ cancelled \subseteq Flows
    /\ issued \in 0..MaxSessions
    /\ {adapter, loopback} \subseteq Sessions \cup {NoSession}
    /\ listening \subseteq Sessions /\ overdue \subseteq Sessions
    /\ displaced \subseteq Sessions /\ stuck \subseteq Sessions
    /\ queued \in [Sessions -> Callbacks \cup {"none"}]
    /\ credentials \subseteq Accounts /\ providers \subseteq Accounts
    /\ reconnect \subseteq providers
    /\ excused \subseteq Accounts /\ erasing \subseteq Accounts
    /\ confirmed \subseteq Recoveries
    /\ events \in 0..MaxEvents

\* Nothing is left open.  A failed, declined, expired or cancelled authorization
\* leaves nothing behind that would refuse the next one: with no flow in
\* progress, adapter, listener and services are free.  Every open server belongs
\* to the session the listener can still close, and no flow waits for a callback
\* that nobody can deliver any more.  Set apart are a session that an
\* overlapping begin of the other command has overwritten, whose server stays
\* open until the process ends; and one whose completion was refused unread, for
\* an over-long response, which the adapter keeps until the process ends.
NothingIsLeftOpen ==
    /\ (\A f \in Flows : flow[f].step = "idle")
         => /\ {adapter, loopback} \subseteq {NoSession} \cup stuck
            /\ pending = [f \in Flows |-> NoSession]
    /\ listening \subseteq {loopback} \cup displaced
    /\ \A f \in Flows :
         flow[f].callback = "awaited" =>
             loopback = flow[f].session \/ flow[f].session \in displaced

\* An account is one-sided only while a disconnect erases it, or when a write,
\* a rollback or a deletion failed, crashed, or wrote over another.
OneSidedIsExplained ==
    \A a \in Accounts : Status(a) \in OneSided => a \in excused \cup erasing

\* The recovery of a one-sided account never takes a half from a whole one: a
\* connected account loses a half to its own disconnect only.
WholeAccountsStayWhole ==
    [][\A a \in Connected : a \in Connected' \/ a \in (erasing \cup erasing')]_vars

\* A flow ends, by its callback or by the lifetime of its session, and the
\* command can be used again; overwritten sessions excepted.
FlowsEnd ==
    \A f \in Flows :
        flow[f].step # "idle" ~> flow[f].step = "idle" \/ flow[f].session \in displaced
=============================================================================
