----------------------------- MODULE GmailMailbox -----------------------------
(***************************************************************************)
(* GmailMailbox: the provider's side of a sync, as GoogleMailReadAdapter   *)
(* uses it.  None of it is code of the repository.  A mailbox has messages *)
(* and a history, one event per change; its history id is the number of    *)
(* events so far.  Old history is forgotten, after which a cursor that     *)
(* points before it is answered with 404.                                  *)
(***************************************************************************)
EXTENDS Naturals, Sequences, FiniteSets, FiniteSetsExt, SequencesExt

CONSTANTS
    NumMessages,
    InitialMail,    \* messages already there when the account is connected
    MaxEvents,      \* bound on the changes the mailbox goes through
    ListPage,       \* ids a page of messages.list holds
    HistoryPage     \* events a page of history.list holds

ASSUME MailboxAssumption ==
    /\ NumMessages \in Nat /\ InitialMail \in 0..NumMessages
    /\ MaxEvents \in Nat
    /\ ListPage \in Nat \ {0} /\ HistoryPage \in Nat \ {0}

VARIABLES
    mail,         \* "unsent", "unread", "read" or "deleted", by message
    log,          \* the history
    forgotten     \* the number of events no longer kept

mailboxVars == <<mail, log, forgotten>>

Mail == 1..NumMessages

Present == {m \in Mail : mail[m] \in {"unread", "read"}}

HistoryId == Len(log)

MailboxTypeOK ==
    /\ mail \in [Mail -> {"unsent", "unread", "read", "deleted"}]
    /\ log \in Seq([id : Mail, state : {"load", "delete"}])
    /\ forgotten \in 0..HistoryId

MailboxInit ==
    /\ mail = [m \in Mail |-> IF m <= InitialMail THEN "unread" ELSE "unsent"]
    /\ log = <<>>
    /\ forgotten = 0

Change(m, content, state) ==
    /\ HistoryId < MaxEvents
    /\ mail' = [mail EXCEPT ![m] = content]
    /\ log' = Append(log, [id |-> m, state |-> state])
    /\ UNCHANGED forgotten

\* messagesAdded
Arrive(m) ==
    /\ mail[m] = "unsent"
    /\ \A older \in 1..(m - 1) : mail[older] # "unsent"
    /\ Change(m, "unread", "load")

\* labelsAdded and labelsRemoved: the label is UNREAD
Relabel(m) ==
    /\ m \in Present
    /\ Change(m, IF mail[m] = "read" THEN "unread" ELSE "read", "load")

\* messagesDeleted
DeleteMessage(m) ==
    /\ m \in Present
    /\ Change(m, "deleted", "delete")

Forget ==
    /\ forgotten < HistoryId
    /\ forgotten' = HistoryId
    /\ UNCHANGED <<mail, log>>

MailboxNext ==
    \/ \E m \in Mail : Arrive(m) \/ Relabel(m) \/ DeleteMessage(m)
    \/ Forget

-------------------------------------------------------------------------------
(* What the adapter reads *)

\* messages.list, newest first: the messages after the one date and, on a later
\* page, before the message the page token stands for (0 is no token).
Listing(after, token) == {m \in Present : m > after /\ (token = 0 \/ m < token)}

ListedPage(after, token) ==
    {m \in Listing(after, token) :
        Cardinality({n \in Listing(after, token) : n > m}) < ListPage}

ListToken(after, token) ==
    IF ListedPage(after, token) = Listing(after, token) THEN 0
    ELSE Min(ListedPage(after, token))

\* history.list: a page begins where the page token says, or at the start id.
HistoryStart(start, token) == IF token = 0 THEN start ELSE token

HistoryEvents(start, token) ==
    LET first == HistoryStart(start, token)
    IN  SubSeq(log, first + 1, Min({first + HistoryPage, HistoryId}))

HistoryToken(start, token) ==
    LET last == HistoryStart(start, token) + HistoryPage
    IN  IF last < HistoryId THEN last ELSE 0
=============================================================================
