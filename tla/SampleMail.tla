----------------------------- MODULE SampleMail -----------------------------
(***************************************************************************)
(* The sample data set and the two functions that take something out of    *)
(* it: applyRetentionPolicy and applyAccountDataRemoval.  Records never    *)
(* change, so a data set is, for every kind of record, the set of those    *)
(* that are left.                                                          *)
(***************************************************************************)
EXTENDS Integers

CONSTANTS
    SampleAccounts,
    People,
    Messages,    \* id -> [account, sender, receivedAt]
    Topics,      \* id -> [participants, messages, events], events as the messages they cite
    BriefItems   \* id -> [topic, account, citations]

MessageIds == DOMAIN Messages
TopicIds == DOMAIN Topics
BriefIds == DOMAIN BriefItems

Datasets == [accounts : SUBSET SampleAccounts, people : SUBSET People,
             messages : SUBSET MessageIds, topics : SUBSET TopicIds,
             briefItems : SUBSET BriefIds]

Fixtures == [accounts |-> SampleAccounts, people |-> People, messages |-> MessageIds,
             topics |-> TopicIds, briefItems |-> BriefIds]

NoRecords == [accounts |-> {}, people |-> {}, messages |-> {}, topics |-> {}, briefItems |-> {}]

\* Every reference leads to a record of the data set.
IsMailDataset(d) ==
    /\ \A m \in d.messages : Messages[m].account \in d.accounts /\ Messages[m].sender \in d.people
    /\ \A t \in d.topics : /\ Topics[t].participants \subseteq d.people
                           /\ Topics[t].messages \cup Topics[t].events \subseteq d.messages
    /\ \A b \in d.briefItems : /\ BriefItems[b].topic \in d.topics
                               /\ BriefItems[b].account \in d.accounts
                               /\ BriefItems[b].citations \subseteq d.messages

ASSUME FixturesAssumption ==
    /\ Messages \in [MessageIds -> [account : SampleAccounts, sender : People, receivedAt : Int]]
    /\ Topics \in [TopicIds -> [participants : SUBSET People, messages : SUBSET MessageIds,
                                events : SUBSET MessageIds]]
    /\ BriefItems \in [BriefIds -> [topic : TopicIds, account : SampleAccounts,
                                    citations : SUBSET MessageIds]]
    /\ IsMailDataset(Fixtures)

-----------------------------------------------------------------------------

\* Mutant: who takes part in a topic without writing is forgotten.
ReferencedBySender(people, messages, topics) ==
    {p \in people : \E m \in messages : Messages[m].sender = p}

\* retainReferencedPeople
Referenced(people, messages, topics) ==
    {p \in people : \/ \E m \in messages : Messages[m].sender = p
                    \/ \E t \in topics : p \in Topics[t].participants}

\* applyRetentionPolicy: a topic or a brief item stays when all of its evidence does.
Retained(d, cutoff) ==
    LET messages == {m \in d.messages : Messages[m].receivedAt >= cutoff}
        topics == {t \in d.topics : /\ Topics[t].messages # {}
                                    /\ Topics[t].messages \cup Topics[t].events \subseteq messages}
    IN [accounts |-> d.accounts,
        people |-> Referenced(d.people, messages, topics),
        messages |-> messages,
        topics |-> topics,
        briefItems |-> {b \in d.briefItems : /\ BriefItems[b].topic \in topics
                                             /\ BriefItems[b].citations # {}
                                             /\ BriefItems[b].citations \subseteq messages}]

\* applyAccountDataRemoval
WithoutAccount(d, a) ==
    LET messages == {m \in d.messages : Messages[m].account # a}
        topics == {t \in d.topics : Topics[t].messages \cup Topics[t].events \subseteq messages}
    IN IF a \notin d.accounts THEN d ELSE
       [accounts |-> d.accounts \ {a},
        people |-> Referenced(d.people, messages, topics),
        messages |-> messages,
        topics |-> topics,
        briefItems |-> {b \in d.briefItems : /\ BriefItems[b].account # a
                                             /\ BriefItems[b].topic \in topics
                                             /\ BriefItems[b].citations \subseteq messages}]

-----------------------------------------------------------------------------
(* What they should return, without saying how *)

PartOf(e, d) ==
    /\ e.accounts \subseteq d.accounts /\ e.people \subseteq d.people
    /\ e.messages \subseteq d.messages /\ e.topics \subseteq d.topics
    /\ e.briefItems \subseteq d.briefItems

\* A data set with nobody in it that nothing refers to.
Wanted(e) == IsMailDataset(e) /\ e.people = Referenced(e.people, e.messages, e.topics)

\* What retention may leave of d, and what a removal may.
InWindow(e, d, cutoff) ==
    /\ PartOf(e, d) /\ Wanted(e)
    /\ \A m \in e.messages : Messages[m].receivedAt >= cutoff
    /\ \A t \in e.topics : Topics[t].messages # {}
    /\ \A b \in e.briefItems : BriefItems[b].citations # {}

Apart(e, d, a) == PartOf(e, d) /\ Wanted(e) /\ a \notin e.accounts
=============================================================================
