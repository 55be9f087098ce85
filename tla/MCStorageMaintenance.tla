------------------------ MODULE MCStorageMaintenance ------------------------
(* Two sample accounts; a topic with a participant who has written nothing, *)
(* and one whose event cites a message of the other account.                *)
EXTENDS StorageMaintenance, TLC

CONSTANTS home, work, ann, bob, m1, m2, m3, t1, t2, b1, b2

SampleMessages ==
    m1 :> [account |-> home, sender |-> ann, receivedAt |-> 0]
    @@ m2 :> [account |-> home, sender |-> ann, receivedAt |-> 1]
    @@ m3 :> [account |-> work, sender |-> ann, receivedAt |-> 1]

SampleTopics ==
    t1 :> [participants |-> {ann, bob}, messages |-> {m2}, events |-> {m2}]
    @@ t2 :> [participants |-> {ann}, messages |-> {m1}, events |-> {m3}]

SampleBriefItems ==
    b1 :> [topic |-> t1, account |-> home, citations |-> {m2}]
    @@ b2 :> [topic |-> t1, account |-> home, citations |-> {m1, m2}]

Received == {<<"p1", 0>>, <<"p2", 1>>, <<"p3", 2>>}
=============================================================================
