------------------------------ MODULE MCMailSync ------------------------------
(* Instances of MailSync: three messages in one or two conversations. *)
EXTENDS MailSync

CONSTANTS t1, t2

MailContents == {"unread", "read"}

NowhereCursor == [mode |-> "none", historyId |-> 0, page |-> 0, offset |-> 0, after |-> 0]

AdapterCursors ==
    [mode : {"full", "history"}, historyId : 0..MaxEvents,
     page : 0..(NumMessages + MaxEvents), offset : 0..MaxEvents, after : 0..MaxCutoff]

\* The first and the last message are one conversation.
TwoThreads == (1 :> t1) @@ (2 :> t2) @@ (3 :> t1)
=============================================================================
