---------------------------- MODULE MCMailAccess ----------------------------
(* A small instance of MailAccess for TLC. *)
EXTENDS MailAccess

CONSTANTS a1, a2

TwoAccounts == {a1, a2}

\* The refreshes of one account in every order, and two accounts that share the
\* pacer and the worker.
DeepAndWide ==
    {[runs |-> {a1}, commanded |-> {a1}, refreshes |-> 2, messages |-> 1,
      idle |-> 1, ends |-> "quit"],
     [runs |-> {a1, a2}, commanded |-> {}, refreshes |-> 1, messages |-> 2,
      idle |-> 0, ends |-> "deletion"]}

JobsOfWorker == AllJobs

\* What begins a page costs less than a message.
UnitsOf(request) == IF request[2] = 0 THEN 1 ELSE 2
=============================================================================
