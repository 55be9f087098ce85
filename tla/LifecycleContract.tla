-------------------------- MODULE LifecycleContract --------------------------
(***************************************************************************)
(* What the local lifecycle promises, without phases, failures, retries or *)
(* processes: an operation is begun with a set of accounts to remove, only *)
(* beside work it does not overlap; it is completed only when nothing of   *)
(* these accounts is held any more; and what a completed operation has     *)
(* removed never comes back.                                               *)
(***************************************************************************)
CONSTANTS
    Accounts,    \* account ids
    Stores,      \* places that hold data of an account
    AccountOps,  \* operations that remove one account
    GlobalOps    \* operations that remove every account

VARIABLES
    status,    \* "none", "pending" or "completed", per operation
    promised,  \* the accounts each operation is to remove
    held       \* pairs of a store and an account it holds data of

contractVars == <<status, promised, held>>

AllOps == AccountOps \cup GlobalOps

Init ==
    /\ status = [op \in AllOps |-> "none"]
    /\ promised \in [AllOps -> SUBSET Accounts]
    /\ held \subseteq Stores \X Accounts

\* Global work is alone; work on accounts overlaps in no account.
MayBeginBeside(op, p) ==
    /\ op \in AccountOps
    /\ p \in AccountOps
    /\ promised[op] \cap promised[p] = {}

Begin(op) ==
    /\ status[op] = "none"
    /\ \A p \in AllOps : status[p] = "pending" => MayBeginBeside(op, p)
    /\ status' = [status EXCEPT ![op] = "pending"]
    /\ \A p \in AllOps : promised'[p] = promised[p] \/ (p = op /\ op \in GlobalOps)
    /\ UNCHANGED held

Complete(op) ==
    /\ status[op] = "pending"
    /\ \A s \in Stores, a \in promised[op] : <<s, a>> \notin held
    /\ status' = [status EXCEPT ![op] = "completed"]
    /\ UNCHANGED <<promised, held>>

\* Data comes and goes, except that of an account some completed operation
\* has promised to remove.
Change ==
    /\ \A op \in AllOps : status[op] = "completed" =>
         \A s \in Stores, a \in promised[op] : <<s, a>> \notin held'
    /\ held' \subseteq Stores \X Accounts
    /\ UNCHANGED <<status, promised>>

Next == Change \/ \E op \in AllOps : Begin(op) \/ Complete(op)

Spec == Init /\ [][Next]_contractVars
=============================================================================
