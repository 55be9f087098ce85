----------------------- MODULE MCAccountConnection -----------------------
(* Small instances of AccountConnection for TLC. *)
EXTENDS AccountConnection

CONSTANTS a1, a2

TwoAccounts == {a1, a2}

\* a1 is connected and may be renewed; a2 is the fresh id of a connection.
FirstAccount == {a1}
=============================================================================
