------------------------- MODULE MCAccountDeletion -------------------------
(* An instance of AccountDeletion for TLC.  There is one sequence number    *)
(* for a message that does not parse and one for the account's request, and *)
(* each may be used again once nothing remembers it.                        *)
EXTENDS AccountDeletion
=============================================================================
