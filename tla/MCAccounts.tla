----------------------------- MODULE MCAccounts -----------------------------
(* A small instance of Accounts for TLC. *)
EXTENDS Accounts, TLC

CONSTANTS user1, user2, auser1, anna

\* the name of auser1 contains that of user1
FoundByName == (user1 :> {user1, auser1}) @@ (user2 :> {user2})

InitialTwo == <<user1, user2>>

Symmetric == Permutations(Request)
=============================================================================
