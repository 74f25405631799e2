---------------------------- MODULE MCDidRegistry ----------------------------
(* A small instance of DidRegistry for TLC. *)
EXTENDS DidRegistry, TLC

CONSTANTS a1, a2, hash, c1, c2, d1, d2, d3

\* What can be asked about a1, with one delegate that is no account.
MCCalls ==
    {call \in Call : /\ call.identity = a1
                     /\ call.entry \in {"add_delegate", "revoke_delegate"} =>
                           call.delegate \in Account}
    \cup {call \in Call : /\ call.identity = a1
                          /\ call.entry = "add_delegate"
                          /\ call.delegate = hash
                          /\ call.validity = 1}

\* Contracts and deploys are interchangeable.
Symmetric == Permutations({c1, c2}) \cup Permutations({d1, d2, d3})

=============================================================================
