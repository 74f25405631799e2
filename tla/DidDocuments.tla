---------------------------- MODULE DidDocuments ----------------------------
(***************************************************************************)
(* What the DID registry promises: a registry is opened once, and then     *)
(* holds a document for every account.  An account owns its own identity   *)
(* until it hands it over; whoever owns an identity, and nobody else,      *)
(* changes one thing of its document at a time.  An identity handed to     *)
(* something that cannot sign stays as it is for ever.                     *)
(***************************************************************************)
EXTENDS Naturals

CONSTANTS
    Account, Key, Contract, DelegateType, AttributeName, AttributeValue,
    Time,        \* the times until which delegates may be valid
    None

VARIABLES
    opened,      \* the registries that are open
    document     \* registry -> identity -> document

OwnDocument(i) ==
    [owner |-> i,
     delegates |-> [t \in DelegateType |-> [a \in Account |-> None]],
     attributes |-> [n \in AttributeName |-> None]]

OwnDocuments == [i \in Account |-> OwnDocument(i)]

DocumentsInit ==
    /\ opened = {}
    /\ document = [c \in Contract |-> OwnDocuments]

Open(c) ==
    /\ c \notin opened
    /\ opened' = opened \cup {c}
    /\ document' = [document EXCEPT ![c] = OwnDocuments]

\* The owner, an account, replaces the document of i by new.
Edit(c, i, new) ==
    /\ c \in opened
    /\ document[c][i].owner \in Account
    /\ opened' = opened
    /\ document' = [document EXCEPT ![c][i] = new]

HandOver(c, i, k) ==
    Edit(c, i, [document[c][i] EXCEPT !.owner = k])

Delegate(c, i, t, a, until) ==
    Edit(c, i, [document[c][i] EXCEPT !.delegates[t][a] = until])

Withdraw(c, i, t, a) ==
    /\ document[c][i].delegates[t][a] # None
    /\ Delegate(c, i, t, a, None)

Describe(c, i, n, value) ==
    Edit(c, i, [document[c][i] EXCEPT !.attributes[n] = value])

Forget(c, i, n) ==
    /\ document[c][i].attributes[n] # None
    /\ Describe(c, i, n, None)

DocumentsNext ==
    \E c \in Contract :
        \/ Open(c)
        \/ \E i \in Account :
            \/ \E k \in Key : HandOver(c, i, k)
            \/ \E t \in DelegateType, a \in Account :
                \/ \E until \in Time : Delegate(c, i, t, a, until)
                \/ Withdraw(c, i, t, a)
            \/ \E n \in AttributeName :
                \/ \E value \in AttributeValue : Describe(c, i, n, value)
                \/ Forget(c, i, n)

DocumentsSpec == DocumentsInit /\ [][DocumentsNext]_<<opened, document>>

=============================================================================
