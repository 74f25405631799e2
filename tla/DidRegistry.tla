----------------------------- MODULE DidRegistry -----------------------------
(***************************************************************************)
(* The DID registry on the Casper chain (casper/did_registry), and the     *)
(* deploys that call it: those of accounts that use it directly and those  *)
(* the API backend sends (ContractClient.kt).  A deploy names the contract *)
(* it calls, is signed by an account, and is executed, at most once, some  *)
(* time later; nobody waits for it.  Deploys are executed in any order.    *)
(*                                                                         *)
(* The registry can be installed again under the same name: the data stay  *)
(* in the old contract and the name leads to the new one.                  *)
(***************************************************************************)
EXTENDS Integers

CONSTANTS
    Account,          \* accounts: identities, owners, delegates, signers
    OtherKey,         \* keys that are no accounts (a contract's hash, a uref)
    Contract,         \* the contracts that can be installed
    DelegateType, AttributeName, AttributeValue,
    Validity,         \* the validities deploys ask for
    Word,             \* 2^64
    LastBlock,        \* bound: the block time at which the chain stops
    Deploy,           \* bound: the deploys that can be sent
    None

\* Validities are u64.
ASSUME RegistryParameters ==
    /\ Word \in Nat \ {0}
    /\ Validity \subseteq 0..(Word - 1)
    /\ LastBlock \in Nat

ASSUME RegistryNone ==
    None \notin Contract \cup Int \cup AttributeValue

Key == Account \cup OtherKey
U64 == 0..(Word - 1)

VARIABLES
    initialised,      \* the contracts that have run init: their key DID_NAME is set
    named,            \* what <did_name>_contract_hash names in the SBP's account
    owners,           \* contract -> identity -> Key
    delegates,        \* contract -> identity -> delegate type -> delegate -> expiry
    attributes,       \* contract -> identity -> attribute name -> value
    blocktime,
    deploy

dictionaries == <<owners, delegates, attributes>>
vars == <<initialised, named, dictionaries, blocktime, deploy>>

-----------------------------------------------------------------------------
(* Dictionaries and BTreeMaps are functions from the keys they hold. *)

EmptyMap == [x \in {} |-> None]

Upsert(map, key, value) ==
    [x \in DOMAIN map \cup {key} |-> IF x = key THEN value ELSE map[x]]

Remove(map, key) == [x \in DOMAIN map \ {key} |-> map[x]]

GetOrElse(map, key, default) == IF key \in DOMAIN map THEN map[key] ELSE default

\* The owner of an identity is the identity itself until it is handed over.
GetIdentityOwner(c, identity) == GetOrElse(owners[c], identity, identity)

DelegatesOf(c, identity, type) ==
    GetOrElse(GetOrElse(delegates[c], identity, EmptyMap), type, EmptyMap)

AttributesOf(c, identity) == GetOrElse(attributes[c], identity, EmptyMap)

-----------------------------------------------------------------------------
(* Deploys *)

Call ==
    [entry : {"change_owner"}, identity : Key, newOwner : Key]
    \cup [entry : {"add_delegate"}, identity : Key, type : DelegateType,
          delegate : Key, validity : Validity]
    \cup [entry : {"revoke_delegate"}, identity : Key, type : DelegateType,
          delegate : Key]
    \cup [entry : {"set_attribute"}, identity : Key, name : AttributeName,
          value : AttributeValue]
    \cup [entry : {"revoke_attribute"}, identity : Key, name : AttributeName]

\* Bound: the calls that are sent.
CONSTANT Calls
ASSUME CallsAreTyped == Calls \subseteq Call

Gone == [status : {"unsent", "gone"}]
\* at: the block time of its execution
Live == [status : {"sent", "done"}, caller : Account, contract : Contract,
         call : Call, at : Nat]

Is(d, status) == deploy[d].status = status

\* A deploy leaves for a contract; this changes nothing on the chain.
Send(d, caller, c, call) ==
    /\ Is(d, "unsent")
    /\ c \in initialised
    /\ deploy' = [deploy EXCEPT ![d] =
           [status |-> "sent", caller |-> caller, contract |-> c, call |-> call, at |-> 0]]
    /\ UNCHANGED <<initialised, named, dictionaries, blocktime>>

\* CasperContractClient.addDelegate: looks the contract up by its name, signs with
\* the keys it was given (of any account) and answers with the hash of the deploy.
SendAddDelegate(d, caller, call) ==
    /\ named # None
    /\ call.entry = "add_delegate"
    /\ call.delegate \in Account /\ call.identity \in Account
    /\ Send(d, caller, named, call)

\* key_to_str reverts for a key that is no account.
IsAccount(key) == key \in Account

\* Mutant: an identity keeps its rights after it was handed over.
EnforceOwnerOrIdentity(c, caller, identity) ==
    /\ IsAccount(identity)
    /\ caller \in {identity, GetIdentityOwner(c, identity)}

EnforceOwner(c, caller, identity) ==
    /\ IsAccount(identity)
    /\ caller = GetIdentityOwner(c, identity)

HasDelegate(c, identity, type, delegate) ==
    delegate \in DOMAIN DelegatesOf(c, identity, type)

HasAttribute(c, identity, name) == name \in DOMAIN AttributesOf(c, identity)

\* Mutant: the keys of delegates are not converted.
AcceptsAnyDelegate(c, caller, call) ==
    /\ EnforceOwner(c, caller, call.identity)
    /\ call.entry = "revoke_delegate" =>
          HasDelegate(c, call.identity, call.type, call.delegate)
    /\ call.entry = "revoke_attribute" => HasAttribute(c, call.identity, call.name)

\* What an entry point demands before it writes anything; it reverts otherwise.
Accepts(c, caller, call) ==
    /\ EnforceOwner(c, caller, call.identity)
    /\ call.entry \in {"add_delegate", "revoke_delegate"} => IsAccount(call.delegate)
    /\ call.entry = "revoke_delegate" =>
          HasDelegate(c, call.identity, call.type, call.delegate)
    /\ call.entry = "revoke_attribute" => HasAttribute(c, call.identity, call.name)

Accepted(d) == Accepts(deploy[d].contract, deploy[d].caller, deploy[d].call)

\* Deploy d is executed: it calls this entry point and is not reverted.
Runs(d, entry) ==
    /\ Is(d, "sent")
    /\ deploy[d].call.entry = entry
    /\ Accepted(d)
    /\ deploy' = [deploy EXCEPT ![d] = [@ EXCEPT !.status = "done", !.at = blocktime]]
    /\ UNCHANGED <<initialised, named, blocktime>>

\* A deploy whose call reverts, that is not executed in time or that never reached a
\* node: it leaves no trace on the chain.
Drop(d) ==
    /\ Is(d, "sent")
    /\ deploy' = [deploy EXCEPT ![d] = [status |-> "gone"]]
    /\ UNCHANGED <<initialised, named, dictionaries, blocktime>>

Tick ==
    /\ blocktime < LastBlock
    /\ blocktime' = blocktime + 1
    /\ UNCHANGED <<initialised, named, dictionaries, deploy>>

-----------------------------------------------------------------------------
(* Entry points *)

NewDictionaries(c) ==
    /\ owners' = [owners EXCEPT ![c] = EmptyMap]
    /\ delegates' = [delegates EXCEPT ![c] = EmptyMap]
    /\ attributes' = [attributes EXCEPT ![c] = EmptyMap]

\* init: anybody may call it, but only the first call is not reverted.  The first
\* call is made by call in the transaction that creates the contract, so a deploy
\* that calls init never changes anything and is left out of Call.
InitContract(c) ==
    /\ c \notin initialised
    /\ initialised' = initialised \cup {c}
    /\ NewDictionaries(c)

\* call: the session that installs a new contract in the SBP's account and makes the
\* name lead to it, whatever it led to before.
Install(c) ==
    /\ InitContract(c)
    /\ named' = c
    /\ UNCHANGED <<blocktime, deploy>>

\* Mutant: the two keys of upsert swapped.
ChangeOwnerSwapped(d) ==
    LET c == deploy[d].contract
        call == deploy[d].call
    IN  /\ Runs(d, "change_owner")
        /\ owners' = [owners EXCEPT ![c] = Upsert(@, call.newOwner, call.identity)]
        /\ UNCHANGED <<delegates, attributes>>

ChangeOwner(d) ==
    LET c == deploy[d].contract
        call == deploy[d].call
    IN  /\ Runs(d, "change_owner")
        /\ owners' = [owners EXCEPT ![c] = Upsert(@, call.identity, call.newOwner)]
        /\ UNCHANGED <<delegates, attributes>>

\* The new map of the identity's delegate types, the one of this type replaced.
PutDelegates(c, identity, type, delegatesForType) ==
    /\ delegates' = [delegates EXCEPT ![c] =
           Upsert(@, identity,
                  Upsert(GetOrElse(@, identity, EmptyMap), type, delegatesForType))]
    /\ UNCHANGED <<owners, attributes>>

\* The sum of two u64 wraps in a release build.
Expiry(validity) == (blocktime + validity) % Word

\* Mutant: a grant prolongs the one before.
AddDelegateProlongs(d) ==
    LET c == deploy[d].contract
        call == deploy[d].call
        known == DelegatesOf(c, call.identity, call.type)
    IN  /\ Runs(d, "add_delegate")
        /\ PutDelegates(c, call.identity, call.type,
               Upsert(known, call.delegate,
                      (GetOrElse(known, call.delegate, blocktime) + call.validity) % Word))

\* Mutant: the delegates of the type start from the default.
AddDelegateForgets(d) ==
    LET c == deploy[d].contract
        call == deploy[d].call
    IN  /\ Runs(d, "add_delegate")
        /\ PutDelegates(c, call.identity, call.type,
                        Upsert(EmptyMap, call.delegate, Expiry(call.validity)))

AddDelegate(d) ==
    LET c == deploy[d].contract
        call == deploy[d].call
        known == DelegatesOf(c, call.identity, call.type)
    IN  /\ Runs(d, "add_delegate")
        /\ PutDelegates(c, call.identity, call.type,
                        Upsert(known, call.delegate, Expiry(call.validity)))

RevokeDelegate(d) ==
    LET c == deploy[d].contract
        call == deploy[d].call
        known == DelegatesOf(c, call.identity, call.type)
    IN  /\ Runs(d, "revoke_delegate")
        /\ PutDelegates(c, call.identity, call.type, Remove(known, call.delegate))

PutAttributes(c, identity, attributesForIdentity) ==
    /\ attributes' = [attributes EXCEPT ![c] = Upsert(@, identity, attributesForIdentity)]
    /\ UNCHANGED <<owners, delegates>>

SetAttribute(d) ==
    LET c == deploy[d].contract
        call == deploy[d].call
    IN  /\ Runs(d, "set_attribute")
        /\ PutAttributes(c, call.identity,
                         Upsert(AttributesOf(c, call.identity), call.name, call.value))

RevokeAttribute(d) ==
    LET c == deploy[d].contract
        call == deploy[d].call
    IN  /\ Runs(d, "revoke_attribute")
        /\ PutAttributes(c, call.identity,
                         Remove(AttributesOf(c, call.identity), call.name))

-----------------------------------------------------------------------------
(* The specification *)

Init ==
    /\ initialised = {}
    /\ named = None
    /\ owners = [c \in Contract |-> EmptyMap]
    /\ delegates = [c \in Contract |-> EmptyMap]
    /\ attributes = [c \in Contract |-> EmptyMap]
    /\ blocktime = 0
    /\ deploy = [d \in Deploy |-> [status |-> "unsent"]]

Execute(d) ==
    \/ ChangeOwner(d)
    \/ AddDelegate(d)
    \/ RevokeDelegate(d)
    \/ SetAttribute(d)
    \/ RevokeAttribute(d)

Next ==
    \/ \E c \in Contract : Install(c)
    \/ \E d \in Deploy :
        \/ \E caller \in Account, c \in Contract, call \in Calls : Send(d, caller, c, call)
        \/ \E caller \in Account, call \in Calls : SendAddDelegate(d, caller, call)
        \/ Execute(d)
        \/ Drop(d)
    \/ Tick

Spec == Init /\ [][Next]_vars

-----------------------------------------------------------------------------
(* Properties *)

MapOK(map, keys, values) ==
    /\ DOMAIN map \subseteq keys
    /\ \A x \in DOMAIN map : map[x] \in values

OwnersOK ==
    /\ DOMAIN owners = Contract
    /\ \A c \in Contract : MapOK(owners[c], Account, Key)

DelegatesOK ==
    /\ DOMAIN delegates = Contract
    /\ \A c \in Contract :
        /\ DOMAIN delegates[c] \subseteq Account
        /\ \A i \in DOMAIN delegates[c] :
            /\ DOMAIN delegates[c][i] \subseteq DelegateType
            /\ \A t \in DOMAIN delegates[c][i] : MapOK(delegates[c][i][t], Account, U64)

AttributesOK ==
    /\ DOMAIN attributes = Contract
    /\ \A c \in Contract :
        /\ DOMAIN attributes[c] \subseteq Account
        /\ \A i \in DOMAIN attributes[c] :
            MapOK(attributes[c][i], AttributeName, AttributeValue)

DeploysOK ==
    /\ deploy \in [Deploy -> Gone \cup Live]
    /\ \A d \in Deploy :
        Is(d, "sent") \/ Is(d, "done") =>
            /\ deploy[d].contract \in initialised
            /\ deploy[d].at <= blocktime

\* The types of the state.  What has an owner, delegates or attributes is an account,
\* and deploys call contracts that are installed; nothing is stored in others.
RegistryTypeOK ==
    /\ initialised \subseteq Contract
    /\ named \in initialised \cup {None}
    /\ blocktime \in Nat
    /\ OwnersOK /\ DelegatesOK /\ AttributesOK /\ DeploysOK
    /\ \A c \in Contract \ initialised :
          owners[c] = EmptyMap /\ delegates[c] = EmptyMap /\ attributes[c] = EmptyMap

\* The DID document of an identity, as whoever queries the dictionaries resolves it.
ExpiryOf(c, identity, type, delegate) ==
    GetOrElse(DelegatesOf(c, identity, type), delegate, None)

Document(c, i) ==
    [owner |-> GetIdentityOwner(c, i),
     delegates |-> [t \in DelegateType |-> [a \in Account |-> ExpiryOf(c, i, t, a)]],
     attributes |-> [n \in AttributeName |-> GetOrElse(AttributesOf(c, i), n, None)]]

\* Deploy d is executed with success in this step.
Takes(d) == Is(d, "sent") /\ deploy'[d].status = "done"

\* The document of an identity changes only by a deploy that names it and is signed by
\* the account that owns it then: not by a former owner, not by a deploy that was
\* signed by the owner and is executed after the identity was handed over, not by
\* another installation, and not by a call about another identity.
OnlyOwnersChangeDocuments ==
    [][\A c \in Contract, i \in Account :
          Document(c, i)' # Document(c, i) =>
              \E d \in Deploy :
                  /\ Takes(d)
                  /\ deploy[d].contract = c
                  /\ deploy[d].call.identity = i
                  /\ deploy[d].caller = GetIdentityOwner(c, i)]_vars

HandOvers(c, i) ==
    {d \in Deploy : /\ Is(d, "done")
                    /\ deploy[d].contract = c
                    /\ deploy[d].call.entry = "change_owner"
                    /\ deploy[d].call.identity = i}

\* Whoever owns an identity got it through a chain of hand-overs that begins with the
\* identity itself, each signed by one who got it before: the owner is in every set
\* that has the identity and is closed under its hand-overs.
OwnershipHasATitle ==
    \A c \in Contract, i \in Account : \A S \in SUBSET Key :
        /\ i \in S
        /\ \A d \in HandOvers(c, i) : deploy[d].caller \in S => deploy[d].call.newOwner \in S
        => GetIdentityOwner(c, i) \in S

Grants(c, i, t, a) ==
    {d \in Deploy : /\ Is(d, "done")
                    /\ deploy[d].contract = c
                    /\ deploy[d].call.entry = "add_delegate"
                    /\ deploy[d].call.identity = i
                    /\ deploy[d].call.type = t
                    /\ deploy[d].call.delegate = a}

\* A delegation lasts as long as its latest grant says, counted from the execution of
\* the deploy, and never longer: earlier grants and their expiries leave no trace.  A
\* validity so large that the sum wraps gives a delegation that is over earlier.
DelegationsLastAsGranted ==
    \A c \in Contract, i \in Account, t \in DelegateType, a \in Account :
        ExpiryOf(c, i, t, a) # None =>
            \E d \in Grants(c, i, t, a) :
                LET until == deploy[d].at + deploy[d].call.validity
                IN  /\ \A other \in Grants(c, i, t, a) : deploy[other].at <= deploy[d].at
                    /\ ExpiryOf(c, i, t, a) <= until
                    /\ until < Word => ExpiryOf(c, i, t, a) = until

\* Every contract implements the documents of DidDocuments: nested maps rewritten as a
\* whole, defaults for what is missing and calls executed out of order look, from the
\* outside, like owners who change one entry of their documents at a time.
Documents == INSTANCE DidDocuments WITH
    Time <- U64,
    opened <- initialised,
    document <- [c \in Contract |-> [i \in Account |-> Document(c, i)]]

ImplementsDocuments == Documents!DocumentsSpec

=============================================================================
