-------------------------- MODULE DidRegistryProofs --------------------------
(* What the DID registry guarantees for every value of its constants. *)
EXTENDS DidRegistry, TLAPS

LEMMA UpsertIs ==
    ASSUME NEW map, NEW key, NEW value
    PROVE  /\ DOMAIN Upsert(map, key, value) = DOMAIN map \cup {key}
           /\ Upsert(map, key, value)[key] = value
           /\ \A x \in DOMAIN map : x # key => Upsert(map, key, value)[x] = map[x]
  BY DEF Upsert

LEMMA RemoveIs ==
    ASSUME NEW map, NEW key
    PROVE  /\ DOMAIN Remove(map, key) = DOMAIN map \ {key}
           /\ \A x \in DOMAIN map : x # key => Remove(map, key)[x] = map[x]
  BY DEF Remove

LEMMA UpsertOK ==
    ASSUME NEW keys, NEW values, NEW map, NEW key \in keys, NEW value \in values,
           MapOK(map, keys, values)
    PROVE  MapOK(Upsert(map, key, value), keys, values)
  BY DEF Upsert, MapOK

LEMMA RemoveOK ==
    ASSUME NEW keys, NEW values, NEW map, NEW key, MapOK(map, keys, values)
    PROVE  MapOK(Remove(map, key), keys, values)
  BY DEF Remove, MapOK

LEMMA EmptyMapIs == DOMAIN EmptyMap = {} /\ \A K, V : MapOK(EmptyMap, K, V)
  BY DEF EmptyMap, MapOK

LEMMA ExpiryType == \A v \in Validity : blocktime \in Nat => Expiry(v) \in U64
  BY RegistryParameters DEF Expiry, U64

\* What is known of a deploy that is on its way or done.
LEMMA LiveDeploy ==
    ASSUME DeploysOK, NEW d \in Deploy, Is(d, "sent") \/ Is(d, "done")
    PROVE  /\ deploy[d].caller \in Account
           /\ deploy[d].contract \in Contract
           /\ deploy[d].contract \in initialised
           /\ deploy[d].call \in Call
           /\ deploy[d].at \in Nat
           /\ deploy[d].at <= blocktime
<1>1. deploy[d] \in Live
  BY DEF DeploysOK, Is, Gone
<1> QED
  BY <1>1 DEF Live, DeploysOK

\* What the entry points have in common.
LEMMA RunsType ==
    ASSUME RegistryTypeOK, NEW d \in Deploy, NEW entry, Runs(d, entry)
    PROVE  /\ deploy[d].contract \in initialised
           /\ deploy[d].contract \in Contract
           /\ deploy[d].call \in Call
           /\ deploy[d].call.entry = entry
           /\ deploy[d].call.identity \in Account
           /\ deploy[d].caller \in Account
           /\ deploy[d].caller
                = GetIdentityOwner(deploy[d].contract, deploy[d].call.identity)
           /\ entry \in {"add_delegate", "revoke_delegate"} =>
                 deploy[d].call.delegate \in Account
           /\ deploy' \in [Deploy -> Gone \cup Live]
           /\ DeploysOK'
           /\ Takes(d)
           /\ \A x \in Deploy \ {d} : deploy'[x] = deploy[x]
           /\ deploy'[d] = [deploy[d] EXCEPT !.status = "done", !.at = blocktime]
<1>0. /\ DeploysOK /\ blocktime \in Nat
      /\ Is(d, "sent") /\ deploy[d].call.entry = entry /\ Accepted(d)
      /\ deploy' = [deploy EXCEPT ![d] = [@ EXCEPT !.status = "done", !.at = blocktime]]
      /\ initialised' = initialised /\ blocktime' = blocktime
  BY DEF RegistryTypeOK, Runs
<1>1. deploy[d] \in Live
  BY <1>0 DEF DeploysOK, Is, Gone
<1>2. [deploy[d] EXCEPT !.status = "done", !.at = blocktime] \in Live
  BY <1>0, <1>1 DEF Live
<1>3. /\ \A x \in Deploy \ {d} : deploy'[x] = deploy[x]
      /\ deploy'[d] = [deploy[d] EXCEPT !.status = "done", !.at = blocktime]
      /\ deploy' \in [Deploy -> Gone \cup Live]
  BY <1>0, <1>2 DEF DeploysOK
<1>4. DeploysOK'
  BY <1>0, <1>1, <1>3, LiveDeploy DEF DeploysOK, Is, Live
<1>5. Takes(d)
  BY <1>0, <1>1, <1>3 DEF Takes, Live
<1> QED
  BY <1>0, <1>3, <1>4, <1>5, LiveDeploy DEF Accepted, Accepts, EnforceOwner, IsAccount

LEMMA RegistryInit == Init => RegistryTypeOK
  BY EmptyMapIs DEF Init, RegistryTypeOK, OwnersOK, DelegatesOK, AttributesOK, DeploysOK,
     MapOK, Gone, Is

LEMMA CallFields ==
    ASSUME NEW call \in Call
    PROVE  /\ call.identity \in Key
           /\ call.entry = "change_owner" => call.newOwner \in Key
           /\ call.entry \in {"add_delegate", "revoke_delegate"} => call.type \in DelegateType
           /\ call.entry = "add_delegate" => call.validity \in Validity
           /\ call.entry \in {"set_attribute", "revoke_attribute"} =>
                 call.name \in AttributeName
           /\ call.entry = "set_attribute" => call.value \in AttributeValue
  BY DEF Call

\* The delegates of a type, and the attributes, that the entry points read.
LEMMA ReadsOK ==
    ASSUME DelegatesOK, AttributesOK, NEW c \in Contract, NEW i, NEW t
    PROVE  /\ MapOK(DelegatesOf(c, i, t), Account, U64)
           /\ MapOK(AttributesOf(c, i), AttributeName, AttributeValue)
  BY EmptyMapIs DEF DelegatesOf, AttributesOf, GetOrElse, DelegatesOK, AttributesOK

\* The map of an identity's delegate types is replaced by one of its type.
LEMMA PutDelegatesOK ==
    ASSUME DelegatesOK, NEW c \in Contract, NEW i \in Account, NEW t \in DelegateType,
           NEW map, MapOK(map, Account, U64), PutDelegates(c, i, t, map)
    PROVE  DelegatesOK'
<1> DEFINE types == Upsert(GetOrElse(delegates[c], i, EmptyMap), t, map)
<1>1. /\ DOMAIN types \subseteq DelegateType
      /\ \A x \in DOMAIN types : MapOK(types[x], Account, U64)
  BY EmptyMapIs DEF Upsert, GetOrElse, DelegatesOK
<1>2. /\ DOMAIN delegates' = Contract
      /\ delegates'[c] = Upsert(delegates[c], i, types)
      /\ \A x \in Contract \ {c} : delegates'[x] = delegates[x]
  BY DEF PutDelegates, DelegatesOK
<1> HIDE DEF types
<1>3. /\ DOMAIN delegates'[c] = DOMAIN delegates[c] \cup {i}
      /\ delegates'[c][i] = types
      /\ \A x \in DOMAIN delegates[c] : x # i => delegates'[c][x] = delegates[c][x]
  BY <1>2 DEF Upsert
<1> QED
  BY <1>1, <1>2, <1>3 DEF DelegatesOK

LEMMA PutAttributesOK ==
    ASSUME AttributesOK, NEW c \in Contract, NEW i \in Account,
           NEW map, MapOK(map, AttributeName, AttributeValue), PutAttributes(c, i, map)
    PROVE  AttributesOK'
<1>1. /\ DOMAIN attributes' = Contract
      /\ attributes'[c] = Upsert(attributes[c], i, map)
      /\ \A x \in Contract \ {c} : attributes'[x] = attributes[x]
  BY DEF PutAttributes, AttributesOK
<1>2. /\ DOMAIN attributes'[c] = DOMAIN attributes[c] \cup {i}
      /\ attributes'[c][i] = map
      /\ \A x \in DOMAIN attributes[c] : x # i => attributes'[c][x] = attributes[c][x]
  BY <1>1 DEF Upsert
<1> QED
  BY <1>1, <1>2 DEF AttributesOK

\* Executing a deploy, installing a contract, sending, dropping and waiting all keep the
\* dictionaries well typed.
LEMMA RegistryStep == RegistryTypeOK /\ [Next]_vars => RegistryTypeOK'
<1> SUFFICES ASSUME RegistryTypeOK, [Next]_vars PROVE RegistryTypeOK'
  OBVIOUS
<1>0. /\ initialised \subseteq Contract /\ named \in initialised \cup {None}
      /\ blocktime \in Nat
      /\ OwnersOK /\ DelegatesOK /\ AttributesOK /\ DeploysOK
      /\ \A c \in Contract \ initialised :
            owners[c] = EmptyMap /\ delegates[c] = EmptyMap /\ attributes[c] = EmptyMap
  BY DEF RegistryTypeOK
<1>1. ASSUME NEW c \in Contract, Install(c) PROVE RegistryTypeOK'
  <2>1. /\ initialised' = initialised \cup {c} /\ named' = c
        /\ UNCHANGED <<blocktime, deploy>>
        /\ owners' = [owners EXCEPT ![c] = EmptyMap]
        /\ delegates' = [delegates EXCEPT ![c] = EmptyMap]
        /\ attributes' = [attributes EXCEPT ![c] = EmptyMap]
    BY <1>1 DEF Install, InitContract, NewDictionaries
  <2>2. OwnersOK'
    BY <1>0, <2>1, EmptyMapIs DEF OwnersOK
  <2>3. DelegatesOK'
    BY <1>0, <2>1, EmptyMapIs DEF DelegatesOK
  <2>4. AttributesOK'
    BY <1>0, <2>1, EmptyMapIs DEF AttributesOK
  <2>5. DeploysOK'
    BY <1>0, <2>1 DEF DeploysOK, Is
  <2>6. \A x \in Contract \ initialised' :
           owners'[x] = EmptyMap /\ delegates'[x] = EmptyMap /\ attributes'[x] = EmptyMap
    BY <1>0, <2>1 DEF OwnersOK, DelegatesOK, AttributesOK
  <2> QED
    BY <1>0, <2>1, <2>2, <2>3, <2>4, <2>5, <2>6 DEF RegistryTypeOK
<1>2. ASSUME NEW d \in Deploy, NEW caller \in Account, NEW c \in Contract,
             NEW call \in Calls, Send(d, caller, c, call)
      PROVE  RegistryTypeOK'
  <2> DEFINE sent == [status |-> "sent", caller |-> caller, contract |-> c,
                      call |-> call, at |-> 0]
  <2>1. sent \in Live /\ c \in initialised
    BY <1>2, CallsAreTyped DEF Live, Send
  <2>2. deploy' = [deploy EXCEPT ![d] = sent]
        /\ UNCHANGED <<initialised, named, owners, delegates, attributes, blocktime>>
    BY <1>2 DEF Send, dictionaries
  <2>3. DeploysOK'
    BY <1>0, <2>1, <2>2 DEF DeploysOK, Is
  <2> QED
    BY <1>0, <2>2, <2>3 DEF RegistryTypeOK, OwnersOK, DelegatesOK, AttributesOK
<1>3. ASSUME NEW d \in Deploy, Drop(d) PROVE RegistryTypeOK'
  <2>1. deploy' = [deploy EXCEPT ![d] = [status |-> "gone"]]
        /\ UNCHANGED <<initialised, named, owners, delegates, attributes, blocktime>>
    BY <1>3 DEF Drop, dictionaries
  <2>2. [status |-> "gone"] \in Gone
    BY DEF Gone
  <2>3. DeploysOK'
    BY <1>0, <2>1, <2>2 DEF DeploysOK, Is
  <2> QED
    BY <1>0, <2>1, <2>3 DEF RegistryTypeOK, OwnersOK, DelegatesOK, AttributesOK
<1>4. CASE Tick
  <2>1. blocktime' = blocktime + 1 /\ UNCHANGED <<initialised, named, dictionaries, deploy>>
    BY <1>4 DEF Tick
  <2>2. DeploysOK'
    <3>1. \A d \in Deploy : Is(d, "sent") \/ Is(d, "done") => deploy[d].at <= blocktime + 1
      BY <1>0, LiveDeploy
    <3> QED
      BY <1>0, <2>1, <3>1 DEF DeploysOK, Is
  <2> QED
    BY <1>0, <2>1, <2>2 DEF RegistryTypeOK, OwnersOK, DelegatesOK, AttributesOK, dictionaries
<1>5. ASSUME NEW d \in Deploy, Execute(d) PROVE RegistryTypeOK'
  <2> DEFINE c == deploy[d].contract
             call == deploy[d].call
  <2>1. ASSUME NEW entry, Runs(d, entry), OwnersOK', DelegatesOK', AttributesOK',
               \A x \in Contract \ {c} : /\ owners'[x] = owners[x]
                                         /\ delegates'[x] = delegates[x]
                                         /\ attributes'[x] = attributes[x]
        PROVE  RegistryTypeOK'
    <3>1. /\ UNCHANGED <<initialised, named, blocktime>>
          /\ DeploysOK' /\ c \in initialised
      BY <2>1, RunsType DEF Runs
    <3> QED
      BY <1>0, <2>1, <3>1 DEF RegistryTypeOK
  <2>2. CASE ChangeOwner(d)
    <3>1. Runs(d, "change_owner") /\ UNCHANGED <<delegates, attributes>>
          /\ owners' = [owners EXCEPT ![c] = Upsert(@, call.identity, call.newOwner)]
      BY <2>2 DEF ChangeOwner
    <3>2. c \in Contract /\ call.identity \in Account /\ call.newOwner \in Key
      BY <3>1, RunsType, CallFields
    <3>3. MapOK(Upsert(owners[c], call.identity, call.newOwner), Account, Key)
      BY <1>0, <3>2, UpsertOK DEF OwnersOK
    <3>4. OwnersOK'
      BY <1>0, <3>1, <3>2, <3>3 DEF OwnersOK
    <3> QED
      BY <1>0, <2>1, <3>1, <3>2, <3>4 DEF OwnersOK, DelegatesOK, AttributesOK
  <2>3. CASE AddDelegate(d)
    <3> DEFINE map == Upsert(DelegatesOf(c, call.identity, call.type), call.delegate,
                             Expiry(call.validity))
    <3>1. Runs(d, "add_delegate") /\ PutDelegates(c, call.identity, call.type, map)
      BY <2>3 DEF AddDelegate
    <3>2. /\ c \in Contract /\ call.identity \in Account /\ call.type \in DelegateType
          /\ call.delegate \in Account /\ call.validity \in Validity
      BY <3>1, RunsType, CallFields
    <3>3. MapOK(map, Account, U64)
      BY <1>0, <3>2, ReadsOK, ExpiryType, UpsertOK
    <3> HIDE DEF map
    <3>4. DelegatesOK'
      BY <1>0, <3>1, <3>2, <3>3, PutDelegatesOK
    <3> QED
      BY <1>0, <2>1, <3>1, <3>2, <3>4 DEF PutDelegates, OwnersOK, DelegatesOK, AttributesOK
  <2>4. CASE RevokeDelegate(d)
    <3> DEFINE map == Remove(DelegatesOf(c, call.identity, call.type), call.delegate)
    <3>1. Runs(d, "revoke_delegate") /\ PutDelegates(c, call.identity, call.type, map)
      BY <2>4 DEF RevokeDelegate
    <3>2. c \in Contract /\ call.identity \in Account /\ call.type \in DelegateType
      BY <3>1, RunsType, CallFields
    <3>3. MapOK(map, Account, U64)
      BY <1>0, <3>2, ReadsOK, RemoveOK
    <3> HIDE DEF map
    <3>4. DelegatesOK'
      BY <1>0, <3>1, <3>2, <3>3, PutDelegatesOK
    <3> QED
      BY <1>0, <2>1, <3>1, <3>2, <3>4 DEF PutDelegates, OwnersOK, DelegatesOK, AttributesOK
  <2>5. CASE SetAttribute(d)
    <3> DEFINE map == Upsert(AttributesOf(c, call.identity), call.name, call.value)
    <3>1. Runs(d, "set_attribute") /\ PutAttributes(c, call.identity, map)
      BY <2>5 DEF SetAttribute
    <3>2. /\ c \in Contract /\ call.identity \in Account
          /\ call.name \in AttributeName /\ call.value \in AttributeValue
      BY <3>1, RunsType, CallFields
    <3>3. MapOK(map, AttributeName, AttributeValue)
      BY <1>0, <3>2, ReadsOK, UpsertOK
    <3> HIDE DEF map
    <3>4. AttributesOK'
      BY <1>0, <3>1, <3>2, <3>3, PutAttributesOK
    <3> QED
      BY <1>0, <2>1, <3>1, <3>2, <3>4 DEF PutAttributes, OwnersOK, DelegatesOK, AttributesOK
  <2>6. CASE RevokeAttribute(d)
    <3> DEFINE map == Remove(AttributesOf(c, call.identity), call.name)
    <3>1. Runs(d, "revoke_attribute") /\ PutAttributes(c, call.identity, map)
      BY <2>6 DEF RevokeAttribute
    <3>2. c \in Contract /\ call.identity \in Account
      BY <3>1, RunsType
    <3>3. MapOK(map, AttributeName, AttributeValue)
      BY <1>0, <3>2, ReadsOK, RemoveOK
    <3> HIDE DEF map
    <3>4. AttributesOK'
      BY <1>0, <3>1, <3>2, <3>3, PutAttributesOK
    <3> QED
      BY <1>0, <2>1, <3>1, <3>2, <3>4 DEF PutAttributes, OwnersOK, DelegatesOK, AttributesOK
  <2> QED
    BY <1>5, <2>2, <2>3, <2>4, <2>5, <2>6 DEF Execute
<1>6. CASE UNCHANGED vars
  BY <1>0, <1>6 DEF vars, dictionaries, RegistryTypeOK, OwnersOK, DelegatesOK, AttributesOK,
     DeploysOK, Is
<1>7. ASSUME NEW d \in Deploy, NEW caller \in Account, NEW call \in Calls,
             SendAddDelegate(d, caller, call)
      PROVE  RegistryTypeOK'
  BY <1>0, <1>2, <1>7 DEF SendAddDelegate
<1> QED
  BY <1>1, <1>2, <1>3, <1>4, <1>5, <1>6, <1>7 DEF Next

\* The state of the registry has its types: whatever deploys are executed, in whatever
\* order, only accounts have entries, and no deploy calls a contract without data.
THEOREM RegistryTypeCorrect == Spec => []RegistryTypeOK
<1>1. RegistryTypeOK /\ [Next]_vars => RegistryTypeOK'
  BY RegistryStep
<1> QED
  BY RegistryInit, <1>1, PTL DEF Spec

-----------------------------------------------------------------------------
(* What a step does to the documents. *)

\* Each entry point writes one map; what is read of every other one is as it was.
LEMMA AfterChangeOwner ==
    ASSUME RegistryTypeOK, NEW d \in Deploy, ChangeOwner(d)
    PROVE  \A c \in Contract, i \in Account :
              /\ GetIdentityOwner(c, i)' =
                    IF c = deploy[d].contract /\ i = deploy[d].call.identity
                    THEN deploy[d].call.newOwner ELSE GetIdentityOwner(c, i)
              /\ \A t : DelegatesOf(c, i, t)' = DelegatesOf(c, i, t)
              /\ AttributesOf(c, i)' = AttributesOf(c, i)
<1> DEFINE c0 == deploy[d].contract
           call == deploy[d].call
<1>1. /\ owners' = [owners EXCEPT ![c0] = Upsert(@, call.identity, call.newOwner)]
      /\ delegates' = delegates /\ attributes' = attributes
  BY DEF ChangeOwner
<1>2. DOMAIN owners = Contract
  BY DEF RegistryTypeOK, OwnersOK
<1> QED
  BY <1>1, <1>2 DEF GetIdentityOwner, DelegatesOf, AttributesOf, GetOrElse, Upsert

LEMMA AfterPutDelegates ==
    ASSUME RegistryTypeOK, NEW c0, NEW i0, NEW t0, NEW map, PutDelegates(c0, i0, t0, map)
    PROVE  \A c \in Contract, i \in Account :
              /\ GetIdentityOwner(c, i)' = GetIdentityOwner(c, i)
              /\ \A t : DelegatesOf(c, i, t)' =
                    IF c = c0 /\ i = i0 /\ t = t0 THEN map ELSE DelegatesOf(c, i, t)
              /\ AttributesOf(c, i)' = AttributesOf(c, i)
<1> DEFINE types == Upsert(GetOrElse(delegates[c0], i0, EmptyMap), t0, map)
<1>1. /\ delegates' = [delegates EXCEPT ![c0] = Upsert(@, i0, types)]
      /\ owners' = owners /\ attributes' = attributes
  BY DEF PutDelegates
<1>2. DOMAIN delegates = Contract
  BY DEF RegistryTypeOK, DelegatesOK
<1>3. \A t : GetOrElse(types, t, EmptyMap) =
               IF t = t0 THEN map
               ELSE GetOrElse(GetOrElse(delegates[c0], i0, EmptyMap), t, EmptyMap)
  BY DEF Upsert, GetOrElse
<1> HIDE DEF types
<1>4. \A c \in Contract, i \in Account :
         GetOrElse(delegates'[c], i, EmptyMap) =
            IF c = c0 /\ i = i0 THEN types ELSE GetOrElse(delegates[c], i, EmptyMap)
  BY <1>1, <1>2 DEF Upsert, GetOrElse
<1> QED
  BY <1>1, <1>3, <1>4 DEF GetIdentityOwner, DelegatesOf, AttributesOf

LEMMA AfterPutAttributes ==
    ASSUME RegistryTypeOK, NEW c0, NEW i0, NEW map, PutAttributes(c0, i0, map)
    PROVE  \A c \in Contract, i \in Account :
              /\ GetIdentityOwner(c, i)' = GetIdentityOwner(c, i)
              /\ \A t : DelegatesOf(c, i, t)' = DelegatesOf(c, i, t)
              /\ AttributesOf(c, i)' =
                    IF c = c0 /\ i = i0 THEN map ELSE AttributesOf(c, i)
<1>1. /\ attributes' = [attributes EXCEPT ![c0] = Upsert(@, i0, map)]
      /\ owners' = owners /\ delegates' = delegates
  BY DEF PutAttributes
<1>2. DOMAIN attributes = Contract
  BY DEF RegistryTypeOK, AttributesOK
<1> QED
  BY <1>1, <1>2 DEF GetIdentityOwner, DelegatesOf, AttributesOf, GetOrElse, Upsert

\* A step that executes no deploy changes nothing that is read of an identity.
LEMMA QuietStep ==
    ASSUME RegistryTypeOK, [Next]_vars, ~\E d \in Deploy : Execute(d)
    PROVE  \A c \in Contract, i \in Account :
              /\ GetIdentityOwner(c, i)' = GetIdentityOwner(c, i)
              /\ \A t : DelegatesOf(c, i, t)' = DelegatesOf(c, i, t)
              /\ AttributesOf(c, i)' = AttributesOf(c, i)
<1>1. CASE \E c \in Contract : Install(c)
  <2>1. PICK x \in Contract : Install(x)
    BY <1>1
  <2>2. owners[x] = EmptyMap /\ delegates[x] = EmptyMap /\ attributes[x] = EmptyMap
    BY <2>1 DEF Install, InitContract, RegistryTypeOK
  <2>3. \A c \in Contract : /\ owners'[c] = owners[c] /\ delegates'[c] = delegates[c]
                           /\ attributes'[c] = attributes[c]
    BY <2>1, <2>2 DEF Install, InitContract, NewDictionaries, RegistryTypeOK, OwnersOK,
       DelegatesOK, AttributesOK
  <2> QED
    BY <2>3 DEF GetIdentityOwner, DelegatesOf, AttributesOf
<1>2. CASE ~\E c \in Contract : Install(c)
  <2>1. UNCHANGED dictionaries
    BY <1>2 DEF Next, Send, SendAddDelegate, Drop, Tick, vars, dictionaries
  <2> QED
    BY <2>1 DEF dictionaries, GetIdentityOwner, DelegatesOf, AttributesOf
<1> QED
  BY <1>1, <1>2

\* An executed deploy is signed by the owner and changes the document it names only.
LEMMA ExecutedByOwner ==
    ASSUME RegistryTypeOK, NEW d \in Deploy, Execute(d)
    PROVE  /\ Takes(d)
           /\ deploy[d].contract \in initialised
           /\ deploy[d].contract \in Contract
           /\ deploy[d].call \in Call
           /\ deploy[d].call.identity \in Account
           /\ deploy[d].caller \in Account
           /\ deploy[d].caller
                 = GetIdentityOwner(deploy[d].contract, deploy[d].call.identity)
  BY RunsType DEF Execute, ChangeOwner, AddDelegate, RevokeDelegate, SetAttribute,
     RevokeAttribute

LEMMA OtherDocuments ==
    ASSUME RegistryTypeOK, NEW d \in Deploy, Execute(d),
           NEW c \in Contract, NEW i \in Account,
           c # deploy[d].contract \/ i # deploy[d].call.identity
    PROVE  Document(c, i)' = Document(c, i)
<1>1. /\ GetIdentityOwner(c, i)' = GetIdentityOwner(c, i)
      /\ \A t : DelegatesOf(c, i, t)' = DelegatesOf(c, i, t)
      /\ AttributesOf(c, i)' = AttributesOf(c, i)
  <2>1. CASE ChangeOwner(d)
    BY <2>1, AfterChangeOwner
  <2>2. CASE AddDelegate(d)
    BY <2>2, AfterPutDelegates DEF AddDelegate
  <2>3. CASE RevokeDelegate(d)
    BY <2>3, AfterPutDelegates DEF RevokeDelegate
  <2>4. CASE SetAttribute(d)
    BY <2>4, AfterPutAttributes DEF SetAttribute
  <2>5. CASE RevokeAttribute(d)
    BY <2>5, AfterPutAttributes DEF RevokeAttribute
  <2> QED
    BY <2>1, <2>2, <2>3, <2>4, <2>5 DEF Execute
<1> QED
  BY <1>1 DEF Document, ExpiryOf

LEMMA QuietDocuments ==
    ASSUME RegistryTypeOK, [Next]_vars, ~\E d \in Deploy : Execute(d)
    PROVE  \A c \in Contract, i \in Account : Document(c, i)' = Document(c, i)
  BY QuietStep DEF Document, ExpiryOf

\* Only the owner of an identity changes its document, whichever deploys are on their
\* way and in whichever order they are executed.
THEOREM DocumentsChangeByOwners == Spec => OnlyOwnersChangeDocuments
<1>1. ASSUME RegistryTypeOK, [Next]_vars
      PROVE  \A c \in Contract, i \in Account :
                Document(c, i)' # Document(c, i) =>
                    \E d \in Deploy :
                        /\ Takes(d)
                        /\ deploy[d].contract = c
                        /\ deploy[d].call.identity = i
                        /\ deploy[d].caller = GetIdentityOwner(c, i)
  <2>1. CASE \E d \in Deploy : Execute(d)
    BY <1>1, <2>1, ExecutedByOwner, OtherDocuments
  <2>2. CASE ~\E d \in Deploy : Execute(d)
    BY <1>1, <2>2, QuietDocuments
  <2> QED
    BY <2>1, <2>2
<1> QED
  BY <1>1, RegistryTypeCorrect, PTL DEF Spec, OnlyOwnersChangeDocuments

-----------------------------------------------------------------------------
(* What the executed deploys say of the state. *)

\* An executed deploy stays as it is, and at most one deploy is executed in a step.
LEMMA DoneStays ==
    ASSUME RegistryTypeOK, [Next]_vars, NEW d \in Deploy, Is(d, "done")
    PROVE  deploy'[d] = deploy[d]
<1>1. deploy \in [Deploy -> Gone \cup Live]
  BY DEF RegistryTypeOK, DeploysOK
<1> QED
  BY <1>1 DEF Next, Install, Send, SendAddDelegate, Drop, Tick, Execute, ChangeOwner,
     AddDelegate, RevokeDelegate, SetAttribute, RevokeAttribute, Runs, Is, vars

LEMMA QuietDone ==
    ASSUME RegistryTypeOK, [Next]_vars, ~\E d \in Deploy : Execute(d), NEW d \in Deploy,
           Is(d, "done")'
    PROVE  Is(d, "done")
<1>1. deploy \in [Deploy -> Gone \cup Live]
  BY DEF RegistryTypeOK, DeploysOK
<1>2. ASSUME NEW x \in Deploy, NEW caller, NEW c, NEW call, Send(x, caller, c, call)
      PROVE  Is(d, "done")
  BY <1>1, <1>2 DEF Send, Is
<1>3. ASSUME NEW x \in Deploy, Drop(x) PROVE Is(d, "done")
  BY <1>1, <1>3 DEF Drop, Is
<1>4. CASE UNCHANGED deploy
  BY <1>4 DEF Is
<1> QED
  BY <1>2, <1>3, <1>4 DEF Next, Install, SendAddDelegate, Tick, vars

\* The inductive step: a set closed under the hand-overs of the new state is closed under
\* those of the old one, so it has the account that signed the new hand-over.
LEMMA TitleStep ==
    RegistryTypeOK /\ OwnershipHasATitle /\ [Next]_vars => OwnershipHasATitle'
<1> SUFFICES ASSUME RegistryTypeOK, OwnershipHasATitle, [Next]_vars,
                    NEW c \in Contract, NEW i \in Account, NEW S \in SUBSET Key, i \in S,
                    \A d \in HandOvers(c, i)' :
                       deploy'[d].caller \in S => deploy'[d].call.newOwner \in S
             PROVE  GetIdentityOwner(c, i)' \in S
  BY DEF OwnershipHasATitle
<1>1. \A d \in HandOvers(c, i) : d \in HandOvers(c, i)' /\ deploy'[d] = deploy[d]
  BY DoneStays DEF HandOvers, Is
<1>2. GetIdentityOwner(c, i) \in S
  BY <1>1 DEF OwnershipHasATitle
<1>3. CASE \E d \in Deploy : ChangeOwner(d) /\ deploy[d].contract = c
                                       /\ deploy[d].call.identity = i
  <2>1. PICK d \in Deploy : ChangeOwner(d) /\ deploy[d].contract = c
                                        /\ deploy[d].call.identity = i
    BY <1>3
  <2>2. /\ deploy'[d] = [deploy[d] EXCEPT !.status = "done", !.at = blocktime]
        /\ deploy[d].call.entry = "change_owner" /\ Takes(d)
        /\ deploy[d].caller = GetIdentityOwner(c, i)
    BY <2>1, RunsType DEF ChangeOwner
  <2>3. deploy[d] \in Live
    BY <2>1 DEF ChangeOwner, Runs, Is, RegistryTypeOK, DeploysOK, Gone
  <2>4. /\ deploy'[d].caller = deploy[d].caller /\ deploy'[d].call = deploy[d].call
        /\ deploy'[d].contract = c /\ deploy'[d].status = "done"
    BY <2>1, <2>2, <2>3 DEF Live
  <2>5. d \in HandOvers(c, i)'
    BY <2>1, <2>2, <2>4 DEF HandOvers, Is
  <2>6. GetIdentityOwner(c, i)' = deploy[d].call.newOwner
    BY <2>1, AfterChangeOwner
  <2> QED
    BY <1>2, <2>2, <2>4, <2>5, <2>6
<1>4. CASE ~\E d \in Deploy : ChangeOwner(d) /\ deploy[d].contract = c
                                        /\ deploy[d].call.identity = i
  <2>1. GetIdentityOwner(c, i)' = GetIdentityOwner(c, i)
    BY <1>4, QuietStep, AfterChangeOwner, AfterPutDelegates, AfterPutAttributes
       DEF Execute, AddDelegate, RevokeDelegate, SetAttribute, RevokeAttribute
  <2> QED
    BY <1>2, <2>1
<1> QED
  BY <1>3, <1>4

\* Every ownership is the end of a chain of hand-overs that begins with the identity.
THEOREM OwnersHaveATitle == Spec => []OwnershipHasATitle
<1>1. Init => OwnershipHasATitle
  BY EmptyMapIs DEF Init, OwnershipHasATitle, GetIdentityOwner, GetOrElse
<1> QED
  BY <1>1, TitleStep, RegistryTypeCorrect, PTL DEF Spec

LEMMA Sums ==
    ASSUME NEW a \in Nat, NEW v \in Nat
    PROVE  /\ (a + v) % Word \in Nat
           /\ (a + v) % Word <= a + v
           /\ a + v < Word => (a + v) % Word = a + v
  BY RegistryParameters

\* The expiry of a delegate is written by calls that name it and by no other.
LEMMA ExpiryWritten ==
    ASSUME RegistryTypeOK, [Next]_vars, NEW c \in Contract, NEW i \in Account,
           NEW t \in DelegateType, NEW a \in Account
    PROVE  \/ ExpiryOf(c, i, t, a)' = ExpiryOf(c, i, t, a)
           \/ ExpiryOf(c, i, t, a)' = None
           \/ \E d \in Deploy :
                 /\ AddDelegate(d)
                 /\ deploy[d].contract = c /\ deploy[d].call.identity = i
                 /\ deploy[d].call.type = t /\ deploy[d].call.delegate = a
                 /\ ExpiryOf(c, i, t, a)' = Expiry(deploy[d].call.validity)
<1>1. ASSUME NEW d \in Deploy, AddDelegate(d)
      PROVE  \/ ExpiryOf(c, i, t, a)' = ExpiryOf(c, i, t, a)
             \/ /\ deploy[d].contract = c /\ deploy[d].call.identity = i
                /\ deploy[d].call.type = t /\ deploy[d].call.delegate = a
                /\ ExpiryOf(c, i, t, a)' = Expiry(deploy[d].call.validity)
  BY <1>1, AfterPutDelegates DEF AddDelegate, ExpiryOf, GetOrElse, Upsert
<1>2. ASSUME NEW d \in Deploy, RevokeDelegate(d)
      PROVE  \/ ExpiryOf(c, i, t, a)' = ExpiryOf(c, i, t, a)
             \/ ExpiryOf(c, i, t, a)' = None
  BY <1>2, AfterPutDelegates DEF RevokeDelegate, ExpiryOf, GetOrElse, Remove
<1>3. ASSUME ~\E d \in Deploy : AddDelegate(d) \/ RevokeDelegate(d)
      PROVE  ExpiryOf(c, i, t, a)' = ExpiryOf(c, i, t, a)
  BY <1>3, QuietStep, AfterChangeOwner, AfterPutAttributes
     DEF Execute, SetAttribute, RevokeAttribute, ExpiryOf
<1> QED
  BY <1>1, <1>2, <1>3

\* The deploys that are done after deploy d was executed.
LEMMA NewlyDone ==
    ASSUME RegistryTypeOK, NEW d \in Deploy, NEW entry, Runs(d, entry), NEW x \in Deploy,
           Is(x, "done")', x # d
    PROVE  Is(x, "done") /\ deploy'[x] = deploy[x]
  BY RunsType DEF Is

\* The inductive step.  A new grant is executed at the present block time, so it is the
\* latest; what another call writes is no grant of this delegate.
LEMMA GrantStep ==
    RegistryTypeOK /\ RegistryTypeOK' /\ DelegationsLastAsGranted /\ [Next]_vars
      => DelegationsLastAsGranted'
<1> SUFFICES ASSUME RegistryTypeOK, RegistryTypeOK', DelegationsLastAsGranted, [Next]_vars,
                    NEW c \in Contract, NEW i \in Account, NEW t \in DelegateType,
                    NEW a \in Account, ExpiryOf(c, i, t, a)' # None
             PROVE  \E d \in Grants(c, i, t, a)' :
                       LET until == deploy'[d].at + deploy'[d].call.validity
                       IN  /\ \A other \in Grants(c, i, t, a)' :
                                 deploy'[other].at <= deploy'[d].at
                           /\ ExpiryOf(c, i, t, a)' <= until
                           /\ until < Word => ExpiryOf(c, i, t, a)' = until
  BY DEF DelegationsLastAsGranted
<1> DEFINE e == ExpiryOf(c, i, t, a)
<1>1. ASSUME NEW d \in Deploy, AddDelegate(d), deploy[d].contract = c,
             deploy[d].call.identity = i, deploy[d].call.type = t,
             deploy[d].call.delegate = a
      PROVE  \E x \in Grants(c, i, t, a)' :
                LET until == deploy'[x].at + deploy'[x].call.validity
                IN  /\ \A other \in Grants(c, i, t, a)' :
                          deploy'[other].at <= deploy'[x].at
                    /\ e' <= until
                    /\ until < Word => e' = until
  <2>1. /\ deploy'[d] = [deploy[d] EXCEPT !.status = "done", !.at = blocktime]
        /\ deploy[d].call.entry = "add_delegate" /\ deploy[d].call \in Call
        /\ blocktime' = blocktime /\ blocktime \in Nat
    BY <1>1, RunsType DEF AddDelegate, Runs, RegistryTypeOK
  <2>2. deploy[d] \in Live
    BY <1>1 DEF AddDelegate, Runs, Is, RegistryTypeOK, DeploysOK, Gone
  <2>3. /\ deploy'[d].call = deploy[d].call /\ deploy'[d].contract = c
        /\ deploy'[d].status = "done" /\ deploy'[d].at = blocktime
    BY <1>1, <2>1, <2>2 DEF Live
  <2>4. d \in Grants(c, i, t, a)'
    BY <1>1, <2>1, <2>3 DEF Grants, Is
  <2>5. \A other \in Grants(c, i, t, a)' : deploy'[other].at <= blocktime
    BY <2>1 DEF Grants, RegistryTypeOK, DeploysOK
  <2>6. e' = (blocktime + deploy[d].call.validity) % Word
    BY <1>1, AfterPutDelegates, UpsertIs DEF AddDelegate, ExpiryOf, GetOrElse, Upsert, Expiry
  <2>7. deploy[d].call.validity \in Nat
    BY <2>1, CallFields, RegistryParameters
  <2>8. /\ e' <= blocktime + deploy[d].call.validity
        /\ blocktime + deploy[d].call.validity < Word =>
              e' = blocktime + deploy[d].call.validity
    BY <2>1, <2>6, <2>7, Sums
  <2> HIDE DEF e
  <2> QED
    BY <2>3, <2>4, <2>5, <2>8
<1>2. CASE ~\E d \in Deploy : /\ AddDelegate(d) /\ deploy[d].contract = c
                            /\ deploy[d].call.identity = i /\ deploy[d].call.type = t
                            /\ deploy[d].call.delegate = a
  <2>1. e' = e /\ e # None
    BY <1>2, ExpiryWritten
  <2>2. PICK d \in Grants(c, i, t, a) :
           LET until == deploy[d].at + deploy[d].call.validity
           IN  /\ \A other \in Grants(c, i, t, a) : deploy[other].at <= deploy[d].at
               /\ e <= until
               /\ until < Word => e = until
    BY <2>1 DEF DelegationsLastAsGranted
  <2>3. d \in Grants(c, i, t, a)' /\ deploy'[d] = deploy[d]
    BY <2>2, DoneStays DEF Grants, Is
  <2>4. ASSUME NEW x \in Grants(c, i, t, a)'
        PROVE  x \in Grants(c, i, t, a) /\ deploy'[x] = deploy[x]
    <3>1. x \in Deploy /\ Is(x, "done")'
      BY <2>4 DEF Grants
    <3>2. CASE Is(x, "done")
      BY <2>4, <3>1, <3>2, DoneStays DEF Grants, Is
    <3>3. CASE ~Is(x, "done")
      <4>1. PICK y \in Deploy : Execute(y)
        BY <3>1, <3>3, QuietDone
      <4>2. PICK entry : Runs(y, entry)
        BY <4>1 DEF Execute, ChangeOwner, AddDelegate, RevokeDelegate, SetAttribute,
           RevokeAttribute
      <4>3. x = y
        BY <3>1, <3>3, <4>2, NewlyDone
      <4>4. deploy[x] \in Live
        BY <4>2, <4>3 DEF Runs, Is, RegistryTypeOK, DeploysOK, Gone
      <4>5. deploy'[x].call = deploy[x].call /\ deploy'[x].contract = deploy[x].contract
        BY <4>2, <4>3, <4>4, RunsType DEF Live
      <4>6. deploy[x].call.entry = "add_delegate"
        BY <2>4, <4>5 DEF Grants
      <4>7. AddDelegate(x)
        BY <4>1, <4>3, <4>6 DEF Execute, ChangeOwner, RevokeDelegate, SetAttribute,
           RevokeAttribute, Runs
      <4> QED
        BY <1>2, <2>4, <3>1, <4>5, <4>7 DEF Grants
    <3> QED
      BY <3>2, <3>3
  <2> QED
    BY <2>1, <2>2, <2>3, <2>4
<1> QED
  BY <1>1, <1>2

\* A delegation lasts as its latest grant says, counted from the grant's execution.
THEOREM DelegationsAreTimely == Spec => []DelegationsLastAsGranted
<1>1. Init => DelegationsLastAsGranted
  BY EmptyMapIs DEF Init, DelegationsLastAsGranted, ExpiryOf, DelegatesOf, GetOrElse
<1> QED
  BY <1>1, GrantStep, RegistryTypeCorrect, PTL DEF Spec

-----------------------------------------------------------------------------
(* The registry implements DidDocuments. *)

Docs == [c \in Contract |-> [i \in Account |-> Document(c, i)]]

\* Executing deploy d edits one document as its owner may.
LEMMA Edits ==
    ASSUME RegistryTypeOK, NEW d \in Deploy, Execute(d),
           NEW c, c = deploy[d].contract, NEW i, i = deploy[d].call.identity,
           NEW new, Document(c, i)' = new
    PROVE  Documents!Edit(c, i, new)
<1>1. /\ c \in initialised /\ c \in Contract /\ i \in Account
      /\ GetIdentityOwner(c, i) \in Account
  BY ExecutedByOwner
<1>2. \A x \in Contract, y \in Account :
         x # c \/ y # i => Document(x, y)' = Document(x, y)
  BY OtherDocuments
<1>3. initialised' = initialised
  BY DEF Execute, ChangeOwner, AddDelegate, RevokeDelegate, SetAttribute,
     RevokeAttribute, Runs
<1>4. Docs[c][i].owner \in Account
  BY <1>1 DEF Docs, Document
<1>5. Docs' = [Docs EXCEPT ![c][i] = new]
  <2>1. Docs' = [x \in Contract |-> [y \in Account |-> Document(x, y)']]
    BY DEF Docs
  <2>2. \A x \in Contract, y \in Account :
           Document(x, y)' = IF x = c /\ y = i THEN new ELSE Document(x, y)
    BY <1>2
  <2> QED
    BY <1>1, <2>1, <2>2 DEF Docs
<1> QED
  BY <1>1, <1>3, <1>4, <1>5 DEF Documents!Edit, Docs

\* Each entry point is the edit of the same name.
LEMMA ExecuteEdits ==
    ASSUME RegistryTypeOK, NEW d \in Deploy, Execute(d)
    PROVE  Documents!DocumentsNext
<1>0. PICK c \in Contract, i \in Account, call \in Call :
         c = deploy[d].contract /\ call = deploy[d].call /\ i = call.identity
  BY ExecutedByOwner
<1> DEFINE doc == Docs[c][i]
<1>1. c \in Contract /\ i \in Account /\ doc = Document(c, i)
  BY DEF Docs
<1>2. CASE ChangeOwner(d)
  <2>1. call.newOwner \in Key
    BY <1>0, <1>2, RunsType, CallFields DEF ChangeOwner
  <2>2. Document(c, i)' = [doc EXCEPT !.owner = call.newOwner]
    BY <1>0, <1>1, <1>2, AfterChangeOwner DEF Document, ExpiryOf
  <2>3. Documents!HandOver(c, i, call.newOwner)
    BY <1>0, <2>2, Edits DEF Documents!HandOver, Docs
  <2> QED
    BY <1>1, <2>1, <2>3 DEF Documents!DocumentsNext
<1>3. CASE AddDelegate(d)
  <2> DEFINE until == Expiry(call.validity)
  <2>1. call.type \in DelegateType /\ call.delegate \in Account /\ until \in U64
    BY <1>0, <1>3, RunsType, CallFields, ExpiryType DEF AddDelegate, RegistryTypeOK
  <2>2. \A t \in DelegateType, a \in Account :
           ExpiryOf(c, i, t, a)' = IF t = call.type /\ a = call.delegate THEN until
                                   ELSE ExpiryOf(c, i, t, a)
    BY <1>0, <1>1, <1>3, AfterPutDelegates DEF AddDelegate, ExpiryOf, GetOrElse, Upsert
  <2>3. GetIdentityOwner(c, i)' = GetIdentityOwner(c, i)
        /\ AttributesOf(c, i)' = AttributesOf(c, i)
    BY <1>0, <1>1, <1>3, AfterPutDelegates DEF AddDelegate
  <2>4. Document(c, i)' = [doc EXCEPT !.delegates[call.type][call.delegate] = until]
    <3> DEFINE known == [t \in DelegateType |-> [a \in Account |-> ExpiryOf(c, i, t, a)]]
    <3>1. Document(c, i)' =
             [owner |-> GetIdentityOwner(c, i),
              delegates |-> [t \in DelegateType |-> [a \in Account |-> ExpiryOf(c, i, t, a)']],
              attributes |-> doc.attributes]
      BY <1>1, <2>3 DEF Document
    <3>2. [t \in DelegateType |-> [a \in Account |-> ExpiryOf(c, i, t, a)']] =
             [known EXCEPT ![call.type] = [known[call.type] EXCEPT ![call.delegate] = until]]
      BY <2>1, <2>2
    <3>3. doc = [owner |-> GetIdentityOwner(c, i), delegates |-> known,
                 attributes |-> doc.attributes]
      BY <1>1 DEF Document
    <3> HIDE DEF known, doc
    <3>4. \A new : [doc EXCEPT !.delegates = new] =
                      [owner |-> GetIdentityOwner(c, i), delegates |-> new,
                       attributes |-> doc.attributes]
      BY <3>3
    <3>5. doc.delegates = known
      BY <3>3
    <3> QED
      BY <3>1, <3>2, <3>4, <3>5
  <2>5. Documents!Delegate(c, i, call.type, call.delegate, until)
    BY <1>0, <2>4, Edits DEF Documents!Delegate, Docs
  <2> QED
    BY <1>1, <2>1, <2>5 DEF Documents!DocumentsNext
<1>4. CASE RevokeDelegate(d)
  <2>1. call.type \in DelegateType /\ call.delegate \in Account
        /\ call.delegate \in DOMAIN DelegatesOf(c, i, call.type)
    BY <1>0, <1>4, RunsType, CallFields DEF RevokeDelegate, Runs, Accepted, Accepts, HasDelegate, HasAttribute, EnforceOwner, IsAccount
  <2>2. \A t \in DelegateType, a \in Account :
           ExpiryOf(c, i, t, a)' = IF t = call.type /\ a = call.delegate THEN None
                                   ELSE ExpiryOf(c, i, t, a)
    BY <1>0, <1>1, <1>4, AfterPutDelegates DEF RevokeDelegate, ExpiryOf, GetOrElse, Remove
  <2>3. GetIdentityOwner(c, i)' = GetIdentityOwner(c, i)
        /\ AttributesOf(c, i)' = AttributesOf(c, i)
    BY <1>0, <1>1, <1>4, AfterPutDelegates DEF RevokeDelegate
  <2>4. Document(c, i)' = [doc EXCEPT !.delegates[call.type][call.delegate] = None]
    <3> DEFINE known == [t \in DelegateType |-> [a \in Account |-> ExpiryOf(c, i, t, a)]]
    <3>1. Document(c, i)' =
             [owner |-> GetIdentityOwner(c, i),
              delegates |-> [t \in DelegateType |-> [a \in Account |-> ExpiryOf(c, i, t, a)']],
              attributes |-> doc.attributes]
      BY <1>1, <2>3 DEF Document
    <3>2. [t \in DelegateType |-> [a \in Account |-> ExpiryOf(c, i, t, a)']] =
             [known EXCEPT ![call.type] = [known[call.type] EXCEPT ![call.delegate] = None]]
      BY <2>1, <2>2
    <3>3. doc = [owner |-> GetIdentityOwner(c, i), delegates |-> known,
                 attributes |-> doc.attributes]
      BY <1>1 DEF Document
    <3> HIDE DEF known, doc
    <3>4. \A new : [doc EXCEPT !.delegates = new] =
                      [owner |-> GetIdentityOwner(c, i), delegates |-> new,
                       attributes |-> doc.attributes]
      BY <3>3
    <3>5. doc.delegates = known
      BY <3>3
    <3> QED
      BY <3>1, <3>2, <3>4, <3>5
  <2>5. ExpiryOf(c, i, call.type, call.delegate) # None
    BY <1>1, <2>1, ReadsOK, RegistryNone DEF RegistryTypeOK, MapOK, ExpiryOf, GetOrElse, U64
  <2>6. doc.delegates[call.type][call.delegate] # None
    BY <1>1, <2>1, <2>5 DEF Document
  <2>7. Documents!Withdraw(c, i, call.type, call.delegate)
    BY <1>0, <2>4, <2>6, Edits DEF Documents!Withdraw, Documents!Delegate, Docs
  <2> QED
    BY <1>1, <2>1, <2>7 DEF Documents!DocumentsNext
<1>5. CASE SetAttribute(d)
  <2>1. call.name \in AttributeName /\ call.value \in AttributeValue
    BY <1>0, <1>5, RunsType, CallFields DEF SetAttribute
  <2>2. Document(c, i)' = [doc EXCEPT !.attributes[call.name] = call.value]
    <3> DEFINE shown(map) == [n \in AttributeName |-> GetOrElse(map, n, None)]
    <3>1. /\ GetIdentityOwner(c, i)' = GetIdentityOwner(c, i)
          /\ \A t : DelegatesOf(c, i, t)' = DelegatesOf(c, i, t)
          /\ AttributesOf(c, i)' = Upsert(AttributesOf(c, i), call.name, call.value)
      BY <1>0, <1>1, <1>5, AfterPutAttributes DEF SetAttribute
    <3>2. Document(c, i)' = [doc EXCEPT !.attributes = shown(Upsert(AttributesOf(c, i), call.name, call.value))]
      BY <1>1, <3>1 DEF Document, ExpiryOf
    <3>3. shown(Upsert(AttributesOf(c, i), call.name, call.value))
             = [shown(AttributesOf(c, i)) EXCEPT ![call.name] = call.value]
      BY <2>1 DEF GetOrElse, Upsert
    <3>4. doc.attributes = shown(AttributesOf(c, i))
      BY <1>1 DEF Document
    <3> HIDE DEF shown, doc
    <3> QED
      BY <3>2, <3>3, <3>4
  <2>3. Documents!Describe(c, i, call.name, call.value)
    BY <1>0, <2>2, Edits DEF Documents!Describe, Docs
  <2> QED
    BY <1>1, <2>1, <2>3 DEF Documents!DocumentsNext
<1>6. CASE RevokeAttribute(d)
  <2>1. call.name \in AttributeName /\ call.name \in DOMAIN AttributesOf(c, i)
    BY <1>0, <1>6, RunsType, CallFields DEF RevokeAttribute, Runs, Accepted, Accepts, HasDelegate, HasAttribute, EnforceOwner, IsAccount
  <2>2. Document(c, i)' = [doc EXCEPT !.attributes[call.name] = None]
    <3> DEFINE shown(map) == [n \in AttributeName |-> GetOrElse(map, n, None)]
    <3>1. /\ GetIdentityOwner(c, i)' = GetIdentityOwner(c, i)
          /\ \A t : DelegatesOf(c, i, t)' = DelegatesOf(c, i, t)
          /\ AttributesOf(c, i)' = Remove(AttributesOf(c, i), call.name)
      BY <1>0, <1>1, <1>6, AfterPutAttributes DEF RevokeAttribute
    <3>2. Document(c, i)' = [doc EXCEPT !.attributes = shown(Remove(AttributesOf(c, i), call.name))]
      BY <1>1, <3>1 DEF Document, ExpiryOf
    <3>3. shown(Remove(AttributesOf(c, i), call.name))
             = [shown(AttributesOf(c, i)) EXCEPT ![call.name] = None]
      BY <2>1 DEF GetOrElse, Remove
    <3>4. doc.attributes = shown(AttributesOf(c, i))
      BY <1>1 DEF Document
    <3> HIDE DEF shown, doc
    <3> QED
      BY <3>2, <3>3, <3>4
  <2>3. doc.attributes[call.name] # None
    <3>1. AttributesOf(c, i)[call.name] \in AttributeValue
      BY <1>1, <2>1, ReadsOK DEF RegistryTypeOK, MapOK
    <3>2. doc.attributes[call.name] = AttributesOf(c, i)[call.name]
      BY <1>1, <2>1 DEF Document, GetOrElse
    <3> QED
      BY <3>1, <3>2, RegistryNone
  <2>4. Documents!Forget(c, i, call.name)
    BY <1>0, <2>2, <2>3, Edits DEF Documents!Forget, Documents!Describe, Docs
  <2> QED
    BY <1>1, <2>1, <2>4 DEF Documents!DocumentsNext
<1> QED
  BY <1>2, <1>3, <1>4, <1>5, <1>6 DEF Execute

\* A contract without data holds every account's own document.
LEMMA EmptyDocuments ==
    ASSUME NEW c \in Contract, owners[c] = EmptyMap, delegates[c] = EmptyMap,
           attributes[c] = EmptyMap
    PROVE  [i \in Account |-> Document(c, i)] = Documents!OwnDocuments
  BY EmptyMapIs DEF Document, ExpiryOf, GetIdentityOwner, DelegatesOf, AttributesOf,
     GetOrElse, Documents!OwnDocuments, Documents!OwnDocument

LEMMA InstallOpens ==
    ASSUME RegistryTypeOK, NEW c \in Contract, Install(c)
    PROVE  Documents!Open(c)
<1>1. c \notin initialised /\ initialised' = initialised \cup {c}
  BY DEF Install, InitContract
<1>2. owners[c] = EmptyMap /\ delegates[c] = EmptyMap /\ attributes[c] = EmptyMap
  BY <1>1 DEF RegistryTypeOK
<1>3. \A x \in Contract : /\ owners'[x] = owners[x] /\ delegates'[x] = delegates[x]
                         /\ attributes'[x] = attributes[x]
  BY <1>2 DEF Install, InitContract, NewDictionaries, RegistryTypeOK, OwnersOK,
     DelegatesOK, AttributesOK
<1>4. Docs' = Docs
  BY <1>3 DEF Docs, Document, ExpiryOf, GetIdentityOwner, DelegatesOf, AttributesOf
<1>5. Docs[c] = Documents!OwnDocuments
  BY <1>2, EmptyDocuments DEF Docs
<1> QED
  BY <1>1, <1>4, <1>5 DEF Documents!Open, Docs

\* The registry, with its nested maps, defaults and unordered deploys, implements
\* documents that their owners edit one entry at a time.
THEOREM RegistryImplementsDocuments == Spec => ImplementsDocuments
<1>1. Init => Documents!DocumentsInit
  BY EmptyDocuments DEF Init, Documents!DocumentsInit
<1>2. RegistryTypeOK /\ [Next]_vars => [Documents!DocumentsNext]_<<initialised, Docs>>
  <2> SUFFICES ASSUME RegistryTypeOK, [Next]_vars
               PROVE  Documents!DocumentsNext \/ UNCHANGED <<initialised, Docs>>
    OBVIOUS
  <2>1. CASE \E c \in Contract : Install(c)
    BY <2>1, InstallOpens DEF Documents!DocumentsNext
  <2>2. CASE \E d \in Deploy : Execute(d)
    BY <2>2, ExecuteEdits
  <2>3. CASE ~(\E c \in Contract : Install(c)) /\ ~(\E d \in Deploy : Execute(d))
    <3>1. initialised' = initialised
      BY <2>3 DEF Next, Send, SendAddDelegate, Drop, Tick, vars
    <3>2. Docs' = Docs
      BY <2>3, QuietDocuments DEF Docs
    <3> QED
      BY <3>1, <3>2
  <2> QED
    BY <2>1, <2>2, <2>3
<1> QED
  BY <1>1, <1>2, RegistryTypeCorrect, PTL
     DEF Spec, ImplementsDocuments, Documents!DocumentsSpec, Docs

=============================================================================
