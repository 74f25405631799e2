--------------------------- MODULE AccountsProofs ---------------------------
(* What Accounts guarantees for every value of its constants: any users,   *)
(* requests and starts, and any result of a search by name.                *)
EXTENDS Accounts, TLAPS

LEMMA SeqOfMore == ASSUME NEW S, NEW T, S \subseteq T, NEW s \in Seq(S) PROVE s \in Seq(T)
  OBVIOUS

\* What a creation does to the participants: none is changed, one is added.
LEMMA Creation ==
    ASSUME AccountsTypeOK, NEW sbp, NEW user, NEW by,
           CreateUserProtocol(sbp, user, by)
    PROVE  /\ Participants' = Participants \cup {NewParticipant}
           /\ NewParticipant \notin Participants
           /\ NewParticipant \in Nat \ {0}
           /\ Len(participant') = NewParticipant
           /\ participant'[NewParticipant] = [sbp |-> sbp, for |-> user, by |-> by]
           /\ \A p \in Participants : participant'[p] = participant[p]
           /\ \A p \in Participants : p \in Nat /\ p < NewParticipant
  BY DEF AccountsTypeOK, CreateUserProtocol, Participants, NewParticipant

LEMMA CreationType ==
    ASSUME AccountsTypeOK, NEW sbp \in Sbps, NEW user \in User,
           NEW by \in Option(Request), CreateUserProtocol(sbp, user, by),
           UNCHANGED <<sbps, account>>
    PROVE  /\ participant' \in Seq(ParticipantState')
           /\ \A u \in DOMAIN account' : account'[u] \in Option(Participants')
<1>1. participant' \in Seq(ParticipantState)
  BY DEF AccountsTypeOK, CreateUserProtocol, ParticipantState
<1>2. ParticipantState' = ParticipantState
  BY DEF ParticipantState, Sbps
<1>3. Participants \subseteq Participants'
  BY Creation
<1> QED
  BY <1>1, <1>2, <1>3 DEF AccountsTypeOK, Option

LEMMA InitialIsUser == InitialUsers \subseteq User /\ \A k \in DOMAIN Initial : Initial[k] \in User
  BY AccountParameters DEF InitialUsers

\* The types depend on the SBPs and the participants there are.
LEMMA SameTypes ==
    ASSUME UNCHANGED <<sbps, participant>>
    PROVE  /\ ParticipantState' = ParticipantState
           /\ BackendState' = BackendState
           /\ RequestState' = RequestState
           /\ Sbps' = Sbps
           /\ Participants' = Participants
  BY DEF ParticipantState, BackendState, RequestState, Sbps, Participants

LEMMA NextIsPosition == 1 \in DOMAIN Initial
  BY AccountParameters

-----------------------------------------------------------------------------
(* Types *)

LEMMA InitType == Init => AccountsTypeOK
<1> SUFFICES ASSUME Init PROVE AccountsTypeOK
  OBVIOUS
<1>1. Down \in BackendState
  BY NextIsPosition DEF Down, BackendState, Phase, Option
<1>2. Unsent \in RequestState
  BY DEF Unsent, RequestState, Option
<1>3. participant \in Seq(ParticipantState)
  BY DEF Init
<1> QED
  BY <1>1, <1>2, <1>3, InitialIsUser DEF Init, AccountsTypeOK, Option, Sbps

\* What a start passes through: the calls it makes and what it holds at each.
StartOK ==
    /\ backend.phase \in {"down", "query", "createSbp"} => backend.next = 1
    /\ backend.phase \in {"create", "delegate", "find", "update", "serving"} =>
          backend.sbp \in Sbps
    /\ backend.phase \in {"delegate", "find", "update"} =>
          /\ backend.made \in Participants
          /\ backend.made = Len(participant)
          /\ participant[backend.made] =
                [sbp |-> backend.sbp, for |-> Current, by |-> None]
          /\ \A u \in DOMAIN account : account[u] # backend.made
    /\ backend.phase = "update" => backend.hit \in Found[Current] \cap DOMAIN account
    /\ backend.phase = "serving" => backend.next = Len(Initial)

\* What a registration holds at each of its calls
RequestsOK ==
    \A r \in Request :
        /\ request[r].step \in {"create", "account", "ok"} => request[r].user \in User
        /\ request[r].step \in {"account", "ok"} =>
              /\ request[r].made \in Participants
              /\ participant[request[r].made].by = r
              /\ participant[request[r].made].for = request[r].user
        /\ request[r].step = "account" =>
              \A u \in DOMAIN account : account[u] # request[r].made
        /\ request[r].step = "ok" => request[r].user \in DOMAIN account \ InitialUsers

\* The inductive strengthening of the properties about accounts
AccountInv ==
    /\ AccountsTypeOK
    /\ StartOK
    /\ RequestsOK
    /\ InitialUsers \subseteq DOMAIN account
    /\ UsersActAsTheirOwn
    /\ ParticipantsAreNotShared
    /\ RegistrationsHold

LEMMA StepType ==
    ASSUME AccountsTypeOK, StartOK, RequestsOK, [Next]_vars
    PROVE  AccountsTypeOK'
<1> USE DEF Participants, Sbps
<1>a. /\ backend \in BackendState
      /\ request \in [Request -> RequestState]
      /\ Current \in User
      /\ DOMAIN account \subseteq User
  BY InitialIsUser DEF AccountsTypeOK, BackendState, Current
<1>1. CASE Start
  <2>1. backend' \in BackendState
    BY <1>1, <1>a, NextIsPosition DEF Start, Down, BackendState, Phase, Option
  <2> QED
    BY <1>1, <2>1, SameTypes DEF Start, AccountsTypeOK
<1>2. CASE QuerySbp
  <2>1. shown \subseteq Sbps
    BY DEF AccountsTypeOK
  <2>2. backend' \in BackendState
    BY <1>2, <1>a, <2>1 DEF QuerySbp, BackendState, Phase, Option
  <2>3. blind' \in BOOLEAN
    BY <1>2 DEF QuerySbp, AccountsTypeOK
  <2> QED
    BY <1>2, <2>2, <2>3, SameTypes DEF QuerySbp, AccountsTypeOK
<1>3. CASE CreateSbp
  <2>1. Sbps \subseteq Sbps' /\ sbps' \in Nat /\ sbps' \in Sbps'
    BY <1>3 DEF CreateSbp, AccountsTypeOK
  <2>2. ParticipantState \subseteq ParticipantState'
    BY <2>1 DEF ParticipantState
  <2>3. participant' \in Seq(ParticipantState')
    BY <1>3, <2>2, SeqOfMore DEF CreateSbp, AccountsTypeOK
  <2>4. backend' \in BackendState'
    BY <1>3, <1>a, <2>1 DEF CreateSbp, BackendState, Phase, Option
  <2>5. request' \in [Request -> RequestState']
    BY <1>3, <1>a DEF CreateSbp, RequestState, Option
  <2> QED
    BY <1>3, <2>1, <2>3, <2>4, <2>5 DEF CreateSbp, AccountsTypeOK, Option
<1>4. CASE CreateInitialUser
  <2>1. backend.sbp \in Sbps /\ None \in Option(Request)
    BY <1>4 DEF CreateInitialUser, At, StartOK, Option
  <2>2. CreateUserProtocol(backend.sbp, Current, None)
    BY <1>4 DEF CreateInitialUser
  <2>3. UNCHANGED <<sbps, shown, account, request, blind>>
    BY <1>4 DEF CreateInitialUser
  <2>4. /\ participant' \in Seq(ParticipantState')
        /\ \A u \in DOMAIN account' : account'[u] \in Option(Participants')
    BY <1>a, <2>1, <2>2, <2>3, CreationType
  <2>5. Participants' = Participants \cup {NewParticipant}
    BY <2>2, Creation
  <2>6. backend' \in BackendState'
    BY <1>4, <1>a, <2>3, <2>5 DEF CreateInitialUser, BackendState, Phase, Option
  <2>7. request' \in [Request -> RequestState']
    BY <1>a, <2>3, <2>5 DEF RequestState, Option
  <2> QED
    BY <2>3, <2>4, <2>6, <2>7 DEF AccountsTypeOK
<1>5. CASE AddDelegate
  <2>1. backend' \in BackendState
    BY <1>5, <1>a DEF AddDelegate, BackendState, Phase, Option
  <2> QED
    BY <1>5, <2>1, SameTypes DEF AddDelegate, AccountsTypeOK
<1>6. CASE FindUser
  <2>1. backend' \in BackendState
    BY <1>6, <1>a DEF FindUser, BackendState, Phase, Option
  <2> QED
    BY <1>6, <2>1, SameTypes DEF FindUser, AccountsTypeOK
<1>7. CASE UpdateUser
  <2>1. /\ backend.made \in Participants /\ backend.hit \in DOMAIN account
    BY <1>7 DEF UpdateUser, At, StartOK
  <2>2. backend' \in BackendState
    <3>1. DOMAIN Initial = 1 .. Len(Initial) /\ Len(Initial) \in Nat
      BY AccountParameters
    <3>2. backend.next # Len(Initial) => backend.next + 1 \in DOMAIN Initial
      BY <1>a, <3>1 DEF BackendState
    <3> QED
      BY <1>7, <1>a, <3>2 DEF UpdateUser, NextUser, BackendState, Phase, Option
  <2>3. \A u \in DOMAIN account : account'[u] \in Option(Participants)
    BY <1>7, <2>1 DEF UpdateUser, AccountsTypeOK, Option
  <2>4. DOMAIN account' = DOMAIN account
    BY <1>7 DEF UpdateUser
  <2> QED
    BY <1>7, <2>2, <2>3, <2>4, SameTypes DEF UpdateUser, AccountsTypeOK
<1>8. CASE Stop
  <2>1. backend' \in BackendState'
    BY <1>8, NextIsPosition DEF Stop, Down, BackendState, Phase, Option
  <2>2. request' \in [Request -> RequestState']
    BY <1>8, <1>a DEF Stop, RequestState
  <2> QED
    BY <1>8, <2>1, <2>2 DEF Stop, AccountsTypeOK, ParticipantState
<1>9. ASSUME NEW s \in Sbps, ReadModelShows(s) PROVE AccountsTypeOK'
  BY <1>9 DEF ReadModelShows, AccountsTypeOK, ParticipantState, BackendState, RequestState
<1>10. ASSUME NEW r \in Request, NEW u \in User, Register(r, u) PROVE AccountsTypeOK'
  <2>1. request' \in [Request -> RequestState']
    BY <1>10, <1>a DEF Register, RequestState, Option
  <2> QED
    BY <1>10, <2>1 DEF Register, AccountsTypeOK, ParticipantState, BackendState
<1>11. ASSUME NEW r \in Request, RegisterParticipant(r) PROVE AccountsTypeOK'
  <2>1. backend.sbp \in Sbps /\ r \in Option(Request) /\ request[r].user \in User
    BY <1>11 DEF RegisterParticipant, Waits, At, StartOK, RequestsOK, Option
  <2>2. CreateUserProtocol(backend.sbp, request[r].user, r)
    BY <1>11 DEF RegisterParticipant
  <2>3. UNCHANGED <<sbps, shown, account, backend, blind>>
    BY <1>11 DEF RegisterParticipant
  <2>4. /\ participant' \in Seq(ParticipantState')
        /\ \A u \in DOMAIN account' : account'[u] \in Option(Participants')
    BY <2>1, <2>2, <2>3, CreationType
  <2>5. Participants' = Participants \cup {NewParticipant}
    BY <2>2, Creation
  <2>6. backend' \in BackendState'
    BY <1>a, <2>3, <2>5 DEF BackendState, Option
  <2>7. request' \in [Request -> RequestState']
    BY <1>11, <1>a, <2>5 DEF RegisterParticipant, RequestState, Option
  <2> QED
    BY <2>3, <2>4, <2>6, <2>7 DEF AccountsTypeOK
<1>12. ASSUME NEW r \in Request, CreateKeycloakUser(r) PROVE AccountsTypeOK'
  <2>1. /\ request[r].user \in User /\ request[r].made \in Participants
    BY <1>12 DEF CreateKeycloakUser, Waits, RequestsOK
  <2>2. request' \in [Request -> RequestState']
    BY <1>12, <1>a DEF CreateKeycloakUser, RequestState
  <2>3. /\ DOMAIN account' \subseteq User
        /\ \A u \in DOMAIN account' : account'[u] \in Option(Participants)
    BY <1>12, <2>1 DEF CreateKeycloakUser, AccountsTypeOK, Option
  <2> QED
    BY <1>12, <2>2, <2>3 DEF CreateKeycloakUser, AccountsTypeOK, ParticipantState, BackendState
<1>13. ASSUME NEW r \in Request, Fail(r) PROVE AccountsTypeOK'
  <2>1. request' \in [Request -> RequestState']
    BY <1>13, <1>a DEF Fail, RequestState
  <2> QED
    BY <1>13, <2>1 DEF Fail, AccountsTypeOK, ParticipantState, BackendState
<1>14. CASE UNCHANGED vars
  BY <1>14 DEF vars, AccountsTypeOK, ParticipantState, BackendState, RequestState
<1> QED
  BY <1>1, <1>2, <1>3, <1>4, <1>5, <1>6, <1>7, <1>8, <1>9, <1>10, <1>11, <1>12, <1>13,
     <1>14 DEF Next

-----------------------------------------------------------------------------
(* AccountInv is inductive. *)

AccountProperties ==
    UsersActAsTheirOwn /\ ParticipantsAreNotShared /\ RegistrationsHold

\* Steps that leave accounts, participants and requests alone
LEMMA SameAccounts ==
    ASSUME AccountInv, UNCHANGED <<participant, account, request>>
    PROVE  RequestsOK' /\ (InitialUsers \subseteq DOMAIN account)' /\ AccountProperties'
<1>1. InitialUsers' = InitialUsers
  BY DEF InitialUsers
<1>2. RequestsOK'
  BY <1>1 DEF AccountInv, RequestsOK, Participants
<1>3. AccountProperties'
  BY <1>1 DEF AccountInv, AccountProperties, UsersActAsTheirOwn, OwnName,
     ParticipantsAreNotShared, RegistrationsHold
<1> QED
  BY <1>1, <1>2, <1>3 DEF AccountInv

\* A new participant is nobody's yet.
LEMMA OneMoreParticipant ==
    ASSUME AccountInv, NEW sbp, NEW user, NEW by,
           CreateUserProtocol(sbp, user, by), UNCHANGED account
    PROVE  /\ UsersActAsTheirOwn' /\ ParticipantsAreNotShared'
           /\ \A u \in DOMAIN account : account[u] # NewParticipant
<1>1. \A u \in DOMAIN account : account[u] \in Option(Participants)
  BY DEF AccountInv, AccountsTypeOK
<1>2. NewParticipant # None
  BY AccountNone, Creation DEF AccountInv
<1>3. /\ \A p \in Participants : participant'[p] = participant[p]
      /\ NewParticipant \notin Participants
  BY Creation DEF AccountInv
<1>4. UsersActAsTheirOwn'
  BY <1>1, <1>3 DEF AccountInv, UsersActAsTheirOwn, OwnName, InitialUsers, Option
<1>5. ParticipantsAreNotShared'
  BY DEF AccountInv, ParticipantsAreNotShared
<1> QED
  BY <1>1, <1>2, <1>3, <1>4, <1>5 DEF Option

LEMMA InitAccounts == Init => AccountInv
  BY InitType, AccountNone
  DEF Init, AccountInv, StartOK, RequestsOK, Down, Unsent, UsersActAsTheirOwn,
      ParticipantsAreNotShared, RegistrationsHold

LEMMA StepAccounts == AccountInv /\ [Next]_vars => AccountInv'
<1> SUFFICES ASSUME AccountInv, [Next]_vars
             PROVE  /\ StartOK' /\ RequestsOK' /\ (InitialUsers \subseteq DOMAIN account)'
                    /\ AccountProperties'
  BY StepType DEF AccountInv, AccountProperties
<1>a. /\ AccountsTypeOK /\ StartOK /\ RequestsOK
      /\ InitialUsers \subseteq DOMAIN account
      /\ AccountProperties
  BY DEF AccountInv, AccountProperties
<1>b. /\ backend \in BackendState
      /\ request \in [Request -> RequestState]
      /\ DOMAIN account \subseteq User
      /\ \A u \in DOMAIN account : account[u] \in Option(Participants)
      /\ None \notin Participants
      /\ \A p \in Participants : p \in Nat
  BY <1>a, AccountNone DEF AccountsTypeOK, Participants
<1>c. InitialUsers' = InitialUsers
  BY DEF InitialUsers
<1>1. CASE Start
  <2>1. StartOK'
    BY <1>1 DEF Start, Down, StartOK
  <2> QED
    BY <1>1, <2>1, SameAccounts DEF Start
<1>2. CASE QuerySbp
  <2>1. shown \subseteq Sbps
    BY <1>a DEF AccountsTypeOK
  <2>2. StartOK'
    BY <1>2, <1>a, <1>b, <2>1 DEF QuerySbp, At, StartOK, Sbps, BackendState
  <2> QED
    BY <1>2, <2>2, SameAccounts DEF QuerySbp
<1>3. CASE CreateSbp
  <2>1. sbps + 1 \in 1 .. sbps + 1
    BY <1>a DEF AccountsTypeOK
  <2>2. StartOK'
    BY <1>3, <1>a, <1>b, <2>1 DEF CreateSbp, At, StartOK, Sbps, BackendState
  <2> QED
    BY <1>3, <2>2, SameAccounts DEF CreateSbp
<1>4. CASE CreateInitialUser
  <2>1. CreateUserProtocol(backend.sbp, Current, None)
        /\ UNCHANGED <<sbps, shown, account, request, blind>>
    BY <1>4 DEF CreateInitialUser
  <2>2. /\ Participants' = Participants \cup {NewParticipant}
        /\ NewParticipant \notin Participants
        /\ Len(participant') = NewParticipant
        /\ participant'[NewParticipant] = [sbp |-> backend.sbp, for |-> Current, by |-> None]
        /\ \A p \in Participants : participant'[p] = participant[p]
    BY <1>a, <2>1, Creation
  <2>3. /\ UsersActAsTheirOwn' /\ ParticipantsAreNotShared'
        /\ \A u \in DOMAIN account : account[u] # NewParticipant
    BY <2>1, OneMoreParticipant
  <2>4. backend' = [backend EXCEPT !.phase = "delegate", !.made = NewParticipant]
        /\ backend.phase = "create"
    BY <1>4 DEF CreateInitialUser, At
  <2>5. /\ backend'.phase = "delegate" /\ backend'.made = NewParticipant
        /\ backend'.sbp = backend.sbp /\ backend'.next = backend.next
    BY <1>b, <2>4 DEF BackendState
  <2>6. StartOK'
    BY <1>a, <2>1, <2>2, <2>3, <2>4, <2>5 DEF StartOK, Current, Sbps
  <2>7. RequestsOK'
    BY <1>a, <1>c, <2>1, <2>2 DEF RequestsOK
  <2>8. RegistrationsHold'
    BY <1>a, <1>c, <2>1 DEF AccountProperties, RegistrationsHold, OwnName
  <2> QED
    BY <1>a, <1>c, <2>1, <2>3, <2>6, <2>7, <2>8 DEF AccountProperties
<1>5. CASE AddDelegate
  <2>1. StartOK'
    BY <1>5, <1>a, <1>b DEF AddDelegate, At, StartOK, Current, Participants, Sbps, BackendState
  <2> QED
    BY <1>5, <2>1, SameAccounts DEF AddDelegate
<1>6. CASE FindUser
  <2>1. StartOK'
    BY <1>6, <1>a, <1>b DEF FindUser, At, StartOK, Current, Participants, Sbps, BackendState
  <2> QED
    BY <1>6, <2>1, SameAccounts DEF FindUser
<1>7. CASE UpdateUser
  <2> DEFINE h == backend.hit
             p == backend.made
  <2>1. /\ h \in Found[Current] /\ h \in DOMAIN account
        /\ p \in Participants /\ backend.sbp \in Sbps
        /\ participant[p] = [sbp |-> backend.sbp, for |-> Current, by |-> None]
        /\ \A u \in DOMAIN account : account[u] # p
    BY <1>7, <1>a DEF UpdateUser, At, StartOK
  <2>2. /\ account' = [account EXCEPT ![h] = p]
        /\ UNCHANGED <<sbps, shown, participant, request, blind>>
        /\ NextUser
    BY <1>7 DEF UpdateUser
  <2>3. /\ backend'.phase \in {"serving", "create"} /\ backend'.sbp = backend.sbp
        /\ backend'.phase = "serving" => backend'.next = Len(Initial)
    BY <1>b, <2>2 DEF NextUser, BackendState
  <2>4. StartOK'
    BY <2>1, <2>2, <2>3 DEF StartOK, Sbps
  <2>5. participant[p].for = Current /\ participant[p].by = None
    BY <2>1
  <2>6. Current \in InitialUsers
    BY <1>b DEF Current, InitialUsers, BackendState
  <2>7. \A r \in Request : request[r].step = "account" => request[r].made # p
    BY <1>a, <2>5, AccountNone DEF RequestsOK
  <2>8. RequestsOK'
    BY <1>a, <1>c, <2>1, <2>2, <2>7 DEF RequestsOK, Participants
  <2>9. OwnName(h) => h = Current
    BY <2>1, <2>6 DEF OwnName
  <2>10. UsersActAsTheirOwn'
    BY <1>a, <1>c, <2>1, <2>2, <2>5, <2>9
    DEF AccountProperties, UsersActAsTheirOwn, OwnName
  <2>11. ParticipantsAreNotShared'
    BY <1>a, <2>1, <2>2 DEF AccountProperties, ParticipantsAreNotShared
  <2>12. RegistrationsHold'
    BY <1>a, <1>c, <2>1, <2>2, <2>6, <2>9
    DEF AccountProperties, RegistrationsHold, RequestsOK, OwnName
  <2> QED
    BY <1>a, <1>c, <2>2, <2>4, <2>8, <2>10, <2>11, <2>12 DEF AccountProperties
<1>8. CASE Stop
  <2>1. UNCHANGED <<participant, account>>
    BY <1>8 DEF Stop
  <2>2. \A r \in Request :
          \/ request'[r] = request[r] /\ request[r].step \notin {"create", "account"}
          \/ request'[r].step = "failed"
    BY <1>8, <1>b DEF Stop, RequestState
  <2>3. StartOK'
    BY <1>8 DEF Stop, StartOK, Down
  <2>4. RequestsOK'
    BY <1>a, <1>c, <2>1, <2>2 DEF RequestsOK, Participants
  <2>5. AccountProperties'
    BY <1>a, <1>c, <2>1, <2>2 DEF AccountProperties, UsersActAsTheirOwn, OwnName,
       ParticipantsAreNotShared, RegistrationsHold
  <2> QED
    BY <1>a, <1>c, <2>1, <2>3, <2>4, <2>5
<1>9. ASSUME NEW s \in Sbps, ReadModelShows(s)
      PROVE  /\ StartOK' /\ RequestsOK' /\ (InitialUsers \subseteq DOMAIN account)'
             /\ AccountProperties'
  <2>1. StartOK'
    BY <1>9, <1>a DEF ReadModelShows, StartOK, Current, Participants, Sbps
  <2> QED
    BY <1>9, <2>1, SameAccounts DEF ReadModelShows
<1>10. ASSUME NEW r \in Request, NEW u \in User, Register(r, u)
       PROVE  /\ StartOK' /\ RequestsOK' /\ (InitialUsers \subseteq DOMAIN account)'
              /\ AccountProperties'
  <2>1. UNCHANGED <<sbps, participant, account, backend>>
    BY <1>10 DEF Register
  <2>2. \A q \in Request : IF q = r THEN request'[q].step = "create" /\ request'[q].user = u
                            ELSE request'[q] = request[q]
    BY <1>10, <1>b DEF Register, RequestState
  <2>3. StartOK'
    BY <1>a, <2>1 DEF StartOK, Current, Participants, Sbps
  <2>4. RequestsOK'
    BY <1>a, <1>c, <2>1, <2>2 DEF RequestsOK, Participants
  <2>5. AccountProperties'
    BY <1>a, <1>c, <2>1, <2>2 DEF AccountProperties, UsersActAsTheirOwn, OwnName,
       ParticipantsAreNotShared, RegistrationsHold
  <2> QED
    BY <1>a, <1>c, <2>1, <2>3, <2>4, <2>5
<1>11. ASSUME NEW r \in Request, RegisterParticipant(r)
       PROVE  /\ StartOK' /\ RequestsOK' /\ (InitialUsers \subseteq DOMAIN account)'
              /\ AccountProperties'
  <2>1. CreateUserProtocol(backend.sbp, request[r].user, r)
        /\ UNCHANGED <<sbps, shown, account, backend, blind>>
        /\ backend.phase = "serving" /\ request[r].step = "create"
    BY <1>11 DEF RegisterParticipant, Waits, At
  <2>2. /\ Participants' = Participants \cup {NewParticipant}
        /\ NewParticipant \notin Participants
        /\ participant'[NewParticipant].by = r
        /\ participant'[NewParticipant].for = request[r].user
        /\ \A p \in Participants : participant'[p] = participant[p]
    <3>1. participant'[NewParticipant] =
             [sbp |-> backend.sbp, for |-> request[r].user, by |-> r]
      BY <1>a, <2>1, Creation
    <3>2. /\ Participants' = Participants \cup {NewParticipant}
          /\ NewParticipant \notin Participants
          /\ \A p \in Participants : participant'[p] = participant[p]
      BY <1>a, <2>1, Creation
    <3> QED
      BY <3>1, <3>2
  <2>3. /\ UsersActAsTheirOwn' /\ ParticipantsAreNotShared'
        /\ \A u \in DOMAIN account : account[u] # NewParticipant
    BY <2>1, OneMoreParticipant
  <2>4. \A q \in Request : IF q = r THEN /\ request'[q].step = "account"
                                          /\ request'[q].made = NewParticipant
                                          /\ request'[q].user = request[q].user
                            ELSE request'[q] = request[q]
    BY <1>11, <1>b DEF RegisterParticipant, RequestState
  <2>5. StartOK'
    BY <1>a, <2>1 DEF StartOK, Sbps
  <2>6. RequestsOK'
    BY <1>a, <1>c, <2>1, <2>2, <2>3, <2>4 DEF RequestsOK
  <2>7. RegistrationsHold'
    BY <1>a, <1>c, <2>1, <2>4 DEF AccountProperties, RegistrationsHold, OwnName
  <2> QED
    BY <1>a, <1>c, <2>1, <2>3, <2>5, <2>6, <2>7 DEF AccountProperties
<1>12. ASSUME NEW r \in Request, CreateKeycloakUser(r)
       PROVE  /\ StartOK' /\ RequestsOK' /\ (InitialUsers \subseteq DOMAIN account)'
              /\ AccountProperties'
  <2> DEFINE u == request[r].user
             p == request[r].made
  <2>1. /\ request[r].step = "account" /\ backend.phase = "serving"
        /\ UNCHANGED <<sbps, shown, participant, backend, blind>>
    BY <1>12 DEF CreateKeycloakUser, Waits, At
  <2>2. /\ p \in Participants /\ participant[p].by = r /\ participant[p].for = u
        /\ \A v \in DOMAIN account : account[v] # p
    BY <1>a, <2>1 DEF RequestsOK
  <2>3. \A q \in Request \ {r} : request[q].step \in {"account", "ok"} => request[q].made # p
    BY <1>a, <2>2 DEF RequestsOK
  <2>4. \A q \in Request \ {r} : request'[q] = request[q]
    BY <1>12, <1>b DEF CreateKeycloakUser
  <2>5. /\ request'[r].user = u /\ request'[r].made = p
        /\ request'[r].step \in {"ok", "failed"}
        /\ u \in DOMAIN account => request'[r].step = "failed"
    BY <1>12, <1>b DEF CreateKeycloakUser, RequestState
  <2>6. StartOK'
    BY <1>a, <2>1 DEF StartOK, Sbps
  <2>7. CASE u \in DOMAIN account
    <3>1. UNCHANGED account
      BY <1>12, <2>7 DEF CreateKeycloakUser
    <3>2. RequestsOK'
      BY <1>a, <1>c, <2>1, <2>4, <2>5, <2>7, <3>1 DEF RequestsOK, Participants
    <3>3. AccountProperties'
      BY <1>a, <1>c, <2>1, <2>4, <2>5, <2>7, <3>1 DEF AccountProperties,
         UsersActAsTheirOwn, OwnName, ParticipantsAreNotShared, RegistrationsHold
    <3> QED
      BY <1>a, <1>c, <2>6, <3>1, <3>2, <3>3
  <2>8. CASE u \notin DOMAIN account
    <3>1. /\ DOMAIN account' = DOMAIN account \cup {u}
          /\ account'[u] = p
          /\ \A v \in DOMAIN account : account'[v] = account[v]
      BY <1>12, <2>8 DEF CreateKeycloakUser
    <3>2. RequestsOK'
      BY <1>a, <1>c, <2>1, <2>2, <2>3, <2>4, <2>5, <2>8, <3>1 DEF RequestsOK, Participants
    <3>3. UsersActAsTheirOwn'
      BY <1>a, <1>c, <2>1, <2>2, <3>1 DEF AccountProperties, UsersActAsTheirOwn, OwnName
    <3>4. ParticipantsAreNotShared'
      BY <1>a, <2>2, <3>1 DEF AccountProperties, ParticipantsAreNotShared
    <3>5. RegistrationsHold'
      BY <1>a, <1>c, <2>4, <2>5, <2>8, <3>1 DEF AccountProperties, RegistrationsHold,
         RequestsOK, OwnName
    <3> QED
      BY <1>a, <1>c, <2>6, <3>1, <3>2, <3>3, <3>4, <3>5 DEF AccountProperties
  <2> QED
    BY <2>7, <2>8
<1>13. ASSUME NEW r \in Request, Fail(r)
       PROVE  /\ StartOK' /\ RequestsOK' /\ (InitialUsers \subseteq DOMAIN account)'
              /\ AccountProperties'
  <2>1. UNCHANGED <<sbps, participant, account, backend>>
    BY <1>13 DEF Fail
  <2>2. \A q \in Request : IF q = r THEN request'[q].step = "failed"
                            ELSE request'[q] = request[q]
    BY <1>13, <1>b DEF Fail, RequestState
  <2>3. StartOK'
    BY <1>a, <2>1 DEF StartOK, Current, Participants, Sbps
  <2>4. RequestsOK'
    BY <1>a, <1>c, <2>1, <2>2 DEF RequestsOK, Participants
  <2>5. AccountProperties'
    BY <1>a, <1>c, <2>1, <2>2 DEF AccountProperties, UsersActAsTheirOwn, OwnName,
       ParticipantsAreNotShared, RegistrationsHold
  <2> QED
    BY <1>a, <1>c, <2>1, <2>3, <2>4, <2>5
<1>14. CASE UNCHANGED vars
  <2>1. StartOK'
    BY <1>14, <1>a DEF vars, StartOK, Current, Participants, Sbps
  <2> QED
    BY <1>14, <2>1, SameAccounts DEF vars
<1> QED
  BY <1>1, <1>2, <1>3, <1>4, <1>5, <1>6, <1>7, <1>8, <1>9, <1>10, <1>11, <1>12, <1>13,
     <1>14 DEF Next

\* The state is well typed however often the backend starts, and whoever registers.
THEOREM AccountsTyped == Spec => []AccountsTypeOK
<1>1. AccountInv => AccountsTypeOK
  BY DEF AccountInv
<1> QED
  BY <1>1, InitAccounts, StepAccounts, PTL DEF Spec

\* Every user whose name contains no initial user's name acts as a participant made for
\* this user, for ever (InitSetupHelper.kt:85-87).
THEOREM UsersActAsThemselves == Spec => []UsersActAsTheirOwn
<1>1. AccountInv => UsersActAsTheirOwn
  BY DEF AccountInv
<1> QED
  BY <1>1, InitAccounts, StepAccounts, PTL DEF Spec

\* A participant that a registration answered with stays its user's own, whatever else
\* is registered and however often the backend starts again (ParticipantHandler.kt:28-52).
THEOREM RegistrationsStand == Spec => []RegistrationsHold
<1>1. AccountInv => RegistrationsHold
  BY DEF AccountInv
<1> QED
  BY <1>1, InitAccounts, StepAccounts, PTL DEF Spec

\* No two users ever act as one participant, whatever a search by name finds.
THEOREM OneUserPerParticipant == Spec => []ParticipantsAreNotShared
<1>1. AccountInv => ParticipantsAreNotShared
  BY DEF AccountInv
<1> QED
  BY <1>1, InitAccounts, StepAccounts, PTL DEF Spec

-----------------------------------------------------------------------------
(* One market *)

\* A start that sees what there is creates an SBP only when there is none.
MarketInv ==
    /\ AccountInv
    /\ ~blind => sbps <= 1 /\ (backend.phase = "createSbp" => sbps = 0)

LEMMA InitMarket == Init => MarketInv
  BY InitAccounts DEF Init, Down, MarketInv

LEMMA StepMarket == MarketInv /\ [Next]_vars => MarketInv'
<1> SUFFICES ASSUME MarketInv, [Next]_vars, ~blind'
             PROVE  sbps' <= 1 /\ (backend'.phase = "createSbp" => sbps' = 0)
  BY StepAccounts DEF MarketInv
<1>a. sbps \in Nat /\ backend \in BackendState /\ blind \in BOOLEAN
  BY DEF MarketInv, AccountInv, AccountsTypeOK
<1>1. CASE QuerySbp
  <2>1. blind' = (blind \/ (shown = {} /\ sbps > 0))
    BY <1>1 DEF QuerySbp
  <2>2. ~blind /\ ~(shown = {} /\ sbps > 0)
    BY <2>1, Zenon
  <2>3. backend'.phase = "createSbp" => shown = {}
    BY <1>1, <1>a DEF QuerySbp, BackendState
  <2>4. sbps' = sbps
    BY <1>1 DEF QuerySbp
  <2> QED
    BY <1>a, <2>2, <2>3, <2>4 DEF MarketInv
<1>2. CASE CreateSbp
  BY <1>2, <1>a DEF CreateSbp, At, MarketInv, BackendState
<1>3. CASE Start \/ CreateInitialUser \/ AddDelegate \/ FindUser \/ UpdateUser \/ Stop
  <2>1. UNCHANGED <<sbps, blind>>
    BY <1>3 DEF Start, CreateInitialUser, AddDelegate, FindUser, UpdateUser, Stop
  <2>2. backend'.phase # "createSbp"
    <3>1. CASE Start \/ Stop
      BY <3>1 DEF Start, Stop, Down
    <3>2. CASE CreateInitialUser \/ AddDelegate \/ FindUser
      BY <3>2, <1>a DEF CreateInitialUser, AddDelegate, FindUser, BackendState
    <3>3. CASE UpdateUser
      BY <3>3, <1>a DEF UpdateUser, NextUser, BackendState
    <3> QED
      BY <1>3, <3>1, <3>2, <3>3
  <2> QED
    BY <2>1, <2>2 DEF MarketInv
<1>4. CASE UNCHANGED <<sbps, backend, blind>>
  BY <1>4 DEF MarketInv
<1> QED
  BY <1>1, <1>2, <1>3, <1>4
  DEF Next, vars, ReadModelShows, Register, RegisterParticipant, CreateKeycloakUser, Fail

LEMMA MarketIsOne == MarketInv => OneMarket
<1> SUFFICES ASSUME MarketInv, ~blind
             PROVE  /\ \A p \in Participants : participant[p].sbp = 1
                    /\ At("serving") => backend.sbp = 1
  BY DEF OneMarket
<1>1. sbps \in Nat /\ sbps <= 1
  BY DEF MarketInv, AccountInv, AccountsTypeOK
<1>2. \A s \in Sbps : s = 1
  BY <1>1 DEF Sbps
<1>3. \A p \in Participants : participant[p] \in ParticipantState
  BY DEF MarketInv, AccountInv, AccountsTypeOK, Participants
<1> QED
  BY <1>2, <1>3 DEF MarketInv, AccountInv, StartOK, At, ParticipantState

\* As long as no start overlooked an SBP, everybody is on one market
\* (ProtocolExists.kt:16-22).
THEOREM MarketIsNotSplit == Spec => []OneMarket
  BY InitMarket, StepMarket, MarketIsOne, PTL DEF Spec

-----------------------------------------------------------------------------
(* Renewal of the initial users *)

\* User u acts as the newest participant that a start made for it, on the market of
\* this start.
Renewed(u) ==
    /\ account[u] # None
    /\ participant[account[u]].sbp = backend.sbp
    /\ \A p \in Participants :
          participant[p].for = u /\ participant[p].by = None => p <= account[u]

\* The initial users that the start is through with
Done ==
    CASE backend.phase \in {"create", "delegate", "find", "update"} ->
            {k \in DOMAIN Initial : k < backend.next}
      [] backend.phase = "serving" -> DOMAIN Initial
      [] OTHER -> {}

RenewalInv ==
    /\ AccountInv
    /\ \A k \in Done : Found[Initial[k]] = {Initial[k]} => Renewed(Initial[k])

LEMMA InitRenewal == Init => RenewalInv
  BY InitAccounts DEF Init, Down, RenewalInv, Done

LEMMA StepRenewal == RenewalInv /\ [Next]_vars => RenewalInv'
<1> SUFFICES ASSUME RenewalInv, [Next]_vars, NEW k \in Done', Found[Initial[k]] = {Initial[k]}
             PROVE  Renewed(Initial[k])'
  BY StepAccounts DEF RenewalInv
<1> DEFINE u == Initial[k]
<1>a. /\ AccountsTypeOK /\ StartOK /\ RequestsOK
      /\ InitialUsers \subseteq DOMAIN account
      /\ backend \in BackendState
      /\ \A v \in DOMAIN account : account[v] \in Option(Participants)
      /\ None \notin Participants
      /\ \A p \in Participants : p \in Nat
      /\ Len(Initial) \in Nat /\ DOMAIN Initial = 1 .. Len(Initial)
  BY AccountNone, AccountParameters
  DEF RenewalInv, AccountInv, AccountsTypeOK, Participants
<1>b. k \in DOMAIN Initial /\ u \in InitialUsers /\ u \in DOMAIN account
  BY <1>a DEF Done, InitialUsers
<1>1. CASE Start \/ QuerySbp \/ CreateSbp \/ Stop
  <2>1. backend'.phase \in {"down", "query", "createSbp", "create"} /\ backend'.next = 1
    <3>1. CASE Start \/ Stop
      BY <3>1 DEF Start, Stop, Down
    <3>2. CASE QuerySbp
      BY <3>2, <1>a DEF QuerySbp, At, BackendState, StartOK
    <3>3. CASE CreateSbp
      BY <3>3, <1>a DEF CreateSbp, At, BackendState, StartOK
    <3> QED
      BY <1>1, <3>1, <3>2, <3>3
  <2>2. Done' = {}
    BY <1>a, <2>1 DEF Done
  <2> QED
    BY <2>2
<1>4. CASE CreateInitialUser
  <2>1. /\ UNCHANGED account /\ backend.phase = "create"
        /\ CreateUserProtocol(backend.sbp, Current, None)
        /\ backend'.phase = "delegate" /\ backend'.sbp = backend.sbp
        /\ backend'.next = backend.next
    BY <1>4, <1>a DEF CreateInitialUser, At, BackendState
  <2>2. /\ Participants' = Participants \cup {NewParticipant}
        /\ participant'[NewParticipant] = [sbp |-> backend.sbp, for |-> Current, by |-> None]
        /\ \A p \in Participants : participant'[p] = participant[p]
    BY <1>a, <2>1, Creation
  <2>3. k \in Done /\ k < backend.next /\ backend.next \in DOMAIN Initial
    BY <1>a, <2>1 DEF Done, BackendState
  <2>4. Current # u
    BY <1>a, <1>b, <2>3, AccountParameters DEF Current
  <2>5. participant'[NewParticipant].for # u
    BY <2>2, <2>4
  <2>6. Renewed(u) /\ account[u] \in Participants
    BY <1>a, <1>b, <2>3 DEF RenewalInv, Renewed, Option
  <2> QED
    BY <2>1, <2>2, <2>5, <2>6 DEF Renewed
<1>5. CASE AddDelegate \/ FindUser
  <2>1. /\ UNCHANGED <<participant, account>> /\ backend'.sbp = backend.sbp /\ k \in Done
    BY <1>5, <1>a DEF AddDelegate, FindUser, At, Done, BackendState
  <2> QED
    BY <2>1 DEF RenewalInv, Renewed, Participants
<1>7. CASE UpdateUser
  <2> DEFINE h == backend.hit
             m == backend.made
  <2>1. /\ h \in Found[Current] /\ h \in DOMAIN account
        /\ m \in Participants /\ m = Len(participant)
        /\ participant[m] = [sbp |-> backend.sbp, for |-> Current, by |-> None]
        /\ backend.phase = "update"
    BY <1>7, <1>a DEF UpdateUser, At, StartOK
  <2>2. /\ account' = [account EXCEPT ![h] = m]
        /\ UNCHANGED participant
        /\ backend'.sbp = backend.sbp
        /\ backend'.phase = IF backend.next = Len(Initial) THEN "serving" ELSE "create"
        /\ backend'.next = IF backend.next = Len(Initial) THEN backend.next
                                                          ELSE backend.next + 1
    BY <1>7, <1>a DEF UpdateUser, NextUser, BackendState
  <2>3. \A p \in Participants : p <= m
    BY <2>1, <1>a DEF Participants, AccountsTypeOK
  <2>4. CASE h = u
    BY <1>a, <2>1, <2>2, <2>3, <2>4 DEF Renewed, Participants
  <2>5. CASE h # u
    <3>1. k # backend.next
      BY <2>1, <2>5 DEF Current
    <3>2. k \in Done
      BY <1>a, <1>b, <2>1, <2>2, <3>1 DEF Done, BackendState
    <3> QED
      BY <1>b, <2>2, <2>5, <3>2 DEF RenewalInv, Renewed, Participants
  <2> QED
    BY <2>4, <2>5
<1>9. ASSUME NEW s \in Sbps, ReadModelShows(s) PROVE Renewed(u)'
  BY <1>9 DEF ReadModelShows, RenewalInv, Renewed, Participants, Done
<1>10. ASSUME NEW r \in Request, NEW v \in User, Register(r, v) PROVE Renewed(u)'
  BY <1>10 DEF Register, RenewalInv, Renewed, Participants, Done
<1>11. ASSUME NEW r \in Request, RegisterParticipant(r) PROVE Renewed(u)'
  <2>1. /\ UNCHANGED <<account, backend>>
        /\ CreateUserProtocol(backend.sbp, request[r].user, r)
    BY <1>11 DEF RegisterParticipant
  <2>2. participant'[NewParticipant] = [sbp |-> backend.sbp, for |-> request[r].user, by |-> r]
    BY <1>a, <2>1, Creation
  <2>3. /\ Participants' = Participants \cup {NewParticipant}
        /\ \A p \in Participants : participant'[p] = participant[p]
    BY <1>a, <2>1, Creation
  <2>4. participant'[NewParticipant].by # None
    BY <2>2, AccountNone
  <2>5. k \in Done
    BY <2>1 DEF Done
  <2>6. Renewed(u) /\ account[u] \in Participants
    BY <1>a, <1>b, <2>5 DEF RenewalInv, Renewed, Option
  <2> QED
    BY <2>1, <2>3, <2>4, <2>6 DEF Renewed
<1>12. ASSUME NEW r \in Request, CreateKeycloakUser(r) PROVE Renewed(u)'
  <2>1. UNCHANGED <<participant, backend>>
    BY <1>12 DEF CreateKeycloakUser
  <2>2. account'[u] = account[u]
    BY <1>12, <1>b DEF CreateKeycloakUser
  <2> QED
    BY <2>1, <2>2 DEF RenewalInv, Renewed, Participants, Done
<1>13. ASSUME NEW r \in Request, Fail(r) PROVE Renewed(u)'
  BY <1>13 DEF Fail, RenewalInv, Renewed, Participants, Done
<1>14. CASE UNCHANGED vars
  BY <1>14 DEF vars, RenewalInv, Renewed, Participants, Done
<1> QED
  BY <1>1, <1>4, <1>5, <1>7, <1>9, <1>10, <1>11, <1>12, <1>13, <1>14 DEF Next

LEMMA RenewalServes == RenewalInv => InitialUsersAreRenewed
<1> SUFFICES ASSUME RenewalInv, At("serving"), NEW u \in InitialUsers, Found[u] = {u}
             PROVE  Renewed(u)
  BY DEF InitialUsersAreRenewed, Renewed
<1>1. PICK k \in DOMAIN Initial : u = Initial[k]
  BY DEF InitialUsers
<1>2. k \in Done
  BY DEF Done, At
<1> QED
  BY <1>1, <1>2 DEF RenewalInv

\* Whenever requests are served, the initial users act as the participants that this
\* start made, on its market (Main.kt:126-128).
THEOREM StartsRenewInitialUsers == Spec => []InitialUsersAreRenewed
  BY InitRenewal, StepRenewal, RenewalServes, PTL DEF Spec
=============================================================================
