------------------------------ MODULE Accounts ------------------------------
(***************************************************************************)
(* Who acts as which participant: the starts of the backend (Main.kt,      *)
(* InitSetupHelper.kt), which look for the SBP in a read model that may    *)
(* lag behind the engine and create the initial users' participants anew,  *)
(* and the registration of further participants (ParticipantHandler.kt).   *)
(* Keycloak keeps each user's participant.  Each call is a step; the       *)
(* backend may fail or be killed at any time, and a call that fails may    *)
(* have had its effect.                                                    *)
(***************************************************************************)
EXTENDS Naturals, Sequences

CONSTANTS
    User,          \* user names
    Initial,       \* the initial users, in the order of their initialisation
    Found,         \* the users that a search for an initial user's name may find
    Request,       \* bound: requests to register a participant
    MaxSbps,       \* bound: SBPs
    MaxCreations,  \* bound: participants
    None

InitialUsers == {Initial[k] : k \in DOMAIN Initial}

ASSUME AccountParameters ==
    /\ Initial \in Seq(User)
    /\ Len(Initial) > 0
    /\ \A j, k \in DOMAIN Initial : j # k => Initial[j] # Initial[k]
    /\ Found \in [InitialUsers -> SUBSET User]
    /\ \A u \in InitialUsers : u \in Found[u]
    /\ MaxSbps \in Nat
    /\ MaxCreations \in Nat

ASSUME AccountNone == None \notin User \cup Request \cup Nat

VARIABLES
    sbps,          \* how many SBPs the engine has: the SBPs are 1 .. sbps
    shown,         \* the SBPs that the read model shows
    participant,   \* the participants, in the order of their creation
    account,       \* Keycloak's users, and the participant of each (its uuid attribute)
    backend,       \* the backend process
    request,
    blind          \* history: a start has overlooked an SBP

vars == <<sbps, shown, participant, account, backend, request, blind>>

-----------------------------------------------------------------------------
(* Types *)

Option(S) == S \cup {None}

Sbps == 1 .. sbps
Participants == DOMAIN participant

\* for: whose it is; by: the request it was made by, or None for a start
ParticipantState == [sbp : Sbps, for : User, by : Option(Request)]

\* The backend's next call, in the order of the calls
Phase == {"down", "query", "createSbp", "create", "delegate", "find", "update", "serving"}

\* sbp: the SBP it serves; next: the initial user it is at; made: that user's new
\* participant; hit: the Keycloak user it has found
BackendState ==
    [phase : Phase, sbp : Option(Sbps), next : DOMAIN Initial,
     made : Option(Participants), hit : Option(User)]

\* step: the next call, or the answer
RequestState ==
    [user : Option(User), step : {"free", "create", "account", "ok", "failed"},
     made : Option(Participants)]

Down == [phase |-> "down", sbp |-> None, next |-> 1, made |-> None, hit |-> None]

Unsent == [user |-> None, step |-> "free", made |-> None]

-----------------------------------------------------------------------------
(* Starts *)

\* Whom the start is at
Current == Initial[backend.next]

At(phase) == backend.phase = phase

\* createUserProtocol; name and payment details are those of the user.
CreateUserProtocol(sbp, user, by) ==
    /\ Len(participant) < MaxCreations
    /\ participant' = Append(participant, [sbp |-> sbp, for |-> user, by |-> by])

\* Mutant: the newest one before the call
NewestBefore == Len(participant)

NewParticipant == Len(participant) + 1

Start ==
    /\ At("down")
    /\ backend' = [Down EXCEPT !.phase = "query"]
    /\ UNCHANGED <<sbps, shown, participant, account, request, blind>>

\* Mutant: a query that fails finds nothing.
QueryFailsSilently ==
    /\ At("query")
    /\ \/ \E s \in shown : backend' = [backend EXCEPT !.phase = "create", !.sbp = s]
       \/ backend' = [backend EXCEPT !.phase = "createSbp"]
    /\ blind' = (blind \/ (shown = {} /\ sbps > 0))
    /\ UNCHANGED <<sbps, shown, participant, account, request>>

\* ProtocolExists: the first SBP that the read model shows (in no certain order)
QuerySbp ==
    /\ At("query")
    /\ \/ \E s \in shown : backend' = [backend EXCEPT !.phase = "create", !.sbp = s]
       \/ shown = {} /\ backend' = [backend EXCEPT !.phase = "createSbp"]
    /\ blind' = (blind \/ (shown = {} /\ sbps > 0))
    /\ UNCHANGED <<sbps, shown, participant, account, request>>

CreateSbp ==
    /\ At("createSbp")
    /\ sbps < MaxSbps
    /\ sbps' = sbps + 1
    /\ backend' = [backend EXCEPT !.phase = "create", !.sbp = sbps + 1]
    /\ UNCHANGED <<shown, participant, account, request, blind>>

ReadModelShows(s) ==
    /\ shown' = shown \cup {s}
    /\ UNCHANGED <<sbps, participant, account, backend, request, blind>>

\* Mutant: the participant of an earlier start is taken again.
CreateInitialUserOnce ==
    /\ At("create")
    /\ \/ /\ \A p \in Participants : participant[p].for # Current
          /\ CreateUserProtocol(backend.sbp, Current, None)
          /\ backend' = [backend EXCEPT !.phase = "delegate", !.made = NewParticipant]
       \/ /\ \E p \in Participants :
                /\ participant[p].for = Current
                /\ backend' = [backend EXCEPT !.phase = "delegate", !.made = p]
          /\ UNCHANGED participant
    /\ UNCHANGED <<sbps, shown, account, request, blind>>

\* The initial user's participant, whether there is one already or not
CreateInitialUser ==
    /\ At("create")
    /\ CreateUserProtocol(backend.sbp, Current, None)
    /\ backend' = [backend EXCEPT !.phase = "delegate", !.made = NewParticipant]
    /\ UNCHANGED <<sbps, shown, account, request, blind>>

\* A deploy to the DID registry is sent (SendAddDelegate of DidRegistry).
AddDelegate ==
    /\ At("delegate")
    /\ backend' = [backend EXCEPT !.phase = "find"]
    /\ UNCHANGED <<sbps, shown, participant, account, request, blind>>

\* Mutant: the search forgets its parameter.
FindAnyUser ==
    /\ At("find")
    /\ \E u \in DOMAIN account :
          backend' = [backend EXCEPT !.phase = "update", !.hit = u]
    /\ UNCHANGED <<sbps, shown, participant, account, request, blind>>

\* getUserByUsername, of which the first is taken: Keycloak finds every name that
\* contains the given one.
FindUser ==
    /\ At("find")
    /\ \E u \in Found[Current] \cap DOMAIN account :
          backend' = [backend EXCEPT !.phase = "update", !.hit = u]
    /\ UNCHANGED <<sbps, shown, participant, account, request, blind>>

\* After the last initial user the server starts.
NextUser ==
    LET last == backend.next = Len(Initial)
    IN  backend' = [backend EXCEPT !.phase = IF last THEN "serving" ELSE "create",
                                   !.next = IF last THEN @ ELSE @ + 1,
                                   !.made = None, !.hit = None]

\* Mutant: a user who has a participant keeps it.
UpdateUserOnce ==
    /\ At("update")
    /\ account' = [account EXCEPT ![backend.hit] = IF @ = None THEN backend.made ELSE @]
    /\ NextUser
    /\ UNCHANGED <<sbps, shown, participant, request, blind>>

\* updateUser writes the user back, with its new participant.
UpdateUser ==
    /\ At("update")
    /\ account' = [account EXCEPT ![backend.hit] = backend.made]
    /\ NextUser
    /\ UNCHANGED <<sbps, shown, participant, request, blind>>

\* A start that fails, or a kill.  Who waits for an answer gets none.
Stop ==
    /\ ~At("down")
    /\ backend' = Down
    /\ request' = [r \in Request |->
          IF request[r].step \in {"create", "account"}
          THEN [request[r] EXCEPT !.step = "failed"] ELSE request[r]]
    /\ UNCHANGED <<sbps, shown, participant, account, blind>>

-----------------------------------------------------------------------------
(* Registration *)

Waits(r, step) == At("serving") /\ request[r].step = step

\* A request arrives.  (RoleFilter lets it pass whoever is logged in: it discards the
\* error that it makes.)
Register(r, u) ==
    /\ Waits(r, "free")
    /\ request' = [request EXCEPT ![r].user = u, ![r].step = "create"]
    /\ UNCHANGED <<sbps, shown, participant, account, backend, blind>>

\* The participant comes first.
RegisterParticipant(r) ==
    /\ Waits(r, "create")
    /\ CreateUserProtocol(backend.sbp, request[r].user, r)
    /\ request' = [request EXCEPT ![r].step = "account", ![r].made = NewParticipant]
    /\ UNCHANGED <<sbps, shown, account, backend, blind>>

\* Mutant: a user who is there already is updated.
PutKeycloakUser(r) ==
    LET u == request[r].user
    IN  /\ Waits(r, "account")
        /\ account' = [v \in DOMAIN account \cup {u} |->
              IF v = u THEN request[r].made ELSE account[v]]
        /\ request' = [request EXCEPT ![r].step = "ok"]
        /\ UNCHANGED <<sbps, shown, participant, backend, blind>>

\* Then its Keycloak user, unless there is one of this name.
CreateKeycloakUser(r) ==
    LET u == request[r].user
    IN  /\ Waits(r, "account")
        /\ IF u \in DOMAIN account THEN UNCHANGED account
           ELSE account' = [v \in DOMAIN account \cup {u} |->
                   IF v = u THEN request[r].made ELSE account[v]]
        /\ \E answer \in {"ok", "failed"} :
              /\ u \in DOMAIN account => answer = "failed"
              /\ request' = [request EXCEPT ![r].step = answer]
        /\ UNCHANGED <<sbps, shown, participant, backend, blind>>

\* A call fails, or its answer is lost.
Fail(r) ==
    /\ request[r].step \in {"create", "account"}
    /\ request' = [request EXCEPT ![r].step = "failed"]
    /\ UNCHANGED <<sbps, shown, participant, account, backend, blind>>

-----------------------------------------------------------------------------
(* The specification *)

\* The initial users were provisioned, without a participant.
Init ==
    /\ sbps = 0
    /\ shown = {}
    /\ participant = <<>>
    /\ account = [u \in InitialUsers |-> None]
    /\ backend = Down
    /\ request = [r \in Request |-> Unsent]
    /\ blind = FALSE

Next ==
    \/ Start \/ QuerySbp \/ CreateSbp
    \/ CreateInitialUser \/ AddDelegate \/ FindUser \/ UpdateUser
    \/ Stop
    \/ \E s \in Sbps : ReadModelShows(s)
    \/ \E r \in Request :
        \/ \E u \in User : Register(r, u)
        \/ RegisterParticipant(r)
        \/ CreateKeycloakUser(r)
        \/ Fail(r)

Spec == Init /\ [][Next]_vars

-----------------------------------------------------------------------------
(* Properties *)

\* The types of the state.
AccountsTypeOK ==
    /\ sbps \in Nat
    /\ shown \subseteq Sbps
    /\ participant \in Seq(ParticipantState)
    /\ DOMAIN account \subseteq User
    /\ \A u \in DOMAIN account : account[u] \in Option(Participants)
    /\ backend \in BackendState
    /\ request \in [Request -> RequestState]
    /\ blind \in BOOLEAN

\* No search for another initial user's name finds this user.
OwnName(u) == \A i \in InitialUsers : u \in Found[i] => u = i

\* A user acts as a participant that was made for this user, unless its name contains
\* that of an initial user, whose next start may give it that one's participant
\* (InitSetupHelper.kt:85-87, LoggedInUserHandler.kt:23-25).
UsersActAsTheirOwn ==
    \A u \in DOMAIN account :
        OwnName(u) /\ account[u] # None => participant[account[u]].for = u

\* Whoever was registered can log in as the participant of the registration's answer,
\* and can for ever, whatever else is registered and however often the backend starts
\* again (ParticipantHandler.kt:28-52).
RegistrationsHold ==
    \A r \in Request : request[r].step = "ok" =>
        /\ request[r].user \in DOMAIN account
        /\ OwnName(request[r].user) => account[request[r].user] = request[r].made

\* No two users act as one participant, also when a name leads to another user.
ParticipantsAreNotShared ==
    \A u, v \in DOMAIN account : account[u] = account[v] /\ account[u] # None => u = v

\* As long as every start saw the SBP in the read model that there was, everybody is on
\* the market that the backend serves (ProtocolExists.kt:16-22, InitSetupHelper.kt:27-37).
OneMarket ==
    ~blind =>
        /\ \A p \in Participants : participant[p].sbp = 1
        /\ At("serving") => backend.sbp = 1

\* When the backend serves requests, each initial user acts as the participant that this
\* start made, on the SBP that it serves; those of earlier starts nobody can act as any
\* more (Main.kt:126-128).
InitialUsersAreRenewed ==
    At("serving") =>
        \A u \in InitialUsers : Found[u] = {u} =>
            /\ account[u] # None
            /\ participant[account[u]].sbp = backend.sbp
            /\ \A p \in Participants :
                  participant[p].for = u /\ participant[p].by = None => p <= account[u]
=============================================================================
