------------------------------- MODULE Session -------------------------------
(***************************************************************************)
(* Who is logged in: the user store of the frontend (stores/user.ts), its  *)
(* cookies, the token provider of the API client (data/api/index.ts), the  *)
(* guard of the router, and the backend's login, refresh and logout, which *)
(* pass on what Keycloak answers.                                          *)
(*                                                                         *)
(* Every function of the frontend that awaits something is a task.  A task *)
(* runs without interruption by its tab until it sends a request, and goes *)
(* on when the answer arrives; in between other tasks of the same tab run  *)
(* on the same store.  The tabs of a browser run side by side on the same  *)
(* cookies, each of which is read and written by itself (cookie.ts).       *)
(***************************************************************************)

CONSTANTS
    User, Party,
    PartyOf,      \* the party attribute of a user in Keycloak
    Tab,
    Task,         \* bound: the functions that await something at the same time
    Grant,        \* bound: the token pairs that are held somewhere
    Login,        \* bound: the Keycloak sessions that they belong to
    Faulty,       \* requests may get lost, or fail on the way
    None

ASSUME SessionParameters ==
    /\ PartyOf \in [User -> Party]
    /\ User # {} /\ Login # {}
    /\ Faulty \in BOOLEAN

ASSUME SessionNone ==
    None \notin User \cup Party \cup Grant \cup Task \cup {"ok", "refused"}

ASSUME GrantsAreNoWords == Grant \cap {"ok", "refused"} = {}

VARIABLES
    login,        \* Keycloak's sessions
    grant,        \* a pair of an access and a refresh token that Keycloak issued
    cookie,       \* the browser's cookies
    store,        \* the user store of each tab
    page,         \* what each tab shows
    task,
    script,       \* how far each tab has read or written the cookies
    torn,         \* history: the scripts that wrote the cookies were not alone
    mixed         \* history: the tabs that were loaded when this was so

keycloak == <<login, grant>>
cookies == <<cookie, script, torn, mixed>>
vars == <<login, grant, cookie, store, page, task, script, torn, mixed>>

-----------------------------------------------------------------------------
(* Types *)

Option(S) == S \cup {None}

LoginState == [user : User, over : BOOLEAN]

\* access: "expiring" in the last 15 s before it is expired
GrantState == [login : Login, access : {"fresh", "expiring", "expired"}, refresh : BOOLEAN]

Tokens == [access : Option(Grant), refresh : Option(Grant), party : Option(Party)]
StoreState == [access : Option(Grant), refresh : Option(Grant), party : Option(Party),
               profile : Option(User)]

\* What a tab shows: nothing yet, the login page or a page that needs a login
Page == {"closed", "blank", "login", "main"}

\* login: LoginComponent; logout: the button; leave: the router's guard, on the way to
\* the login page; load: loadUserProfile; call: any other call of the API
Kind == {"login", "logout", "leave", "load", "call"}

\* What a task has asked the backend for; renew is the second refresh of the token
\* provider.  bearer is the request's Authorization header and form the refresh token
\* in its form; json is the token in a JSON body.
Ask == {"login", "refresh", "renew", "logout", "api"}

Idle == [kind |-> "idle"]

\* user: whose call it is, or who logs in
Running ==
    [kind : Kind, tab : Tab, user : Option(User), ask : Ask,
     bearer : Option(Grant), form : Option(Grant), json : Option(Grant),
     answer : Option(Grant \cup {"ok", "refused"})]

\* A script uses the cookies in this order.  next: the one it comes to; task: whose answer
\* it writes, or none, when it reads them; alone: no other tab has written in between.
After == [access |-> "refresh", refresh |-> "party"]
Script == [task : Option(Task), next : {"access", "refresh", "party"}, alone : BOOLEAN]
AtRest == [task |-> None, next |-> "access", alone |-> TRUE]

-----------------------------------------------------------------------------
(* The getters of the user store *)

UserOf(g) == login[grant[g].login].user

HasTokens(s) == s.access # None /\ s.refresh # None

CanRefresh(s) == HasTokens(s) /\ grant[s.refresh].refresh

\* jwt.decode: a missing token has expired.
Validity(g) == IF g = None THEN "expired" ELSE grant[g].access

ValidBearer(s) == HasTokens(s) /\ Validity(s.access) # "expired"

AboutToExpire(s) == Validity(s.access) # "fresh"

NoTokens == [access |-> None, refresh |-> None, party |-> None]

\* Mutant: the user's name is stored as the party
TokensWithUserName(g) == [access |-> g, refresh |-> g, party |-> UserOf(g)]

\* The tokens and the party of an answer
TokensOf(g) == [access |-> g, refresh |-> g, party |-> PartyOf[UserOf(g)]]

\* A store with these tokens and without a profile
Fresh(tokens) ==
    [access |-> tokens.access, refresh |-> tokens.refresh, party |-> tokens.party,
     profile |-> None]

-----------------------------------------------------------------------------
(* Tasks *)

IsIdle(t) == task[t] = Idle
Asked(t, what) == ~IsIdle(t) /\ task[t].ask = what /\ task[t].answer = None
Answered(t, what) == ~IsIdle(t) /\ task[t].ask = what /\ task[t].answer # None
Refused(t) == task[t].answer = "refused"

Become(t, run) == task' = [task EXCEPT ![t] = run]
End(t) == Become(t, Idle)

-----------------------------------------------------------------------------
(* The cookies *)

\* A tab does nothing else while a script of it is at the cookies.
Busy(tab) == script[tab].next # "access"
Writing(tab) == script[tab].task # None
HasTurn(t) == ~Busy(task[t].tab) \/ script[task[t].tab].task = t

\* The scripts after a cookie was written in a tab, whose own goes on as s
Overtaken(r) == [r EXCEPT !.alone = (r.next = "access")]
ScriptsAfter(tab, s) == [x \in Tab |-> IF x = tab THEN s ELSE Overtaken(script[x])]

\* Which tokens an answer brings, if any: those of a logout are empty, whatever it is.
Brings(t) ==
    \/ Answered(t, "logout")
    \/ /\ Answered(t, "login") \/ Answered(t, "refresh") \/ Answered(t, "renew")
       /\ ~Refused(t)

Brought(t) == IF task[t].ask = "logout" THEN NoTokens ELSE TokensOf(task[t].answer)

\* createCookie, of the first two
WriteCookie(t) ==
    /\ Brings(t)
    /\ HasTurn(t)
    /\ LET tab == task[t].tab
           next == script[tab].next
       IN  /\ next # "party"
           /\ cookie' = [cookie EXCEPT ![next] = Brought(t)[next]]
           /\ script' = ScriptsAfter(tab,
                 [script[tab] EXCEPT !.task = t, !.next = After[next]])
    /\ UNCHANGED <<keycloak, torn, mixed, store, page, task>>

\* createCookie of the last one, and $patch of the store.  The empty user of the patch is
\* merged into the profile, which stays as it was.
Patch(t, tokens) ==
    LET tab == task[t].tab
    IN  /\ script[tab].task = t
        /\ script[tab].next = "party"
        /\ cookie' = [cookie EXCEPT !.party = tokens.party]
        /\ script' = ScriptsAfter(tab, AtRest)
        /\ torn' = ~script[tab].alone
        /\ store' = [store EXCEPT ![tab] = [Fresh(tokens) EXCEPT !.profile = store[tab].profile]]
        /\ mixed' = mixed \ {tab}

\* readCookie, of the first two: the store of a tab that is loaded starts with the cookies.
ReadCookie(tab) ==
    /\ page[tab] = "closed"
    /\ LET next == script[tab].next
       IN  /\ next # "party"
           /\ store' = [store EXCEPT ![tab][next] = cookie[next]]
           /\ script' = [script EXCEPT ![tab].next = After[next]]
    /\ UNCHANGED <<keycloak, cookie, torn, mixed, page, task>>

-----------------------------------------------------------------------------
(* Requests *)

Request(kind, tab, user, what, bearer, form, json) ==
    [kind |-> kind, tab |-> tab, user |-> user, ask |-> what, bearer |-> bearer,
     form |-> form, json |-> json, answer |-> None]

Asking(kind, tab, user, what, refresh) ==
    Request(kind, tab, user, what, None, refresh, None)

Sending(kind, tab, user, bearer) == Request(kind, tab, user, "api", bearer, None, None)

SignIn(tab, user) == Asking("login", tab, user, "login", None)

\* UserStore.refresh, up to its request: it is rejected when the refresh token is
\* missing or expired.  Whatever goes wrong in a refresh, the user is sent to a route
\* "Login" that does not exist, so that the refresh is rejected, and the call with it.
Refresh(kind, tab, user, what, s) ==
    IF CanRefresh(s) THEN Asking(kind, tab, user, what, s.refresh) ELSE Idle

\* OpenAPI.TOKEN, up to its first await, and the request when it need not await
\* anything: a call of the API by a user.
Provide(kind, tab, user, s) ==
    IF ~ValidBearer(s) THEN Refresh(kind, tab, user, "refresh", s)
    ELSE IF AboutToExpire(s) THEN Refresh(kind, tab, user, "renew", s)
    ELSE Sending(kind, tab, user, s.access)

\* A call made now is the call of the user whose tokens the tab holds, if they are of one.
Holder(s) ==
    IF HasTokens(s) /\ UserOf(s.access) = UserOf(s.refresh) THEN UserOf(s.access) ELSE None

\* UserStore.logout: the access token is sent as a refresh token, in a JSON body and
\* without an Authorization header.
Logout(kind, tab, s) == Request(kind, tab, None, "logout", None, None, s.access)

-----------------------------------------------------------------------------
(* What the user does *)

\* LoginComponent.submit, and UserStore.login up to its request
Submit(t, tab, u) ==
    /\ IsIdle(t)
    /\ page[tab] = "login"
    /\ ~Busy(tab)
    /\ Become(t, SignIn(tab, u))
    /\ UNCHANGED <<keycloak, cookies, store, page>>

\* The Logout button of the side bar
PressLogout(t, tab) ==
    /\ IsIdle(t)
    /\ page[tab] = "main"
    /\ ~Busy(tab)
    /\ Become(t, Logout("logout", tab, store[tab]))
    /\ UNCHANGED <<keycloak, cookies, store, page>>

Show(tab, shown) == page' = [page EXCEPT ![tab] = shown]

\* The router's guard on the way to the login page: who has tokens is logged out first,
\* and meanwhile the tab shows what it showed.
GuardLogin(t, tab, s, shown) ==
    \/ /\ HasTokens(s)
       /\ Become(t, Logout("leave", tab, s))
       /\ Show(tab, shown)
    \/ /\ ~HasTokens(s)
       /\ End(t)
       /\ Show(tab, "login")

Admitted(s) == ValidBearer(s) \/ CanRefresh(s)

\* The guard on the way to a page that needs a login.  HomeView is mounted with the
\* first such page and loads the profile (its TopBarComponent asks for the same).
GuardMain(t, tab, s, shown) ==
    \/ /\ Admitted(s)
       /\ Become(t, IF shown = "main" THEN Idle ELSE Provide("load", tab, Holder(s), s))
       /\ Show(tab, "main")
    \/ /\ ~Admitted(s)
       /\ GuardLogin(t, tab, s, shown)

\* A link, or the browser's history
GoToLogin(t, tab) ==
    /\ IsIdle(t)
    /\ page[tab] = "main"
    /\ ~Busy(tab)
    /\ GuardLogin(t, tab, store[tab], "main")
    /\ UNCHANGED <<keycloak, cookies, store>>

GoToMain(t, tab) ==
    /\ IsIdle(t)
    /\ page[tab] \in {"login", "main"}
    /\ ~Busy(tab)
    /\ GuardMain(t, tab, store[tab], page[tab])
    /\ UNCHANGED <<keycloak, cookies, store>>

\* The tab is closed, is about to be loaded again, or is killed, which may be in the middle
\* of a script: its tasks are gone.
Unload(tab) ==
    /\ page[tab] # "closed"
    /\ page' = [page EXCEPT ![tab] = "closed"]
    /\ task' = [t \in Task |-> IF ~IsIdle(t) /\ task[t].tab = tab THEN Idle ELSE task[t]]
    /\ store' = [store EXCEPT ![tab] = Fresh(NoTokens)]
    /\ script' = [script EXCEPT ![tab] = AtRest]
    /\ torn' = (torn \/ Writing(tab))
    /\ mixed' = mixed \ {tab}
    /\ UNCHANGED <<keycloak, cookie>>

\* readCookie of the last one, with which the store is s, and the tab opens at some page.
Open(t, tab) ==
    LET s == [store[tab] EXCEPT !.party = cookie.party]
    IN  /\ IsIdle(t)
        /\ page[tab] = "closed"
        /\ script[tab].next = "party"
        /\ store' = [store EXCEPT ![tab] = s]
        /\ script' = [script EXCEPT ![tab] = AtRest]
        /\ mixed' = IF script[tab].alone /\ ~torn /\ \A x \in Tab : ~Writing(x)
                    THEN mixed ELSE mixed \cup {tab}
        /\ GuardLogin(t, tab, s, "blank") \/ GuardMain(t, tab, s, "blank")
        /\ UNCHANGED <<keycloak, cookie, torn>>

\* A call of the API from a page that needs a login
CallApi(t, tab) ==
    /\ IsIdle(t)
    /\ page[tab] = "main"
    /\ ~Busy(tab)
    /\ Become(t, Provide("call", tab, Holder(store[tab]), store[tab]))
    /\ UNCHANGED <<keycloak, cookies, store, page>>

-----------------------------------------------------------------------------
(* What the frontend does with the answers *)

\* login: the answer is stored and the profile asked for; a failure is shown.
LoginAnswered(t) ==
    /\ Answered(t, "login")
    /\ HasTurn(t)
    /\ LET tab == task[t].tab
           tokens == TokensOf(task[t].answer)
       IN  IF Refused(t) THEN End(t) /\ UNCHANGED <<store, cookies>>
           ELSE /\ Patch(t, tokens)
                /\ Become(t, Provide("login", tab, task[t].user, tokens))
    /\ UNCHANGED <<keycloak, page>>

\* Mutants: a failed refresh does not end the call if there is a valid token; the token
\* is read before the refresh; the party is left alone, as it is the same user.
RefreshSwallowed(t) ==
    /\ Answered(t, "refresh") \/ Answered(t, "renew")
    /\ HasTurn(t)
    /\ LET run == task[t]
           tokens == IF Refused(t) THEN store[run.tab] ELSE TokensOf(run.answer)
       IN  /\ IF Refused(t) THEN UNCHANGED <<store, cookies>> ELSE Patch(t, tokens)
           /\ Become(t, IF ValidBearer(tokens)
                        THEN Sending(run.kind, run.tab, run.user, tokens.access) ELSE Idle)
    /\ UNCHANGED <<keycloak, page>>

RefreshUnused(t) ==
    /\ Answered(t, "refresh") \/ Answered(t, "renew")
    /\ HasTurn(t)
    /\ LET run == task[t]
       IN  IF Refused(t) THEN End(t) /\ UNCHANGED <<store, cookies>>
           ELSE /\ Patch(t, TokensOf(run.answer))
                /\ Become(t, Sending(run.kind, run.tab, run.user, store[run.tab].access))
    /\ UNCHANGED <<keycloak, page>>

RefreshKeepsParty(t) ==
    /\ Answered(t, "refresh") \/ Answered(t, "renew")
    /\ HasTurn(t)
    /\ LET run == task[t]
           tokens == [TokensOf(run.answer) EXCEPT !.party = store[run.tab].party]
       IN  IF Refused(t) THEN End(t) /\ UNCHANGED <<store, cookies>>
           ELSE /\ Patch(t, tokens)
                /\ Become(t, Sending(run.kind, run.tab, run.user, tokens.access))
    /\ UNCHANGED <<keycloak, page>>

\* The token provider looks at the new token once more after its first refresh, not
\* after its second.  A failed refresh ends the call.
RefreshAnswered(t) ==
    /\ Answered(t, "refresh") \/ Answered(t, "renew")
    /\ HasTurn(t)
    /\ LET run == task[t]
           tokens == TokensOf(run.answer)
       IN  IF Refused(t) THEN End(t) /\ UNCHANGED <<store, cookies>>
           ELSE /\ Patch(t, tokens)
                /\ Become(t, IF run.ask = "refresh" /\ AboutToExpire(tokens)
                             THEN Refresh(run.kind, run.tab, run.user, "renew", tokens)
                             ELSE Sending(run.kind, run.tab, run.user, tokens.access))
    /\ UNCHANGED <<keycloak, page>>

\* logout: the tokens are erased whatever the answer is.  After a failure the user is
\* sent to the login page; the guard that asked for the logout does it in any case.
LogoutAnswered(t) ==
    /\ Answered(t, "logout")
    /\ LET tab == task[t].tab
       IN  /\ Patch(t, NoTokens)
           /\ IF task[t].kind = "leave" \/ Refused(t) THEN Show(tab, "login")
              ELSE UNCHANGED page
    /\ End(t)
    /\ UNCHANGED keycloak

\* The profile is that of the bearer's user.  After a login the main page is opened.
ApiAnswered(t) ==
    /\ Answered(t, "api")
    /\ HasTurn(t)
    /\ LET run == task[t]
           s == store[run.tab]
       IN  /\ IF Refused(t) \/ run.kind = "call" THEN UNCHANGED store
              ELSE store' = [store EXCEPT ![run.tab].profile = UserOf(run.bearer)]
           /\ IF Refused(t) \/ run.kind # "login" THEN End(t) /\ UNCHANGED page
              ELSE GuardMain(t, run.tab, s, page[run.tab])
    /\ UNCHANGED <<keycloak, cookies>>

Proceed(t) ==
    LoginAnswered(t) \/ RefreshAnswered(t) \/ LogoutAnswered(t) \/ ApiAnswered(t)

-----------------------------------------------------------------------------
(* What the backend and Keycloak answer *)

\* With the answer the request is over.
Answer(t, answer) == Become(t, [task[t] EXCEPT !.form = None, !.answer = answer])

Grants(run) ==
    IF run = Idle THEN {} ELSE {run.bearer, run.form, run.json, run.answer} \cap Grant

\* The grants that are held by somebody besides the tasks ts
HeldBesides(ts) ==
    (UNION {Grants(task[t]) : t \in Task \ ts})
    \cup ((UNION {{s.access, s.refresh} : s \in {cookie} \cup {store[tab] : tab \in Tab}})
          \cap Grant)

Held == HeldBesides({})

FreeLogins == Login \ {grant[g].login : g \in Held}

\* A new pair of tokens for session l
Issue(t, g, l) ==
    /\ grant' = [grant EXCEPT ![g] = [login |-> l, access |-> "fresh", refresh |-> TRUE]]
    /\ Answer(t, g)

\* Authentication.login: a new session, or the password is wrong.
ServeLogin(t) ==
    /\ Asked(t, "login")
    /\ \/ \E g \in Grant \ Held, l \in FreeLogins :
             /\ login' = [login EXCEPT ![l] = [user |-> task[t].user, over |-> FALSE]]
             /\ Issue(t, g, l)
       \/ Answer(t, "refused") /\ UNCHANGED keycloak
    /\ UNCHANGED <<cookies, store, page>>

\* Keycloak accepts a refresh token, also one that was used before.
Refreshable(g) == grant[g].refresh /\ ~login[grant[g].login].over

\* Authentication.refresh
ServeRefresh(t) ==
    /\ Asked(t, "refresh") \/ Asked(t, "renew")
    /\ LET r == task[t].form
       IN  \/ /\ Refreshable(r)
              /\ \E g \in Grant \ HeldBesides({t}) : Issue(t, g, grant[r].login)
           \/ /\ ~Refreshable(r)
              /\ Answer(t, "refused")
              /\ UNCHANGED grant
    /\ UNCHANGED <<login, cookies, store, page>>

\* KeycloakClient.authorize: Keycloak knows the bearer's user.
Authorized(bearer) ==
    grant[bearer].access # "expired" /\ ~login[grant[bearer].login].over

\* Filters.loginRequired
LoginRequired(bearer) == bearer # None /\ Authorized(bearer)

\* Mutant: the route needs no login, and takes the token from a JSON body.
LogoutAcceptedFromAnybody(run) == run.json # None

\* The route is behind loginRequired, and the handler takes the refresh token from the
\* form (a missing one is empty, which Keycloak refuses).
LogoutAccepted(run) == LoginRequired(run.bearer) /\ run.form # None

\* KeycloakClient.logout: the sessions that end
EndedBy(run) ==
    IF LogoutAccepted(run) THEN {grant[g].login : g \in {run.form} \cap Grant} ELSE {}

ServeLogout(t) ==
    /\ Asked(t, "logout")
    /\ Answer(t, IF LogoutAccepted(task[t]) THEN "ok" ELSE "refused")
    /\ login' = [l \in Login |-> IF l \in EndedBy(task[t])
                                 THEN [login[l] EXCEPT !.over = TRUE] ELSE login[l]]
    /\ UNCHANGED <<grant, cookies, store, page>>

\* A route behind loginRequired.  (What the answer of a call says is of no consequence
\* here.)
ServeApi(t) ==
    /\ Asked(t, "api")
    /\ Answer(t, IF LoginRequired(task[t].bearer) THEN "ok" ELSE "refused")
    /\ UNCHANGED <<keycloak, cookies, store, page>>

Serve(t) == ServeLogin(t) \/ ServeRefresh(t) \/ ServeLogout(t) \/ ServeApi(t)

\* A request or its answer is lost, or the backend or Keycloak fail.
Fail(t) ==
    /\ Faulty
    /\ ~IsIdle(t)
    /\ ~Refused(t)
    /\ script[task[t].tab].task # t
    /\ Answer(t, "refused")
    /\ UNCHANGED <<keycloak, cookies, store, page>>

\* Time passes.  Bound: an access token lives longer than an answer takes to arrive,
\* and a refresh token longer than the access token it comes with.
AccessExpires(g) ==
    /\ g \in Held
    /\ \/ /\ grant[g].access = "fresh"
          /\ grant' = [grant EXCEPT ![g].access = "expiring"]
       \/ /\ grant[g].access = "expiring"
          /\ \A t \in Task : ~IsIdle(t) => task[t].answer # g
          /\ grant' = [grant EXCEPT ![g].access = "expired"]
    /\ UNCHANGED <<login, cookies, store, page, task>>

RefreshExpires(g) ==
    /\ g \in Held
    /\ grant[g].access = "expired"
    /\ grant[g].refresh
    /\ grant' = [grant EXCEPT ![g].refresh = FALSE]
    /\ UNCHANGED <<login, cookies, store, page, task>>

\* Keycloak ends a session: it lasted too long, or an administrator ends it.
SessionEnds(l) ==
    /\ l \notin FreeLogins
    /\ ~login[l].over
    /\ login' = [login EXCEPT ![l].over = TRUE]
    /\ UNCHANGED <<grant, cookies, store, page, task>>

-----------------------------------------------------------------------------
(* The specification *)

Init ==
    /\ login \in [Login -> {[user |-> u, over |-> TRUE] : u \in {CHOOSE u \in User : TRUE}}]
    /\ grant = [g \in Grant |->
          [login |-> CHOOSE l \in Login : TRUE, access |-> "expired", refresh |-> FALSE]]
    /\ cookie = NoTokens
    /\ store = [tab \in Tab |-> Fresh(NoTokens)]
    /\ page = [tab \in Tab |-> "closed"]
    /\ task = [t \in Task |-> Idle]
    /\ script = [tab \in Tab |-> AtRest]
    /\ torn = FALSE
    /\ mixed = {}

Act(t, tab) ==
    \/ \E u \in User : Submit(t, tab, u)
    \/ PressLogout(t, tab)
    \/ GoToLogin(t, tab)
    \/ GoToMain(t, tab)
    \/ Open(t, tab)
    \/ CallApi(t, tab)

Next ==
    \/ \E tab \in Tab : Unload(tab) \/ ReadCookie(tab)
    \/ \E t \in Task :
        \/ \E tab \in Tab : Act(t, tab)
        \/ WriteCookie(t)
        \/ Proceed(t)
        \/ Serve(t)
        \/ Fail(t)
    \/ \E g \in Grant : AccessExpires(g) \/ RefreshExpires(g)
    \/ \E l \in Login : SessionEnds(l)

Spec == Init /\ [][Next]_vars

-----------------------------------------------------------------------------
(* Properties *)

\* The types of the state.
SessionTypeOK ==
    /\ login \in [Login -> LoginState]
    /\ grant \in [Grant -> GrantState]
    /\ cookie \in Tokens
    /\ store \in [Tab -> StoreState]
    /\ page \in [Tab -> Page]
    /\ task \in [Task -> {Idle} \cup Running]
    /\ script \in [Tab -> Script]
    /\ torn \in BOOLEAN
    /\ mixed \subseteq Tab

Consistent(s) ==
    \/ s.access = None /\ s.refresh = None /\ s.party = None
    \/ /\ s.access \in Grant
       /\ s.refresh = s.access
       /\ s.party = PartyOf[UserOf(s.access)]

\* Both tokens and the party of the cookies are of one answer, or are all missing, unless a
\* tab is writing them, or was not alone when it wrote them; and those of a tab are, unless it
\* was loaded from such cookies or while another tab wrote, and has had no answer since.  So
\* logins, refreshes and logouts of several tabs mix two logins only where their scripts meet,
\* and the next answer puts it right (user.ts:53-60, 105-158, cookie.ts:10-43).
TokensAreOfOneLogin ==
    /\ torn \/ (\E tab \in Tab : Writing(tab)) \/ Consistent(cookie)
    /\ \A tab \in Tab : page[tab] = "closed" \/ tab \in mixed \/ Consistent(store[tab])

\* A call is sent with a token of the user who made it, although the store may have
\* changed hands while the call waited for a fresh token: a logout and the login of
\* another user in between do not make it their call (data/api/index.ts:15-37,
\* user.ts:143-163).  A tab whose two tokens are of two users makes nobody's calls.
CallsAreSentAsTheirUser ==
    \A t \in Task : Asked(t, "api") /\ task[t].user # None =>
        /\ task[t].bearer # None
        /\ UserOf(task[t].bearer) = task[t].user

\* No call is sent with a token that is missing or expired (data/api/index.ts:20-36).
SentBearersAreValid ==
    [][\A t \in Task :
          ~Asked(t, "api") /\ Asked(t, "api")' =>
              /\ task'[t].bearer # None
              /\ grant[task'[t].bearer].access # "expired"]_vars

\* Who has pressed Logout is on the login page when it is answered, and the tab has no
\* tokens.  Only the handler of a failed logout goes there (user.ts:140,
\* SideBarComponent.vue:52), so that this rests on the backend refusing the logout.
LogoutShowsLogin ==
    [][\A t \in Task : \A tab \in Tab :
          /\ Answered(t, "logout") /\ task[t].kind = "logout" /\ task[t].tab = tab
          /\ task'[t] = Idle /\ page'[tab] # "closed"
          => page'[tab] = "login" /\ store'[tab].access = None]_vars

\* Logout "invalidates a current login" (data/api/index.ts:94-98): when it is answered,
\* the session of the token it was for is over.
LogoutEndsTheLogin ==
    \A t \in Task :
        Answered(t, "logout") /\ task[t].json # None =>
            login[grant[task[t].json].login].over
=============================================================================
