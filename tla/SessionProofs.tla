---------------------------- MODULE SessionProofs ----------------------------
(* What Session guarantees for any number of tabs, tasks, users, sessions   *)
(* and tokens.                                                              *)
EXTENDS Session, TLAPS

-----------------------------------------------------------------------------
(* The invariant of the calls.  Its parts take Keycloak's state as          *)
(* arguments, so that they can be stated of a step's old and new state      *)
(* alike.                                                                   *)

UserIn(g, lg, gr) == lg[gr[g].login].user

\* What a task asks for and is answered is its user's, if it has one, and no answer on
\* its way has expired.
RunOK(run, lg, gr) ==
    \/ run = Idle
    \/ /\ run \in Running
       /\ run.ask \in {"refresh", "renew"} /\ run.answer = None =>
             /\ run.form \in Grant
             /\ run.user # None => UserIn(run.form, lg, gr) = run.user
       /\ run.ask = "login" => run.user # None
       /\ run.ask \in {"login", "refresh", "renew"} =>
             /\ run.answer \in Grant \cup {None, "refused"}
             /\ run.answer \in Grant /\ run.user # None => UserIn(run.answer, lg, gr) = run.user
       /\ run.answer \in Grant => gr[run.answer].access # "expired"
       /\ run.ask = "api" =>
             /\ run.bearer \in Grant
             /\ run.user # None => UserIn(run.bearer, lg, gr) = run.user
       /\ run.ask = "logout" => run.bearer = None /\ run.answer \in {None, "refused"}

CallsInv ==
    /\ SessionTypeOK
    /\ \A t \in Task : RunOK(task[t], login, grant)

\* The types of what a browser keeps
TabsTyped ==
    /\ cookie \in Tokens
    /\ store \in [Tab -> StoreState]
    /\ page \in [Tab -> Page]
    /\ script \in [Tab -> Script]
    /\ torn \in BOOLEAN
    /\ mixed \subseteq Tab

\* A call that is about to be sent has a token that has not expired.
SendsValid(run) ==
    run # Idle /\ run.ask = "api" /\ run.answer = None =>
        run.bearer \in Grant /\ grant[run.bearer].access # "expired"

\* What has to be shown of every step
StepOK ==
    /\ CallsInv'
    /\ \A t \in Task : SendsValid(task'[t]) \/ (Asked(t, "api") /\ task'[t] = task[t])

LEMMA Words ==
    /\ None \notin Grant /\ None \notin User /\ None \notin {"ok", "refused"}
    /\ "ok" \notin Grant /\ "refused" \notin Grant
    /\ \A run \in Running : run # Idle
  BY SessionNone, GrantsAreNoWords DEF Running, Idle, Kind

LEMMA UsersTyped ==
    ASSUME SessionTypeOK, NEW g \in Grant
    PROVE  UserOf(g) \in User /\ grant[g] \in GrantState
                              /\ UserOf(g) = UserIn(g, login, grant)
  BY DEF SessionTypeOK, UserOf, UserIn, LoginState, GrantState

-----------------------------------------------------------------------------
(* The requests of the frontend *)

LEMMA RequestType ==
    ASSUME NEW kind \in Kind, NEW tab \in Tab, NEW user \in Option(User), NEW what \in Ask,
           NEW bearer \in Option(Grant), NEW form \in Option(Grant), NEW json \in Option(Grant)
    PROVE  Request(kind, tab, user, what, bearer, form, json) \in Running
  BY DEF Request, Running, Option

\* A store whose tokens are of user, if it has one
Of(s, user) ==
    /\ s.access \in Option(Grant) /\ s.refresh \in Option(Grant)
    /\ user \in Option(User)
    /\ user # None /\ HasTokens(s) => UserIn(s.access, login, grant) = user
                                      /\ UserIn(s.refresh, login, grant) = user

LEMMA RefreshOK ==
    ASSUME SessionTypeOK, NEW kind \in Kind, NEW tab \in Tab, NEW user, NEW s, Of(s, user),
           NEW what \in {"refresh", "renew"}
    PROVE  /\ RunOK(Refresh(kind, tab, user, what, s), login, grant)
           /\ SendsValid(Refresh(kind, tab, user, what, s))
<1> DEFINE run == Request(kind, tab, user, what, None, s.refresh, None)
<1>1. CASE ~CanRefresh(s)
  BY <1>1 DEF Refresh, RunOK, SendsValid
<1>2. CASE CanRefresh(s)
  <2>1. /\ s.refresh \in Grant /\ user \in Option(User)
        /\ user # None => UserIn(s.refresh, login, grant) = user
    BY <1>2 DEF CanRefresh, HasTokens, Of, Option
  <2>2. run \in Running
    BY <2>1, RequestType DEF Option, Ask
  <2>3. Refresh(kind, tab, user, what, s) = run
    BY <1>2 DEF Refresh, Asking
  <2>4. /\ run.ask = what /\ run.answer = None /\ run.form = s.refresh /\ run.user = user
        /\ run.bearer = None
    BY DEF Request
  <2> HIDE DEF run
  <2> QED
    BY <2>1, <2>2, <2>3, <2>4, Words DEF RunOK, SendsValid
<1> QED
  BY <1>1, <1>2

\* A call is sent with a token that has not expired, or waits for a refresh, as the
\* user whose tokens it starts from.
LEMMA ProvideOK ==
    ASSUME SessionTypeOK, NEW kind \in Kind, NEW tab \in Tab, NEW user, NEW s, Of(s, user)
    PROVE  /\ RunOK(Provide(kind, tab, user, s), login, grant)
           /\ SendsValid(Provide(kind, tab, user, s))
<1> DEFINE run == Request(kind, tab, user, "api", s.access, None, None)
<1>1. CASE ~ValidBearer(s) \/ AboutToExpire(s)
  BY <1>1, RefreshOK DEF Provide
<1>2. CASE ValidBearer(s) /\ ~AboutToExpire(s)
  <2>1. /\ s.access \in Grant /\ grant[s.access].access # "expired"
        /\ user \in Option(User)
        /\ user # None => UserIn(s.access, login, grant) = user
    BY <1>2, Words DEF ValidBearer, Validity, HasTokens, Of, Option
  <2>2. run \in Running
    BY <2>1, RequestType DEF Option, Ask
  <2>3. Provide(kind, tab, user, s) = run
    BY <1>2 DEF Provide, Sending
  <2>4. /\ run.ask = "api" /\ run.answer = None /\ run.bearer = s.access /\ run.user = user
    BY DEF Request
  <2> HIDE DEF run
  <2> QED
    BY <2>1, <2>2, <2>3, <2>4, Words DEF RunOK, SendsValid
<1> QED
  BY <1>1, <1>2

LEMMA LogoutOK ==
    ASSUME NEW kind \in Kind, NEW tab \in Tab, NEW s, s.access \in Option(Grant)
    PROVE  RunOK(Logout(kind, tab, s), login, grant) /\ SendsValid(Logout(kind, tab, s))
<1> DEFINE run == Request(kind, tab, None, "logout", None, None, s.access)
<1>1. run \in Running
  BY RequestType DEF Option, Ask
<1>2. run.ask = "logout" /\ run.answer = None /\ run.bearer = None
  BY DEF Request
<1>3. Logout(kind, tab, s) = run
  BY DEF Logout
<1> HIDE DEF run
<1> QED
  BY <1>1, <1>2, <1>3, Words DEF RunOK, SendsValid

-----------------------------------------------------------------------------
(* Steps of the frontend leave Keycloak alone. *)

LEMMA TypesAre == SessionTypeOK <=>
    /\ login \in [Login -> LoginState] /\ grant \in [Grant -> GrantState]
    /\ TabsTyped
    /\ task \in [Task -> {Idle} \cup Running]
  BY DEF SessionTypeOK, TabsTyped

LEMMA FrontendStep ==
    ASSUME CallsInv, NEW t \in Task, NEW run,
           RunOK(run, login, grant), SendsValid(run),
           task' = [task EXCEPT ![t] = run], UNCHANGED keycloak, TabsTyped'
    PROVE  StepOK
<1>1. login' = login /\ grant' = grant
  BY DEF keycloak
<1>2. \A q \in Task : task'[q] = IF q = t THEN run ELSE task[q]
  BY DEF CallsInv, SessionTypeOK
<1>3. \A q \in Task : RunOK(task'[q], login', grant')
  BY <1>1, <1>2 DEF CallsInv
<1>4. run \in {Idle} \cup Running
  BY DEF RunOK
<1>5. SessionTypeOK'
  BY <1>1, <1>4 DEF CallsInv, SessionTypeOK, TabsTyped, Tokens, StoreState, Page, Script, Running,
     LoginState, GrantState, Option
<1>6. \A q \in Task : SendsValid(task'[q]) \/ (Asked(q, "api") /\ task'[q] = task[q])
  BY <1>2 DEF SendsValid, Asked, IsIdle
<1> QED
  BY <1>1, <1>3, <1>5, <1>6 DEF StepOK, CallsInv

LEMMA IdleOK == RunOK(Idle, login, grant) /\ SendsValid(Idle)
  BY DEF RunOK, SendsValid

LEMMA SameTabs ==
    ASSUME CallsInv, UNCHANGED cookies, UNCHANGED store, UNCHANGED page
    PROVE  TabsTyped'
  BY DEF CallsInv, SessionTypeOK, TabsTyped, cookies, Tokens, StoreState, Page, Script, Option

\* A store is that of the user whose tokens it holds.
LEMMA HolderOf ==
    ASSUME CallsInv, NEW s, s.access \in Option(Grant), s.refresh \in Option(Grant)
    PROVE  Of(s, Holder(s))
<1>1. \A g \in Grant : UserOf(g) = UserIn(g, login, grant) /\ UserOf(g) \in User
  BY UsersTyped DEF CallsInv
<1>2. CASE HasTokens(s) /\ UserOf(s.access) = UserOf(s.refresh)
  BY <1>1, <1>2 DEF Of, Holder, HasTokens, Option
<1>3. CASE ~(HasTokens(s) /\ UserOf(s.access) = UserOf(s.refresh))
  BY <1>3 DEF Of, Holder, Option
<1> QED
  BY <1>2, <1>3

LEMMA StoreOf ==
    ASSUME CallsInv, NEW tab \in Tab
    PROVE  Of(store[tab], Holder(store[tab])) /\ store[tab].access \in Option(Grant)
<1>1. store[tab] \in StoreState
  BY DEF CallsInv, SessionTypeOK
<1>2. store[tab].access \in Option(Grant) /\ store[tab].refresh \in Option(Grant)
  BY <1>1 DEF StoreState
<1> QED
  BY <1>2, HolderOf

\* Both $patch with the tokens of an answer, and with none
LEMMA AnswerTokens ==
    ASSUME CallsInv, NEW g \in Grant, NEW user \in Option(User),
           user # None => UserIn(g, login, grant) = user
    PROVE  TokensOf(g) \in Tokens /\ Of(TokensOf(g), user)
<1>1. UserOf(g) \in User /\ UserOf(g) = UserIn(g, login, grant)
  BY UsersTyped DEF CallsInv
<1>2. PartyOf[UserOf(g)] \in Party
  BY <1>1, SessionParameters
<1> QED
  BY <1>1, <1>2 DEF TokensOf, Tokens, Of, Option

LEMMA ScriptTypes ==
    /\ AtRest \in Script
    /\ \A r \in Script : Overtaken(r) \in Script
    /\ \A r \in Script : r.next # "party" =>
          /\ [r EXCEPT !.next = After[r.next]] \in Script
          /\ \A t \in Task : [r EXCEPT !.task = t, !.next = After[r.next]] \in Script
<1>1. After["access"] = "refresh" /\ After["refresh"] = "party"
  BY DEF After
<1>2. ASSUME NEW r \in Script, r.next # "party"
      PROVE  /\ [r EXCEPT !.next = After[r.next]] \in Script
             /\ \A t \in Task : [r EXCEPT !.task = t, !.next = After[r.next]] \in Script
  <2>1. r.next \in {"access", "refresh"}
    BY <1>2 DEF Script
  <2>2. After[r.next] \in {"refresh", "party"}
    BY <1>1, <2>1
  <2> QED
    BY <2>2 DEF Script, Option
<1>3. AtRest \in Script /\ \A r \in Script : Overtaken(r) \in Script
  BY DEF AtRest, Script, Overtaken, Option
<1> QED
  BY <1>2, <1>3

LEMMA ScriptsTyped ==
    ASSUME CallsInv, NEW tab \in Tab, NEW r \in Script
    PROVE  ScriptsAfter(tab, r) \in [Tab -> Script]
  BY ScriptTypes DEF CallsInv, SessionTypeOK, ScriptsAfter

LEMMA PatchOK ==
    ASSUME CallsInv, NEW t \in Task, task[t].tab \in Tab, NEW tokens \in Tokens,
           Patch(t, tokens), page' \in [Tab -> Page]
    PROVE  TabsTyped'
<1> DEFINE tab == task[t].tab
           s == [Fresh(tokens) EXCEPT !.profile = store[tab].profile]
<1>a. tab \in Tab /\ SessionTypeOK
  BY DEF CallsInv
<1>1. s \in StoreState
  BY <1>a DEF Fresh, Tokens, StoreState, SessionTypeOK
<1>2. /\ cookie' = [cookie EXCEPT !.party = tokens.party]
      /\ store' = [store EXCEPT ![tab] = s]
      /\ script' = ScriptsAfter(tab, AtRest)
      /\ torn' = ~script[tab].alone
      /\ mixed' = mixed \ {tab}
  BY DEF Patch
<1> HIDE DEF s, tab
<1>3. store' \in [Tab -> StoreState]
  BY <1>a, <1>1, <1>2 DEF SessionTypeOK
<1>4. cookie' \in Tokens
  BY <1>a, <1>2 DEF SessionTypeOK, Tokens
<1>5. script' \in [Tab -> Script]
  BY <1>a, <1>2, ScriptTypes, ScriptsTyped
<1>6. torn' \in BOOLEAN /\ mixed' \subseteq Tab
  BY <1>a, <1>2 DEF SessionTypeOK, Script
<1> QED
  BY <1>3, <1>4, <1>5, <1>6
  DEF TabsTyped, Tokens, StoreState, Page, Script, Option

LEMMA NoTokensTyped == NoTokens \in Tokens /\ Fresh(NoTokens) \in StoreState
  BY DEF NoTokens, Tokens, Fresh, StoreState, Option

LEMMA ShowType ==
    ASSUME CallsInv, NEW tab \in Tab, NEW shown \in Page, Show(tab, shown)
    PROVE  page' \in [Tab -> Page]
  BY DEF CallsInv, SessionTypeOK, Show

\* The router's guards
LEMMA GuardLoginOK ==
    ASSUME CallsInv, NEW t \in Task, NEW tab \in Tab, NEW s, s.access \in Option(Grant),
           NEW shown \in Page, GuardLogin(t, tab, s, shown)
    PROVE  /\ page' \in [Tab -> Page]
           /\ \E run : /\ task' = [task EXCEPT ![t] = run]
                       /\ RunOK(run, login, grant) /\ SendsValid(run)
<1>1. CASE Become(t, Logout("leave", tab, s)) /\ Show(tab, shown)
  BY <1>1, LogoutOK, ShowType DEF Become, Kind
<1>2. CASE End(t) /\ Show(tab, "login")
  BY <1>2, IdleOK, ShowType DEF End, Become, Page
<1> QED
  BY <1>1, <1>2 DEF GuardLogin

LEMMA GuardMainOK ==
    ASSUME CallsInv, NEW t \in Task, NEW tab \in Tab, NEW s, s.access \in Option(Grant),
           Of(s, Holder(s)), NEW shown \in Page, GuardMain(t, tab, s, shown)
    PROVE  /\ page' \in [Tab -> Page]
           /\ \E run : /\ task' = [task EXCEPT ![t] = run]
                       /\ RunOK(run, login, grant) /\ SendsValid(run)
<1>1. CASE GuardLogin(t, tab, s, shown)
  BY <1>1, GuardLoginOK
<1>2. CASE /\ Become(t, IF shown = "main" THEN Idle ELSE Provide("load", tab, Holder(s), s))
           /\ Show(tab, "main")
  <2>1. /\ RunOK(Provide("load", tab, Holder(s), s), login, grant)
        /\ SendsValid(Provide("load", tab, Holder(s), s))
    <3>1. SessionTypeOK /\ "load" \in Kind
      BY DEF CallsInv, Kind
    <3> QED
      BY <3>1, ProvideOK
  <2>2. page' \in [Tab -> Page]
    BY <1>2, ShowType DEF Page
  <2> QED
    BY <1>2, <2>1, <2>2, IdleOK DEF Become
<1> QED
  BY <1>1, <1>2 DEF GuardMain

-----------------------------------------------------------------------------
(* Keycloak's answers, and time *)

UserStays(g) == UserIn(g, login', grant') = UserIn(g, login, grant)
StaysValid(g) == grant[g].access # "expired" => grant'[g].access # "expired"

\* Who holds what
LEMMA Holders ==
    ASSUME CallsInv, NEW ts
    PROVE  /\ \A tab \in Tab : store[tab].access \in Grant => store[tab].access \in HeldBesides(ts)
           /\ cookie.access \in Grant => cookie.access \in HeldBesides(ts)
           /\ \A q \in Task \ ts : task[q] \in Running =>
                 \A g \in Grant : g \in {task[q].bearer, task[q].form, task[q].answer}
                    => g \in HeldBesides(ts)
<1>1. ASSUME NEW s \in {cookie} \cup {store[tab] : tab \in Tab}, s.access \in Grant
      PROVE  s.access \in HeldBesides(ts)
  <2> DEFINE tokens == UNION {{x.access, x.refresh} : x \in {cookie} \cup {store[tab] : tab \in Tab}}
             others == UNION {Grants(task[q]) : q \in Task \ ts}
  <2>1. s.access \in tokens
    OBVIOUS
  <2>2. HeldBesides(ts) = others \cup (tokens \cap Grant)
    BY Zenon DEF HeldBesides
  <2> HIDE DEF tokens, others
  <2> QED
    BY <1>1, <2>1, <2>2
<1>2. ASSUME NEW q \in Task \ ts, task[q] \in Running, NEW g \in Grant,
             g \in {task[q].bearer, task[q].form, task[q].answer}
      PROVE  g \in HeldBesides(ts)
  <2>1. g \in Grants(task[q])
    BY <1>2, Words DEF Grants
  <2> QED
    BY <2>1 DEF HeldBesides
<1> QED
  BY <1>1, <1>2

LEMMA RunFrame ==
    ASSUME NEW run, RunOK(run, login, grant),
           run \in Running => \A g \in Grant : g \in {run.bearer, run.form, run.answer} => UserStays(g),
           run \in Running /\ run.answer \in Grant => StaysValid(run.answer)
    PROVE  RunOK(run, login', grant')
  BY DEF RunOK, UserStays, StaysValid

\* An answer to task t: what others hold keeps its user.
LEMMA AnswerStep ==
    ASSUME CallsInv, NEW t \in Task, NEW run,
           task' = [task EXCEPT ![t] = run], RunOK(run, login', grant'), SendsValid(run),
           UNCHANGED cookies, UNCHANGED store, UNCHANGED page,
           login' \in [Login -> LoginState], grant' \in [Grant -> GrantState],
           \A g \in HeldBesides({t}) : UserStays(g) /\ StaysValid(g)
    PROVE  StepOK
<1>1. \A q \in Task : task'[q] = IF q = t THEN run ELSE task[q]
  BY DEF CallsInv, SessionTypeOK
<1>2. ASSUME NEW q \in Task PROVE RunOK(task'[q], login', grant')
  <2>1. CASE q = t
    BY <1>1, <2>1
  <2>2. CASE q # t
    <3>1. task'[q] = task[q] /\ RunOK(task[q], login, grant)
      BY <1>1, <2>2 DEF CallsInv
    <3>2. task[q] \in Running =>
             \A g \in Grant : g \in {task[q].bearer, task[q].form, task[q].answer}
                => UserStays(g) /\ StaysValid(g)
      BY <2>2, Holders
    <3> QED
      BY <3>1, <3>2, RunFrame
  <2> QED
    BY <2>1, <2>2
<1>3. run \in {Idle} \cup Running
  BY DEF RunOK
<1>4. SessionTypeOK'
  BY <1>3, SameTabs DEF CallsInv, SessionTypeOK, TabsTyped, Tokens, StoreState, Page, Script,
     Running, LoginState, GrantState, Option
<1>5. \A q \in Task : SendsValid(task'[q]) \/ (Asked(q, "api") /\ task'[q] = task[q])
  BY <1>1 DEF SendsValid, Asked, IsIdle
<1> QED
  BY <1>2, <1>4, <1>5 DEF StepOK, CallsInv

\* A step that changes no task: the cookies, time, or the end of a Keycloak session
LEMMA QuietStep ==
    ASSUME CallsInv, UNCHANGED task, TabsTyped',
           login' \in [Login -> LoginState], grant' \in [Grant -> GrantState],
           \A g \in Grant : UserStays(g),
           \A q \in Task : task[q] \in Running /\ task[q].answer \in Grant =>
              StaysValid(task[q].answer)
    PROVE  StepOK
<1>1. \A q \in Task : RunOK(task'[q], login', grant')
  BY RunFrame DEF CallsInv
<1>2. SessionTypeOK'
  BY DEF CallsInv, SessionTypeOK, TabsTyped, Tokens, StoreState, Page, Script, Running,
     LoginState, GrantState, Option
<1>3. \A q \in Task : SendsValid(task'[q]) \/ (Asked(q, "api") /\ task'[q] = task[q])
  BY DEF SendsValid, Asked, IsIdle
<1> QED
  BY <1>1, <1>2, <1>3 DEF StepOK, CallsInv

\* What a task that has asked for something is
LEMMA AskedRuns ==
    ASSUME CallsInv, NEW t \in Task, ~IsIdle(t)
    PROVE  task[t] \in Running /\ RunOK(task[t], login, grant) /\ task[t].tab \in Tab
                               /\ task[t].kind \in Kind
<1>1. task[t] \in Running /\ RunOK(task[t], login, grant)
  BY DEF CallsInv, SessionTypeOK, IsIdle
<1> QED
  BY <1>1 DEF Running

LEMMA RunAnswered ==
    ASSUME NEW run \in Running, NEW answer \in Option(Grant \cup {"ok", "refused"})
    PROVE  LET new == [run EXCEPT !.form = None, !.answer = answer]
           IN  /\ new \in Running
               /\ new.ask = run.ask /\ new.user = run.user /\ new.bearer = run.bearer
               /\ new.form = None /\ new.answer = answer
  BY DEF Running, Option

\* The tokens of an answer
LEMMA BroughtTyped ==
    ASSUME CallsInv, NEW t \in Task, Brings(t)
    PROVE  /\ Brought(t) \in Tokens
           /\ task[t].ask # "logout" => task[t].answer \in Grant
           /\ task[t] \in Running /\ task[t].tab \in Tab
<1>1. /\ task[t] \in Running /\ RunOK(task[t], login, grant) /\ task[t].tab \in Tab
      /\ task[t].ask # "logout" => /\ task[t].ask \in {"login", "refresh", "renew"}
                                   /\ task[t].answer \notin {None, "refused"}
  BY AskedRuns DEF Brings, Answered, Refused
<1>2. CASE task[t].ask = "logout"
  BY <1>1, <1>2, NoTokensTyped DEF Brought
<1>3. CASE task[t].ask # "logout"
  <2>1. task[t].answer \in Grant
    BY <1>1, <1>3, Words DEF RunOK
  <2> QED
    BY <1>1, <1>3, <2>1, AnswerTokens, Words DEF Brought, Option
<1> QED
  BY <1>2, <1>3

-----------------------------------------------------------------------------
(* CallsInv is inductive, and no call is sent with an expired token. *)

LEMMA InitCalls == Init => CallsInv
<1> SUFFICES ASSUME Init PROVE CallsInv
  OBVIOUS
<1>1. login \in [Login -> LoginState]
  <2>1. (CHOOSE u \in User : TRUE) \in User
    BY SessionParameters
  <2> DEFINE u == CHOOSE u \in User : TRUE
  <2>2. login \in [Login -> {[user |-> v, over |-> TRUE] : v \in {u}}]
    BY DEF Init
  <2>3. u \in User
    BY <2>1
  <2> HIDE DEF u
  <2>4. \A l \in Login : login[l] = [user |-> u, over |-> TRUE]
    BY <2>2
  <2>5. \A l \in Login : login[l] \in LoginState
    <3>1. [user |-> u, over |-> TRUE] \in LoginState
      BY <2>3 DEF LoginState
    <3> QED
      BY <2>4, <3>1, Zenon
  <2> QED
    BY <2>2, <2>5
<1>2. grant \in [Grant -> GrantState]
  BY SessionParameters DEF Init, GrantState
<1>3. NoTokens \in Tokens /\ Fresh(NoTokens) \in StoreState
  BY NoTokensTyped
<1>4. page \in [Tab -> Page] /\ script \in [Tab -> Script]
  BY ScriptTypes DEF Init, Page
<1>5. \A t \in Task : RunOK(task[t], login, grant)
  BY DEF Init, RunOK
<1> QED
  BY <1>1, <1>2, <1>3, <1>4, <1>5 DEF Init, CallsInv, SessionTypeOK

\* What a user does in a tab
LEMMA ActStep ==
    ASSUME CallsInv, NEW t \in Task, NEW tab \in Tab, Act(t, tab)
    PROVE  StepOK
<1>a. SessionTypeOK /\ page \in [Tab -> Page] /\ store \in [Tab -> StoreState]
  BY DEF CallsInv, SessionTypeOK
<1>1. ASSUME NEW u \in User, Submit(t, tab, u) PROVE StepOK
  <2> DEFINE run == Request("login", tab, u, "login", None, None, None)
  <2>1. run \in Running
    BY RequestType DEF Option, Ask, Kind
  <2>2. /\ run.ask = "login" /\ run.answer = None /\ run.user = u
    BY DEF Request
  <2>3. task' = [task EXCEPT ![t] = run] /\ UNCHANGED <<keycloak, cookies, store, page>>
    BY <1>1 DEF Submit, Become, SignIn, Asking
  <2> HIDE DEF run
  <2>4. RunOK(run, login, grant) /\ SendsValid(run)
    BY <2>1, <2>2, Words DEF RunOK, SendsValid
  <2> QED
    BY <2>3, <2>4, SameTabs, FrontendStep
<1>2. CASE PressLogout(t, tab)
  <2> DEFINE run == Logout("logout", tab, store[tab])
  <2>1. RunOK(run, login, grant) /\ SendsValid(run)
    BY StoreOf, LogoutOK DEF Kind
  <2>2. task' = [task EXCEPT ![t] = run] /\ UNCHANGED <<keycloak, cookies, store, page>>
    BY <1>2 DEF PressLogout, Become
  <2> HIDE DEF run
  <2> QED
    BY <2>1, <2>2, SameTabs, FrontendStep
<1>3. CASE GoToLogin(t, tab)
  <2>1. GuardLogin(t, tab, store[tab], "main") /\ UNCHANGED keycloak /\ UNCHANGED cookies /\ UNCHANGED store
        /\ "main" \in Page
    BY <1>3 DEF GoToLogin, Page
  <2>2. /\ page' \in [Tab -> Page]
        /\ \E run : /\ task' = [task EXCEPT ![t] = run]
                    /\ RunOK(run, login, grant) /\ SendsValid(run)
    BY <2>1, StoreOf, GuardLoginOK
  <2>3. TabsTyped'
    BY <1>a, <2>1, <2>2 DEF TabsTyped, cookies, SessionTypeOK, Tokens, StoreState, Page, Script, Option
  <2> QED
    BY <2>1, <2>2, <2>3, FrontendStep
<1>4. CASE GoToMain(t, tab)
  <2>1. GuardMain(t, tab, store[tab], page[tab]) /\ UNCHANGED keycloak /\ UNCHANGED cookies /\ UNCHANGED store
        /\ page[tab] \in Page
    BY <1>4, <1>a DEF GoToMain
  <2>2. /\ page' \in [Tab -> Page]
        /\ \E run : /\ task' = [task EXCEPT ![t] = run]
                    /\ RunOK(run, login, grant) /\ SendsValid(run)
    BY <2>1, StoreOf, GuardMainOK
  <2>3. TabsTyped'
    BY <1>a, <2>1, <2>2 DEF TabsTyped, cookies, SessionTypeOK, Tokens, StoreState, Page, Script, Option
  <2> QED
    BY <2>1, <2>2, <2>3, FrontendStep
<1>5. CASE Open(t, tab)
  <2> DEFINE s == [store[tab] EXCEPT !.party = cookie.party]
  <2>1. /\ store' = [store EXCEPT ![tab] = s]
        /\ script' = [script EXCEPT ![tab] = AtRest]
        /\ UNCHANGED keycloak /\ UNCHANGED cookie /\ UNCHANGED torn
        /\ mixed' \in {mixed, mixed \cup {tab}}
        /\ GuardLogin(t, tab, s, "blank") \/ GuardMain(t, tab, s, "blank")
        /\ "blank" \in Page
    BY <1>5 DEF Open, Page
  <2>2. /\ s \in StoreState /\ s.access \in Option(Grant) /\ s.refresh \in Option(Grant)
    BY <1>a DEF SessionTypeOK, StoreState, Tokens
  <2> HIDE DEF s
  <2>3. /\ page' \in [Tab -> Page]
        /\ \E run : /\ task' = [task EXCEPT ![t] = run]
                    /\ RunOK(run, login, grant) /\ SendsValid(run)
    BY <2>1, <2>2, HolderOf, GuardLoginOK, GuardMainOK
  <2>4. store' \in [Tab -> StoreState] /\ script' \in [Tab -> Script]
    BY <1>a, <2>1, <2>2, ScriptTypes DEF SessionTypeOK
  <2>5. cookie' \in Tokens /\ torn' \in BOOLEAN /\ mixed' \subseteq Tab
    BY <1>a, <2>1 DEF SessionTypeOK
  <2>6. TabsTyped'
    BY <2>3, <2>4, <2>5 DEF TabsTyped, Tokens, StoreState, Page, Script, Option
  <2> QED
    BY <2>1, <2>3, <2>6, FrontendStep
<1>6. CASE CallApi(t, tab)
  <2> DEFINE run == Provide("call", tab, Holder(store[tab]), store[tab])
  <2>1. RunOK(run, login, grant) /\ SendsValid(run)
    BY <1>a, StoreOf, ProvideOK DEF Kind
  <2>2. task' = [task EXCEPT ![t] = run] /\ UNCHANGED <<keycloak, cookies, store, page>>
    BY <1>6 DEF CallApi, Become
  <2> HIDE DEF run
  <2> QED
    BY <2>1, <2>2, SameTabs, FrontendStep
<1> QED
  BY <1>1, <1>2, <1>3, <1>4, <1>5, <1>6 DEF Act

\* What becomes of the answers
LEMMA ProceedStep ==
    ASSUME CallsInv, NEW t \in Task, Proceed(t)
    PROVE  StepOK
<1> DEFINE tab == task[t].tab
           kind == task[t].kind
           user == task[t].user
           answer == task[t].answer
<1>a. SessionTypeOK /\ page \in [Tab -> Page] /\ store \in [Tab -> StoreState]
  BY DEF CallsInv, SessionTypeOK
<1>b. /\ ~IsIdle(t) /\ task[t] \in Running /\ RunOK(task[t], login, grant)
      /\ tab \in Tab /\ kind \in Kind /\ answer # None
  BY AskedRuns DEF Proceed, LoginAnswered, RefreshAnswered, LogoutAnswered, ApiAnswered, Answered
<1>c. ASSUME task[t].ask \in {"login", "refresh", "renew"}, answer # "refused"
      PROVE  /\ answer \in Grant /\ user \in Option(User)
             /\ grant[answer].access # "expired"
             /\ user # None => UserIn(answer, login, grant) = user
             /\ TokensOf(answer) \in Tokens
             /\ Of(TokensOf(answer), user)
  <2>1. /\ answer \in Grant /\ user \in Option(User)
        /\ grant[answer].access # "expired"
        /\ user # None => UserIn(answer, login, grant) = user
    BY <1>b, <1>c, Words DEF RunOK, Running
  <2> QED
    BY <2>1, AnswerTokens
<1>1. CASE LoginAnswered(t)
  <2>1. CASE answer = "refused"
    <3>1. task' = [task EXCEPT ![t] = Idle] /\ UNCHANGED keycloak /\ UNCHANGED cookies
            /\ UNCHANGED store /\ UNCHANGED page
      BY <1>1, <2>1 DEF LoginAnswered, Refused, End, Become
    <3> QED
      BY <3>1, SameTabs, IdleOK, FrontendStep
  <2>2. CASE answer # "refused"
    <3>1. /\ Patch(t, TokensOf(answer))
          /\ task' = [task EXCEPT ![t] = Provide("login", tab, user, TokensOf(answer))]
          /\ UNCHANGED <<keycloak, page>>
          /\ task[t].ask = "login"
      BY <1>1, <2>2 DEF LoginAnswered, Answered, Refused, Become
    <3>2. Of(TokensOf(answer), user) /\ TokensOf(answer) \in Tokens
      BY <1>c, <2>2, <3>1
    <3>3. /\ RunOK(Provide("login", tab, user, TokensOf(answer)), login, grant)
          /\ SendsValid(Provide("login", tab, user, TokensOf(answer)))
      BY <1>a, <1>b, <3>2, ProvideOK DEF Kind
    <3>4. TabsTyped'
      BY <1>a, <1>b, <3>1, <3>2, PatchOK
    <3> QED
      BY <1>a, <3>1, <3>3, <3>4, FrontendStep
  <2> QED
    BY <2>1, <2>2
<1>2. CASE RefreshAnswered(t)
  <2>1. CASE answer = "refused"
    <3>1. task' = [task EXCEPT ![t] = Idle] /\ UNCHANGED keycloak /\ UNCHANGED cookies
            /\ UNCHANGED store /\ UNCHANGED page
      BY <1>2, <2>1 DEF RefreshAnswered, Refused, End, Become
    <3> QED
      BY <3>1, SameTabs, IdleOK, FrontendStep
  <2>2. CASE answer # "refused"
    <3> DEFINE again == Refresh(kind, tab, user, "renew", TokensOf(answer))
               call == Request(kind, tab, user, "api", TokensOf(answer).access, None, None)
    <3>1. /\ Patch(t, TokensOf(answer))
          /\ task' = [task EXCEPT ![t] = again] \/ task' = [task EXCEPT ![t] = call]
          /\ UNCHANGED <<keycloak, page>>
          /\ task[t].ask \in {"refresh", "renew"}
      BY <1>2, <2>2 DEF RefreshAnswered, Answered, Refused, Become, Sending
    <3>2. /\ Of(TokensOf(answer), user) /\ TokensOf(answer) \in Tokens
          /\ answer \in Grant /\ user \in Option(User)
          /\ grant[answer].access # "expired"
          /\ user # None => UserIn(answer, login, grant) = user
      BY <1>c, <2>2, <3>1
    <3>3. RunOK(again, login, grant) /\ SendsValid(again)
      BY <1>a, <1>b, <3>2, RefreshOK
    <3>4. RunOK(call, login, grant) /\ SendsValid(call)
      <4>1. TokensOf(answer).access = answer
        BY DEF TokensOf
      <4>2. call \in Running
        BY <1>b, <3>2, <4>1, RequestType DEF Option, Ask
      <4>3. call.ask = "api" /\ call.answer = None /\ call.bearer = answer /\ call.user = user
        BY <4>1 DEF Request
      <4> HIDE DEF call
      <4> QED
        BY <3>2, <4>2, <4>3, Words DEF RunOK, SendsValid
    <3>5. TabsTyped'
      BY <1>a, <1>b, <3>1, <3>2, PatchOK
    <3> HIDE DEF again, call
    <3> QED
      BY <1>a, <3>1, <3>3, <3>4, <3>5, FrontendStep
  <2> QED
    BY <2>1, <2>2
<1>3. CASE LogoutAnswered(t)
  <2>1. /\ Patch(t, NoTokens) /\ task' = [task EXCEPT ![t] = Idle] /\ UNCHANGED keycloak
        /\ Show(tab, "login") \/ UNCHANGED page
    BY <1>3 DEF LogoutAnswered, End, Become
  <2>2. page' \in [Tab -> Page]
    BY <1>a, <1>b, <2>1, ShowType DEF Page
  <2>3. TabsTyped'
    BY <1>b, <2>1, <2>2, NoTokensTyped, PatchOK
  <2> QED
    BY <2>1, <2>3, IdleOK, FrontendStep
<1>4. CASE ApiAnswered(t)
  <2> DEFINE s == store[tab]
             new == [s EXCEPT !.profile = UserOf(task[t].bearer)]
  <2>1. /\ UNCHANGED store \/ store' = [store EXCEPT ![tab] = new]
        /\ \/ End(t) /\ UNCHANGED page
           \/ GuardMain(t, tab, s, page[tab])
        /\ UNCHANGED keycloak /\ UNCHANGED cookies
        /\ task[t].ask = "api"
    BY <1>4 DEF ApiAnswered, Answered
  <2>2. task[t].bearer \in Grant
    BY <1>b, <2>1, Words DEF RunOK
  <2>3. UserOf(task[t].bearer) \in User /\ s \in StoreState
    BY <1>a, <1>b, <2>2, UsersTyped
  <2>4. new \in StoreState
    BY <2>3 DEF StoreState, Option
  <2> HIDE DEF new
  <2>5. store' \in [Tab -> StoreState]
    BY <1>a, <2>1, <2>4
  <2>6. /\ page' \in [Tab -> Page]
        /\ \E run : /\ task' = [task EXCEPT ![t] = run]
                    /\ RunOK(run, login, grant) /\ SendsValid(run)
    <3>1. CASE End(t) /\ UNCHANGED page
      BY <1>a, <3>1, IdleOK DEF End, Become
    <3>2. CASE GuardMain(t, tab, s, page[tab])
      BY <1>a, <1>b, <3>2, StoreOf, GuardMainOK
    <3> QED
      BY <2>1, <3>1, <3>2
  <2>7. TabsTyped'
    BY <1>a, <2>1, <2>5, <2>6
    DEF TabsTyped, cookies, SessionTypeOK, Tokens, StoreState, Page, Script, Option
  <2> QED
    BY <2>1, <2>6, <2>7, FrontendStep
<1> QED
  BY <1>1, <1>2, <1>3, <1>4 DEF Proceed

\* What the backend and Keycloak do
LEMMA ServeStep ==
    ASSUME CallsInv, NEW t \in Task, Serve(t) \/ Fail(t)
    PROVE  StepOK
<1> DEFINE new(answer) == [task[t] EXCEPT !.form = None, !.answer = answer]
<1>a. /\ SessionTypeOK /\ login \in [Login -> LoginState] /\ grant \in [Grant -> GrantState]
  BY DEF CallsInv, SessionTypeOK
<1>b. /\ ~IsIdle(t) /\ task[t] \in Running /\ RunOK(task[t], login, grant)
      /\ \/ ServeLogin(t) \/ ServeRefresh(t) \/ ServeLogout(t) \/ ServeApi(t) \/ Fail(t)
  BY AskedRuns DEF Serve, Fail, ServeLogin, ServeRefresh, ServeLogout, ServeApi, Asked
<1>c. ASSUME NEW answer \in Option(Grant \cup {"ok", "refused"})
      PROVE  /\ new(answer) \in Running
             /\ new(answer).ask = task[t].ask /\ new(answer).user = task[t].user
             /\ new(answer).bearer = task[t].bearer /\ new(answer).answer = answer
  BY <1>b, RunAnswered
<1>d. "ok" \in Option(Grant \cup {"ok", "refused"})
      /\ "refused" \in Option(Grant \cup {"ok", "refused"})
      /\ Grant \subseteq Option(Grant \cup {"ok", "refused"})
  BY DEF Option
\* An answer that is no token
<1>1. ASSUME NEW answer \in {"ok", "refused"}, Answer(t, answer), UNCHANGED <<grant, cookies, store, page>>,
             answer = "ok" => task[t].ask = "api",
             login' \in [Login -> LoginState],
             \A l \in Login : login'[l].user = login[l].user
      PROVE  StepOK
  <2>1. task' = [task EXCEPT ![t] = new(answer)]
    BY <1>1 DEF Answer, Become
  <2>2. \A g \in Grant : UserStays(g) /\ StaysValid(g)
    BY <1>1, <1>a DEF UserStays, StaysValid, UserIn, GrantState
  <2>3. /\ new(answer) \in Running /\ new(answer).ask = task[t].ask
        /\ new(answer).user = task[t].user /\ new(answer).bearer = task[t].bearer
        /\ new(answer).answer = answer
    BY <1>c, <1>d
  <2>4. answer \notin Grant /\ answer # None
    BY Words
  <2> HIDE DEF new
  <2>5. RunOK(new(answer), login', grant')
    BY <1>1, <1>b, <2>2, <2>3, <2>4, Words DEF RunOK, UserStays
  <2>6. SendsValid(new(answer))
    BY <2>3, <2>4 DEF SendsValid
  <2>7. HeldBesides({t}) \subseteq Grant
    BY DEF HeldBesides, Grants
  <2> QED
    BY <1>1, <1>a, <2>1, <2>2, <2>5, <2>6, <2>7, AnswerStep
\* A pair of tokens for the user of the task
<1>2. ASSUME NEW g \in Grant, NEW l \in Login, Issue(t, g, l), g \notin HeldBesides({t}),
             UNCHANGED <<cookies, store, page>>, login' \in [Login -> LoginState],
             task[t].user # None => login'[l].user = task[t].user,
             \A h \in HeldBesides({t}) : login'[grant[h].login].user = login[grant[h].login].user,
             task[t].ask \in {"login", "refresh", "renew"}
      PROVE  StepOK
  <2> DEFINE pair == [login |-> l, access |-> "fresh", refresh |-> TRUE]
  <2>1. task' = [task EXCEPT ![t] = new(g)]
    BY <1>2 DEF Issue, Answer, Become
  <2>2. grant' = [grant EXCEPT ![g] = pair]
    BY <1>2 DEF Issue
  <2>3. grant' \in [Grant -> GrantState] /\ grant'[g] = pair
        /\ \A h \in Grant : h # g => grant'[h] = grant[h]
    BY <1>a, <2>2 DEF GrantState
  <2>4. HeldBesides({t}) \subseteq Grant
    BY DEF HeldBesides, Grants
  <2>5. \A h \in HeldBesides({t}) : UserStays(h) /\ StaysValid(h)
    BY <1>2, <2>3, <2>4 DEF UserStays, StaysValid, UserIn
  <2>6. /\ task[t].user # None => UserIn(g, login', grant') = task[t].user
        /\ grant'[g].access = "fresh"
    BY <1>2, <2>3 DEF UserIn
  <2>7. /\ new(g) \in Running /\ new(g).ask = task[t].ask
        /\ new(g).user = task[t].user /\ new(g).answer = g
    BY <1>c, <1>d
  <2>8. task[t].ask = "login" => task[t].user # None
    BY <1>b, Words DEF RunOK
  <2> HIDE DEF new
  <2>9. RunOK(new(g), login', grant')
    BY <1>2, <2>6, <2>7, <2>8, Words DEF RunOK
  <2>10. SendsValid(new(g))
    BY <1>2, <2>7 DEF SendsValid
  <2> QED
    BY <1>2, <1>a, <2>1, <2>3, <2>5, <2>9, <2>10, AnswerStep
<1>3. CASE ServeLogin(t)
  <2>1. CASE Answer(t, "refused") /\ UNCHANGED keycloak
    BY <1>1, <1>3, <1>a, <2>1 DEF ServeLogin, keycloak
  <2>2. ASSUME NEW g \in Grant \ Held, NEW l \in FreeLogins,
               login' = [login EXCEPT ![l] = [user |-> task[t].user, over |-> FALSE]],
               Issue(t, g, l)
        PROVE  StepOK
    <3>1. task[t].ask = "login" /\ UNCHANGED <<cookies, store, page>>
      BY <1>3 DEF ServeLogin, Asked
    <3>2. task[t].user \in User
      BY <1>b, <3>1, Words DEF RunOK, Running, Option
    <3>3. HeldBesides({t}) \subseteq Held
      BY DEF Held, HeldBesides
    <3>4. \A h \in HeldBesides({t}) : grant[h].login # l
      BY <3>3 DEF FreeLogins
    <3>5. l \in Login /\ HeldBesides({t}) \subseteq Grant
      BY DEF FreeLogins, HeldBesides, Grants
    <3>6. /\ login' \in [Login -> LoginState] /\ login'[l].user = task[t].user
          /\ \A k \in Login : k # l => login'[k] = login[k]
      BY <1>a, <2>2, <3>2, <3>5 DEF LoginState
    <3>7. \A h \in HeldBesides({t}) : login'[grant[h].login].user = login[grant[h].login].user
      BY <1>a, <3>4, <3>5, <3>6 DEF GrantState
    <3> QED
      BY <1>2, <2>2, <3>1, <3>3, <3>5, <3>6, <3>7
  <2> QED
    BY <1>3, <2>1, <2>2 DEF ServeLogin
<1>4. CASE ServeRefresh(t)
  <2> DEFINE r == task[t].form
  <2>1. /\ task[t].ask \in {"refresh", "renew"} /\ task[t].answer = None
        /\ UNCHANGED <<login, cookies, store, page>>
    BY <1>4 DEF ServeRefresh, Asked
  <2>2. CASE Answer(t, "refused") /\ UNCHANGED grant
    BY <1>1, <1>a, <2>1, <2>2
  <2>3. ASSUME NEW g \in Grant \ HeldBesides({t}), Issue(t, g, grant[r].login)
        PROVE  StepOK
    <3>1. r \in Grant /\ (task[t].user # None => UserIn(r, login, grant) = task[t].user)
      BY <1>b, <2>1, Words DEF RunOK
    <3>2. /\ grant[r].login \in Login
          /\ task[t].user # None => login[grant[r].login].user = task[t].user
      BY <1>a, <3>1 DEF GrantState, UserIn
    <3> QED
      BY <1>2, <1>a, <2>1, <2>3, <3>2
  <2> QED
    BY <1>4, <2>2, <2>3 DEF ServeRefresh
<1>5. CASE ServeLogout(t)
  <2>1. /\ task[t].ask = "logout"
        /\ UNCHANGED <<grant, cookies, store, page>>
        /\ login' = [l \in Login |-> IF l \in EndedBy(task[t])
                                 THEN [login[l] EXCEPT !.over = TRUE] ELSE login[l]]
    BY <1>5 DEF ServeLogout, Asked
  <2>2. task[t].bearer = None
    BY <1>b, <2>1, Words DEF RunOK
  <2>3. Answer(t, "refused")
    BY <1>5, <2>2 DEF ServeLogout, LogoutAccepted, LoginRequired
  <2>4. login' \in [Login -> LoginState] /\ \A l \in Login : login'[l].user = login[l].user
    BY <1>a, <2>1 DEF LoginState
  <2> QED
    BY <1>1, <2>1, <2>3, <2>4
<1>6. CASE ServeApi(t)
  <2>1. /\ task[t].ask = "api" /\ UNCHANGED <<login, grant, cookies, store, page>>
        /\ Answer(t, "ok") \/ Answer(t, "refused")
    BY <1>6 DEF ServeApi, Asked, keycloak
  <2> QED
    BY <1>1, <1>a, <2>1
<1>7. CASE Fail(t)
  <2>1. UNCHANGED <<login, grant, cookies, store, page>> /\ Answer(t, "refused")
    BY <1>7 DEF Fail, keycloak
  <2> QED
    BY <1>1, <1>a, <2>1
<1> QED
  BY <1>b, <1>3, <1>4, <1>5, <1>6, <1>7

LEMMA UnloadStep ==
    ASSUME CallsInv, NEW tab \in Tab, Unload(tab)
    PROVE  StepOK
<1>1. /\ page' = [page EXCEPT ![tab] = "closed"]
      /\ task' = [t \in Task |-> IF ~IsIdle(t) /\ task[t].tab = tab THEN Idle ELSE task[t]]
      /\ store' = [store EXCEPT ![tab] = Fresh(NoTokens)]
      /\ script' = [script EXCEPT ![tab] = AtRest]
      /\ torn' = (torn \/ Writing(tab)) /\ mixed' = mixed \ {tab}
      /\ login' = login /\ grant' = grant /\ cookie' = cookie
  BY DEF Unload, keycloak
<1>2. \A t \in Task : task'[t] \in {Idle, task[t]}
  BY <1>1
<1>3. \A t \in Task : RunOK(task'[t], login', grant')
  BY <1>1, <1>2 DEF CallsInv, RunOK
<1>4. /\ store' \in [Tab -> StoreState] /\ script' \in [Tab -> Script]
      /\ page' \in [Tab -> Page]
  BY <1>1, NoTokensTyped, ScriptTypes DEF CallsInv, SessionTypeOK, Page
<1>5. torn' \in BOOLEAN /\ mixed' \subseteq Tab
  BY <1>1 DEF CallsInv, SessionTypeOK, Writing
<1>6. task' \in [Task -> {Idle} \cup Running]
  BY <1>1 DEF CallsInv, SessionTypeOK
<1>7. CallsInv'
  BY <1>1, <1>3, <1>4, <1>5, <1>6
  DEF CallsInv, SessionTypeOK, Tokens, StoreState, LoginState, GrantState, Option, Page, Script, Running
<1>8. \A t \in Task : SendsValid(task'[t]) \/ (Asked(t, "api") /\ task'[t] = task[t])
  BY <1>2 DEF SendsValid, Asked, IsIdle
<1> QED
  BY <1>7, <1>8 DEF StepOK

LEMMA CookieStep ==
    ASSUME CallsInv, \/ \E tab \in Tab : ReadCookie(tab)
                     \/ \E t \in Task : WriteCookie(t)
    PROVE  StepOK
<1>a. SessionTypeOK
  BY DEF CallsInv
<1>1. ASSUME NEW tab \in Tab, ReadCookie(tab) PROVE TabsTyped' /\ UNCHANGED <<keycloak, task>>
  <2> DEFINE next == script[tab].next
  <2>1. /\ next # "party"
        /\ store' = [store EXCEPT ![tab][next] = cookie[next]]
        /\ script' = [script EXCEPT ![tab].next = After[next]]
        /\ UNCHANGED <<keycloak, cookie, torn, mixed, page, task>>
    BY <1>1 DEF ReadCookie
  <2>2. next \in {"access", "refresh"} /\ script[tab] \in Script
    BY <1>a, <2>1 DEF SessionTypeOK, Script
  <2>3. [script[tab] EXCEPT !.next = After[next]] \in Script
    BY <2>1, <2>2, ScriptTypes
  <2>4. script' \in [Tab -> Script]
    BY <1>a, <2>1, <2>3 DEF SessionTypeOK
  <2>5. store' \in [Tab -> StoreState]
    <3>1. CASE next = "access"
      <4>1. store' = [store EXCEPT ![tab] = [store[tab] EXCEPT !.access = cookie.access]]
        BY <2>1, <3>1
      <4> QED
        BY <1>a, <4>1 DEF SessionTypeOK, StoreState, Tokens
    <3>2. CASE next = "refresh"
      <4>1. store' = [store EXCEPT ![tab] = [store[tab] EXCEPT !.refresh = cookie.refresh]]
        BY <2>1, <3>2
      <4> QED
        BY <1>a, <4>1 DEF SessionTypeOK, StoreState, Tokens
    <3> QED
      BY <2>2, <3>1, <3>2
  <2> QED
    BY <1>a, <2>1, <2>4, <2>5
    DEF TabsTyped, SessionTypeOK, Tokens, StoreState, Page, Script, Option
<1>2. ASSUME NEW t \in Task, WriteCookie(t) PROVE TabsTyped' /\ UNCHANGED <<keycloak, task>>
  <2> DEFINE tab == task[t].tab
             next == script[tab].next
             mine == [script[tab] EXCEPT !.task = t, !.next = After[next]]
  <2>1. /\ Brings(t) /\ next # "party"
        /\ cookie' = [cookie EXCEPT ![next] = Brought(t)[next]]
        /\ script' = ScriptsAfter(tab, mine)
        /\ UNCHANGED <<keycloak, torn, mixed, store, page, task>>
    BY <1>2 DEF WriteCookie
  <2>2. ~IsIdle(t) /\ task[t] \in Running /\ tab \in Tab
    BY <2>1, AskedRuns DEF Brings, Answered
  <2>3. next \in {"access", "refresh"} /\ script[tab] \in Script
    BY <1>a, <2>1, <2>2 DEF SessionTypeOK, Script
  <2>4. mine \in Script
    BY <2>1, <2>2, <2>3, ScriptTypes
  <2>5. script' \in [Tab -> Script]
    BY <2>1, <2>2, <2>4, ScriptsTyped
  <2>6. Brought(t) \in Tokens
    BY <2>1, BroughtTyped
  <2>7. cookie' \in Tokens
    <3>1. CASE next = "access"
      BY <1>a, <2>1, <2>6, <3>1 DEF SessionTypeOK, Tokens
    <3>2. CASE next = "refresh"
      BY <1>a, <2>1, <2>6, <3>2 DEF SessionTypeOK, Tokens
    <3> QED
      BY <2>3, <3>1, <3>2
  <2> QED
    BY <1>a, <2>1, <2>5, <2>7
    DEF TabsTyped, SessionTypeOK, Tokens, StoreState, Page, Script, Option
<1>3. TabsTyped' /\ UNCHANGED <<login, grant, task>>
  BY <1>1, <1>2 DEF keycloak
<1> QED
  BY <1>a, <1>3, QuietStep DEF SessionTypeOK, UserStays, StaysValid, UserIn

LEMMA TimeStep ==
    ASSUME CallsInv,
           \/ \E g \in Grant : AccessExpires(g) \/ RefreshExpires(g)
           \/ \E l \in Login : SessionEnds(l)
    PROVE  StepOK
<1>a. login \in [Login -> LoginState] /\ grant \in [Grant -> GrantState]
  BY DEF CallsInv, SessionTypeOK
<1>1. ASSUME NEW g \in Grant, AccessExpires(g) PROVE StepOK
  <2>1. /\ UNCHANGED <<login, task>> /\ UNCHANGED cookies
        /\ UNCHANGED store /\ UNCHANGED page
        /\ \E next \in {"expiring", "expired"} : grant' = [grant EXCEPT ![g].access = next]
        /\ \/ grant' = [grant EXCEPT ![g].access = "expiring"]
           \/ \A t \in Task : ~IsIdle(t) => task[t].answer # g
    BY <1>1 DEF AccessExpires
  <2>2. /\ grant' \in [Grant -> GrantState]
        /\ \A h \in Grant : grant'[h].login = grant[h].login /\ (h # g => grant'[h] = grant[h])
    BY <1>a, <2>1 DEF GrantState
  <2>3. \A h \in Grant : UserStays(h)
    BY <2>1, <2>2 DEF UserStays, UserIn
  <2>4. ASSUME NEW q \in Task, task[q] \in Running, task[q].answer \in Grant
        PROVE  StaysValid(task[q].answer)
    <3>1. CASE grant' = [grant EXCEPT ![g].access = "expiring"]
      BY <1>a, <2>4, <3>1 DEF StaysValid, GrantState
    <3>2. CASE \A t \in Task : ~IsIdle(t) => task[t].answer # g
      BY <2>2, <2>4, <3>2, Words DEF StaysValid, IsIdle
    <3> QED
      BY <2>1, <3>1, <3>2
  <2> QED
    BY <1>a, <2>1, <2>2, <2>3, <2>4, SameTabs, QuietStep
<1>2. ASSUME NEW g \in Grant, RefreshExpires(g) PROVE StepOK
  <2>1. /\ UNCHANGED <<login, task>> /\ UNCHANGED cookies
        /\ UNCHANGED store /\ UNCHANGED page
        /\ grant' = [grant EXCEPT ![g].refresh = FALSE]
    BY <1>2 DEF RefreshExpires
  <2>2. /\ grant' \in [Grant -> GrantState]
        /\ \A h \in Grant : grant'[h].login = grant[h].login /\ grant'[h].access = grant[h].access
    BY <1>a, <2>1 DEF GrantState
  <2> QED
    BY <1>a, <2>1, <2>2, SameTabs, QuietStep DEF UserStays, StaysValid, UserIn
<1>3. ASSUME NEW l \in Login, SessionEnds(l) PROVE StepOK
  <2>1. /\ UNCHANGED <<grant, task>> /\ UNCHANGED cookies
        /\ UNCHANGED store /\ UNCHANGED page
        /\ login' = [login EXCEPT ![l].over = TRUE]
    BY <1>3 DEF SessionEnds
  <2>2. /\ login' \in [Login -> LoginState]
        /\ \A k \in Login : login'[k].user = login[k].user
    BY <1>a, <2>1 DEF LoginState
  <2>3. \A h \in Grant : UserStays(h) /\ StaysValid(h)
    BY <1>a, <2>1, <2>2 DEF UserStays, StaysValid, UserIn, GrantState
  <2> QED
    BY <1>a, <2>1, <2>2, <2>3, SameTabs, QuietStep
<1> QED
  BY <1>1, <1>2, <1>3

LEMMA StutterStep ==
    ASSUME CallsInv, UNCHANGED vars
    PROVE  StepOK
  BY SameTabs, QuietStep DEF vars, cookies, CallsInv, SessionTypeOK, UserStays, StaysValid, UserIn

LEMMA StepSession == CallsInv /\ [Next]_vars => StepOK
  BY ActStep, ProceedStep, ServeStep, UnloadStep, CookieStep, TimeStep, StutterStep DEF Next

LEMMA CallsInductive == CallsInv /\ [Next]_vars => CallsInv'
  BY StepSession DEF StepOK

\* The state is well typed whatever the tabs, the backend and Keycloak do.
THEOREM SessionTyped == Spec => []SessionTypeOK
<1>1. CallsInv => SessionTypeOK
  BY DEF CallsInv
<1> QED
  BY <1>1, InitCalls, CallsInductive, PTL DEF Spec

LEMMA InvCalls == CallsInv => CallsAreSentAsTheirUser
<1> SUFFICES ASSUME CallsInv, NEW t \in Task, Asked(t, "api"), task[t].user # None
             PROVE  task[t].bearer # None /\ UserOf(task[t].bearer) = task[t].user
  BY DEF CallsAreSentAsTheirUser
<1>1. /\ task[t].bearer \in Grant
      /\ UserIn(task[t].bearer, login, grant) = task[t].user
  BY DEF CallsInv, RunOK, Asked, IsIdle
<1> QED
  BY <1>1, UsersTyped, Words DEF CallsInv

\* However many tabs and calls are at work, and whatever a tab has read from the cookies, no
\* call that a user has made is sent with the token of another (data/api/index.ts:15-37).
THEOREM NobodyActsAsAnother == Spec => []CallsAreSentAsTheirUser
  BY InitCalls, CallsInductive, InvCalls, PTL DEF Spec

LEMMA StepBearers ==
    StepOK => \A t \in Task :
        ~Asked(t, "api") /\ Asked(t, "api")' =>
            /\ task'[t].bearer # None
            /\ grant[task'[t].bearer].access # "expired"
  BY Words DEF StepOK, SendsValid, Asked, IsIdle

\* A call is sent only with a token that has not expired, however often the token that
\* it waited for changed hands (data/api/index.ts:20-36).
THEOREM BearersAreValid == Spec => SentBearersAreValid
<1>1. CallsInv /\ [Next]_vars =>
        [\A t \in Task :
          ~Asked(t, "api") /\ Asked(t, "api")' =>
              /\ task'[t].bearer # None
              /\ grant[task'[t].bearer].access # "expired"]_vars
  BY StepSession, StepBearers
<1> QED
  BY <1>1, InitCalls, CallsInductive, PTL DEF Spec, SentBearersAreValid

-----------------------------------------------------------------------------
(* Logout *)

\* Whose task ends in a step: a step of another task leaves it alone.
LEMMA OthersStay ==
    ASSUME CallsInv, NEW t \in Task, NEW q \in Task, q # t, NEW run,
           task' = [task EXCEPT ![q] = run]
    PROVE  task'[t] = task[t]
  BY DEF CallsInv, SessionTypeOK

LEMMA ActTasks ==
    ASSUME NEW q \in Task, NEW tab \in Tab, Act(q, tab)
    PROVE  IsIdle(q) /\ \E run : task' = [task EXCEPT ![q] = run]
<1>1. CASE \E u \in User : Submit(q, tab, u)
  BY <1>1 DEF Submit, Become
<1>2. CASE PressLogout(q, tab)
  BY <1>2 DEF PressLogout, Become
<1>3. CASE GoToLogin(q, tab)
  BY <1>3 DEF GoToLogin, GuardLogin, End, Become
<1>4. CASE GoToMain(q, tab)
  BY <1>4 DEF GoToMain, GuardMain, GuardLogin, End, Become
<1>5. CASE Open(q, tab)
  <2>1. IsIdle(q) /\ \E s : GuardLogin(q, tab, s, "blank") \/ GuardMain(q, tab, s, "blank")
    BY <1>5 DEF Open
  <2> QED
    BY <2>1 DEF GuardMain, GuardLogin, End, Become
<1>6. CASE CallApi(q, tab)
  BY <1>6 DEF CallApi, Become
<1> QED
  BY <1>1, <1>2, <1>3, <1>4, <1>5, <1>6 DEF Act

LEMMA ProceedTasks ==
    ASSUME NEW q \in Task, Proceed(q)
    PROVE  \E run : task' = [task EXCEPT ![q] = run]
<1>1. CASE LoginAnswered(q)
  BY <1>1 DEF LoginAnswered, End, Become
<1>2. CASE RefreshAnswered(q)
  BY <1>2 DEF RefreshAnswered, End, Become
<1>3. CASE LogoutAnswered(q)
  BY <1>3 DEF LogoutAnswered, End, Become
<1>4. CASE ApiAnswered(q)
  BY <1>4 DEF ApiAnswered, GuardMain, GuardLogin, End, Become
<1> QED
  BY <1>1, <1>2, <1>3, <1>4 DEF Proceed

LEMMA ServeTasks ==
    ASSUME NEW q \in Task, Serve(q) \/ Fail(q)
    PROVE  /\ task[q].answer = None \/ ~Refused(q)
           /\ \E run : task' = [task EXCEPT ![q] = run]
  BY DEF Serve, Fail, ServeLogin, ServeRefresh, ServeLogout, ServeApi, Issue, Answer, Become, Asked

LEMMA LogoutEnds ==
    ASSUME CallsInv, NEW t \in Task, NEW tab \in Tab, LogoutAnswered(t),
           task[t].kind = "logout", task[t].tab = tab
    PROVE  page'[tab] = "login" /\ store'[tab].access = None
<1>1. Refused(t)
  BY Words DEF LogoutAnswered, Answered, Refused, IsIdle, CallsInv, RunOK
<1>2. /\ page' = [page EXCEPT ![tab] = "login"]
      /\ store' = [store EXCEPT ![tab] = [Fresh(NoTokens) EXCEPT !.profile = store[tab].profile]]
  BY <1>1 DEF LogoutAnswered, Show, Patch
<1> QED
  BY <1>2 DEF CallsInv, SessionTypeOK, Fresh, NoTokens

LEMMA StepLogout ==
    ASSUME CallsInv, [Next]_vars, NEW t \in Task, NEW tab \in Tab,
           Answered(t, "logout"), task[t].kind = "logout", task[t].tab = tab,
           task'[t] = Idle, page'[tab] # "closed"
    PROVE  page'[tab] = "login" /\ store'[tab].access = None
<1>a. task[t] # Idle /\ task[t].answer = "refused" /\ task[t].ask = "logout"
  BY Words DEF Answered, IsIdle, CallsInv, RunOK
<1>1. ASSUME NEW q \in Task, NEW x \in Tab, Act(q, x) PROVE FALSE
  BY <1>1, <1>a, ActTasks, OthersStay DEF IsIdle
<1>2. ASSUME NEW q \in Task, Proceed(q)
      PROVE  page'[tab] = "login" /\ store'[tab].access = None
  <2>1. q = t
    BY <1>2, <1>a, ProceedTasks, OthersStay
  <2>2. LogoutAnswered(t)
    BY <1>2, <1>a, <2>1 DEF Proceed, LoginAnswered, RefreshAnswered, ApiAnswered, Answered
  <2> QED
    BY <2>2, LogoutEnds
<1>3. ASSUME NEW q \in Task, Serve(q) \/ Fail(q) PROVE FALSE
  BY <1>3, <1>a, Words, ServeTasks, OthersStay DEF Refused
<1>4. ASSUME NEW x \in Tab, Unload(x) PROVE FALSE
  <2>1. /\ page' = [page EXCEPT ![x] = "closed"]
        /\ task'[t] = IF ~IsIdle(t) /\ task[t].tab = x THEN Idle ELSE task[t]
    BY <1>4 DEF Unload
  <2> QED
    BY <1>a, <2>1 DEF CallsInv, SessionTypeOK
<1>5. CASE UNCHANGED task
  BY <1>5, <1>a
<1> QED
  BY <1>1, <1>2, <1>3, <1>4, <1>5
  DEF Next, ReadCookie, WriteCookie, AccessExpires, RefreshExpires, SessionEnds, vars

\* Whoever has pressed Logout ends on the login page without tokens, although only the
\* handler of a failed logout leads there: the backend refuses every logout, as the
\* request carries no bearer (user.ts:140, Filters.kt:32-47).
THEOREM LogoutLeadsToLogin == Spec => LogoutShowsLogin
<1>1. CallsInv /\ [Next]_vars =>
        [\A t \in Task : \A tab \in Tab :
          /\ Answered(t, "logout") /\ task[t].kind = "logout" /\ task[t].tab = tab
          /\ task'[t] = Idle /\ page'[tab] # "closed"
          => page'[tab] = "login" /\ store'[tab].access = None]_vars
  BY StepLogout
<1> QED
  BY <1>1, InitCalls, CallsInductive, PTL DEF Spec, LogoutShowsLogin

-----------------------------------------------------------------------------
(* The cookies.  Their invariant takes that of the calls for granted.       *)

\* Consistent, of a store or of the cookies
TokensOK(s, lg, gr) ==
    \/ s.access = None /\ s.refresh = None /\ s.party = None
    \/ /\ s.access \in Grant
       /\ s.refresh = s.access
       /\ s.party = PartyOf[UserIn(s.access, lg, gr)]

\* s has of the tokens what a script has used before it comes to next.
SoFar(s, next, tokens) ==
    /\ next # "access" => s.access = tokens.access
    /\ next = "party" => s.refresh = tokens.refresh

ReaderOK(tab) ==
    /\ page[tab] = "closed"
    /\ script[tab].alone => SoFar(store[tab], script[tab].next, cookie)

WriterOK(tab, t) ==
    /\ t \in Task
    /\ Brings(t)
    /\ task[t].tab = tab
    /\ script[tab].alone => SoFar(cookie, script[tab].next, Brought(t))

ScriptOK(tab) ==
    \/ script[tab] = AtRest
    \/ script[tab].next # "access" /\ script[tab].task = None /\ ReaderOK(tab)
    \/ script[tab].next # "access" /\ WriterOK(tab, script[tab].task)

TabsAreOpen == \A t \in Task : ~IsIdle(t) => page[task[t].tab] # "closed"

CookiesInv ==
    /\ TabsAreOpen
    /\ \A tab \in Tab : ScriptOK(tab)
    /\ torn \/ (\E tab \in Tab : Writing(tab)) \/ TokensOK(cookie, login, grant)
    /\ \A tab \in Tab : page[tab] = "closed" \/ tab \in mixed \/ TokensOK(store[tab], login, grant)

SessionInv == CallsInv /\ CookiesInv

\* Tokens that somebody holds keep their user.
LEMMA TokensFrame ==
    ASSUME NEW s, TokensOK(s, login, grant), s.access \in Grant => UserStays(s.access)
    PROVE  TokensOK(s, login', grant')
  BY DEF TokensOK, UserStays

\* What a tab writes are the tokens of one answer, which stay so while it holds the answer.
LEMMA BroughtOK ==
    ASSUME CallsInv, NEW t \in Task, Brings(t)
    PROVE  TokensOK(Brought(t), login, grant)
<1>1. CASE task[t].ask = "logout"
  BY <1>1 DEF Brought, NoTokens, TokensOK
<1>2. CASE task[t].ask # "logout"
  <2>1. task[t].answer \in Grant
    BY <1>2, BroughtTyped
  <2>2. UserOf(task[t].answer) = UserIn(task[t].answer, login, grant)
    BY <2>1, UsersTyped DEF CallsInv
  <2> QED
    BY <1>2, <2>1, <2>2 DEF Brought, TokensOf, TokensOK
<1> QED
  BY <1>1, <1>2

LEMMA BroughtFrame ==
    ASSUME CallsInv, NEW t \in Task, Brings(t), task'[t] = task[t],
           task[t].answer \in Grant => UserStays(task[t].answer)
    PROVE  Brings(t)' /\ Brought(t)' = Brought(t)
<1>1. Brings(t)'
  BY DEF Brings, Answered, IsIdle, Refused
<1>2. task[t].ask = "logout" \/ task[t].answer \in Grant
  BY BroughtTyped
<1>3. task[t].answer \in Grant => UserOf(task[t].answer)' = UserOf(task[t].answer)
  BY DEF UserStays, UserOf, UserIn
<1> QED
  BY <1>1, <1>2, <1>3 DEF Brought, TokensOf, NoTokens

\* A step that leaves the cookies alone, and the tokens that the tabs hold: it is no matter
\* for the scripts, whose answers are not touched.
LEMMA QuietCookies ==
    ASSUME SessionInv, UNCHANGED cookies, NEW ts,
           \A tab \in Tab : /\ store'[tab].access = store[tab].access
                            /\ store'[tab].refresh = store[tab].refresh
                            /\ store'[tab].party = store[tab].party,
           \A tab \in Tab : page'[tab] = "closed" <=> page[tab] = "closed",
           \A tab \in Tab : script[tab].task \in Task =>
              script[tab].task \notin ts /\ task'[script[tab].task] = task[script[tab].task],
           \A g \in Grant \cap HeldBesides(ts) : UserStays(g),
           TabsAreOpen'
    PROVE  CookiesInv'
<1>1. cookie' = cookie /\ script' = script /\ torn' = torn /\ mixed' = mixed
  BY DEF cookies
<1>2. ASSUME NEW tab \in Tab PROVE ScriptOK(tab)'
  <2>1. script'[tab] = script[tab] /\ ScriptOK(tab)
    BY <1>1 DEF SessionInv, CookiesInv
  <2>2. CASE script[tab] = AtRest
    BY <2>1, <2>2 DEF ScriptOK
  <2>3. CASE script[tab].next # "access" /\ script[tab].task = None /\ ReaderOK(tab)
    BY <1>1, <2>1, <2>3 DEF ScriptOK, ReaderOK, SoFar
  <2>4. CASE script[tab].next # "access" /\ WriterOK(tab, script[tab].task)
    <3>0. PICK t \in Task : t = script[tab].task
      BY <2>4 DEF WriterOK
    <3>1. t \in Task /\ Brings(t) /\ task'[t] = task[t] /\ t \notin ts
      BY <2>4, <3>0 DEF WriterOK
    <3>2. task[t].answer \in Grant => UserStays(task[t].answer)
      <4>1. task[t] \in Running
        BY <3>1, BroughtTyped DEF SessionInv
      <4> QED
        BY <3>1, <4>1, Holders DEF SessionInv
    <3>3. Brings(t)' /\ Brought(t)' = Brought(t)
      BY <3>1, <3>2, BroughtFrame DEF SessionInv
    <3>4. WriterOK(tab, t)'
      BY <1>1, <2>1, <2>4, <3>0, <3>1, <3>3 DEF WriterOK
    <3> QED
      BY <2>1, <2>4, <3>0, <3>4 DEF ScriptOK
  <2> QED
    BY <2>1, <2>2, <2>3, <2>4 DEF ScriptOK
<1>3. torn' \/ (\E tab \in Tab : Writing(tab)') \/ TokensOK(cookie', login', grant')
  <2>1. cookie.access \in Grant => UserStays(cookie.access)
    BY Holders DEF SessionInv
  <2> QED
    BY <1>1, <2>1, TokensFrame DEF SessionInv, CookiesInv, Writing
<1>4. ASSUME NEW tab \in Tab
      PROVE  page'[tab] = "closed" \/ tab \in mixed' \/ TokensOK(store'[tab], login', grant')
  <2>1. store[tab].access \in Grant => UserStays(store[tab].access)
    BY Holders DEF SessionInv
  <2>2. TokensOK(store[tab], login, grant) => TokensOK(store'[tab], login', grant')
    BY <2>1, TokensFrame DEF TokensOK
  <2> QED
    BY <1>1, <2>2 DEF SessionInv, CookiesInv
<1> QED
  BY <1>2, <1>3, <1>4 DEF CookiesInv

\* Who is not at the cookies
LEMMA NoWriter ==
    ASSUME SessionInv, NEW q \in Task, ~Brings(q) \/ script[task[q].tab].task # q,
           NEW tab \in Tab
    PROVE  script[tab].task # q
<1>1. ScriptOK(tab)
  BY DEF SessionInv, CookiesInv
<1> QED
  BY <1>1, SessionNone DEF ScriptOK, AtRest, WriterOK

\* The tasks that are begun are of the tab.
LEMMA RunsTab ==
    ASSUME NEW kind, NEW tab, NEW user, NEW what, NEW s
    PROVE  /\ Refresh(kind, tab, user, what, s) = Idle \/ Refresh(kind, tab, user, what, s).tab = tab
           /\ Provide(kind, tab, user, s) = Idle \/ Provide(kind, tab, user, s).tab = tab
           /\ Logout(kind, tab, s).tab = tab
           /\ SignIn(tab, user).tab = tab
           /\ Sending(kind, tab, user, s).tab = tab
  BY DEF Refresh, Provide, Logout, SignIn, Sending, Asking, Request

LEMMA OpenTabs ==
    ASSUME SessionInv, NEW q \in Task, NEW run, task' = [task EXCEPT ![q] = run],
           NEW tab \in Tab, run = Idle \/ run.tab = tab, page'[tab] # "closed",
           \A x \in Tab : x # tab => page'[x] = page[x]
    PROVE  TabsAreOpen'
<1>1. \A t \in Task : task'[t] = IF t = q THEN run ELSE task[t]
  BY DEF SessionInv, CallsInv, SessionTypeOK
<1>2. \A t \in Task : ~IsIdle(t) => task[t].tab \in Tab /\ page[task[t].tab] # "closed"
  BY AskedRuns DEF SessionInv, CookiesInv, TabsAreOpen
<1> QED
  BY <1>1, <1>2 DEF TabsAreOpen, IsIdle

LEMMA GuardsOpen ==
    ASSUME NEW t \in Task, NEW tab \in Tab, NEW s, NEW shown, shown # "closed",
           GuardLogin(t, tab, s, shown) \/ GuardMain(t, tab, s, shown)
    PROVE  /\ \E run : task' = [task EXCEPT ![t] = run] /\ (run = Idle \/ run.tab = tab)
           /\ \E p : page' = [page EXCEPT ![tab] = p] /\ p # "closed"
<1>1. CASE GuardLogin(t, tab, s, shown)
  BY <1>1, RunsTab DEF GuardLogin, Show, End, Become
<1>2. CASE /\ Become(t, IF shown = "main" THEN Idle ELSE Provide("load", tab, Holder(s), s))
           /\ Show(tab, "main")
  <2> DEFINE run == IF shown = "main" THEN Idle ELSE Provide("load", tab, Holder(s), s)
  <2>1. run = Idle \/ run.tab = tab
    BY RunsTab
  <2>2. task' = [task EXCEPT ![t] = run] /\ page' = [page EXCEPT ![tab] = "main"]
    BY <1>2 DEF Show, Become
  <2> HIDE DEF run
  <2>3. \E new : task' = [task EXCEPT ![t] = new] /\ (new = Idle \/ new.tab = tab)
    BY <2>1, <2>2
  <2>4. \E p : page' = [page EXCEPT ![tab] = p] /\ p # "closed"
    <3>1. "main" # "closed"
      OBVIOUS
    <3> QED
      BY <2>2, <3>1, Zenon
  <2> QED
    BY <2>3, <2>4
<1> QED
  BY <1>1, <1>2 DEF GuardMain

\* A task of the frontend begins, goes on or ends in an open tab, without the cookies.
LEMMA QuietTask ==
    ASSUME SessionInv, UNCHANGED cookies, UNCHANGED keycloak, NEW q \in Task, NEW run,
           task' = [task EXCEPT ![q] = run], ~Brings(q),
           NEW tab \in Tab, run = Idle \/ run.tab = tab, page[tab] # "closed",
           UNCHANGED page \/ \E p : page' = [page EXCEPT ![tab] = p] /\ p # "closed",
           \A x \in Tab : /\ store'[x].access = store[x].access
                          /\ store'[x].refresh = store[x].refresh
                          /\ store'[x].party = store[x].party
    PROVE  CookiesInv'
<1>1. page \in [Tab -> Page] /\ task \in [Task -> {Idle} \cup Running]
  BY DEF SessionInv, CallsInv, SessionTypeOK
<1>2. page'[tab] # "closed" /\ \A x \in Tab : x # tab => page'[x] = page[x]
  BY <1>1
<1>3. TabsAreOpen'
  BY <1>2, OpenTabs
<1>4. \A x \in Tab : script[x].task \in Task =>
         script[x].task \notin {} /\ task'[script[x].task] = task[script[x].task]
  BY <1>1, NoWriter
<1>5. \A g \in Grant \cap HeldBesides({}) : UserStays(g)
  BY DEF keycloak, UserStays
<1>6. \A x \in Tab : page'[x] = "closed" <=> page[x] = "closed"
  BY <1>2
<1> QED
  BY <1>3, <1>4, <1>5, <1>6, QuietCookies

\* The script of a tab in which nothing happens, while another writes no cookie, or does.
LEMMA OtherScripts ==
    ASSUME SessionInv, NEW x \in Tab, ScriptOK(x), NEW t \in Task,
           \A q \in Task : q # t => task'[q] = task[q],
           ~Brings(t) \/ task[t].tab # x,
           login' = login, grant' = grant,
           page'[x] = page[x], store'[x] = store[x],
           \/ script'[x] = script[x] /\ cookie' = cookie
           \/ script'[x] = Overtaken(script[x])
    PROVE  ScriptOK(x)'
<1>1. script[x] \in Script
  BY DEF SessionInv, CallsInv, SessionTypeOK
<1>2. CASE script[x] = AtRest
  <2>1. (AtRest.next = "access") = TRUE
    BY DEF AtRest
  <2>2. Overtaken(AtRest) = AtRest
    <3>1. \A r \in Script : r = [task |-> r.task, next |-> r.next, alone |-> r.alone]
      BY DEF Script
    <3>2. Overtaken(AtRest) \in Script /\ AtRest \in Script
      BY ScriptTypes
    <3>3. /\ Overtaken(AtRest).task = AtRest.task /\ Overtaken(AtRest).next = AtRest.next
          /\ Overtaken(AtRest).alone = (AtRest.next = "access")
      BY <3>2 DEF Overtaken, Script
    <3>4. AtRest.alone = TRUE
      BY DEF AtRest
    <3> QED
      BY <2>1, <3>1, <3>2, <3>3, <3>4
  <2>3. script'[x] = AtRest
    BY <1>2, <2>2
  <2> QED
    BY <2>3 DEF ScriptOK
<1>3. CASE script[x].next # "access"
  <2>1. /\ script'[x].next = script[x].next /\ script'[x].task = script[x].task
        /\ script'[x].alone => script[x].alone /\ cookie' = cookie
    BY <1>1, <1>3 DEF Overtaken, Script
  <2>2. CASE script[x].task = None /\ ReaderOK(x)
    BY <1>3, <2>1, <2>2 DEF ScriptOK, ReaderOK, SoFar
  <2>3. CASE WriterOK(x, script[x].task)
    <3>1. PICK q \in Task : q = script[x].task
      BY <2>3 DEF WriterOK
    <3>2. Brings(q) /\ task[q].tab = x /\ q # t
      BY <2>3, <3>1 DEF WriterOK
    <3>3. task'[q] = task[q]
      BY <3>2
    <3>4. Brings(q)' /\ Brought(q)' = Brought(q)
      BY <3>2, <3>3, BroughtFrame DEF SessionInv, UserStays
    <3>5. WriterOK(x, q)'
      BY <2>1, <2>3, <3>1, <3>2, <3>3, <3>4 DEF WriterOK, SoFar
    <3> QED
      BY <1>3, <2>1, <3>1, <3>5 DEF ScriptOK
  <2> QED
    BY <1>2, <1>3, <2>2, <2>3 DEF ScriptOK, AtRest
<1> QED
  BY <1>2, <1>3 DEF ScriptOK

LEMMA ActCookies ==
    ASSUME SessionInv, NEW t \in Task, NEW tab \in Tab, Act(t, tab), ~Open(t, tab)
    PROVE  CookiesInv'
<1>1. IsIdle(t) /\ ~Brings(t)
  BY ActTasks DEF Brings, Answered
<1>2. CASE \/ \E u \in User : Submit(t, tab, u)
           \/ PressLogout(t, tab) \/ CallApi(t, tab)
  <2>1. /\ UNCHANGED cookies /\ UNCHANGED keycloak /\ UNCHANGED store /\ UNCHANGED page
        /\ \E run : task' = [task EXCEPT ![t] = run] /\ (run = Idle \/ run.tab = tab)
        /\ page[tab] # "closed"
    BY <1>2, RunsTab DEF Submit, PressLogout, CallApi, Become
  <2> QED
    BY <1>1, <2>1, QuietTask
<1>3. CASE GoToLogin(t, tab) \/ GoToMain(t, tab)
  <2>1. /\ UNCHANGED cookies /\ UNCHANGED keycloak /\ UNCHANGED store
        /\ page[tab] # "closed"
        /\ \E shown : /\ shown # "closed"
                      /\ \/ GuardLogin(t, tab, store[tab], shown)
                         \/ GuardMain(t, tab, store[tab], shown)
    BY <1>3 DEF GoToLogin, GoToMain
  <2>2. /\ \E run : task' = [task EXCEPT ![t] = run] /\ (run = Idle \/ run.tab = tab)
        /\ \E p : page' = [page EXCEPT ![tab] = p] /\ p # "closed"
    BY <2>1, GuardsOpen
  <2> QED
    BY <1>1, <2>1, <2>2, QuietTask
<1> QED
  BY <1>2, <1>3 DEF Act

\* A tab has read all three cookies.
LEMMA OpenCookies ==
    ASSUME SessionInv, NEW t \in Task, NEW tab \in Tab, Open(t, tab)
    PROVE  CookiesInv'
<1> DEFINE s == [store[tab] EXCEPT !.party = cookie.party]
<1>1. /\ IsIdle(t) /\ page[tab] = "closed" /\ script[tab].next = "party"
      /\ store' = [store EXCEPT ![tab] = s]
      /\ script' = [script EXCEPT ![tab] = AtRest]
      /\ mixed' = IF script[tab].alone /\ ~torn /\ \A x \in Tab : ~Writing(x)
                  THEN mixed ELSE mixed \cup {tab}
      /\ GuardLogin(t, tab, s, "blank") \/ GuardMain(t, tab, s, "blank")
      /\ login' = login /\ grant' = grant /\ cookie' = cookie /\ torn' = torn
  BY DEF Open, keycloak
<1>a. SessionTypeOK /\ ~Brings(t)
  BY <1>1 DEF SessionInv, CallsInv, Brings, Answered
<1>2. /\ s.access = store[tab].access /\ s.refresh = store[tab].refresh /\ s.party = cookie.party
  BY <1>a DEF SessionTypeOK, StoreState
<1> HIDE DEF s
<1>3. /\ store'[tab] = s /\ script'[tab] = AtRest
      /\ \A x \in Tab : x # tab => store'[x] = store[x] /\ script'[x] = script[x]
  BY <1>a, <1>1 DEF SessionTypeOK
<1>4. /\ \E run : task' = [task EXCEPT ![t] = run] /\ (run = Idle \/ run.tab = tab)
      /\ \E p : page' = [page EXCEPT ![tab] = p] /\ p # "closed"
  BY <1>1, GuardsOpen
<1>5. page'[tab] # "closed" /\ \A x \in Tab : x # tab => page'[x] = page[x]
  BY <1>a, <1>4 DEF SessionTypeOK
<1>6. \A q \in Task : q # t => task'[q] = task[q]
  BY <1>a, <1>4 DEF SessionTypeOK
<1>7. ReaderOK(tab) /\ script[tab].task = None
  <2>1. ScriptOK(tab) /\ TabsAreOpen
    BY DEF SessionInv, CookiesInv
  <2> QED
    BY <1>1, <2>1 DEF ScriptOK, AtRest, WriterOK, TabsAreOpen, Brings, Answered
<1>8. ASSUME NEW x \in Tab PROVE ScriptOK(x)'
  <2>1. CASE x = tab
    BY <1>3, <2>1 DEF ScriptOK
  <2>2. CASE x # tab
    BY <1>1, <1>3, <1>5, <1>6, <1>a, <2>2, OtherScripts DEF SessionInv, CookiesInv
  <2> QED
    BY <2>1, <2>2
<1>9. torn' \/ (\E x \in Tab : Writing(x)') \/ TokensOK(cookie', login', grant')
  <2>1. \A x \in Tab : Writing(x) => Writing(x)'
    BY <1>3, <1>7 DEF Writing
  <2> QED
    BY <1>1, <2>1 DEF SessionInv, CookiesInv
<1>10. ASSUME NEW x \in Tab
       PROVE  page'[x] = "closed" \/ x \in mixed' \/ TokensOK(store'[x], login', grant')
  <2>1. CASE x # tab
    BY <1>1, <1>3, <1>5, <2>1 DEF SessionInv, CookiesInv
  <2>2. CASE x = tab /\ script[tab].alone /\ ~torn /\ \A y \in Tab : ~Writing(y)
    <3>1. TokensOK(cookie, login, grant)
      BY <2>2 DEF SessionInv, CookiesInv
    <3>2. s.access = cookie.access /\ s.refresh = cookie.refresh
      BY <1>1, <1>2, <1>7, <2>2 DEF ReaderOK, SoFar
    <3> QED
      BY <1>1, <1>2, <1>3, <2>2, <3>1, <3>2 DEF TokensOK
  <2>3. CASE x = tab /\ ~(script[tab].alone /\ ~torn /\ \A y \in Tab : ~Writing(y))
    BY <1>1, <2>3
  <2> QED
    BY <2>1, <2>2, <2>3
<1>11. TabsAreOpen'
  BY <1>4, <1>5, OpenTabs
<1> QED
  BY <1>8, <1>9, <1>10, <1>11 DEF CookiesInv

\* The scripts of the other tabs, after a cookie was written for task t
LEMMA AfterWriting ==
    ASSUME SessionInv, NEW t \in Task, task[t].tab \in Tab, NEW r,
           script' = ScriptsAfter(task[t].tab, r),
           \A q \in Task : q # t => task'[q] = task[q],
           login' = login, grant' = grant,
           \A x \in Tab : x # task[t].tab => page'[x] = page[x] /\ store'[x] = store[x],
           NEW x \in Tab, x # task[t].tab
    PROVE  ScriptOK(x)' /\ (Writing(x) => Writing(x)')
<1>1. script'[x] = Overtaken(script[x])
  BY DEF ScriptsAfter
<1>2. ScriptOK(x)'
  BY <1>1, OtherScripts DEF SessionInv, CookiesInv
<1>3. Writing(x) => Writing(x)'
  BY <1>1 DEF Writing, Overtaken, SessionInv, CallsInv, SessionTypeOK, Script
<1> QED
  BY <1>2, <1>3

\* A task has written the last cookie, and the store.
LEMMA PatchCookies ==
    ASSUME SessionInv, NEW t \in Task, Brings(t), Patch(t, Brought(t)), UNCHANGED keycloak,
           NEW run, task' = [task EXCEPT ![t] = run], run = Idle \/ run.tab = task[t].tab,
           UNCHANGED page \/ page' = [page EXCEPT ![task[t].tab] = "login"]
    PROVE  CookiesInv'
<1> DEFINE tokens == Brought(t)
           s(x) == [Fresh(tokens) EXCEPT !.profile = store[x].profile]
<1>1. PICK tab \in Tab : tab = task[t].tab
  BY BroughtTyped DEF SessionInv
<1>a. SessionTypeOK /\ tokens \in Tokens /\ TokensOK(tokens, login, grant) /\ ~IsIdle(t)
  BY BroughtTyped, BroughtOK DEF SessionInv, CallsInv, Brings, Answered
<1>2. /\ script[tab].task = t /\ script[tab].next = "party"
      /\ cookie' = [cookie EXCEPT !.party = tokens.party]
      /\ script' = ScriptsAfter(tab, AtRest)
      /\ torn' = ~script[tab].alone
      /\ store' = [store EXCEPT ![tab] = s(tab)]
      /\ mixed' = mixed \ {tab}
      /\ login' = login /\ grant' = grant
  BY <1>1 DEF Patch, keycloak
<1>3. /\ s(tab).access = tokens.access /\ s(tab).refresh = tokens.refresh
      /\ s(tab).party = tokens.party
  BY DEF Fresh
<1>b. WriterOK(tab, t)
  <2>1. ScriptOK(tab)
    BY DEF SessionInv, CookiesInv
  <2> QED
    BY <1>2, <2>1, SessionNone DEF ScriptOK, AtRest
<1> HIDE DEF s, tokens
<1>4. /\ store'[tab] = s(tab) /\ script'[tab] = AtRest
      /\ \A x \in Tab : x # tab => store'[x] = store[x]
  BY <1>a, <1>2 DEF SessionTypeOK, ScriptsAfter
<1>5. /\ page[tab] # "closed" /\ page'[tab] # "closed"
      /\ \A x \in Tab : x # tab => page'[x] = page[x]
  <2>1. page[tab] # "closed"
    BY <1>1, <1>a DEF SessionInv, CookiesInv, TabsAreOpen
  <2> QED
    BY <1>1, <1>a, <2>1 DEF SessionTypeOK
<1>6. \A q \in Task : q # t => task'[q] = task[q]
  BY <1>a DEF SessionTypeOK
<1>7. ASSUME NEW x \in Tab, x # tab PROVE ScriptOK(x)' /\ (Writing(x) => Writing(x)')
  BY <1>1, <1>2, <1>4, <1>5, <1>6, <1>7, AfterWriting
<1>8. \A x \in Tab : ScriptOK(x)'
  BY <1>4, <1>7 DEF ScriptOK
<1>9. torn' \/ (\E x \in Tab : Writing(x)') \/ TokensOK(cookie', login', grant')
  <2>1. CASE ~script[tab].alone
    BY <1>2, <2>1
  <2>2. CASE script[tab].alone
    <3>1. cookie.access = tokens.access /\ cookie.refresh = tokens.refresh
      BY <1>2, <1>b, <2>2 DEF WriterOK, SoFar, tokens
    <3>2. /\ cookie'.access = tokens.access /\ cookie'.refresh = tokens.refresh
          /\ cookie'.party = tokens.party
      BY <1>a, <1>2, <3>1 DEF SessionTypeOK, Tokens
    <3> QED
      BY <1>a, <1>2, <3>2 DEF TokensOK
  <2> QED
    BY <2>1, <2>2
<1>10. ASSUME NEW x \in Tab
       PROVE  page'[x] = "closed" \/ x \in mixed' \/ TokensOK(store'[x], login', grant')
  <2>1. CASE x = tab
    <3>1. TokensOK(s(tab), login, grant)
      BY <1>3, <1>a DEF TokensOK
    <3> QED
      BY <1>2, <1>4, <2>1, <3>1
  <2>2. CASE x # tab
    BY <1>2, <1>4, <1>5, <2>2 DEF SessionInv, CookiesInv
  <2> QED
    BY <2>1, <2>2
<1>11. TabsAreOpen'
  BY <1>1, <1>5, OpenTabs
<1> QED
  BY <1>8, <1>9, <1>10, <1>11 DEF CookiesInv

LEMMA WriteCookies ==
    ASSUME SessionInv, NEW t \in Task, WriteCookie(t)
    PROVE  CookiesInv'
<1>1. Brings(t) /\ ~IsIdle(t) /\ HasTurn(t)
  BY DEF WriteCookie, Brings, Answered
<1>2. PICK tab \in Tab : tab = task[t].tab
  BY <1>1, BroughtTyped DEF SessionInv
<1>a. SessionTypeOK /\ Brought(t) \in Tokens
  BY <1>1, BroughtTyped DEF SessionInv, CallsInv
<1>3. PICK next \in {"access", "refresh", "party"} : next = script[tab].next
  BY <1>a DEF SessionTypeOK, Script
<1>4. /\ next # "party"
      /\ cookie' = [cookie EXCEPT ![next] = Brought(t)[next]]
      /\ script' = ScriptsAfter(tab, [script[tab] EXCEPT !.task = t, !.next = After[next]])
      /\ login' = login /\ grant' = grant /\ store' = store /\ page' = page /\ task' = task
      /\ torn' = torn /\ mixed' = mixed
  BY <1>2, <1>3 DEF WriteCookie, keycloak
<1>5. /\ script'[tab].task = t /\ script'[tab].next = After[next]
      /\ script'[tab].alone = script[tab].alone
  BY <1>a, <1>4 DEF ScriptsAfter, SessionTypeOK, Script
<1>6. Brings(t)' /\ Brought(t)' = Brought(t)
  BY <1>1, <1>4, BroughtFrame DEF SessionInv, UserStays
<1>7. WriterOK(tab, t)' /\ script'[tab].next # "access"
  <2>1. CASE next = "access"
    <3>1. After[next] = "refresh" /\ cookie'.access = Brought(t).access
      BY <1>a, <1>4, <2>1 DEF SessionTypeOK, Tokens, After
    <3> QED
      BY <1>2, <1>4, <1>5, <1>6, <3>1 DEF WriterOK, SoFar
  <2>2. CASE next = "refresh"
    <3>1. /\ After[next] = "party" /\ cookie'.access = cookie.access
          /\ cookie'.refresh = Brought(t).refresh
      BY <1>a, <1>4, <2>2 DEF SessionTypeOK, Tokens, After
    <3>2. WriterOK(tab, t)
      <4>1. ScriptOK(tab) /\ script[tab].task = t
        BY <1>1, <1>2, <1>3, <2>2 DEF SessionInv, CookiesInv, HasTurn, Busy
      <4> QED
        BY <1>3, <2>2, <4>1, SessionNone DEF ScriptOK, AtRest
    <3>3. script[tab].alone => cookie.access = Brought(t).access
      BY <1>3, <2>2, <3>2 DEF WriterOK, SoFar
    <3> QED
      BY <1>2, <1>4, <1>5, <1>6, <3>1, <3>3 DEF WriterOK, SoFar
  <2> QED
    BY <1>4, <2>1, <2>2
<1>8. \A x \in Tab : x # tab => ScriptOK(x)'
  BY <1>2, <1>4, AfterWriting
<1>9. \A x \in Tab : ScriptOK(x)'
  BY <1>5, <1>7, <1>8 DEF ScriptOK
<1>10. Writing(tab)'
  BY <1>5, SessionNone DEF Writing
<1>11. /\ TabsAreOpen'
       /\ \A x \in Tab : page'[x] = "closed" \/ x \in mixed' \/ TokensOK(store'[x], login', grant')
  BY <1>4 DEF SessionInv, CookiesInv, TabsAreOpen, IsIdle
<1> QED
  BY <1>9, <1>10, <1>11 DEF CookiesInv

LEMMA ReadCookies ==
    ASSUME SessionInv, NEW tab \in Tab, ReadCookie(tab)
    PROVE  CookiesInv'
<1>a. SessionTypeOK /\ ScriptOK(tab) /\ TabsAreOpen
  BY DEF SessionInv, CallsInv, CookiesInv
<1>1. PICK next \in {"access", "refresh", "party"} : next = script[tab].next
  BY <1>a DEF SessionTypeOK, Script
<1>2. /\ page[tab] = "closed" /\ next # "party"
      /\ store' = [store EXCEPT ![tab][next] = cookie[next]]
      /\ script' = [script EXCEPT ![tab].next = After[next]]
      /\ login' = login /\ grant' = grant /\ cookie' = cookie /\ page' = page /\ task' = task
      /\ torn' = torn /\ mixed' = mixed
  BY <1>1 DEF ReadCookie, keycloak
<1>3. /\ script'[tab].task = script[tab].task /\ script'[tab].next = After[next]
      /\ script'[tab].alone = script[tab].alone
      /\ \A x \in Tab : x # tab => script'[x] = script[x] /\ store'[x] = store[x]
  BY <1>a, <1>2 DEF SessionTypeOK, Script
<1>4. script[tab].task = None
  BY <1>a, <1>2 DEF ScriptOK, AtRest, WriterOK, TabsAreOpen, Brings, Answered
<1>5. ReaderOK(tab)' /\ script'[tab].next # "access"
  <2>1. CASE next = "access"
    <3>1. After[next] = "refresh" /\ store'[tab].access = cookie.access
      BY <1>a, <1>2, <2>1 DEF SessionTypeOK, StoreState, After
    <3> QED
      BY <1>2, <1>3, <3>1 DEF ReaderOK, SoFar
  <2>2. CASE next = "refresh"
    <3>1. /\ After[next] = "party" /\ store'[tab].access = store[tab].access
          /\ store'[tab].refresh = cookie.refresh
      BY <1>a, <1>2, <2>2 DEF SessionTypeOK, StoreState, After
    <3>2. ReaderOK(tab)
      <4>0. AtRest.next = "access" /\ script[tab].next = "refresh"
        BY <1>1, <2>2 DEF AtRest
      <4>1. script[tab] # AtRest
        BY <4>0
      <4>2. ~WriterOK(tab, script[tab].task)
        BY <1>4, SessionNone DEF WriterOK
      <4> QED
        BY <1>a, <4>1, <4>2 DEF ScriptOK
    <3> QED
      BY <1>1, <1>2, <1>3, <2>2, <3>1, <3>2 DEF ReaderOK, SoFar
  <2> QED
    BY <1>2, <2>1, <2>2
<1>6. ASSUME NEW x \in Tab PROVE ScriptOK(x)'
  <2>1. CASE x = tab
    BY <1>3, <1>4, <1>5, <2>1 DEF ScriptOK
  <2>2. CASE x # tab
    <3>1. ScriptOK(x) /\ script'[x] = script[x] /\ store'[x] = store[x]
      BY <1>3, <2>2 DEF SessionInv, CookiesInv
    <3> QED
      BY <1>2, <3>1 DEF ScriptOK, ReaderOK, WriterOK, Brings, Brought, Answered, IsIdle, Refused,
         TokensOf, UserOf, SoFar
  <2> QED
    BY <2>1, <2>2
<1>7. \A x \in Tab : Writing(x)' <=> Writing(x)
  BY <1>3 DEF Writing
<1>8. TabsAreOpen'
  BY <1>2 DEF SessionInv, CookiesInv, TabsAreOpen, IsIdle
<1>9. \A x \in Tab : page'[x] = "closed" \/ x \in mixed' \/ TokensOK(store'[x], login', grant')
  BY <1>2, <1>3 DEF SessionInv, CookiesInv
<1> QED
  BY <1>2, <1>6, <1>7, <1>8, <1>9 DEF SessionInv, CookiesInv

LEMMA UnloadCookies ==
    ASSUME SessionInv, NEW tab \in Tab, Unload(tab)
    PROVE  CookiesInv'
<1>a. SessionTypeOK
  BY DEF SessionInv, CallsInv
<1>1. /\ page' = [page EXCEPT ![tab] = "closed"]
      /\ task' = [t \in Task |-> IF ~IsIdle(t) /\ task[t].tab = tab THEN Idle ELSE task[t]]
      /\ store' = [store EXCEPT ![tab] = Fresh(NoTokens)]
      /\ script' = [script EXCEPT ![tab] = AtRest]
      /\ torn' = (torn \/ Writing(tab)) /\ mixed' = mixed \ {tab}
      /\ login' = login /\ grant' = grant /\ cookie' = cookie
  BY DEF Unload, keycloak
<1>2. /\ page'[tab] = "closed" /\ script'[tab] = AtRest
      /\ \A x \in Tab : x # tab =>
            page'[x] = page[x] /\ store'[x] = store[x] /\ script'[x] = script[x]
  BY <1>a, <1>1 DEF SessionTypeOK
<1>3. TabsAreOpen'
  <2>1. ASSUME NEW t \in Task, task'[t] # Idle
        PROVE  task'[t] = task[t] /\ page'[task[t].tab] # "closed"
    <3>1. task'[t] = task[t] /\ ~IsIdle(t) /\ task[t].tab # tab
      BY <1>1, <2>1 DEF IsIdle
    <3>2. task[t].tab \in Tab /\ page[task[t].tab] # "closed"
      BY <3>1, AskedRuns DEF SessionInv, CookiesInv, TabsAreOpen
    <3> QED
      BY <1>2, <3>1, <3>2
  <2> QED
    BY <2>1 DEF TabsAreOpen, IsIdle
<1>4. ASSUME NEW x \in Tab PROVE ScriptOK(x)'
  <2>1. CASE x = tab
    BY <1>2, <2>1 DEF ScriptOK
  <2>2. CASE x # tab
    <3>1. ScriptOK(x) /\ script'[x] = script[x]
      BY <1>2, <2>2 DEF SessionInv, CookiesInv
    <3>2. CASE script[x] = AtRest
      BY <3>1, <3>2 DEF ScriptOK
    <3>3. CASE script[x].next # "access" /\ script[x].task = None /\ ReaderOK(x)
      BY <1>1, <1>2, <2>2, <3>1, <3>3 DEF ScriptOK, ReaderOK, SoFar
    <3>4. CASE script[x].next # "access" /\ WriterOK(x, script[x].task)
      <4>1. PICK q \in Task : q = script[x].task
        BY <3>4 DEF WriterOK
      <4>2. Brings(q) /\ task[q].tab = x /\ task'[q] = task[q]
        BY <1>1, <2>2, <3>4, <4>1 DEF WriterOK
      <4>3. Brings(q)' /\ Brought(q)' = Brought(q)
        BY <1>1, <4>2, BroughtFrame DEF SessionInv, UserStays
      <4>4. WriterOK(x, q)'
        BY <1>1, <3>1, <3>4, <4>1, <4>2, <4>3 DEF WriterOK, SoFar
      <4> QED
        BY <3>1, <3>4, <4>1, <4>4 DEF ScriptOK
    <3> QED
      BY <3>1, <3>2, <3>3, <3>4 DEF ScriptOK
  <2> QED
    BY <2>1, <2>2
<1>5. torn' \/ (\E x \in Tab : Writing(x)') \/ TokensOK(cookie', login', grant')
  <2>1. \A x \in Tab : x # tab => (Writing(x)' <=> Writing(x))
    BY <1>2 DEF Writing
  <2> QED
    BY <1>1, <2>1 DEF SessionInv, CookiesInv
<1>6. \A x \in Tab : page'[x] = "closed" \/ x \in mixed' \/ TokensOK(store'[x], login', grant')
  BY <1>1, <1>2 DEF SessionInv, CookiesInv
<1> QED
  BY <1>3, <1>4, <1>5, <1>6 DEF CookiesInv

LEMMA ProceedCookies ==
    ASSUME SessionInv, NEW t \in Task, Proceed(t)
    PROVE  CookiesInv'
<1> DEFINE tab == task[t].tab
<1>a. /\ ~IsIdle(t) /\ task[t] \in Running /\ tab \in Tab /\ page[tab] # "closed"
      /\ RunOK(task[t], login, grant)
  BY AskedRuns DEF SessionInv, CookiesInv, TabsAreOpen, Proceed, LoginAnswered, RefreshAnswered,
     LogoutAnswered, ApiAnswered, Answered
<1>b. page \in [Tab -> Page] /\ store \in [Tab -> StoreState]
  BY DEF SessionInv, CallsInv, SessionTypeOK
<1>1. CASE LoginAnswered(t) \/ RefreshAnswered(t)
  <2>1. CASE Refused(t)
    <3>1. /\ task' = [task EXCEPT ![t] = Idle] /\ UNCHANGED keycloak /\ UNCHANGED cookies
          /\ UNCHANGED store /\ UNCHANGED page
          /\ task[t].ask # "logout"
      BY <1>1, <2>1 DEF LoginAnswered, RefreshAnswered, End, Become, Answered
    <3>2. ~Brings(t)
      BY <2>1, <3>1 DEF Brings, Answered
    <3> QED
      BY <1>a, <3>1, <3>2, QuietTask
  <2>2. CASE ~Refused(t)
    <3>1. Brings(t) /\ Brought(t) = TokensOf(task[t].answer)
      BY <1>1, <2>2 DEF LoginAnswered, RefreshAnswered, Brings, Brought, Answered
    <3>2. /\ Patch(t, Brought(t)) /\ UNCHANGED keycloak /\ UNCHANGED page
          /\ \E run : task' = [task EXCEPT ![t] = run] /\ (run = Idle \/ run.tab = tab)
      <4>1. CASE LoginAnswered(t)
        BY <2>2, <3>1, <4>1, RunsTab DEF LoginAnswered, Become
      <4>2. CASE RefreshAnswered(t)
        BY <2>2, <3>1, <4>2, RunsTab DEF RefreshAnswered, Become
      <4> QED
        BY <1>1, <4>1, <4>2
    <3> QED
      BY <3>1, <3>2, PatchCookies
  <2> QED
    BY <2>1, <2>2
<1>2. CASE LogoutAnswered(t)
  <2>1. Brings(t) /\ Brought(t) = NoTokens
    BY <1>2 DEF LogoutAnswered, Brings, Brought, Answered
  <2>2. /\ Patch(t, Brought(t)) /\ UNCHANGED keycloak
        /\ task' = [task EXCEPT ![t] = Idle]
        /\ UNCHANGED page \/ page' = [page EXCEPT ![tab] = "login"]
    BY <1>2, <2>1 DEF LogoutAnswered, End, Become, Show
  <2> QED
    BY <2>1, <2>2, PatchCookies
<1>3. CASE ApiAnswered(t)
  <2>1. /\ UNCHANGED keycloak /\ UNCHANGED cookies /\ task[t].ask = "api"
        /\ \/ UNCHANGED store
           \/ store' = [store EXCEPT ![tab].profile = UserOf(task[t].bearer)]
        /\ \/ End(t) /\ UNCHANGED page
           \/ GuardMain(t, tab, store[tab], page[tab])
    BY <1>3 DEF ApiAnswered, Answered
  <2>2. ~Brings(t)
    BY <2>1 DEF Brings, Answered
  <2>3. \A x \in Tab : /\ store'[x].access = store[x].access
                       /\ store'[x].refresh = store[x].refresh
                       /\ store'[x].party = store[x].party
    BY <1>a, <1>b, <2>1 DEF StoreState
  <2>4. /\ \E run : task' = [task EXCEPT ![t] = run] /\ (run = Idle \/ run.tab = tab)
        /\ UNCHANGED page \/ \E p : page' = [page EXCEPT ![tab] = p] /\ p # "closed"
    <3>1. CASE End(t) /\ UNCHANGED page
      BY <3>1 DEF End, Become
    <3>2. CASE GuardMain(t, tab, store[tab], page[tab])
      BY <1>a, <3>2, GuardsOpen
    <3> QED
      BY <2>1, <3>1, <3>2
  <2> QED
    BY <1>a, <2>1, <2>2, <2>3, <2>4, QuietTask
<1> QED
  BY <1>1, <1>2, <1>3 DEF Proceed

\* Whose tokens are held by others stays, whatever is answered.
LEMMA ServeStays ==
    ASSUME CallsInv, NEW t \in Task, Serve(t) \/ Fail(t)
    PROVE  /\ \A g \in HeldBesides({t}) : UserStays(g)
           /\ \E answer : task' = [task EXCEPT ![t] = [task[t] EXCEPT !.form = None, !.answer = answer]]
           /\ UNCHANGED cookies /\ UNCHANGED store /\ UNCHANGED page
           /\ ~IsIdle(t) /\ (task[t].answer = None \/ script[task[t].tab].task # t)
<1>a. login \in [Login -> LoginState] /\ grant \in [Grant -> GrantState]
  BY DEF CallsInv, SessionTypeOK
<1>b. HeldBesides({t}) \subseteq Held /\ Held \subseteq Grant
  BY DEF Held, HeldBesides, Grants
<1>1. /\ \E answer : task' = [task EXCEPT ![t] = [task[t] EXCEPT !.form = None, !.answer = answer]]
      /\ UNCHANGED cookies /\ UNCHANGED store /\ UNCHANGED page
      /\ ~IsIdle(t) /\ (task[t].answer = None \/ script[task[t].tab].task # t)
  BY DEF Serve, Fail, ServeLogin, ServeRefresh, ServeLogout, ServeApi, Issue, Answer, Become, Asked
<1>2. ASSUME NEW h \in HeldBesides({t}) PROVE UserStays(h)
  <2>1. CASE ServeLogin(t)
    <3>1. CASE UNCHANGED keycloak
      BY <3>1 DEF UserStays, keycloak
    <3>2. ASSUME NEW g \in Grant \ Held, NEW l \in FreeLogins,
                 login' = [login EXCEPT ![l] = [user |-> task[t].user, over |-> FALSE]],
                 Issue(t, g, l)
          PROVE  UserStays(h)
      <4>1. h \in Grant /\ h # g /\ grant[h].login # l
        BY <1>b, <3>2 DEF FreeLogins
      <4> QED
        BY <1>a, <3>2, <4>1 DEF Issue, UserStays, UserIn, GrantState
    <3> QED
      BY <2>1, <3>1, <3>2 DEF ServeLogin
  <2>2. CASE ServeRefresh(t)
    <3>1. grant'[h] = grant[h] /\ login' = login
      BY <1>a, <1>b, <2>2 DEF ServeRefresh, Issue
    <3> QED
      BY <3>1 DEF UserStays, UserIn
  <2>3. CASE ServeLogout(t)
    <3>1. \A l \in Login : login'[l].user = login[l].user
      BY <1>a, <2>3 DEF ServeLogout, LoginState
    <3> QED
      BY <1>a, <1>b, <2>3, <3>1 DEF ServeLogout, UserStays, UserIn, GrantState
  <2>4. CASE ServeApi(t) \/ Fail(t)
    BY <2>4 DEF ServeApi, Fail, keycloak, UserStays
  <2> QED
    BY <2>1, <2>2, <2>3, <2>4 DEF Serve
<1> QED
  BY <1>1, <1>2

LEMMA ServeCookies ==
    ASSUME SessionInv, NEW t \in Task, Serve(t) \/ Fail(t)
    PROVE  CookiesInv'
<1>1. /\ \A g \in HeldBesides({t}) : UserStays(g)
      /\ UNCHANGED cookies /\ UNCHANGED store /\ UNCHANGED page
      /\ ~IsIdle(t) /\ (task[t].answer = None \/ script[task[t].tab].task # t)
  BY ServeStays DEF SessionInv
<1>2. PICK answer : task' = [task EXCEPT ![t] = [task[t] EXCEPT !.form = None, !.answer = answer]]
  BY ServeStays DEF SessionInv
<1>3. /\ task \in [Task -> {Idle} \cup Running] /\ task[t] \in Running /\ task[t].tab \in Tab
      /\ page[task[t].tab] # "closed"
  BY <1>1, AskedRuns DEF SessionInv, CallsInv, SessionTypeOK, CookiesInv, TabsAreOpen
<1> DEFINE new == [task[t] EXCEPT !.form = None, !.answer = answer]
<1>4. new.tab = task[t].tab
  BY <1>3 DEF Running
<1> HIDE DEF new
<1>5. TabsAreOpen'
  BY <1>1, <1>2, <1>3, <1>4, OpenTabs DEF new
<1>6. ~Brings(t) \/ script[task[t].tab].task # t
  BY <1>1 DEF Brings, Answered
<1>7. \A x \in Tab : script[x].task \in Task =>
         script[x].task \notin {t} /\ task'[script[x].task] = task[script[x].task]
  BY <1>2, <1>3, <1>6, NoWriter
<1> QED
  BY <1>1, <1>5, <1>7, QuietCookies

LEMMA TimeCookies ==
    ASSUME SessionInv,
           \/ \E g \in Grant : AccessExpires(g) \/ RefreshExpires(g)
           \/ \E l \in Login : SessionEnds(l)
           \/ UNCHANGED vars
    PROVE  CookiesInv'
<1>a. login \in [Login -> LoginState] /\ grant \in [Grant -> GrantState]
  BY DEF SessionInv, CallsInv, SessionTypeOK
<1>1. UNCHANGED task /\ UNCHANGED cookies /\ UNCHANGED store /\ UNCHANGED page
  BY DEF AccessExpires, RefreshExpires, SessionEnds, vars, cookies
<1>2. \A h \in Grant : UserStays(h)
  <2>1. CASE \E g \in Grant : AccessExpires(g) \/ RefreshExpires(g)
    <3>1. login' = login /\ \A h \in Grant : grant'[h].login = grant[h].login
      BY <1>a, <2>1 DEF AccessExpires, RefreshExpires, GrantState
    <3> QED
      BY <3>1 DEF UserStays, UserIn
  <2>2. CASE \E l \in Login : SessionEnds(l)
    <3>1. grant' = grant /\ \A k \in Login : login'[k].user = login[k].user
      BY <1>a, <2>2 DEF SessionEnds, LoginState
    <3> QED
      BY <1>a, <3>1 DEF UserStays, UserIn, GrantState
  <2>3. CASE UNCHANGED vars
    BY <2>3 DEF vars, UserStays
  <2> QED
    BY <2>1, <2>2, <2>3
<1>3. TabsAreOpen'
  BY <1>1 DEF SessionInv, CookiesInv, TabsAreOpen, IsIdle
<1>4. /\ \A x \in Tab : script[x].task \in Task =>
            script[x].task \notin {} /\ task'[script[x].task] = task[script[x].task]
      /\ \A g \in Grant \cap HeldBesides({}) : UserStays(g)
      /\ \A x \in Tab : page'[x] = "closed" <=> page[x] = "closed"
      /\ \A x \in Tab : /\ store'[x].access = store[x].access
                        /\ store'[x].refresh = store[x].refresh
                        /\ store'[x].party = store[x].party
  BY <1>1, <1>2
<1> QED
  BY <1>1, <1>3, <1>4, QuietCookies

LEMMA InitSession == Init => SessionInv
<1> SUFFICES ASSUME Init PROVE CookiesInv
  BY InitCalls DEF SessionInv
<1>1. \A tab \in Tab : ScriptOK(tab)
  BY DEF Init, ScriptOK
<1>2. TabsAreOpen /\ TokensOK(cookie, login, grant) /\ \A tab \in Tab : page[tab] = "closed"
  BY DEF Init, TabsAreOpen, IsIdle, TokensOK, NoTokens
<1> QED
  BY <1>1, <1>2 DEF CookiesInv

LEMMA SessionInductive == SessionInv /\ [Next]_vars => SessionInv'
<1> SUFFICES ASSUME SessionInv, [Next]_vars PROVE CookiesInv'
  BY CallsInductive DEF SessionInv
<1>1. CASE \E tab \in Tab : Unload(tab) \/ ReadCookie(tab)
  BY <1>1, UnloadCookies, ReadCookies
<1>2. CASE \E t \in Task : \/ \E tab \in Tab : Act(t, tab)
                           \/ WriteCookie(t) \/ Proceed(t) \/ Serve(t) \/ Fail(t)
  BY <1>2, ActCookies, OpenCookies, WriteCookies, ProceedCookies, ServeCookies
<1>3. CASE \/ \E g \in Grant : AccessExpires(g) \/ RefreshExpires(g)
           \/ \E l \in Login : SessionEnds(l)
           \/ UNCHANGED vars
  BY <1>3, TimeCookies
<1> QED
  BY <1>1, <1>2, <1>3 DEF Next

LEMMA InvTokens == SessionInv => TokensAreOfOneLogin
<1> SUFFICES ASSUME SessionInv PROVE TokensAreOfOneLogin
  OBVIOUS
<1>1. ASSUME NEW s, TokensOK(s, login, grant) PROVE Consistent(s)
  BY <1>1, UsersTyped DEF SessionInv, CallsInv, TokensOK, Consistent
<1> QED
  BY <1>1 DEF SessionInv, CookiesInv, TokensAreOfOneLogin

\* For any number of tabs, each of which reads and writes the three cookies one by one: only
\* where two of their scripts met, or one was cut off, can the cookies or a tab that was loaded
\* from them hold tokens of two answers, until the next answer (user.ts:53-60, 105-158).
THEOREM TokensBelongTogether == Spec => []TokensAreOfOneLogin
  BY InitSession, SessionInductive, InvTokens, PTL DEF Spec
=============================================================================
