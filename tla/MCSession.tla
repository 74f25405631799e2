------------------------------ MODULE MCSession ------------------------------
(* Small instances of Session for TLC. *)
EXTENDS Session, TLC

CONSTANTS alice, bob, party1, party2

PartyOfTwo == (alice :> party1) @@ (bob :> party2)

Swapped ==
    (alice :> bob) @@ (bob :> alice) @@ (party1 :> party2) @@ (party2 :> party1)

Symmetric == Permutations(Grant) \cup Permutations(Login) \cup Permutations(Task)
             \cup Permutations(Tab) \cup {Swapped}

\* What became of a grant or a session that nobody holds any more makes no difference, and
\* nothing is done with a profile but to show it, so that a call that loads it is as any other.
Remembered ==
    <<[g \in Held |-> grant[g]], [l \in Login \ FreeLogins |-> login[l]],
      [tab \in Tab |-> [store[tab] EXCEPT !.profile = None]],
      [t \in Task |-> IF IsIdle(t) \/ task[t].kind # "load" THEN task[t]
                      ELSE [task[t] EXCEPT !.kind = "call"]],
      cookie, page, script, torn, mixed>>

HasAnswer(t) == ~IsIdle(t) /\ task[t].answer # None

\* Bound: answers are dealt with as they come, and none gets lost.  While a tab is at the
\* cookies, nothing goes on but what tabs do there; and while a task of a tab has its answer,
\* nothing but that task and the tasks of other tabs.
Prompt ==
    IF \E tab \in Tab : Busy(tab) THEN script' # script
    ELSE \/ \A t \in Task : ~HasAnswer(t)
         \/ script' # script
         \/ \E t \in Task :
               /\ ~IsIdle(t) /\ task'[t] # task[t]
               /\ ~HasAnswer(t) \/ ~HasAnswer(t)'
               /\ \A u \in Task \ {t} : HasAnswer(u) => task[u].tab # task[t].tab

\* Bound: at most one token gets old at a time.  While two tabs are open, or tokens are mixed,
\* none does, and no call or refresh fails.  (When Keycloak ends a session, what follows is as
\* after failures.)
Bounded ==
    /\ \A g, h \in Held : g = h \/ grant[g].access = "fresh" \/ grant[h].access = "fresh"
    /\ \A l \in Login \ FreeLogins : ~login[l].over
    /\ \/ /\ \A x, y \in Tab : x = y \/ page[x] = "closed" \/ page[y] = "closed"
          /\ ~torn /\ mixed = {}
       \/ /\ \A g \in Held : grant[g].access = "fresh"
          /\ \A t \in Task : Answered(t, "api") \/ Answered(t, "refresh") \/ Answered(t, "renew")
                             => ~Refused(t)
=============================================================================
