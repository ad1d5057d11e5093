----------------------------- MODULE WebClient ------------------------------
(***************************************************************************)
(* One tab of the web client (apps/web/src): the session store, the shell  *)
(* that derives the view from it, the sign-in forms and the device page,   *)
(* together with the server and the cookie they talk through.              *)
(*                                                                         *)
(* JavaScript runs one continuation at a time, but requests overlap: each  *)
(* is sent, answered and delivered in steps of its own, in any order, and  *)
(* may fail or be abandoned on the way.  The headers of an answer may come *)
(* before its body: the cookie is then already set, and no timer runs any  *)
(* more.  A continuation belongs to the component that sent the request;   *)
(* when the view changes the component is gone, its local state with it,   *)
(* but the continuation still runs.                                        *)
(***************************************************************************)
EXTENDS Naturals, FiniteSets

CONSTANTS
  Slots,      \* requests that can be in flight
  Sessions,   \* session identifiers
  MaxActs,    \* bound on what the user does
  MaxFaults,  \* bound on requests given up, late bodies and ended sessions
  None        \* absent

ASSUME WebAssumption ==
  /\ IsFiniteSet(Slots) /\ None \notin Sessions
  /\ MaxActs \in Nat /\ MaxFaults \in Nat

VARIABLES
  \* the server
  claimed,     \* the installation has its administrator
  issued,      \* sessions issued so far
  live,        \* sessions that are valid
  roster,      \* how many changes the list of devices has had
  \* the browser
  cookie,      \* the session cookie
  tasks,       \* the request in each slot
  phase,       \* session.phase
  shown,       \* the session whose user the shell shows
  route,       \* router.current
  busy,        \* submitting or working, of the component on screen
  signingOut,  \* of the shell
  page,        \* the state of the device page on screen
  \* history
  left,        \* sessions the user has signed out of
  revived,     \* the shell was adopted from an answer older than a sign-out
  acts, faults

server == <<claimed, issued, live, roster>>
vars == <<claimed, issued, live, roster, cookie, tasks, phase, shown, route, busy,
          signingOut, page, left, revived, acts, faults>>

Phases == {"loading", "unreachable", "bootstrap-required", "signed-out", "signed-in"}
\* The dashboard is shown at "/", "/login" and "/setup"; "/login" is both of the
\* latter.
Routes == {"/", "/devices", "/login"}
Kinds == {"status", "session", "login", "bootstrap", "logout",
          "load", "register", "revoke", "reload"}
Answers == {"pending", "ok", "unclaimed", "unauthorized", "error"}

\* stage: "reading" when its headers have come and its body has not.
\* here: the component that waits for it is on screen.  old: it was in flight
\* at a sign-out.  made and seen: versions of the roster.
Request ==
  [kind : Kinds, stage : {"sent", "answered", "reading", "abandoned"}, answer : Answers,
   cookie : Sessions \cup {None}, session : Sessions \cup {None},
   here : BOOLEAN, old : BOOLEAN, made : Nat, seen : Nat]

ASSUME NoneAssumption == None \notin Request

NewRequest(kind, c) ==
  [kind |-> kind, stage |-> "sent", answer |-> "pending", cookie |-> c, session |-> None,
   here |-> TRUE, old |-> FALSE, made |-> 0, seen |-> 0]

Page == [list : Nat \cup {None}, loading : BOOLEAN, error : BOOLEAN,
         confirmed : Nat, overlap : BOOLEAN]

BlankPage == [list |-> None, loading |-> TRUE, error |-> FALSE,
              confirmed |-> 0, overlap |-> FALSE]

InFlight(ts) == {s \in Slots : ts[s] # None}
FreeSlots(ts) == Slots \ InFlight(ts)
SlotIn(ts) == CHOOSE s \in Slots : ts[s] = None
Send(ts, r) == [ts EXCEPT ![SlotIn(ts)] = r]

-----------------------------------------------------------------------------
(* The view is derived from the phase and the route.                       *)

View(p, r) ==
  CASE p = "signed-in" -> IF r = "/devices" THEN "devices" ELSE "dashboard"
    [] p = "signed-out" -> "login"
    [] p = "bootstrap-required" -> "setup"
    [] OTHER -> p

\* The requests of components that go off screen.
Detached(ts) ==
  [s \in Slots |-> IF ts[s] = None THEN None ELSE [ts[s] EXCEPT !.here = FALSE]]

\* The store has phase p and the router route r; the components follow.  If
\* the view is the same they go on with what the continuation left: requests
\* ts, busy flag b and page pg.  The device page loads when it is mounted.
Show(p, r, ts, b, pg) ==
  /\ phase' = p
  /\ route' = r
  /\ \/ /\ View(p, r) = View(phase, route)
        /\ tasks' = ts /\ busy' = b /\ page' = pg
     \/ /\ View(p, r) # View(phase, route)
        /\ busy' = FALSE
        /\ page' = BlankPage
        /\ \/ /\ View(p, r) = "devices"
              /\ FreeSlots(ts) # {}
              /\ tasks' = Send(Detached(ts), NewRequest("load", cookie'))
           \/ View(p, r) # "devices" /\ tasks' = Detached(ts)

Stay(ts, b, pg) == Show(phase, route, ts, b, pg)

-----------------------------------------------------------------------------
(* The user.                                                               *)

Act ==
  /\ acts < MaxActs
  /\ acts' = acts + 1
  /\ FreeSlots(tasks) # {}
  /\ UNCHANGED <<server, cookie, left, revived, faults>>

\* "Try again", which stays enabled while an earlier refresh is under way.
TryAgain ==
  /\ phase = "unreachable"
  /\ Act
  /\ Stay(Send(tasks, NewRequest("status", cookie)), busy, page)
  /\ UNCHANGED <<shown, signingOut>>

\* The forms of Login and Setup; their button is disabled while submitting.
Submit ==
  /\ phase \in {"signed-out", "bootstrap-required"}
  /\ ~busy
  /\ Act
  /\ LET kind == IF phase = "signed-out" THEN "login" ELSE "bootstrap"
     IN  Stay(Send(tasks, NewRequest(kind, cookie)), TRUE, page)
  /\ UNCHANGED <<shown, signingOut>>

SignOut ==
  /\ phase = "signed-in"
  /\ ~signingOut
  /\ Act
  /\ signingOut' = TRUE
  /\ Stay(Send(tasks, NewRequest("logout", cookie)), busy, page)
  /\ UNCHANGED shown

\* The links of the shell, and the back and forward buttons.
Navigate ==
  /\ phase = "signed-in"
  /\ Act
  /\ \E r \in Routes \ {route} : Show(phase, r, tasks, busy, page)
  /\ UNCHANGED <<shown, signingOut>>

\* register and confirmRevoke; both buttons are disabled while working.
Change ==
  /\ View(phase, route) = "devices"
  /\ ~busy
  /\ Act
  /\ \E kind \in {"register", "revoke"} :
       Stay(Send(tasks, NewRequest(kind, cookie)), TRUE, page)
  /\ UNCHANGED <<shown, signingOut>>

-----------------------------------------------------------------------------
(* The server.                                                             *)

Answer(s, a) == [tasks[s] EXCEPT !.stage = "answered", !.answer = a]

\* The answer goes back, unless nobody waits for it any more.
Reply(s, r) ==
  tasks' = [tasks EXCEPT ![s] = IF tasks[s].stage = "abandoned" THEN None ELSE r]

Awaited(s, kinds) ==
  /\ tasks[s] # None
  /\ tasks[s].stage \in {"sent", "abandoned"}
  /\ tasks[s].kind \in kinds

ServeStatus(s) ==
  /\ Awaited(s, {"status"})
  /\ Reply(s, Answer(s, IF claimed THEN "ok" ELSE "unclaimed"))
  /\ UNCHANGED server

\* handleLogin and handleBootstrap, which may also refuse.
ServeSignIn(s) ==
  /\ Awaited(s, {"login", "bootstrap"})
  /\ \/ /\ tasks[s].kind = "login" <=> claimed
        /\ \E i \in Sessions \ issued :
             /\ issued' = issued \cup {i}
             /\ live' = live \cup {i}
             /\ Reply(s, [Answer(s, "ok") EXCEPT !.session = i])
        /\ claimed' = TRUE
     \/ /\ Reply(s, Answer(s, "error"))
        /\ UNCHANGED <<claimed, issued, live>>
  /\ UNCHANGED roster

\* requireSession, before the handlers below.
RefuseSession(s) ==
  /\ Awaited(s, {"session", "logout", "load", "reload", "register", "revoke"})
  /\ tasks[s].cookie \notin live
  /\ Reply(s, Answer(s, "unauthorized"))
  /\ UNCHANGED server

ServeAuthenticated(s) ==
  /\ Awaited(s, {"session", "logout", "load", "reload", "register", "revoke"})
  /\ tasks[s].cookie \in live
  /\ LET kind == tasks[s].kind
         change == kind \in {"register", "revoke"}
     IN  /\ live' = IF kind = "logout" THEN live \ {tasks[s].cookie} ELSE live
         /\ roster' = IF change THEN roster + 1 ELSE roster
         /\ Reply(s, [Answer(s, "ok") EXCEPT !.seen = roster',
                                             !.made = IF change THEN roster' ELSE @,
                                             !.session = tasks[s].cookie])
  /\ UNCHANGED <<claimed, issued>>

Serve(s) ==
  /\ ServeStatus(s) \/ ServeSignIn(s) \/ RefuseSession(s) \/ ServeAuthenticated(s)
  /\ UNCHANGED <<cookie, phase, shown, route, busy, signingOut, page, left, revived,
                 acts, faults>>

\* The server ends a session, by its timeouts.
Expire ==
  /\ faults < MaxFaults
  /\ faults' = faults + 1
  /\ \E i \in live : live' = live \ {i}
  /\ UNCHANGED <<claimed, issued, roster, cookie, tasks, phase, shown, route, busy,
                 signingOut, page, left, revived, acts>>

-----------------------------------------------------------------------------
(* The continuations.  Each gets the slot s, the answer a and the requests *)
(* ts that are left when s has been taken out.                             *)

\* handleUnauthenticated, or any other error.
Shell(a) == IF a = "unauthorized" THEN "signed-out" ELSE phase
ShownAfter(a) == IF a = "unauthorized" THEN None ELSE shown

\* SessionStore.refresh: first the status of the installation, then, in the
\* same slot, the session.
FinishStatus(s, a, ts) ==
  /\ tasks[s].kind = "status"
  /\ \/ /\ a = "ok"
        /\ Stay([ts EXCEPT ![s] = [NewRequest("session", cookie') EXCEPT !.old = tasks[s].old]],
                busy, page)
        /\ UNCHANGED shown
     \/ /\ a # "ok"
        /\ Show(IF a = "unclaimed" THEN "bootstrap-required" ELSE "unreachable",
                route, ts, busy, page)
        /\ shown' = None
  /\ UNCHANGED <<signingOut, left, revived>>

FinishSession(s, a, ts) ==
  /\ tasks[s].kind = "session"
  /\ \/ /\ a = "ok"
        /\ Show("signed-in", route, ts, busy, page)
        /\ shown' = tasks[s].session
        /\ revived' = tasks[s].old
     \/ /\ a # "ok"
        /\ Show(IF a = "unauthorized" THEN "signed-out" ELSE "unreachable",
                route, ts, busy, page)
        /\ shown' = None
        /\ UNCHANGED revived
  /\ UNCHANGED <<signingOut, left>>

\* The session of a sign-in is set as the cookie before the body is read; with
\* a body that comes later, the user may have signed out of it in between.
LateBody(r) == r.old /\ r.stage = "reading"

\* Fault: the button is enabled again only after a success.
FinishSignInBusy(s, a, ts) ==
  /\ tasks[s].kind \in {"login", "bootstrap"}
  /\ \/ a = "ok" /\ Show("signed-in", "/", ts, FALSE, page) /\ shown' = tasks[s].session
     \/ a # "ok" /\ Stay(ts, busy, page) /\ UNCHANGED shown
  /\ revived' = IF a = "ok" THEN LateBody(tasks[s]) ELSE revived
  /\ UNCHANGED <<signingOut, left>>

\* Login.submit and Setup.submit.
FinishSignIn(s, a, ts) ==
  /\ tasks[s].kind \in {"login", "bootstrap"}
  /\ \/ /\ a = "ok"
        /\ Show("signed-in", "/", ts, busy /\ ~tasks[s].here, page)
        /\ shown' = tasks[s].session
        /\ revived' = LateBody(tasks[s])
     \/ /\ a # "ok"
        /\ Stay(ts, busy /\ ~tasks[s].here, page)
        /\ UNCHANGED <<shown, revived>>
  /\ UNCHANGED <<signingOut, left>>

\* Refreshes that are under way at a sign-out.
Aged(ts) == [s \in Slots |-> IF ts[s] = None THEN None ELSE [ts[s] EXCEPT !.old = TRUE]]

\* Fault: the local state is cleared only if the request has failed.
FinishLogoutFailed(s, a, ts) ==
  /\ tasks[s].kind = "logout"
  /\ signingOut' = FALSE
  /\ left' = IF a \in {"ok", "unauthorized"} THEN left \cup ({tasks[s].cookie} \ {None})
                                          ELSE left
  /\ \/ a # "ok" /\ Show("signed-out", "/login", Aged(ts), busy, page) /\ shown' = None
     \/ a = "ok" /\ Show(phase, "/login", Aged(ts), busy, page) /\ UNCHANGED shown
  /\ revived' = FALSE

\* signOut: the local state is cleared whatever the server said.
FinishLogout(s, a, ts) ==
  /\ tasks[s].kind = "logout"
  /\ signingOut' = FALSE
  /\ left' = IF a \in {"ok", "unauthorized"} THEN left \cup ({tasks[s].cookie} \ {None})
                                          ELSE left
  /\ Show("signed-out", "/login", Aged(ts), busy, page)
  /\ shown' = None
  /\ revived' = FALSE

\* Devices.load, alone or awaited by register or confirmRevoke.
Loaded(r, a) ==
  [page EXCEPT !.loading = FALSE,
               !.list = IF a = "ok" THEN r.seen ELSE @,
               !.error = @ \/ a = "error"]

FinishLoad(s, a, ts) ==
  /\ tasks[s].kind \in {"load", "reload"}
  /\ Show(Shell(a), route, ts,
          busy /\ ~(tasks[s].here /\ tasks[s].kind = "reload"),
          IF tasks[s].here THEN Loaded(tasks[s], a) ELSE page)
  /\ shown' = ShownAfter(a)
  /\ UNCHANGED <<signingOut, left, revived>>

\* A load begins on the page: no error so far, and another may be under way.
Reloading(ts, made) ==
  [page EXCEPT !.loading = TRUE, !.error = FALSE,
               !.confirmed = IF made > @ THEN made ELSE @,
               !.overlap = @ \/ \E s \in InFlight(ts) :
                                  /\ ts[s].kind = "load" /\ ts[s].here
                                  /\ ts[s].stage # "abandoned"]

\* Fault: the list is not loaded again.
FinishChangeOnly(s, a, ts) ==
  /\ tasks[s].kind \in {"register", "revoke"}
  /\ Show(Shell(a), route, ts, busy /\ ~tasks[s].here,
          IF a = "ok" /\ tasks[s].here
            THEN [page EXCEPT !.confirmed = tasks[s].made] ELSE page)
  /\ shown' = ShownAfter(a)
  /\ UNCHANGED <<signingOut, left, revived>>

\* register and confirmRevoke: after a success the list is loaded again, by a
\* component that has gone off screen too.
FinishChange(s, a, ts) ==
  /\ tasks[s].kind \in {"register", "revoke"}
  /\ \/ /\ a = "ok"
        /\ LET again == [NewRequest("reload", cookie') EXCEPT !.here = tasks[s].here,
                                                              !.made = tasks[s].made]
           IN  Stay([ts EXCEPT ![s] = again], busy,
                    IF tasks[s].here THEN Reloading(ts, tasks[s].made) ELSE page)
        /\ UNCHANGED shown
     \/ /\ a # "ok"
        /\ Show(Shell(a), route, ts, busy /\ ~tasks[s].here,
                IF tasks[s].here /\ tasks[s].kind = "revoke"
                  THEN [page EXCEPT !.error = @ \/ a = "error"] ELSE page)
        /\ shown' = ShownAfter(a)
  /\ UNCHANGED <<signingOut, left, revived>>

Finish(s, a, ts) ==
  \/ FinishStatus(s, a, ts) \/ FinishSession(s, a, ts) \/ FinishSignIn(s, a, ts)
  \/ FinishLogout(s, a, ts) \/ FinishLoad(s, a, ts) \/ FinishChange(s, a, ts)

\* The headers: a new session is set as the cookie; a sign-out and a refusal,
\* of a cookie or for want of one, clear it.
CookieAfter(r) ==
  CASE r.answer = "ok" /\ r.kind \in {"login", "bootstrap"} -> r.session
    [] r.answer = "ok" /\ r.kind = "logout" -> None
    [] r.answer = "unauthorized" -> None
    [] OTHER -> cookie

\* The whole response is there.
Deliver(s) ==
  /\ tasks[s] # None
  /\ tasks[s].stage = "answered"
  /\ cookie' = CookieAfter(tasks[s])
  /\ Finish(s, tasks[s].answer, [tasks EXCEPT ![s] = None])
  /\ UNCHANGED <<server, acts, faults>>

\* An answer that succeeds with nothing to say is not read any further.
HasBody(r) == ~(r.answer = "ok" /\ r.kind \in {"logout", "revoke"})

\* The headers are there and the body is not: the timer is cleared, and the
\* continuation waits for the body.
ReceiveHeaders(s) ==
  /\ tasks[s] # None
  /\ tasks[s].stage = "answered"
  /\ HasBody(tasks[s])
  /\ faults < MaxFaults
  /\ faults' = faults + 1
  /\ cookie' = CookieAfter(tasks[s])
  /\ tasks' = [tasks EXCEPT ![s].stage = "reading"]
  /\ UNCHANGED <<server, phase, shown, route, busy, signingOut, page, left, revived, acts>>

\* The body is there, or breaks off: then nothing can be read from it, not even
\* that a session was refused.
ReadBody(s) ==
  /\ tasks[s] # None
  /\ tasks[s].stage = "reading"
  /\ UNCHANGED cookie
  /\ \E a \in {tasks[s].answer, "error"} : Finish(s, a, [tasks EXCEPT ![s] = None])
  /\ UNCHANGED <<server, acts, faults>>

\* HeadnetClient.#request gives up, or cannot reach the server.  The server may
\* carry out the request all the same.
Abandon(s) ==
  /\ tasks[s] # None
  /\ tasks[s].stage = "sent"
  /\ faults < MaxFaults
  /\ faults' = faults + 1
  /\ UNCHANGED cookie
  /\ Finish(s, "error", [tasks EXCEPT ![s].stage = "abandoned"])
  /\ UNCHANGED <<server, acts>>

-----------------------------------------------------------------------------
\* The tab is opened, at any address, with no cookie, a good or a stale one.
Init ==
  /\ claimed \in BOOLEAN
  /\ \/ issued = {} /\ live = {} /\ cookie = None
     \/ \E i \in Sessions : /\ claimed
                            /\ issued = {i} /\ cookie = i
                            /\ live \in {{}, {i}}
  /\ roster = 0
  /\ phase = "loading" /\ shown = None
  /\ route \in Routes
  /\ tasks = Send([s \in Slots |-> None], NewRequest("status", cookie))
  /\ busy = FALSE /\ signingOut = FALSE
  /\ page = BlankPage
  /\ left = {} /\ revived = FALSE
  /\ acts = 0 /\ faults = 0

Next ==
  \/ TryAgain \/ Submit \/ SignOut \/ Navigate \/ Change \/ Expire
  \/ \E s \in Slots : \/ Serve(s) \/ Deliver(s) \/ Abandon(s)
                     \/ ReceiveHeaders(s) \/ ReadBody(s)

Spec == Init /\ [][Next]_vars

\* Until the headers are there a timer runs: a request is answered or given up,
\* and of an answer at least the headers arrive.  Nothing is said of a body that
\* is late, nor of what the server does with a request that was given up.
FairSpec ==
  /\ Spec
  /\ \A s \in Slots :
       /\ WF_vars(Abandon(s) \/ (tasks[s] # None /\ tasks[s].stage = "sent" /\ Serve(s)))
       /\ WF_vars(Deliver(s) \/ ReceiveHeaders(s))

-----------------------------------------------------------------------------
TypeOK ==
  /\ claimed \in BOOLEAN /\ issued \subseteq Sessions /\ live \subseteq issued
  /\ roster \in 0..MaxActs
  /\ cookie \in Sessions \cup {None}
  /\ tasks \in [Slots -> Request \cup {None}]
  /\ phase \in Phases /\ route \in Routes
  /\ shown \in Sessions \cup {None} /\ (shown # None <=> phase = "signed-in")
  /\ busy \in BOOLEAN /\ signingOut \in BOOLEAN /\ page \in Page
  /\ left \subseteq Sessions /\ revived \in BOOLEAN
  /\ acts \in 0..MaxActs /\ faults \in 0..MaxFaults

(* Having signed out, a user is not shown as signed in to that session     *)
(* again: only a refresh that was already under way at the sign-out, or a  *)
(* sign-in whose body was, can bring the shell back, whatever else was in  *)
(* flight.                                                                 *)
SignedOutShellStays ==
  /\ TypeOK
  /\ phase = "signed-in" /\ shown \in left => revived

(* The device page shows every change its user has made and been told of,  *)
(* unless it shows an error, or a load that was already under way at the   *)
(* change may have answered after it.                                      *)
OwnChangesAreListed ==
  View(phase, route) = "devices" /\ ~page.loading /\ ~page.error /\ ~page.overlap
    => page.list \in Nat /\ page.list >= page.confirmed

\* A request of the kinds waits for a body.
Reading(kinds) ==
  \E s \in InFlight(tasks) : tasks[s].stage = "reading" /\ tasks[s].kind \in kinds

(* Nothing the user starts leaves a button disabled or the screen loading  *)
(* for ever, whichever requests are refused, lost or given up and          *)
(* whichever component is gone when they end.  The one thing that can is a *)
(* body that stays away once its headers have come, since the timer of     *)
(* HeadnetClient.#request is cleared by then; the button concerned must be *)
(* waiting for that very body.                                             *)
BusyEnds ==
  /\ busy ~> (~busy \/ Reading({"login", "bootstrap", "register", "revoke", "reload"}))
  /\ signingOut ~> (~signingOut \/ Reading({"logout"}))
  /\ phase = "loading" ~> (phase # "loading" \/ Reading({"status", "session"}))
=============================================================================
