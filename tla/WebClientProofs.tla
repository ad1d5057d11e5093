-------------------------- MODULE WebClientProofs ---------------------------
(***************************************************************************)
(* Proofs about WebClient, for any number of requests in flight, sessions, *)
(* acts of the user and faults.                                            *)
(*                                                                         *)
(* Every step of the browser moves the requests in the same few ways:      *)
(* BrowserMove says which, and most of the invariant is preserved by       *)
(* whatever moves like that.                                               *)
(***************************************************************************)
EXTENDS WebClient, FiniteSetTheorems, TLAPS

Forms == {"login", "bootstrap"}
Changes == {"register", "revoke"}
Working == {"register", "revoke", "reload"}
PageKinds == {"load"} \cup Working

TaskTable == [Slots -> Request \cup {None}]

-----------------------------------------------------------------------------
(* How requests move.                                                      *)

\* The server has answered the request r.
Answered(r) == r.stage \in {"answered", "reading"}

\* The request r, which may have been given up, has become q.
Kept(r, q) ==
  /\ r # None /\ q \in Request
  /\ q.kind = r.kind /\ q.answer = r.answer /\ q.cookie = r.cookie
  /\ q.session = r.session /\ q.made = r.made /\ q.seen = r.seen
  /\ q.stage = r.stage \/ (r.stage = "sent" /\ q.stage = "abandoned")
  /\ q.here => r.here
  /\ r.old => q.old

\* The request q is sent in this step.
New(q) ==
  /\ q \in Request
  /\ q.stage = "sent" /\ q.answer = "pending" /\ q.cookie = cookie'
  /\ q.made = 0 \/ \E t \in Slots : tasks[t] # None /\ q.made = tasks[t].made

\* From tasks to ts in a step of the browser that sends requests of kinds.
MovesTo(ts, kinds) ==
  \A t \in Slots : \/ ts[t] = None
                   \/ Kept(tasks[t], ts[t])
                   \/ New(ts[t]) /\ ts[t].kind \in kinds

BrowserMove(kinds) == tasks' \in TaskTable /\ MovesTo(tasks', kinds)

LEMMA ViewDevices ==
  ASSUME NEW p \in Phases, NEW r
  PROVE  View(p, r) = "devices" <=> p = "signed-in" /\ r = "/devices"
  BY DEF View, Phases

LEMMA NewRequestFacts ==
  ASSUME NEW kind \in Kinds, NEW c \in Sessions \cup {None}
  PROVE  /\ NewRequest(kind, c) \in Request /\ NewRequest(kind, c).kind = kind
         /\ NewRequest(kind, c).stage = "sent" /\ NewRequest(kind, c).answer = "pending"
         /\ NewRequest(kind, c).cookie = c /\ NewRequest(kind, c).session = None
         /\ NewRequest(kind, c).here = TRUE /\ NewRequest(kind, c).old = FALSE
         /\ NewRequest(kind, c).made = 0 /\ NewRequest(kind, c).seen = 0
  BY DEF NewRequest, Request, Answers

LEMMA NewIsNew ==
  ASSUME NEW kind \in Kinds, cookie' \in Sessions \cup {None}
  PROVE  New(NewRequest(kind, cookie')) /\ NewRequest(kind, cookie').kind = kind
<1> DEFINE q == NewRequest(kind, cookie')
<1>1. /\ q \in Request /\ q.kind = kind /\ q.stage = "sent" /\ q.answer = "pending"
      /\ q.cookie = cookie' /\ q.made = 0
  BY DEF NewRequest, Request, Answers
<1> HIDE DEF q
<1>2. New(q)
  BY <1>1 DEF New
<1> QED BY <1>1, <1>2 DEF q

\* The marks a request gets on its way.
LEMMA HereFacts ==
  ASSUME NEW r \in Request, NEW q, q = [r EXCEPT !.here = FALSE]
  PROVE  /\ q \in Request /\ q.here = FALSE /\ q.kind = r.kind /\ q.stage = r.stage
         /\ q.answer = r.answer /\ q.cookie = r.cookie /\ q.session = r.session
         /\ q.old = r.old /\ q.made = r.made /\ q.seen = r.seen
  BY DEF Request

LEMMA OldFacts ==
  ASSUME NEW r \in Request, NEW q, q = [r EXCEPT !.old = TRUE]
  PROVE  /\ q \in Request /\ q.here = r.here /\ q.kind = r.kind /\ q.stage = r.stage
         /\ q.answer = r.answer /\ q.cookie = r.cookie /\ q.session = r.session
         /\ q.old = TRUE /\ q.made = r.made /\ q.seen = r.seen
  BY DEF Request

LEMMA AbandonedFacts ==
  ASSUME NEW r \in Request, NEW q, q = [r EXCEPT !.stage = "abandoned"]
  PROVE  /\ q \in Request /\ q.here = r.here /\ q.kind = r.kind /\ q.stage = "abandoned"
         /\ q.answer = r.answer /\ q.cookie = r.cookie /\ q.session = r.session
         /\ q.old = r.old /\ q.made = r.made /\ q.seen = r.seen
  BY DEF Request

LEMMA SendFacts ==
  ASSUME NEW ts \in TaskTable, FreeSlots(ts) # {}, NEW r \in Request
  PROVE  /\ SlotIn(ts) \in Slots /\ ts[SlotIn(ts)] = None
         /\ Send(ts, r) \in TaskTable
         /\ Send(ts, r)[SlotIn(ts)] = r
         /\ \A t \in Slots \ {SlotIn(ts)} : Send(ts, r)[t] = ts[t]
<1>1. SlotIn(ts) \in Slots /\ ts[SlotIn(ts)] = None
  <2>1. \E s \in Slots : ts[s] = None
    BY DEF FreeSlots, InFlight
  <2> QED BY <2>1 DEF SlotIn
<1> QED BY <1>1 DEF Send, TaskTable

LEMMA DetachedFacts ==
  ASSUME NEW ts \in TaskTable
  PROVE  /\ Detached(ts) \in TaskTable
         /\ \A t \in Slots :
              IF ts[t] = None THEN Detached(ts)[t] = None
              ELSE Detached(ts)[t] = [ts[t] EXCEPT !.here = FALSE]
  BY DEF Detached, TaskTable, Request

LEMMA StayFacts ==
  ASSUME NEW ts, NEW b, NEW pg, Stay(ts, b, pg)
  PROVE  /\ phase' = phase /\ route' = route
         /\ tasks' = ts /\ busy' = b /\ page' = pg
  BY DEF Stay, Show

\* Either the components go on, or all of them are new.
LEMMA ShowFacts ==
  ASSUME NEW p, NEW r, NEW ts \in TaskTable, NEW b, NEW pg, Show(p, r, ts, b, pg),
         cookie' \in Sessions \cup {None}
  PROVE  /\ phase' = p /\ route' = r
         /\ tasks' \in TaskTable
         /\ \/ /\ View(p, r) = View(phase, route)
               /\ tasks' = ts /\ busy' = b /\ page' = pg
            \/ /\ View(p, r) # View(phase, route)
               /\ busy' = FALSE /\ page' = BlankPage
               /\ \A t \in Slots :
                    \/ ts[t] = None /\ tasks'[t] = None
                    \/ ts[t] # None /\ tasks'[t] = [ts[t] EXCEPT !.here = FALSE]
                    \/ /\ ts[t] = None /\ tasks'[t] = NewRequest("load", cookie')
                       /\ View(p, r) = "devices"
<1>1. phase' = p /\ route' = r
  BY DEF Show
<1>2. CASE View(p, r) = View(phase, route)
  BY <1>1, <1>2 DEF Show
<1>3. CASE View(p, r) # View(phase, route) /\ View(p, r) = "devices"
  <2> DEFINE q == NewRequest("load", cookie')
             d == Detached(ts)
  <2>1. /\ busy' = FALSE /\ page' = BlankPage /\ FreeSlots(ts) # {}
        /\ tasks' = Send(d, q)
    BY <1>3 DEF Show
  <2>2. q \in Request
    BY NewRequestFacts DEF Kinds
  <2>3. d \in TaskTable /\ \A t \in Slots :
          IF ts[t] = None THEN d[t] = None ELSE d[t] = [ts[t] EXCEPT !.here = FALSE]
    BY DetachedFacts
  <2>4. FreeSlots(d) # {}
    BY <2>1, <2>3 DEF FreeSlots, InFlight
  <2> HIDE DEF q, d
  <2>5. /\ SlotIn(d) \in Slots /\ d[SlotIn(d)] = None /\ tasks' \in TaskTable
        /\ tasks'[SlotIn(d)] = q
        /\ \A t \in Slots \ {SlotIn(d)} : tasks'[t] = d[t]
    BY <2>1, <2>2, <2>3, <2>4, SendFacts
  <2>6. ts[SlotIn(d)] = None
    <3> SUFFICES ASSUME ts[SlotIn(d)] # None
                 PROVE  FALSE
      OBVIOUS
    <3>1. d[SlotIn(d)] = [ts[SlotIn(d)] EXCEPT !.here = FALSE]
      BY <2>3, <2>5
    <3>2. [ts[SlotIn(d)] EXCEPT !.here = FALSE] \in Request
      <4>1. ts[SlotIn(d)] \in Request
        BY <2>5 DEF TaskTable
      <4> QED BY <4>1, HereFacts
    <3> QED BY <2>5, <3>1, <3>2, NoneAssumption
  <2>7. q = NewRequest("load", cookie')
    BY DEF q
  <2> QED BY <1>1, <1>3, <2>1, <2>3, <2>5, <2>6, <2>7
<1>4. CASE View(p, r) # View(phase, route) /\ View(p, r) # "devices"
  <2>1. busy' = FALSE /\ page' = BlankPage /\ tasks' = Detached(ts)
    BY <1>4 DEF Show
  <2> QED BY <1>1, <1>4, <2>1, DetachedFacts
<1> QED BY <1>2, <1>3, <1>4

\* A request that goes off screen has still only been kept.
LEMMA ShowMoves ==
  ASSUME NEW p, NEW r, NEW ts \in TaskTable, NEW b, NEW pg, Show(p, r, ts, b, pg),
         cookie' \in Sessions \cup {None}, NEW kinds, "load" \in kinds,
         MovesTo(ts, kinds)
  PROVE  BrowserMove(kinds)
<1>1. tasks' \in TaskTable
  BY ShowFacts
<1>2. ASSUME NEW t \in Slots
      PROVE  \/ tasks'[t] = None
             \/ Kept(tasks[t], tasks'[t])
             \/ New(tasks'[t]) /\ tasks'[t].kind \in kinds
  <2>1. \/ ts[t] = None
        \/ Kept(tasks[t], ts[t])
        \/ New(ts[t]) /\ ts[t].kind \in kinds
    BY DEF MovesTo
  <2>2. CASE tasks'[t] = ts[t]
    BY <2>1, <2>2
  <2>3. CASE ts[t] # None /\ tasks'[t] = [ts[t] EXCEPT !.here = FALSE]
    <3> DEFINE r0 == ts[t]
               q0 == tasks'[t]
    <3>1. r0 \in Request
      BY <2>3 DEF TaskTable
    <3>2. /\ q0 \in Request /\ q0.here = FALSE /\ q0.kind = r0.kind /\ q0.stage = r0.stage
          /\ q0.answer = r0.answer /\ q0.cookie = r0.cookie /\ q0.session = r0.session
          /\ q0.old = r0.old /\ q0.made = r0.made /\ q0.seen = r0.seen
      BY <2>3, <3>1, HereFacts
    <3> HIDE DEF r0, q0
    <3>3. CASE Kept(tasks[t], r0)
      <4>1. Kept(tasks[t], q0)
        BY <3>2, <3>3 DEF Kept
      <4> QED BY <4>1 DEF q0
    <3>4. CASE New(r0) /\ r0.kind \in kinds
      <4>1. New(q0) /\ q0.kind \in kinds
        BY <3>2, <3>4 DEF New
      <4> QED BY <4>1 DEF q0
    <3> QED BY <2>1, <2>3, <3>3, <3>4 DEF r0
  <2>4. CASE tasks'[t] = NewRequest("load", cookie')
    <3>1. "load" \in Kinds
      BY DEF Kinds
    <3>2. New(tasks'[t]) /\ tasks'[t].kind = "load"
      BY <2>4, <3>1, NewIsNew
    <3> QED BY <3>2
  <2> QED BY <2>2, <2>3, <2>4, ShowFacts
<1> QED BY <1>1, <1>2 DEF BrowserMove, MovesTo

-----------------------------------------------------------------------------
(* The steps of the browser move requests like that.                       *)

\* The user starts a request of the kind.
Starts(kind) ==
  /\ FreeSlots(tasks) # {} /\ cookie' = cookie
  /\ phase' = phase /\ route' = route /\ shown' = shown /\ page' = page
  /\ tasks' = Send(tasks, NewRequest(kind, cookie))

LEMMA StartsFacts ==
  ASSUME TypeOK, NEW kind \in Kinds, Starts(kind)
  PROVE  /\ SlotIn(tasks) \in Slots /\ tasks[SlotIn(tasks)] = None
         /\ tasks'[SlotIn(tasks)] = NewRequest(kind, cookie)
         /\ \A t \in Slots \ {SlotIn(tasks)} : tasks'[t] = tasks[t]
         /\ BrowserMove({kind, "load"})
<1>1. tasks \in TaskTable /\ cookie \in Sessions \cup {None}
  BY DEF TypeOK, TaskTable
<1>2. NewRequest(kind, cookie) \in Request
  BY <1>1, NewRequestFacts
<1>3. /\ SlotIn(tasks) \in Slots /\ tasks[SlotIn(tasks)] = None /\ tasks' \in TaskTable
      /\ tasks'[SlotIn(tasks)] = NewRequest(kind, cookie)
      /\ \A t \in Slots \ {SlotIn(tasks)} : tasks'[t] = tasks[t]
  BY <1>1, <1>2, SendFacts DEF Starts
<1>a. cookie' = cookie
  BY DEF Starts
<1>4. ASSUME NEW t \in Slots
      PROVE  \/ tasks'[t] = None
             \/ Kept(tasks[t], tasks'[t])
             \/ New(tasks'[t]) /\ tasks'[t].kind \in {kind, "load"}
  <2>1. CASE t = SlotIn(tasks)
    <3>1. New(tasks'[t]) /\ tasks'[t].kind = kind
      BY <1>1, <1>3, <2>1, <1>a, NewIsNew
    <3> QED BY <3>1
  <2>2. CASE t # SlotIn(tasks)
    BY <1>1, <1>3, <2>2 DEF Kept, TaskTable
  <2> QED BY <2>1, <2>2
<1> QED BY <1>3, <1>4 DEF BrowserMove, MovesTo

\* The requests that a continuation of the one in slot s finds.
Rest(s, ts) ==
  /\ ts \in TaskTable
  /\ \A t \in Slots \ {s} : ts[t] = tasks[t]
  /\ \/ ts[s] = None
     \/ tasks[s].stage = "sent" /\ ts[s] = [tasks[s] EXCEPT !.stage = "abandoned"]

LEMMA RestKept ==
  ASSUME tasks \in TaskTable, NEW s \in Slots, tasks[s] # None, NEW ts, Rest(s, ts),
         NEW t \in Slots, ts[t] # None
  PROVE  Kept(tasks[t], ts[t])
<1>1. CASE t # s
  BY <1>1 DEF Rest, Kept, TaskTable
<1>2. CASE t = s
  <2>1. /\ tasks[s] \in Request /\ tasks[s].stage = "sent"
        /\ ts[s] = [tasks[s] EXCEPT !.stage = "abandoned"]
    BY <1>2 DEF Rest, TaskTable
  <2> QED BY <1>2, <2>1, AbandonedFacts DEF Kept
<1> QED BY <1>1, <1>2

LEMMA RestMoves ==
  ASSUME tasks \in TaskTable, NEW s \in Slots, tasks[s] # None, NEW ts, Rest(s, ts),
         NEW kinds
  PROVE  MovesTo(ts, kinds)
  BY RestKept DEF MovesTo

\* A continuation goes on with another request in the same slot.
LEMMA AgainMoves ==
  ASSUME NEW s \in Slots, NEW ts \in TaskTable, NEW kinds, MovesTo(ts, kinds),
         NEW q, New(q), q.kind \in kinds
  PROVE  /\ [ts EXCEPT ![s] = q] \in TaskTable
         /\ MovesTo([ts EXCEPT ![s] = q], kinds)
<1>1. q \in Request
  BY DEF New
<1>2. [ts EXCEPT ![s] = q] \in TaskTable
  BY <1>1 DEF TaskTable
<1>3. ASSUME NEW t \in Slots
      PROVE  [ts EXCEPT ![s] = q][t] = IF t = s THEN q ELSE ts[t]
  BY DEF TaskTable
<1> QED BY <1>2, <1>3 DEF MovesTo

LEMMA AgedMoves ==
  ASSUME tasks \in TaskTable, NEW s \in Slots, tasks[s] # None, NEW ts, Rest(s, ts),
         NEW kinds
  PROVE  /\ Aged(ts) \in TaskTable /\ MovesTo(Aged(ts), kinds)
         /\ \A t \in Slots : Aged(ts)[t] # None => Aged(ts)[t].old
<1>1. \A t \in Slots : Aged(ts)[t] = IF ts[t] = None THEN None ELSE [ts[t] EXCEPT !.old = TRUE]
  BY DEF Aged
<1>2. ASSUME NEW t \in Slots, ts[t] # None
      PROVE  Aged(ts)[t].old /\ Kept(tasks[t], Aged(ts)[t])
  <2> DEFINE r0 == ts[t]
             q0 == Aged(ts)[t]
  <2>1. r0 \in Request
    BY <1>2 DEF Rest, TaskTable
  <2>2. /\ q0 \in Request /\ q0.here = r0.here /\ q0.kind = r0.kind /\ q0.stage = r0.stage
        /\ q0.answer = r0.answer /\ q0.cookie = r0.cookie /\ q0.session = r0.session
        /\ q0.old = TRUE /\ q0.made = r0.made /\ q0.seen = r0.seen
    BY <1>1, <1>2, <2>1, OldFacts
  <2>3. Kept(tasks[t], r0)
    BY <1>2, RestKept
  <2> HIDE DEF r0, q0
  <2>4. Kept(tasks[t], q0)
    BY <2>2, <2>3 DEF Kept
  <2> QED BY <2>2, <2>4 DEF q0
<1>3. Aged(ts) \in TaskTable
  <2>1. \A t \in Slots : Aged(ts)[t] \in Request \cup {None}
    BY <1>1, <1>2 DEF Kept
  <2> QED BY <2>1 DEF Aged, TaskTable
<1> QED BY <1>1, <1>2, <1>3 DEF MovesTo

\* A continuation may ask for the session or for the list again.
Followups == {"session", "load", "reload"}

LEMMA FinishMoves ==
  ASSUME TypeOK, NEW s \in Slots, tasks[s] # None, NEW a, NEW ts, Rest(s, ts),
         cookie' \in Sessions \cup {None}, Finish(s, a, ts)
  PROVE  BrowserMove(Followups)
<1>1. tasks \in TaskTable /\ tasks[s] \in Request /\ ts \in TaskTable
  BY DEF TypeOK, TaskTable, Rest
<1>2. MovesTo(ts, Followups) /\ "load" \in Followups
  BY <1>1, RestMoves DEF Followups
<1>3. MovesTo(Aged(ts), Followups) /\ Aged(ts) \in TaskTable
  BY <1>1, AgedMoves
<1>4. ASSUME NEW p, NEW r, NEW b, NEW pg, Show(p, r, ts, b, pg)
      PROVE  BrowserMove(Followups)
  BY <1>1, <1>2, <1>4, ShowMoves
<1>5. ASSUME NEW q, New(q), q.kind \in Followups, NEW b, NEW pg,
             Stay([ts EXCEPT ![s] = q], b, pg)
      PROVE  BrowserMove(Followups)
  <2>1. [ts EXCEPT ![s] = q] \in TaskTable /\ MovesTo([ts EXCEPT ![s] = q], Followups)
    BY <1>1, <1>2, <1>5, AgainMoves
  <2>2. tasks' = [ts EXCEPT ![s] = q]
    BY <1>5, StayFacts
  <2> QED BY <2>1, <2>2 DEF BrowserMove
<1>6. CASE FinishStatus(s, a, ts)
  <2>1. CASE a = "ok"
    <3> DEFINE q == [NewRequest("session", cookie') EXCEPT !.old = tasks[s].old]
    <3>1. /\ q \in Request /\ q.kind = "session" /\ q.stage = "sent" /\ q.answer = "pending"
          /\ q.cookie = cookie' /\ q.made = 0
      BY <1>1 DEF NewRequest, Request, Answers, Kinds
    <3>2. Stay([ts EXCEPT ![s] = q], busy, page)
      BY <1>6, <2>1 DEF FinishStatus
    <3> HIDE DEF q
    <3>3. New(q) /\ q.kind \in Followups
      BY <3>1 DEF New, Followups
    <3> QED BY <1>5, <3>2, <3>3
  <2>2. CASE a # "ok"
    BY <1>4, <1>6, <2>2 DEF FinishStatus
  <2> QED BY <2>1, <2>2
<1>7. CASE FinishSession(s, a, ts)
  BY <1>4, <1>7 DEF FinishSession
<1>8. CASE FinishSignIn(s, a, ts)
  BY <1>4, <1>8 DEF FinishSignIn, Stay
<1>9. CASE FinishLogout(s, a, ts)
  <2>1. Show("signed-out", "/login", Aged(ts), busy, page)
    BY <1>9 DEF FinishLogout
  <2> QED BY <1>2, <1>3, <2>1, ShowMoves
<1>10. CASE FinishLoad(s, a, ts)
  BY <1>4, <1>10 DEF FinishLoad
<1>11. CASE FinishChange(s, a, ts)
  <2>1. CASE a = "ok"
    <3> DEFINE q == [NewRequest("reload", cookie') EXCEPT !.here = tasks[s].here,
                                                          !.made = tasks[s].made]
    <3>1. /\ q \in Request /\ q.kind = "reload" /\ q.stage = "sent" /\ q.answer = "pending"
          /\ q.cookie = cookie' /\ q.made = tasks[s].made
      BY <1>1 DEF NewRequest, Request, Answers, Kinds
    <3>2. Stay([ts EXCEPT ![s] = q], busy,
               IF tasks[s].here THEN Reloading(ts, tasks[s].made) ELSE page)
      BY <1>11, <2>1 DEF FinishChange
    <3> HIDE DEF q
    <3>3. New(q) /\ q.kind \in Followups
      BY <3>1 DEF New, Followups
    <3> QED BY <1>5, <3>2, <3>3
  <2>2. CASE a # "ok"
    BY <1>4, <1>11, <2>2 DEF FinishChange
  <2> QED BY <2>1, <2>2
<1> QED BY <1>6, <1>7, <1>8, <1>9, <1>10, <1>11 DEF Finish

-----------------------------------------------------------------------------
(* Types of what is on screen.                                             *)

LEMMA ShowTypes ==
  ASSUME NEW p \in Phases, NEW r \in Routes, NEW ts, NEW b \in BOOLEAN, NEW pg \in Page,
         Show(p, r, ts, b, pg)
  PROVE  /\ phase' = p /\ phase' \in Phases /\ route' \in Routes
         /\ busy' \in BOOLEAN /\ page' \in Page
<1>1. BlankPage \in Page
  BY DEF BlankPage, Page
<1> QED BY <1>1 DEF Show

LEMMA PageTypes ==
  ASSUME page \in Page
  PROVE  /\ \A r \in Request : \A a : Loaded(r, a) \in Page
         /\ \A ts : \A made \in Nat : Reloading(ts, made) \in Page
         /\ \A e \in BOOLEAN : [page EXCEPT !.error = @ \/ e] \in Page
<1>1. ASSUME NEW r \in Request, NEW a
      PROVE  Loaded(r, a) \in Page
  BY DEF Loaded, Page, Request
<1>2. ASSUME NEW ts, NEW made \in Nat
      PROVE  Reloading(ts, made) \in Page
  BY DEF Reloading, Page
<1>3. ASSUME NEW e \in BOOLEAN
      PROVE  [page EXCEPT !.error = @ \/ e] \in Page
  BY DEF Page
<1> QED BY <1>1, <1>2, <1>3

ShellTypes ==
  /\ phase \in Phases /\ route \in Routes
  /\ shown \in Sessions \cup {None} /\ (shown # None <=> phase = "signed-in")
  /\ busy \in BOOLEAN /\ signingOut \in BOOLEAN /\ page \in Page
  /\ left \subseteq Sessions /\ revived \in BOOLEAN

LEMMA FinishTypes ==
  ASSUME TypeOK, NEW s \in Slots, tasks[s] # None, NEW a, NEW ts, Finish(s, a, ts),
         a = "ok" /\ tasks[s].kind \in Forms \cup {"session"} => tasks[s].session \in Sessions
  PROVE  ShellTypes'
<1>1. /\ tasks[s] \in Request /\ ShellTypes /\ page \in Page
      /\ tasks[s].made \in Nat /\ tasks[s].here \in BOOLEAN /\ tasks[s].old \in BOOLEAN
      /\ tasks[s].cookie \in Sessions \cup {None}
  BY DEF TypeOK, ShellTypes, Request
<1>2. /\ Loaded(tasks[s], a) \in Page
      /\ Reloading(ts, tasks[s].made) \in Page
      /\ \A e \in BOOLEAN : [page EXCEPT !.error = @ \/ e] \in Page
  BY <1>1, PageTypes
<1> USE WebAssumption
<1>3. CASE FinishStatus(s, a, ts)
  <2>1. CASE a = "ok"
    BY <1>1, <1>3, <2>1, StayFacts DEF FinishStatus, ShellTypes
  <2>2. CASE a # "ok"
    <3> DEFINE p == IF a = "unclaimed" THEN "bootstrap-required" ELSE "unreachable"
    <3>1. p \in Phases /\ p # "signed-in"
      BY DEF Phases
    <3>2. Show(p, route, ts, busy, page) /\ shown' = None
      BY <1>3, <2>2 DEF FinishStatus
    <3> HIDE DEF p
    <3>3. /\ phase' = p /\ phase' \in Phases /\ route' \in Routes
          /\ busy' \in BOOLEAN /\ page' \in Page
      BY <1>1, <3>1, <3>2, ShowTypes DEF ShellTypes
    <3> QED BY <1>1, <1>3, <3>1, <3>2, <3>3 DEF FinishStatus, ShellTypes
  <2> QED BY <2>1, <2>2
<1>4. CASE FinishSession(s, a, ts)
  <2> DEFINE p == IF a = "ok" THEN "signed-in"
                  ELSE IF a = "unauthorized" THEN "signed-out" ELSE "unreachable"
  <2>1. p \in Phases /\ (p = "signed-in" <=> a = "ok")
    BY DEF Phases
  <2>2. Show(p, route, ts, busy, page)
    BY <1>4 DEF FinishSession
  <2>3. shown' = IF a = "ok" THEN tasks[s].session ELSE None
    BY <1>4 DEF FinishSession
  <2> HIDE DEF p
  <2>4. /\ phase' = p /\ phase' \in Phases /\ route' \in Routes
        /\ busy' \in BOOLEAN /\ page' \in Page
    BY <1>1, <2>1, <2>2, ShowTypes DEF ShellTypes
  <2> QED BY <1>1, <1>4, <2>1, <2>3, <2>4 DEF FinishSession, ShellTypes
<1>5. CASE FinishSignIn(s, a, ts)
  <2>1. CASE a = "ok"
    <3>1. Show("signed-in", "/", ts, busy /\ ~tasks[s].here, page)
      BY <1>5, <2>1 DEF FinishSignIn
    <3>2. "signed-in" \in Phases /\ "/" \in Routes /\ (busy /\ ~tasks[s].here) \in BOOLEAN
      BY DEF Phases, Routes
    <3>3. /\ phase' = "signed-in" /\ phase' \in Phases /\ route' \in Routes
          /\ busy' \in BOOLEAN /\ page' \in Page
      BY <1>1, <3>1, <3>2, ShowTypes
    <3>4. /\ shown' = tasks[s].session /\ revived' = LateBody(tasks[s])
          /\ UNCHANGED <<signingOut, left>>
      BY <1>5, <2>1 DEF FinishSignIn
    <3>5. LateBody(tasks[s]) \in BOOLEAN
      BY DEF LateBody
    <3>6. tasks[s].session \in Sessions
      BY <1>5, <2>1 DEF FinishSignIn, Forms
    <3> QED BY <1>1, <3>3, <3>4, <3>5, <3>6 DEF ShellTypes
  <2>2. CASE a # "ok"
    BY <1>1, <1>5, <2>2, StayFacts DEF FinishSignIn, ShellTypes
  <2> QED BY <2>1, <2>2
<1>6. CASE FinishLogout(s, a, ts)
  <2>1. Show("signed-out", "/login", Aged(ts), busy, page)
    BY <1>6 DEF FinishLogout
  <2>2. "signed-out" \in Phases /\ "/login" \in Routes
    BY DEF Phases, Routes
  <2>3. /\ phase' = "signed-out" /\ phase' \in Phases /\ route' \in Routes
        /\ busy' \in BOOLEAN /\ page' \in Page
    BY <1>1, <2>1, <2>2, ShowTypes DEF ShellTypes
  <2> QED BY <1>1, <1>6, <2>3 DEF FinishLogout, ShellTypes
<1>7. ASSUME NEW b \in BOOLEAN, NEW pg \in Page, Show(Shell(a), route, ts, b, pg),
             shown' = ShownAfter(a), UNCHANGED <<signingOut, left, revived>>
      PROVE  ShellTypes'
  <2>1. Shell(a) \in Phases /\ (ShownAfter(a) # None <=> Shell(a) = "signed-in")
    BY <1>1 DEF Shell, ShownAfter, ShellTypes, Phases
  <2>2. /\ phase' = Shell(a) /\ phase' \in Phases /\ route' \in Routes
        /\ busy' \in BOOLEAN /\ page' \in Page
    BY <1>1, <1>7, <2>1, ShowTypes DEF ShellTypes
  <2> QED BY <1>1, <1>7, <2>1, <2>2 DEF ShellTypes, ShownAfter
<1>8. CASE FinishLoad(s, a, ts)
  <2>1. /\ (busy /\ ~(tasks[s].here /\ tasks[s].kind = "reload")) \in BOOLEAN
        /\ (IF tasks[s].here THEN Loaded(tasks[s], a) ELSE page) \in Page
    BY <1>1, <1>2
  <2> QED BY <1>7, <1>8, <2>1 DEF FinishLoad
<1>9. CASE FinishChange(s, a, ts)
  <2>1. CASE a = "ok"
    BY <1>1, <1>2, <1>9, <2>1, StayFacts DEF FinishChange, ShellTypes
  <2>2. CASE a # "ok"
    <3>1. /\ (busy /\ ~tasks[s].here) \in BOOLEAN
          /\ (IF tasks[s].here /\ tasks[s].kind = "revoke"
                THEN [page EXCEPT !.error = @ \/ a = "error"] ELSE page) \in Page
      BY <1>1, <1>2
    <3> QED BY <1>7, <1>9, <2>2, <3>1 DEF FinishChange
  <2> QED BY <2>1, <2>2
<1> QED BY <1>3, <1>4, <1>5, <1>6, <1>8, <1>9 DEF Finish

-----------------------------------------------------------------------------
(* The invariant about sessions.                                           *)

\* A session the server has issued and the browser has not been told of.
Granted(r) ==
  r # None /\ r.kind \in Forms /\ r.stage = "answered" /\ r.answer = "ok"

RequestInv ==
  \A s \in Slots : tasks[s] # None =>
    /\ tasks[s].cookie \in issued \cup {None}
    /\ ~tasks[s].old => tasks[s].cookie \notin left
    /\ Answered(tasks[s]) =>
         /\ tasks[s].answer # "pending"
         /\ tasks[s].answer = "unclaimed" => tasks[s].kind = "status"
         /\ tasks[s].answer = "ok" /\ tasks[s].kind = "session" =>
              tasks[s].session = tasks[s].cookie /\ tasks[s].session # None

\* What is known while a body is awaited.  A sign-in has set its session as the
\* cookie, so the user may have signed out of it, but only of an old one; a
\* sign-out whose headers have cleared the cookie does not get it back.
ReadingInv ==
  \A s \in Slots : tasks[s] # None /\ tasks[s].stage = "reading" =>
    /\ tasks[s].answer = "ok" /\ tasks[s].kind \in Forms =>
         /\ tasks[s].session \in issued
         /\ ~tasks[s].old => tasks[s].session \notin left
    /\ tasks[s].kind = "logout" =>
         /\ tasks[s].answer # "ok"
         /\ tasks[s].answer = "unauthorized" => cookie = None \/ cookie # tasks[s].cookie

\* Nobody has used it, so nobody can have signed out of it.
GrantInv ==
  \A s \in Slots : Granted(tasks[s]) =>
    /\ tasks[s].session \in issued /\ tasks[s].session \notin left
    /\ tasks[s].session # cookie
    /\ \A t \in Slots : tasks[t] # None => tasks[t].cookie # tasks[s].session
    /\ \A t \in Slots \ {s} : Granted(tasks[t]) => tasks[t].session # tasks[s].session

CookieInv ==
  /\ cookie \in issued \cup {None} /\ cookie \notin left
  /\ left \subseteq issued

ShellInv == phase = "signed-in" /\ shown \in left => revived

SessionInv == RequestInv /\ ReadingInv /\ GrantInv /\ CookieInv /\ ShellInv

LEMMA FinishLeft ==
  ASSUME TypeOK, NEW s \in Slots, tasks[s] # None, NEW a, NEW ts, Rest(s, ts),
         cookie' \in Sessions \cup {None}, Finish(s, a, ts)
  PROVE  \/ left' = left
         \/ /\ tasks[s].kind = "logout" /\ a \in {"ok", "unauthorized"}
            /\ left' = left \cup ({tasks[s].cookie} \ {None})
            /\ \A t \in Slots : tasks'[t] # None => tasks'[t].old
<1>1. CASE FinishLogout(s, a, ts) /\ a \in {"ok", "unauthorized"}
  <2>1. /\ tasks[s].kind = "logout" /\ left' = left \cup ({tasks[s].cookie} \ {None})
        /\ Show("signed-out", "/login", Aged(ts), busy, page)
    BY <1>1 DEF FinishLogout
  <2>2. tasks \in TaskTable
    BY DEF TypeOK, TaskTable
  <2>3. Aged(ts) \in TaskTable /\ \A t \in Slots : Aged(ts)[t] # None => Aged(ts)[t].old
    BY <2>2, AgedMoves
  <2>4. View("signed-out", "/login") # "devices"
    BY DEF View
  <2>5. ASSUME NEW t \in Slots, tasks'[t] # None
        PROVE  tasks'[t].old
    <3>1. \/ tasks'[t] = Aged(ts)[t]
          \/ Aged(ts)[t] # None /\ tasks'[t] = [Aged(ts)[t] EXCEPT !.here = FALSE]
      BY <2>1, <2>3, <2>4, <2>5, ShowFacts
    <3>2. CASE tasks'[t] = Aged(ts)[t]
      BY <2>3, <2>5, <3>2
    <3>3. CASE Aged(ts)[t] # None /\ tasks'[t] = [Aged(ts)[t] EXCEPT !.here = FALSE]
      <4> DEFINE r0 == Aged(ts)[t]
      <4>1. r0 \in Request /\ r0.old /\ tasks'[t] = [r0 EXCEPT !.here = FALSE]
        BY <2>3, <3>3 DEF TaskTable
      <4> HIDE DEF r0
      <4> QED BY <4>1, HereFacts
    <3> QED BY <3>1, <3>2, <3>3
  <2> QED BY <1>1, <2>1, <2>5
<1>2. CASE ~(FinishLogout(s, a, ts) /\ a \in {"ok", "unauthorized"})
  BY <1>2 DEF Finish, FinishStatus, FinishSession, FinishSignIn, FinishLogout, FinishLoad,
              FinishChange
<1> QED BY <1>1, <1>2

LEMMA FinishShell ==
  ASSUME TypeOK, SessionInv, NEW s \in Slots, tasks[s] # None, NEW a, NEW ts,
         Finish(s, a, ts),
         a = "ok" => Answered(tasks[s]) /\ tasks[s].answer = "ok"
  PROVE  ShellInv'
<1>1. tasks[s] \in Request
  BY DEF TypeOK
<1>2. CASE FinishSession(s, a, ts) /\ a = "ok"
  <2>1. /\ tasks[s].kind = "session" /\ shown' = tasks[s].session
        /\ revived' = tasks[s].old /\ left' = left
    BY <1>2 DEF FinishSession
  <2>2. tasks[s].session = tasks[s].cookie /\ (~tasks[s].old => tasks[s].cookie \notin left)
    BY <1>2, <2>1 DEF SessionInv, RequestInv
  <2> QED BY <2>1, <2>2 DEF ShellInv
<1>3. CASE FinishSignIn(s, a, ts) /\ a = "ok"
  <2>1. /\ tasks[s].kind \in Forms /\ shown' = tasks[s].session /\ left' = left
        /\ revived' = LateBody(tasks[s])
    BY <1>3 DEF FinishSignIn, Forms
  <2>2. CASE tasks[s].stage = "answered"
    <3>1. Granted(tasks[s])
      BY <1>3, <2>1, <2>2 DEF Granted
    <3> QED BY <2>1, <3>1 DEF ShellInv, SessionInv, GrantInv
  <2>3. CASE tasks[s].stage = "reading"
    BY <1>3, <2>1, <2>3 DEF ShellInv, SessionInv, ReadingInv, LateBody
  <2> QED BY <1>3, <2>2, <2>3 DEF Answered
<1>4. CASE FinishLogout(s, a, ts)
  <2>1. phase' = "signed-out"
    BY <1>4 DEF FinishLogout, Show
  <2> QED BY <2>1 DEF ShellInv
<1>5. CASE a # "ok" /\ ~FinishLogout(s, a, ts)
  <2>1. left' = left /\ (phase' = "signed-in" =>
                           phase = "signed-in" /\ shown' = shown /\ revived' = revived)
    BY <1>5 DEF Finish, FinishStatus, FinishSession, FinishSignIn, FinishLoad, FinishChange,
                Stay, Show, Shell, ShownAfter
  <2> QED BY <2>1 DEF ShellInv, SessionInv
<1>6. CASE a = "ok" /\ (FinishStatus(s, a, ts) \/ FinishLoad(s, a, ts) \/ FinishChange(s, a, ts))
  <2>1. left' = left /\ phase' = phase /\ shown' = shown /\ revived' = revived
    BY <1>6 DEF FinishStatus, FinishLoad, FinishChange, Stay, Show, Shell, ShownAfter
  <2> QED BY <2>1 DEF ShellInv, SessionInv
<1> QED BY <1>2, <1>3, <1>4, <1>5, <1>6 DEF Finish

\* The cookie becomes a granted session, is cleared or stays.
LEMMA BrowserSessions ==
  ASSUME TypeOK, SessionInv, NEW kinds, BrowserMove(kinds), issued' = issued, CookieInv',
         \/ cookie' \in {cookie, None}
         \/ \E d \in Slots : /\ Granted(tasks[d]) /\ cookie' = tasks[d].session
                             /\ ~Granted(tasks'[d]),
         \/ left' = left
         \/ \E d \in Slots : /\ tasks[d] # None
                             /\ left' = left \cup ({tasks[d].cookie} \ {None})
                             /\ \A t \in Slots : tasks'[t] # None => tasks'[t].old
  PROVE  RequestInv' /\ ReadingInv' /\ GrantInv'
<1>1. ASSUME NEW t \in Slots, tasks'[t] # None
      PROVE  Kept(tasks[t], tasks'[t]) \/ New(tasks'[t])
  BY <1>1 DEF BrowserMove, MovesTo
<1>2. RequestInv'
  <2> SUFFICES ASSUME NEW s \in Slots, tasks'[s] # None
               PROVE  /\ tasks'[s].cookie \in issued \cup {None}
                      /\ ~tasks'[s].old => tasks'[s].cookie \notin left'
                      /\ Answered(tasks'[s]) =>
                           /\ tasks'[s].answer # "pending"
                           /\ tasks'[s].answer = "unclaimed" => tasks'[s].kind = "status"
                           /\ tasks'[s].answer = "ok" /\ tasks'[s].kind = "session" =>
                                tasks'[s].session = tasks'[s].cookie /\ tasks'[s].session # None
    BY DEF RequestInv, Answered
  <2>1. CASE New(tasks'[s])
    BY <2>1 DEF New, CookieInv, Answered
  <2>2. CASE Kept(tasks[s], tasks'[s])
    <3>1. ~tasks'[s].old => ~tasks[s].old /\ left' = left
      BY <2>2 DEF Kept
    <3> QED BY <2>2, <3>1 DEF Kept, SessionInv, RequestInv, Answered
  <2> QED BY <1>1, <2>1, <2>2
<1>3. ASSUME NEW s \in Slots, Granted(tasks'[s])
      PROVE  Granted(tasks[s]) /\ tasks'[s].session = tasks[s].session
  <2>1. Kept(tasks[s], tasks'[s])
    BY <1>1, <1>3 DEF Granted, New
  <2> QED BY <1>3, <2>1 DEF Granted, Kept
<1>4. GrantInv'
  <2> SUFFICES ASSUME NEW s \in Slots, Granted(tasks'[s])
               PROVE  /\ tasks'[s].session \in issued /\ tasks'[s].session \notin left'
                      /\ tasks'[s].session # cookie'
                      /\ \A t \in Slots : tasks'[t] # None =>
                           tasks'[t].cookie # tasks'[s].session
                      /\ \A t \in Slots \ {s} : Granted(tasks'[t]) =>
                           tasks'[t].session # tasks'[s].session
    BY DEF GrantInv, Granted
  <2>1. Granted(tasks[s]) /\ tasks'[s].session = tasks[s].session
    BY <1>3
  <2>2. /\ tasks[s].session \in issued /\ tasks[s].session \notin left
        /\ tasks[s].session # cookie /\ tasks[s].session # None
        /\ \A t \in Slots : tasks[t] # None => tasks[t].cookie # tasks[s].session
        /\ \A t \in Slots \ {s} : Granted(tasks[t]) => tasks[t].session # tasks[s].session
    BY <2>1, WebAssumption DEF SessionInv, GrantInv, TypeOK
  <2>3. tasks[s].session # cookie'
    BY <2>2
  <2>4. tasks[s].session \notin left'
    BY <2>2
  <2>5. ASSUME NEW t \in Slots, tasks'[t] # None
        PROVE  tasks'[t].cookie # tasks[s].session
    BY <1>1, <2>2, <2>3, <2>5 DEF Kept, New
  <2> QED BY <1>3, <2>1, <2>2, <2>3, <2>4, <2>5
<1>5. ReadingInv'
  <2> SUFFICES ASSUME NEW s \in Slots, tasks'[s] # None, tasks'[s].stage = "reading"
               PROVE  /\ tasks'[s].answer = "ok" /\ tasks'[s].kind \in Forms =>
                           /\ tasks'[s].session \in issued
                           /\ ~tasks'[s].old => tasks'[s].session \notin left'
                      /\ tasks'[s].kind = "logout" =>
                           /\ tasks'[s].answer # "ok"
                           /\ tasks'[s].answer = "unauthorized" =>
                                cookie' = None \/ cookie' # tasks'[s].cookie
    BY DEF ReadingInv
  <2>1. Kept(tasks[s], tasks'[s]) /\ tasks[s] # None /\ tasks[s].stage = "reading"
    BY <1>1 DEF Kept, New
  <2>2. ~tasks'[s].old => ~tasks[s].old /\ left' = left
    BY <2>1 DEF Kept
  <2>3. cookie' \in {cookie, None} \/ cookie' # tasks[s].cookie
    BY <2>1 DEF SessionInv, GrantInv
  <2> QED BY <2>1, <2>2, <2>3 DEF Kept, SessionInv, ReadingInv
<1> QED BY <1>2, <1>4, <1>5

LEMMA CookieAfterType ==
  ASSUME TypeOK, NEW s \in Slots, tasks[s] # None
  PROVE  CookieAfter(tasks[s]) \in Sessions \cup {None}
<1>1. tasks[s].session \in Sessions \cup {None} /\ cookie \in Sessions \cup {None}
  BY DEF TypeOK, Request
<1> QED BY <1>1 DEF CookieAfter

\* Only the answer to a form sets the cookie; one that may end a session
\* clears it.
LEMMA CookieAfterFacts ==
  ASSUME NEW s \in Slots, tasks[s] # None
  PROVE  /\ \/ CookieAfter(tasks[s]) \in {cookie, None}
            \/ /\ tasks[s].answer = "ok" /\ tasks[s].kind \in Forms
               /\ CookieAfter(tasks[s]) = tasks[s].session
         /\ tasks[s].kind = "logout" /\ tasks[s].answer \in {"ok", "unauthorized"} =>
              CookieAfter(tasks[s]) = None
  BY DEF CookieAfter, Forms

\* What a delivered or an abandoned request leaves.
LEMMA DeliverRest ==
  ASSUME TypeOK, NEW s \in Slots, Deliver(s)
  PROVE  /\ tasks[s] # None /\ tasks[s].stage = "answered" /\ cookie' = CookieAfter(tasks[s])
         /\ cookie' \in Sessions \cup {None}
         /\ Rest(s, [tasks EXCEPT ![s] = None])
         /\ Finish(s, tasks[s].answer, [tasks EXCEPT ![s] = None])
         /\ UNCHANGED <<server, acts, faults>>
<1>1. Rest(s, [tasks EXCEPT ![s] = None])
  BY DEF TypeOK, Rest, TaskTable
<1> QED BY <1>1, CookieAfterType DEF Deliver

LEMMA AbandonRest ==
  ASSUME TypeOK, NEW s \in Slots, Abandon(s)
  PROVE  /\ tasks[s] # None /\ tasks[s].stage = "sent" /\ cookie' = cookie
         /\ cookie' \in Sessions \cup {None}
         /\ Rest(s, [tasks EXCEPT ![s].stage = "abandoned"])
         /\ Finish(s, "error", [tasks EXCEPT ![s].stage = "abandoned"])
         /\ UNCHANGED <<server, acts>>
         /\ faults < MaxFaults /\ faults' = faults + 1
<1> DEFINE ts == [tasks EXCEPT ![s].stage = "abandoned"]
           q == [tasks[s] EXCEPT !.stage = "abandoned"]
<1>1. tasks \in TaskTable /\ tasks[s] \in Request /\ tasks[s].stage = "sent"
  BY DEF Abandon, TypeOK, TaskTable
<1>2. q \in Request
  BY <1>1, AbandonedFacts
<1>3. ts = [tasks EXCEPT ![s] = q]
  BY <1>1 DEF TaskTable
<1> HIDE DEF ts
<1>4. ts \in TaskTable /\ ts[s] = q /\ \A t \in Slots \ {s} : ts[t] = tasks[t]
  BY <1>1, <1>2, <1>3 DEF TaskTable
<1>5. Rest(s, ts)
  BY <1>1, <1>4 DEF Rest
<1>6. cookie \in Sessions \cup {None}
  BY DEF TypeOK
<1> QED BY <1>5, <1>6 DEF Abandon, ts

\* The request that is delivered is gone.
LEMMA SignInConsumed ==
  ASSUME TypeOK, NEW s \in Slots, Deliver(s), tasks[s].answer = "ok", tasks[s].kind \in Forms
  PROVE  tasks'[s] = None
<1> DEFINE ts == [tasks EXCEPT ![s] = None]
<1>1. Show("signed-in", "/", ts, busy /\ ~tasks[s].here, page)
  BY DEF Deliver, Finish, FinishStatus, FinishSession, FinishSignIn, FinishLogout,
         FinishLoad, FinishChange, Forms
<1>2. View("signed-in", "/") # "devices"
  BY DEF View
<1>3. ts \in TaskTable /\ ts[s] = None /\ cookie' \in Sessions \cup {None}
  BY DeliverRest DEF TypeOK, TaskTable
<1> HIDE DEF ts
<1> QED BY <1>1, <1>2, <1>3, ShowFacts

LEMMA DeliverSessions ==
  ASSUME TypeOK, SessionInv, NEW s \in Slots, Deliver(s)
  PROVE  SessionInv'
<1> DEFINE ts == [tasks EXCEPT ![s] = None]
           a == tasks[s].answer
<1>1. /\ tasks[s] # None /\ tasks[s].stage = "answered" /\ cookie' = CookieAfter(tasks[s])
      /\ cookie' \in Sessions \cup {None}
      /\ Rest(s, ts) /\ Finish(s, a, ts) /\ issued' = issued
  BY DeliverRest DEF server
<1>2. BrowserMove(Followups)
  BY <1>1, FinishMoves
<1>3. \/ left' = left
      \/ /\ tasks[s].kind = "logout" /\ a \in {"ok", "unauthorized"}
         /\ left' = left \cup ({tasks[s].cookie} \ {None})
         /\ \A t \in Slots : tasks'[t] # None => tasks'[t].old
  BY <1>1, FinishLeft
<1>4. /\ \/ cookie' \in {cookie, None}
         \/ a = "ok" /\ tasks[s].kind \in Forms /\ cookie' = tasks[s].session
      /\ tasks[s].kind = "logout" /\ a \in {"ok", "unauthorized"} => cookie' = None
  BY <1>1, CookieAfterFacts
<1>5. a = "ok" /\ tasks[s].kind \in Forms => Granted(tasks[s]) /\ ~Granted(tasks'[s])
  BY <1>1, SignInConsumed DEF Granted
<1>6. ShellInv'
  BY <1>1, FinishShell DEF Answered
<1>7. CookieInv'
  <2>1. tasks[s].cookie \in issued \cup {None}
    BY <1>1 DEF SessionInv, RequestInv
  <2>2. left' \subseteq issued
    BY <1>3, <2>1 DEF SessionInv, CookieInv
  <2>3. CASE cookie' = None
    <3>1. None \notin issued
      BY WebAssumption DEF TypeOK
    <3> QED BY <1>1, <2>2, <2>3, <3>1 DEF CookieInv
  <2>4. CASE cookie' # None
    <3>1. left' = left
      BY <1>3, <1>4, <2>4
    <3>2. CASE cookie' = cookie
      BY <1>1, <2>2, <3>1, <3>2 DEF SessionInv, CookieInv
    <3>3. CASE Granted(tasks[s]) /\ cookie' = tasks[s].session
      BY <1>1, <2>2, <3>1, <3>3 DEF SessionInv, CookieInv, GrantInv
    <3> QED BY <1>4, <1>5, <2>4, <3>2, <3>3
  <2> QED BY <2>3, <2>4
<1> HIDE DEF ts, a
<1>8. RequestInv' /\ ReadingInv' /\ GrantInv'
  BY <1>1, <1>2, <1>3, <1>4, <1>5, <1>7, BrowserSessions
<1> QED BY <1>6, <1>7, <1>8 DEF SessionInv

LEMMA AbandonSessions ==
  ASSUME TypeOK, SessionInv, NEW s \in Slots, Abandon(s)
  PROVE  SessionInv'
<1> DEFINE ts == [tasks EXCEPT ![s].stage = "abandoned"]
<1>1. /\ tasks[s] # None /\ cookie' = cookie /\ cookie' \in Sessions \cup {None}
      /\ Rest(s, ts) /\ Finish(s, "error", ts) /\ issued' = issued
  BY AbandonRest DEF server
<1> HIDE DEF ts
<1>2. BrowserMove(Followups)
  BY <1>1, FinishMoves
<1>3. left' = left
  BY <1>1, FinishLeft
<1>4. ShellInv'
  BY <1>1, FinishShell
<1>5. CookieInv'
  BY <1>1, <1>3 DEF SessionInv, CookieInv
<1>6. RequestInv' /\ ReadingInv' /\ GrantInv'
  BY <1>1, <1>2, <1>3, <1>5, BrowserSessions
<1> QED BY <1>4, <1>5, <1>6 DEF SessionInv

\* What is known of a body that is read or breaks off.
LEMMA BodyRest ==
  ASSUME TypeOK, NEW s \in Slots, ReadBody(s)
  PROVE  /\ tasks[s] # None /\ tasks[s].stage = "reading" /\ cookie' = cookie
         /\ cookie' \in Sessions \cup {None}
         /\ Rest(s, [tasks EXCEPT ![s] = None])
         /\ \E a \in {tasks[s].answer, "error"} : Finish(s, a, [tasks EXCEPT ![s] = None])
         /\ UNCHANGED <<server, acts, faults>>
<1>1. Rest(s, [tasks EXCEPT ![s] = None])
  BY DEF TypeOK, Rest, TaskTable
<1> QED BY <1>1 DEF ReadBody, TypeOK

LEMMA BodySessions ==
  ASSUME TypeOK, SessionInv, NEW s \in Slots, ReadBody(s)
  PROVE  SessionInv'
<1> DEFINE ts == [tasks EXCEPT ![s] = None]
<1>1. /\ tasks[s] # None /\ tasks[s].stage = "reading" /\ cookie' = cookie
      /\ cookie' \in Sessions \cup {None} /\ Rest(s, ts) /\ issued' = issued
  BY BodyRest DEF server
<1>2. PICK a \in {tasks[s].answer, "error"} : Finish(s, a, ts)
  BY BodyRest
<1> HIDE DEF ts
<1>3. BrowserMove(Followups)
  BY <1>1, <1>2, FinishMoves
<1>4. \/ left' = left
      \/ /\ tasks[s].kind = "logout" /\ a \in {"ok", "unauthorized"}
         /\ left' = left \cup ({tasks[s].cookie} \ {None})
         /\ \A t \in Slots : tasks'[t] # None => tasks'[t].old
  BY <1>1, <1>2, FinishLeft
<1>5. ShellInv'
  BY <1>1, <1>2, FinishShell DEF Answered
<1>6. CookieInv'
  <2>1. tasks[s].cookie \in issued \cup {None}
    BY <1>1 DEF SessionInv, RequestInv
  <2>2. left' # left => cookie = None \/ cookie # tasks[s].cookie
    BY <1>1, <1>2, <1>4 DEF SessionInv, ReadingInv
  <2> QED BY <1>1, <1>4, <2>1, <2>2 DEF SessionInv, CookieInv
<1>7. RequestInv' /\ ReadingInv' /\ GrantInv'
  BY <1>1, <1>3, <1>4, <1>6, BrowserSessions
<1> QED BY <1>5, <1>6, <1>7 DEF SessionInv

\* The headers change the cookie and the stage of the request, nothing else.
LEMMA HeadersFacts ==
  ASSUME TypeOK, NEW s \in Slots, ReceiveHeaders(s)
  PROVE  /\ tasks[s] \in Request /\ tasks[s] # None /\ tasks[s].stage = "answered"
         /\ HasBody(tasks[s])
         /\ cookie' = CookieAfter(tasks[s]) /\ cookie' \in Sessions \cup {None}
         /\ tasks' \in TaskTable /\ \A t \in Slots \ {s} : tasks'[t] = tasks[t]
         /\ LET q == tasks'[s]
            IN  /\ q \in Request /\ q # None /\ q.stage = "reading"
                /\ q.kind = tasks[s].kind /\ q.answer = tasks[s].answer
                /\ q.cookie = tasks[s].cookie /\ q.session = tasks[s].session
                /\ q.here = tasks[s].here /\ q.old = tasks[s].old
                /\ q.made = tasks[s].made /\ q.seen = tasks[s].seen
         /\ faults' \in 0..MaxFaults
         /\ UNCHANGED <<claimed, issued, live, roster, phase, shown, route, busy>>
         /\ UNCHANGED <<signingOut, page, left, revived, acts>>
<1> DEFINE q == [tasks[s] EXCEPT !.stage = "reading"]
<1>1. tasks \in TaskTable /\ tasks[s] \in Request /\ tasks[s] # None
  BY DEF ReceiveHeaders, TypeOK, TaskTable
<1>2. /\ q \in Request /\ q.stage = "reading"
      /\ q.kind = tasks[s].kind /\ q.answer = tasks[s].answer
      /\ q.cookie = tasks[s].cookie /\ q.session = tasks[s].session
      /\ q.here = tasks[s].here /\ q.old = tasks[s].old
      /\ q.made = tasks[s].made /\ q.seen = tasks[s].seen
  BY <1>1 DEF Request
<1>3. tasks' = [tasks EXCEPT ![s] = q]
  BY <1>1 DEF ReceiveHeaders, TaskTable
<1> HIDE DEF q
<1>4. tasks' \in TaskTable /\ tasks'[s] = q /\ \A t \in Slots \ {s} : tasks'[t] = tasks[t]
  BY <1>1, <1>2, <1>3 DEF TaskTable
<1>5. q # None
  BY <1>2, NoneAssumption
<1>6. faults' \in 0..MaxFaults
  BY WebAssumption DEF ReceiveHeaders, TypeOK
<1> QED BY <1>1, <1>2, <1>4, <1>5, <1>6, CookieAfterType DEF ReceiveHeaders, server

LEMMA HeadersSessions ==
  ASSUME TypeOK, SessionInv, NEW s \in Slots, ReceiveHeaders(s)
  PROVE  SessionInv'
<1>1. /\ tasks[s] # None /\ tasks[s].stage = "answered" /\ HasBody(tasks[s])
      /\ cookie' = CookieAfter(tasks[s])
      /\ \A t \in Slots \ {s} : tasks'[t] = tasks[t]
      /\ tasks'[s] # None /\ tasks'[s].stage = "reading"
      /\ tasks'[s].kind = tasks[s].kind /\ tasks'[s].answer = tasks[s].answer
      /\ tasks'[s].cookie = tasks[s].cookie /\ tasks'[s].session = tasks[s].session
      /\ tasks'[s].old = tasks[s].old
      /\ UNCHANGED <<issued, left, phase, shown, revived>>
  BY HeadersFacts
<1>2. /\ \/ cookie' \in {cookie, None}
         \/ Granted(tasks[s]) /\ cookie' = tasks[s].session
      /\ tasks[s].kind = "logout" /\ tasks[s].answer \in {"ok", "unauthorized"} =>
           cookie' = None
  BY <1>1, CookieAfterFacts DEF Granted
<1>3. None \notin issued
  BY WebAssumption DEF TypeOK
<1>4. CookieInv' /\ ShellInv'
  BY <1>1, <1>2, <1>3 DEF SessionInv, CookieInv, GrantInv, ShellInv
<1>5. RequestInv'
  BY <1>1 DEF SessionInv, RequestInv, Answered
<1>6. ~Granted(tasks'[s]) /\ \A t \in Slots \ {s} : Granted(tasks'[t]) <=> Granted(tasks[t])
  BY <1>1 DEF Granted
<1>7. GrantInv'
  <2> SUFFICES ASSUME NEW t \in Slots, Granted(tasks'[t])
               PROVE  /\ tasks'[t].session \in issued /\ tasks'[t].session \notin left
                      /\ tasks'[t].session # cookie'
                      /\ \A u \in Slots : tasks'[u] # None =>
                           tasks'[u].cookie # tasks'[t].session
                      /\ \A u \in Slots \ {t} : Granted(tasks'[u]) =>
                           tasks'[u].session # tasks'[t].session
    BY <1>1 DEF GrantInv, Granted
  <2>1. t # s /\ tasks'[t] = tasks[t] /\ Granted(tasks[t])
    BY <1>1, <1>6
  <2>2. /\ tasks[t].session \in issued /\ tasks[t].session \notin left
        /\ tasks[t].session # cookie /\ tasks[t].session # None
        /\ \A u \in Slots : tasks[u] # None => tasks[u].cookie # tasks[t].session
        /\ \A u \in Slots \ {t} : Granted(tasks[u]) => tasks[u].session # tasks[t].session
    BY <1>3, <2>1 DEF SessionInv, GrantInv
  <2> QED BY <1>1, <1>2, <1>6, <2>1, <2>2
<1>8. ReadingInv'
  <2> SUFFICES ASSUME NEW t \in Slots, tasks'[t] # None, tasks'[t].stage = "reading"
               PROVE  /\ tasks'[t].answer = "ok" /\ tasks'[t].kind \in Forms =>
                           /\ tasks'[t].session \in issued
                           /\ ~tasks'[t].old => tasks'[t].session \notin left
                      /\ tasks'[t].kind = "logout" =>
                           /\ tasks'[t].answer # "ok"
                           /\ tasks'[t].answer = "unauthorized" =>
                                cookie' = None \/ cookie' # tasks'[t].cookie
    BY <1>1 DEF ReadingInv
  <2>1. CASE t = s
    BY <1>1, <1>2, <2>1 DEF SessionInv, GrantInv, Granted, HasBody
  <2>2. CASE t # s
    <3>1. tasks'[t] = tasks[t]
      BY <1>1, <2>2
    <3>2. cookie' \in {cookie, None} \/ cookie' # tasks[t].cookie
      BY <1>2, <3>1 DEF SessionInv, GrantInv
    <3> QED BY <3>1, <3>2 DEF SessionInv, ReadingInv
  <2> QED BY <2>1, <2>2
<1> QED BY <1>4, <1>5, <1>7, <1>8 DEF SessionInv

\* What the user does is to start a request, or to follow a link.
LEMMA UserStarts ==
  ASSUME TryAgain \/ Submit \/ SignOut \/ Change
  PROVE  /\ \E kind \in Kinds : Starts(kind) /\ (kind \in Changes => Change)
         /\ UNCHANGED <<server, left, revived, faults>>
         /\ acts < MaxActs /\ acts' = acts + 1
<1>1. CASE TryAgain
  BY <1>1, StayFacts DEF TryAgain, Act, Starts, Kinds, Changes
<1>2. CASE Submit
  <2> DEFINE kind == IF phase = "signed-out" THEN "login" ELSE "bootstrap"
  <2>1. kind \in Kinds /\ kind \notin Changes
    BY DEF Kinds, Changes
  <2>2. Stay(Send(tasks, NewRequest(kind, cookie)), TRUE, page)
    BY <1>2 DEF Submit
  <2> HIDE DEF kind
  <2>3. Starts(kind)
    BY <1>2, <2>2, StayFacts DEF Submit, Act, Starts
  <2> QED BY <1>2, <2>1, <2>3 DEF Submit, Act
<1>3. CASE SignOut
  BY <1>3, StayFacts DEF SignOut, Act, Starts, Kinds, Changes
<1>4. CASE Change
  <2>1. PICK kind \in Changes : Stay(Send(tasks, NewRequest(kind, cookie)), TRUE, page)
    BY <1>4 DEF Change, Changes
  <2>2. Starts(kind) /\ kind \in Kinds
    BY <1>4, <2>1, StayFacts DEF Change, Act, Starts, Changes, Kinds
  <2> QED BY <1>4, <2>2 DEF Change, Act
<1> QED BY <1>1, <1>2, <1>3, <1>4

\* The requests of the page and of the forms are started by their buttons.
LEMMA StartedKind ==
  ASSUME TypeOK, NEW kind \in PageKinds \cup Forms, Starts(kind),
         TryAgain \/ Submit \/ SignOut \/ Change
  PROVE  \/ Change /\ kind \in Changes
         \/ Submit /\ kind \in Forms
<1> DEFINE new == SlotIn(tasks)
<1>1. /\ kind \in Kinds /\ cookie \in Sessions \cup {None} /\ tasks \in TaskTable
      /\ FreeSlots(tasks) # {} /\ tasks' = Send(tasks, NewRequest(kind, cookie))
  BY DEF Starts, TypeOK, TaskTable, PageKinds, Working, Forms, Kinds
<1>2. ASSUME NEW k \in Kinds, tasks' = Send(tasks, NewRequest(k, cookie))
      PROVE  k = kind
  <2>1. NewRequest(k, cookie) \in Request /\ NewRequest(kind, cookie) \in Request
    BY <1>1, NewRequestFacts
  <2>2. NewRequest(k, cookie) = NewRequest(kind, cookie)
    <3>1. tasks'[new] = NewRequest(kind, cookie)
      BY <1>1, <2>1, SendFacts
    <3>2. tasks'[new] = NewRequest(k, cookie)
      BY <1>1, <1>2, <2>1, SendFacts
    <3> QED BY <3>1, <3>2
  <2>3. NewRequest(k, cookie).kind = k /\ NewRequest(kind, cookie).kind = kind
    BY DEF NewRequest
  <2> QED BY <2>2, <2>3
<1>3. CASE TryAgain
  <2>1. tasks' = Send(tasks, NewRequest("status", cookie)) /\ "status" \in Kinds
    BY <1>3, StayFacts DEF TryAgain, Kinds
  <2> QED BY <1>2, <2>1 DEF PageKinds, Working, Forms
<1>4. CASE Submit
  <2> DEFINE k == IF phase = "signed-out" THEN "login" ELSE "bootstrap"
  <2>1. tasks' = Send(tasks, NewRequest(k, cookie)) /\ k \in Kinds /\ k \in Forms
    BY <1>4, StayFacts DEF Submit, Kinds, Forms
  <2> HIDE DEF k
  <2> QED BY <1>2, <1>4, <2>1
<1>5. CASE SignOut
  <2>1. tasks' = Send(tasks, NewRequest("logout", cookie)) /\ "logout" \in Kinds
    BY <1>5, StayFacts DEF SignOut, Kinds
  <2> QED BY <1>2, <2>1 DEF PageKinds, Working, Forms
<1>6. CASE Change
  <2>1. PICK k \in Changes : Stay(Send(tasks, NewRequest(k, cookie)), TRUE, page)
    BY <1>6 DEF Change, Changes
  <2>2. tasks' = Send(tasks, NewRequest(k, cookie)) /\ k \in Kinds
    BY <2>1, StayFacts DEF Changes, Kinds
  <2> QED BY <1>2, <1>6, <2>1, <2>2
<1> QED BY <1>3, <1>4, <1>5, <1>6

LEMMA NavigateMoves ==
  ASSUME TypeOK, Navigate
  PROVE  BrowserMove({"load"})
<1>1. PICK r \in Routes : Show(phase, r, tasks, busy, page)
  BY DEF Navigate
<1>2. tasks \in TaskTable /\ cookie' \in Sessions \cup {None}
  BY DEF TypeOK, TaskTable, Navigate, Act
<1>3. MovesTo(tasks, {"load"})
  BY <1>2 DEF MovesTo, Kept, TaskTable
<1> QED BY <1>1, <1>2, <1>3, ShowMoves

LEMMA UserSessions ==
  ASSUME TypeOK, SessionInv, TryAgain \/ Submit \/ SignOut \/ Change \/ Navigate
  PROVE  SessionInv'
<1>1. /\ cookie' = cookie /\ left' = left /\ issued' = issued /\ phase' = phase
      /\ shown' = shown /\ revived' = revived
  <2>1. CASE Navigate
    BY <2>1 DEF Navigate, Act, Show, server
  <2>2. CASE ~Navigate
    BY <2>2, UserStarts DEF Starts, server
  <2> QED BY <2>1, <2>2
<1>2. \E kinds : BrowserMove(kinds)
  <2>1. CASE Navigate
    BY <2>1, NavigateMoves
  <2>2. CASE ~Navigate
    BY <2>2, UserStarts, StartsFacts
  <2> QED BY <2>1, <2>2
<1>3. CookieInv' /\ ShellInv'
  BY <1>1 DEF SessionInv, CookieInv, ShellInv
<1>4. RequestInv' /\ ReadingInv' /\ GrantInv'
  BY <1>1, <1>2, <1>3, BrowserSessions
<1> QED BY <1>3, <1>4 DEF SessionInv

-----------------------------------------------------------------------------
(* The server's answers.                                                   *)

\* The request in slot s has been answered with q, or to nobody.
Replied(s, q) ==
  /\ tasks[s] # None /\ ~Answered(tasks[s])
  /\ tasks' = [tasks EXCEPT ![s] = q]
  /\ q # None =>
       /\ q \in Request /\ q.stage = "answered"
       /\ q.kind = tasks[s].kind /\ q.cookie = tasks[s].cookie
       /\ q.here = tasks[s].here /\ q.old = tasks[s].old
       /\ tasks[s].stage = "sent" /\ q.answer # "pending"
       /\ q.answer = "unclaimed" => q.kind = "status"
       /\ q.answer = "ok" /\ q.kind = "session" => q.session = q.cookie /\ q.session \in Sessions
       /\ q.answer = "ok" /\ q.kind \in Forms => q.session \in issued' \ issued
       /\ q.answer = "ok" /\ q.kind = "reload" => q.seen = roster'
       /\ q.made = tasks[s].made \/ q.made = roster'

\* The server's own state, and how often the list has changed.
ServerStep(s) ==
  /\ claimed' \in BOOLEAN /\ issued \subseteq issued' /\ issued' \subseteq Sessions
  /\ live' \subseteq issued'
  /\ \/ roster' = roster
     \/ roster' = roster + 1 /\ tasks[s].kind \in Changes

LEMMA AnswerFacts ==
  ASSUME TypeOK, NEW s \in Slots, tasks[s] # None, NEW a \in Answers
  PROVE  LET q == Answer(s, a)
         IN  /\ q \in Request /\ q.stage = "answered" /\ q.answer = a
             /\ q.kind = tasks[s].kind /\ q.cookie = tasks[s].cookie
             /\ q.here = tasks[s].here /\ q.old = tasks[s].old
             /\ q.made = tasks[s].made
  BY DEF TypeOK, Answer, Request

LEMMA ServeServer ==
  ASSUME TypeOK, NEW s \in Slots, Serve(s)
  PROVE  ServerStep(s)
  BY DEF TypeOK, Serve, ServeStatus, ServeSignIn, RefuseSession, ServeAuthenticated, Awaited,
         ServerStep, server, Changes

LEMMA ServeReplies ==
  ASSUME TypeOK, NEW s \in Slots, Serve(s)
  PROVE  (\E q : Replied(s, q)) /\ ServerStep(s)
<1> DEFINE old == tasks[s]
<1>1. old # None /\ old.stage \in {"sent", "abandoned"} /\ tasks \in TaskTable
  BY DEF Serve, ServeStatus, ServeSignIn, RefuseSession, ServeAuthenticated, Awaited,
         TypeOK, TaskTable
<1>2. old \in Request
  BY <1>1 DEF TaskTable
<1>3. CASE old.stage = "abandoned"
  <2>1. tasks' = [tasks EXCEPT ![s] = None]
    BY <1>3 DEF Serve, ServeStatus, ServeSignIn, RefuseSession, ServeAuthenticated, Reply
  <2>2. Replied(s, None)
    BY <1>1, <1>3, <2>1 DEF Replied, Answered
  <2> QED BY <2>2, ServeServer
<1>4. CASE old.stage = "sent"
  <2>1. ASSUME NEW q, Reply(s, q)
        PROVE  tasks' = [tasks EXCEPT ![s] = q]
    BY <1>4, <2>1 DEF Reply
  <2>2. CASE ServeStatus(s)
    <3> DEFINE a == IF claimed THEN "ok" ELSE "unclaimed"
               q == Answer(s, a)
    <3>1. a \in Answers /\ a # "pending" /\ old.kind = "status"
      BY <2>2 DEF Answers, ServeStatus, Awaited
    <3>2. tasks' = [tasks EXCEPT ![s] = q]
      BY <2>1, <2>2 DEF ServeStatus
    <3> HIDE DEF a
    <3>3. /\ q \in Request /\ q.stage = "answered" /\ q.answer = a
          /\ q.kind = old.kind /\ q.cookie = old.cookie
          /\ q.here = old.here /\ q.old = old.old /\ q.made = old.made
      BY <1>1, <3>1, AnswerFacts
    <3> HIDE DEF q
    <3>4. Replied(s, q)
      BY <1>1, <1>4, <3>1, <3>2, <3>3 DEF Replied, Answered, Forms
    <3> QED BY <3>4, ServeServer
  <2>3. CASE ServeSignIn(s)
    <3>1. old.kind \in Forms
      BY <2>3 DEF ServeSignIn, Awaited, Forms
    <3>2. ASSUME NEW i \in Sessions \ issued, issued' = issued \cup {i},
                 Reply(s, [Answer(s, "ok") EXCEPT !.session = i])
          PROVE  \E q : Replied(s, q)
      <4> DEFINE q == [Answer(s, "ok") EXCEPT !.session = i]
      <4>1. /\ q \in Request /\ q.stage = "answered" /\ q.answer = "ok" /\ q.session = i
            /\ q.kind = old.kind /\ q.cookie = old.cookie
            /\ q.here = old.here /\ q.old = old.old /\ q.made = old.made
        BY <1>2, <3>2 DEF Answer, Request, Answers
      <4>2. tasks' = [tasks EXCEPT ![s] = q]
        BY <2>1, <3>2
      <4> HIDE DEF q
      <4>3. Replied(s, q)
        BY <1>1, <1>4, <3>1, <3>2, <4>1, <4>2 DEF Replied, Answered, Forms
      <4> QED BY <4>3
    <3>3. ASSUME Reply(s, Answer(s, "error"))
          PROVE  \E q : Replied(s, q)
      <4> DEFINE q == Answer(s, "error")
      <4>1. "error" \in Answers
        BY DEF Answers
      <4>2. /\ q \in Request /\ q.stage = "answered" /\ q.answer = "error"
            /\ q.kind = old.kind /\ q.cookie = old.cookie
            /\ q.here = old.here /\ q.old = old.old /\ q.made = old.made
        BY <1>1, <4>1, AnswerFacts
      <4>3. tasks' = [tasks EXCEPT ![s] = q]
        BY <2>1, <3>3
      <4> HIDE DEF q
      <4>4. Replied(s, q)
        BY <1>1, <1>4, <4>2, <4>3 DEF Replied, Answered
      <4> QED BY <4>4
    <3> QED BY <2>3, <3>2, <3>3, ServeServer DEF ServeSignIn
  <2>4. CASE RefuseSession(s)
    <3> DEFINE q == Answer(s, "unauthorized")
    <3>1. "unauthorized" \in Answers
      BY DEF Answers
    <3>2. /\ q \in Request /\ q.stage = "answered" /\ q.answer = "unauthorized"
          /\ q.kind = old.kind /\ q.cookie = old.cookie
          /\ q.here = old.here /\ q.old = old.old /\ q.made = old.made
      BY <1>1, <3>1, AnswerFacts
    <3>3. tasks' = [tasks EXCEPT ![s] = q]
      BY <2>1, <2>4 DEF RefuseSession
    <3> HIDE DEF q
    <3>4. Replied(s, q)
      BY <1>1, <1>4, <3>2, <3>3 DEF Replied, Answered
    <3> QED BY <3>4, ServeServer
  <2>5. CASE ServeAuthenticated(s)
    <3> DEFINE change == old.kind \in {"register", "revoke"}
               q == [Answer(s, "ok") EXCEPT !.seen = roster',
                                            !.made = IF change THEN roster' ELSE @,
                                            !.session = old.cookie]
    <3>1. /\ old.kind \notin Forms /\ old.kind # "status"
          /\ old.cookie \in live /\ old.cookie \in Sessions /\ roster' \in Nat
      BY <2>5 DEF ServeAuthenticated, Awaited, Forms, TypeOK
    <3>2. tasks' = [tasks EXCEPT ![s] = q]
      BY <2>1, <2>5 DEF ServeAuthenticated
    <3>3. /\ q \in Request /\ q.stage = "answered" /\ q.answer = "ok"
          /\ q.session = old.cookie /\ q.seen = roster'
          /\ q.kind = old.kind /\ q.cookie = old.cookie
          /\ q.here = old.here /\ q.old = old.old
          /\ q.made = old.made \/ q.made = roster'
      BY <1>2, <3>1 DEF Answer, Request, Answers
    <3> HIDE DEF q, change
    <3>4. Replied(s, q)
      BY <1>1, <1>4, <3>1, <3>2, <3>3 DEF Replied, Answered
    <3> QED BY <3>4, ServeServer
  <2> QED BY <2>2, <2>3, <2>4, <2>5 DEF Serve
<1> QED BY <1>1, <1>3, <1>4

LEMMA ServeSessions ==
  ASSUME TypeOK, SessionInv, NEW s \in Slots, Serve(s)
  PROVE  SessionInv'
<1>1. PICK q : Replied(s, q)
  BY ServeReplies
<1>2. /\ issued \subseteq issued' /\ issued' \subseteq Sessions
      /\ cookie' = cookie /\ left' = left
      /\ phase' = phase /\ shown' = shown /\ revived' = revived
  BY ServeReplies DEF ServerStep, Serve
<1>3. /\ tasks'[s] = q /\ tasks[s] # None
      /\ \A t \in Slots \ {s} : tasks'[t] = tasks[t]
  BY <1>1 DEF Replied, TypeOK
<1>4. CookieInv' /\ ShellInv'
  BY <1>2 DEF SessionInv, CookieInv, ShellInv
<1>5. RequestInv'
  <2> SUFFICES ASSUME NEW t \in Slots, tasks'[t] # None
               PROVE  /\ tasks'[t].cookie \in issued' \cup {None}
                      /\ ~tasks'[t].old => tasks'[t].cookie \notin left
                      /\ Answered(tasks'[t]) =>
                           /\ tasks'[t].answer # "pending"
                           /\ tasks'[t].answer = "unclaimed" => tasks'[t].kind = "status"
                           /\ tasks'[t].answer = "ok" /\ tasks'[t].kind = "session" =>
                                tasks'[t].session = tasks'[t].cookie /\ tasks'[t].session # None
    BY <1>2 DEF RequestInv, Answered
  <2>1. CASE t = s
    BY <1>1, <1>2, <1>3, <2>1, WebAssumption DEF Replied, SessionInv, RequestInv
  <2>2. CASE t # s
    BY <1>2, <1>3, <2>2 DEF SessionInv, RequestInv
  <2> QED BY <2>1, <2>2
<1>6. \A t \in Slots : tasks'[t] # None => tasks[t] # None /\ tasks'[t].cookie = tasks[t].cookie
  BY <1>1, <1>3 DEF Replied
<1>7. \A t \in Slots : tasks[t] # None => tasks[t].cookie \in issued \cup {None}
  BY DEF SessionInv, RequestInv
<1>8. ASSUME NEW t \in Slots, Granted(tasks'[t])
      PROVE  IF t = s THEN tasks'[t].session \in issued' \ issued
             ELSE Granted(tasks[t]) /\ tasks'[t] = tasks[t] /\ tasks[t].session \in issued
  BY <1>1, <1>3, <1>8 DEF Granted, Replied, SessionInv, GrantInv
<1>9. GrantInv'
  <2> SUFFICES ASSUME NEW t \in Slots, Granted(tasks'[t])
               PROVE  /\ tasks'[t].session \in issued' /\ tasks'[t].session \notin left
                      /\ tasks'[t].session # cookie
                      /\ \A u \in Slots : tasks'[u] # None =>
                           tasks'[u].cookie # tasks'[t].session
                      /\ \A u \in Slots \ {t} : Granted(tasks'[u]) =>
                           tasks'[u].session # tasks'[t].session
    BY <1>2 DEF GrantInv, Granted
  <2>1. CASE t = s
    BY <1>2, <1>6, <1>7, <1>8, <2>1, WebAssumption DEF SessionInv, CookieInv
  <2>2. CASE t # s
    <3>1. Granted(tasks[t]) /\ tasks'[t] = tasks[t] /\ tasks[t].session \in issued
      BY <1>8, <2>2
    <3>2. /\ tasks[t].session \notin left /\ tasks[t].session # cookie
          /\ \A u \in Slots : tasks[u] # None => tasks[u].cookie # tasks[t].session
          /\ \A u \in Slots \ {t} : Granted(tasks[u]) => tasks[u].session # tasks[t].session
      BY <3>1 DEF SessionInv, GrantInv
    <3>3. ASSUME NEW u \in Slots \ {t}, Granted(tasks'[u])
          PROVE  tasks'[u].session # tasks[t].session
      BY <1>8, <3>1, <3>2, <3>3
    <3> QED BY <1>2, <1>6, <3>1, <3>2, <3>3
  <2> QED BY <2>1, <2>2
<1>10. ReadingInv'
  <2>1. ASSUME NEW t \in Slots, tasks'[t] # None, tasks'[t].stage = "reading"
        PROVE  tasks'[t] = tasks[t]
    BY <1>1, <1>3, <2>1 DEF Replied
  <2> QED BY <1>2, <2>1 DEF SessionInv, ReadingInv
<1> QED BY <1>4, <1>5, <1>9, <1>10 DEF SessionInv

LEMMA IdleSessions ==
  ASSUME SessionInv, Expire \/ UNCHANGED vars
  PROVE  SessionInv'
<1>1. UNCHANGED <<issued, cookie, tasks, phase, shown, left, revived>>
  BY DEF Expire, vars
<1> QED BY <1>1 DEF SessionInv, RequestInv, ReadingInv, GrantInv, CookieInv, ShellInv,
                    Granted, Answered

-----------------------------------------------------------------------------
(* The list of devices changes no more often than the user acts.           *)

Unserved == {s \in Slots : /\ tasks[s] # None /\ tasks[s].kind \in Changes
                           /\ ~Answered(tasks[s])}

Counted == roster + Cardinality(Unserved) <= acts

LEMMA UnservedFinite == IsFiniteSet(Unserved) /\ Cardinality(Unserved) \in Nat
<1>1. IsFiniteSet(Unserved)
  BY WebAssumption, FS_Subset DEF Unserved
<1> QED BY <1>1, FS_CardinalityType

LEMMA UnservedFinitePrime == IsFiniteSet(Unserved') /\ Cardinality(Unserved') \in Nat
<1>1. IsFiniteSet(Unserved')
  BY WebAssumption, FS_Subset DEF Unserved
<1> QED BY <1>1, FS_CardinalityType

LEMMA BrowserCounted ==
  ASSUME NEW kinds, BrowserMove(kinds), kinds \cap Changes = {}
  PROVE  Unserved' \subseteq Unserved
  BY DEF BrowserMove, MovesTo, Kept, New, Unserved, Answered

LEMMA StepCounted ==
  ASSUME TypeOK, Counted, [Next]_vars
  PROVE  Counted'
<1>1. roster \in Nat /\ acts \in Nat
  BY WebAssumption DEF TypeOK
<1>2. ASSUME Unserved' \subseteq Unserved, roster' = roster, acts' \in {acts, acts + 1}
      PROVE  Counted'
  <2>1. Cardinality(Unserved') <= Cardinality(Unserved)
    BY <1>2, UnservedFinite, FS_Subset
  <2> QED BY <1>1, <1>2, <2>1, UnservedFinite, UnservedFinitePrime DEF Counted
<1>3. CASE UNCHANGED vars \/ Expire
  <2>1. Unserved' = Unserved /\ roster' = roster /\ acts' = acts
    BY <1>3 DEF vars, Expire, Unserved, Answered
  <2> QED BY <1>2, <2>1
<1>4. CASE Navigate
  <2>1. BrowserMove({"load"}) /\ roster' = roster /\ acts' = acts + 1
    BY <1>4, NavigateMoves DEF Navigate, Act, server
  <2>2. Unserved' \subseteq Unserved
    BY <2>1, BrowserCounted DEF Changes
  <2> QED BY <1>2, <2>1, <2>2
<1>5. CASE TryAgain \/ Submit \/ SignOut \/ Change
  <2>1. PICK kind \in Kinds : Starts(kind)
    BY <1>5, UserStarts
  <2>2. roster' = roster /\ acts' = acts + 1
    BY <1>5, UserStarts DEF server
  <2>3. Unserved' \subseteq Unserved \cup {SlotIn(tasks)}
    BY <2>1, StartsFacts DEF Unserved
  <2>4. Cardinality(Unserved') <= Cardinality(Unserved) + 1
    <3> DEFINE U == Unserved \cup {SlotIn(tasks)}
    <3>1. IsFiniteSet(U) /\ Cardinality(U) \in Nat /\ Cardinality(U) <= Cardinality(Unserved) + 1
      BY UnservedFinite, FS_AddElement, FS_CardinalityType
    <3>2. Cardinality(Unserved') <= Cardinality(U)
      BY <2>3, <3>1, FS_Subset
    <3> HIDE DEF U
    <3> QED BY <3>1, <3>2, UnservedFinite, UnservedFinitePrime
  <2> QED BY <1>1, <2>2, <2>4, UnservedFinite, UnservedFinitePrime DEF Counted
<1>6. ASSUME NEW s \in Slots, Deliver(s) \/ ReadBody(s) \/ Abandon(s)
      PROVE  Counted'
  <2>1. BrowserMove(Followups) /\ roster' = roster /\ acts' = acts
    BY <1>6, DeliverRest, BodyRest, AbandonRest, FinishMoves DEF server
  <2>2. Unserved' \subseteq Unserved
    BY <2>1, BrowserCounted DEF Followups, Changes
  <2> QED BY <1>2, <2>1, <2>2
<1>7. ASSUME NEW s \in Slots, Serve(s)
      PROVE  Counted'
  <2>1. PICK q : Replied(s, q)
    BY <1>7, ServeReplies
  <2>2. acts' = acts /\ (roster' = roster \/ (roster' = roster + 1 /\ tasks[s].kind \in Changes))
    <3>1. ServerStep(s)
      BY <1>7, ServeServer
    <3>2. roster' = roster \/ (roster' = roster + 1 /\ tasks[s].kind \in Changes)
      BY <3>1 DEF ServerStep
    <3>3. acts' = acts
      BY <1>7 DEF Serve
    <3> QED BY <3>2, <3>3
  <2>3. Unserved' \subseteq Unserved \ {s}
    BY <2>1 DEF Replied, Unserved, TypeOK, Answered
  <2>4. CASE roster' = roster
    BY <1>2, <2>2, <2>3, <2>4
  <2>5. CASE roster' = roster + 1 /\ tasks[s].kind \in Changes
    <3>1. s \in Unserved
      BY <2>1, <2>5 DEF Replied, Unserved
    <3>2. /\ IsFiniteSet(Unserved \ {s})
          /\ Cardinality(Unserved \ {s}) = Cardinality(Unserved) - 1
      BY <3>1, UnservedFinite, FS_RemoveElement
    <3>3. Cardinality(Unserved') <= Cardinality(Unserved \ {s})
      BY <2>3, <3>2, FS_Subset
    <3> QED BY <1>1, <2>2, <2>5, <3>2, <3>3, UnservedFinite, UnservedFinitePrime DEF Counted
  <2> QED BY <2>2, <2>4, <2>5
<1>8. ASSUME NEW s \in Slots, ReceiveHeaders(s)
      PROVE  Counted'
  <2>1. Unserved' \subseteq Unserved /\ roster' = roster /\ acts' = acts
    BY <1>8, HeadersFacts DEF Unserved, Answered
  <2> QED BY <1>2, <2>1
<1> QED BY <1>3, <1>4, <1>5, <1>6, <1>7, <1>8 DEF Next

-----------------------------------------------------------------------------
(* Types, and the first theorem.                                           *)

WebInv == TypeOK /\ Counted /\ SessionInv

LEMMA BrowserTypes ==
  ASSUME TypeOK, Counted', ShellTypes', NEW kinds, BrowserMove(kinds),
         UNCHANGED <<claimed, issued, live, roster>>, cookie' \in Sessions \cup {None},
         acts' \in 0..MaxActs, faults' \in 0..MaxFaults
  PROVE  TypeOK'
  BY DEF TypeOK, ShellTypes, BrowserMove, TaskTable

LEMMA StepTypes ==
  ASSUME WebInv, Counted', [Next]_vars
  PROVE  TypeOK'
<1>1. TypeOK /\ SessionInv /\ Counted /\ ShellTypes
  BY DEF WebInv, TypeOK, ShellTypes
<1>2. acts \in 0..MaxActs /\ faults \in 0..MaxFaults /\ cookie \in Sessions \cup {None}
  BY <1>1 DEF TypeOK
<1>3. CASE UNCHANGED vars
  BY <1>1, <1>3 DEF vars, TypeOK
<1>4. CASE Expire
  BY <1>1, <1>4, WebAssumption DEF Expire, TypeOK
<1>5. CASE TryAgain \/ Submit \/ SignOut \/ Change
  <2>1. PICK kind \in Kinds : Starts(kind)
    BY <1>5, UserStarts
  <2>2. /\ UNCHANGED <<claimed, issued, live, roster, left, revived, faults>>
        /\ acts' \in 0..MaxActs
    BY <1>2, <1>5, UserStarts, WebAssumption DEF server
  <2>3. busy' \in BOOLEAN /\ signingOut' \in BOOLEAN
    BY <1>1, <1>5, StayFacts DEF TryAgain, Submit, SignOut, Change, ShellTypes
  <2>4. ShellTypes'
    BY <1>1, <2>1, <2>2, <2>3 DEF ShellTypes, Starts
  <2>5. BrowserMove({kind, "load"}) /\ cookie' = cookie
    BY <1>1, <2>1, StartsFacts DEF Starts
  <2> QED BY <1>1, <1>2, <2>2, <2>4, <2>5, BrowserTypes
<1>6. CASE Navigate
  <2>1. PICK r \in Routes : Show(phase, r, tasks, busy, page)
    BY <1>6 DEF Navigate
  <2>2. /\ UNCHANGED <<claimed, issued, live, roster, cookie, left, revived, faults>>
        /\ UNCHANGED <<shown, signingOut>> /\ acts' \in 0..MaxActs
    BY <1>2, <1>6, WebAssumption DEF Navigate, Act, server
  <2>3. /\ phase' = phase /\ route' \in Routes /\ busy' \in BOOLEAN /\ page' \in Page
    BY <1>1, <2>1, ShowTypes DEF ShellTypes
  <2>4. ShellTypes'
    BY <1>1, <2>2, <2>3 DEF ShellTypes
  <2>5. BrowserMove({"load"})
    BY <1>1, <1>6, NavigateMoves
  <2> QED BY <1>1, <1>2, <2>2, <2>4, <2>5, BrowserTypes
<1>7. ASSUME NEW s \in Slots, Deliver(s)
      PROVE  TypeOK'
  <2> DEFINE ts == [tasks EXCEPT ![s] = None]
  <2>1. /\ tasks[s] # None /\ tasks[s].stage = "answered" /\ cookie' \in Sessions \cup {None}
        /\ Rest(s, ts) /\ Finish(s, tasks[s].answer, ts)
        /\ UNCHANGED <<claimed, issued, live, roster, acts, faults>>
    BY <1>1, <1>7, DeliverRest DEF server
  <2> HIDE DEF ts
  <2>2. tasks[s].answer = "ok" /\ tasks[s].kind \in Forms \cup {"session"} =>
          tasks[s].session \in Sessions
    <3>1. CASE tasks[s].answer = "ok" /\ tasks[s].kind = "session"
      BY <1>1, <2>1, <3>1, WebAssumption DEF SessionInv, RequestInv, TypeOK, Answered
    <3>2. CASE tasks[s].answer = "ok" /\ tasks[s].kind \in Forms
      BY <1>1, <2>1, <3>2 DEF SessionInv, GrantInv, Granted, TypeOK
    <3> QED BY <3>1, <3>2
  <2>3. BrowserMove(Followups)
    BY <1>1, <2>1, FinishMoves
  <2>4. ShellTypes'
    BY <1>1, <2>1, <2>2, FinishTypes
  <2> QED BY <1>1, <1>2, <2>1, <2>3, <2>4, BrowserTypes
<1>8. ASSUME NEW s \in Slots, Abandon(s)
      PROVE  TypeOK'
  <2> DEFINE ts == [tasks EXCEPT ![s].stage = "abandoned"]
  <2>1. /\ tasks[s] # None /\ cookie' \in Sessions \cup {None}
        /\ Rest(s, ts) /\ Finish(s, "error", ts)
        /\ UNCHANGED <<claimed, issued, live, roster, acts>>
        /\ faults < MaxFaults /\ faults' = faults + 1
    BY <1>1, <1>8, AbandonRest DEF server
  <2> HIDE DEF ts
  <2>2. BrowserMove(Followups)
    BY <1>1, <2>1, FinishMoves
  <2>3. ShellTypes'
    BY <1>1, <2>1, FinishTypes
  <2>4. faults' \in 0..MaxFaults
    BY <1>2, <2>1, WebAssumption
  <2> QED BY <1>1, <1>2, <2>1, <2>2, <2>3, <2>4, BrowserTypes
<1>9. ASSUME NEW s \in Slots, Serve(s)
      PROVE  TypeOK'
  <2>1. PICK q : Replied(s, q)
    BY <1>1, <1>9, ServeReplies
  <2>2. ServerStep(s)
    BY <1>1, <1>9, ServeServer
  <2>3. /\ UNCHANGED <<cookie, phase, shown, route, busy, signingOut, page, left, revived>>
        /\ UNCHANGED <<acts, faults>>
    BY <1>9 DEF Serve
  <2>4. tasks' \in [Slots -> Request \cup {None}]
    BY <1>1, <2>1 DEF Replied, TypeOK
  <2>5. roster' \in 0..MaxActs
    <3>1. roster' \in Nat
      BY <1>1, <2>2, WebAssumption DEF ServerStep, TypeOK
    <3>2. roster' <= acts'
      BY <1>2, <2>3, <3>1, UnservedFinitePrime DEF Counted
    <3> QED BY <1>2, <2>3, <3>1, <3>2, WebAssumption
  <2> QED BY <1>1, <2>2, <2>3, <2>4, <2>5 DEF TypeOK, ServerStep
<1>10. ASSUME NEW s \in Slots, ReadBody(s)
      PROVE  TypeOK'
  <2> DEFINE ts == [tasks EXCEPT ![s] = None]
  <2>1. /\ tasks[s] # None /\ tasks[s].stage = "reading" /\ cookie' \in Sessions \cup {None}
        /\ Rest(s, ts) /\ UNCHANGED <<claimed, issued, live, roster, acts, faults>>
    BY <1>1, <1>10, BodyRest DEF server
  <2>2. PICK a \in {tasks[s].answer, "error"} : Finish(s, a, ts)
    BY <1>1, <1>10, BodyRest
  <2> HIDE DEF ts
  <2>3. a = "ok" /\ tasks[s].kind \in Forms \cup {"session"} => tasks[s].session \in Sessions
    <3>1. CASE a = "ok" /\ tasks[s].kind = "session"
      BY <1>1, <2>1, <2>2, <3>1, WebAssumption DEF SessionInv, RequestInv, TypeOK, Answered
    <3>2. CASE a = "ok" /\ tasks[s].kind \in Forms
      BY <1>1, <2>1, <2>2, <3>2 DEF SessionInv, ReadingInv, TypeOK
    <3> QED BY <3>1, <3>2
  <2>4. BrowserMove(Followups)
    BY <1>1, <2>1, <2>2, FinishMoves
  <2>5. ShellTypes'
    BY <1>1, <2>1, <2>2, <2>3, FinishTypes
  <2> QED BY <1>1, <1>2, <2>1, <2>4, <2>5, BrowserTypes
<1>11. ASSUME NEW s \in Slots, ReceiveHeaders(s)
      PROVE  TypeOK'
  BY <1>1, <1>11, HeadersFacts DEF TypeOK, TaskTable
<1> QED BY <1>3, <1>4, <1>5, <1>6, <1>7, <1>8, <1>9, <1>10, <1>11 DEF Next

LEMMA InitWeb == Init => WebInv
<1> SUFFICES ASSUME Init
             PROVE  WebInv
  OBVIOUS
<1> DEFINE none == [s \in Slots |-> None]
           q == NewRequest("status", cookie)
<1>1. cookie \in Sessions \cup {None} /\ cookie \in issued \cup {None} /\ issued \subseteq Sessions
  BY DEF Init
<1>2. /\ q \in Request /\ q.stage = "sent" /\ q.cookie = cookie /\ q.kind = "status"
  BY <1>1 DEF NewRequest, Request, Kinds, Answers
<1>3. tasks = Send(none, q)
  BY DEF Init
<1> HIDE DEF q
<1>4. tasks \in TaskTable /\ \A s \in Slots : tasks[s] = None \/ tasks[s] = q
  BY <1>2, <1>3 DEF Send, TaskTable
<1>5. BlankPage \in Page
  BY DEF BlankPage, Page
<1>6. TypeOK
  <2>1. claimed \in BOOLEAN /\ live \subseteq issued
    BY DEF Init
  <2>2. /\ phase \in Phases /\ route \in Routes /\ shown = None /\ phase # "signed-in"
        /\ roster \in 0..MaxActs /\ acts \in 0..MaxActs /\ faults \in 0..MaxFaults
    BY WebAssumption DEF Init, Phases
  <2>3. /\ busy \in BOOLEAN /\ signingOut \in BOOLEAN /\ revived \in BOOLEAN
        /\ left \subseteq Sessions /\ page \in Page
    BY <1>5 DEF Init
  <2> QED BY <1>1, <1>4, <2>1, <2>2, <2>3 DEF TypeOK, TaskTable
<1>7. Counted
  <2>1. Unserved = {}
    BY <1>2, <1>4 DEF Unserved, Changes
  <2> QED BY <2>1, FS_EmptySet DEF Counted, Init
<1>8. SessionInv
  BY <1>1, <1>2, <1>4 DEF Init, SessionInv, RequestInv, ReadingInv, GrantInv, Granted,
                          CookieInv, ShellInv, Answered
<1> QED BY <1>6, <1>7, <1>8 DEF WebInv

LEMMA StepWeb ==
  ASSUME WebInv, [Next]_vars
  PROVE  WebInv'
<1>1. TypeOK /\ Counted /\ SessionInv
  BY DEF WebInv
<1>2. Counted'
  BY <1>1, StepCounted
<1>3. TypeOK'
  BY <1>2, StepTypes
<1>4. SessionInv'
  BY <1>1, DeliverSessions, HeadersSessions, BodySessions, AbandonSessions, UserSessions,
     ServeSessions, IdleSessions DEF Next
<1> QED BY <1>2, <1>3, <1>4 DEF WebInv

(* A cookie, a grant and what the shell shows stay in step with the        *)
(* requests under way, and the server has made no more changes than the    *)
(* user asked for, in every state that a tab and its server can reach.     *)
THEOREM WebInvariance == Spec => []WebInv
  BY InitWeb, StepWeb, PTL DEF Spec

(* Having signed out, a user is not shown as signed in to that session     *)
(* again, except by a refresh, or a sign-in whose body was late, that was  *)
(* under way at the sign-out: however many requests overlap, and in        *)
(* whatever order they are answered.                                       *)
THEOREM WebSignedOutShellStays == Spec => []SignedOutShellStays
<1>1. WebInv => SignedOutShellStays
  BY DEF WebInv, SessionInv, ShellInv, SignedOutShellStays
<1> QED BY <1>1, WebInvariance, PTL

-----------------------------------------------------------------------------
(* The invariant about the device page.                                    *)

OnScreen(r) == r # None /\ r.here

\* Requests whose answer a component on screen will use.
Awaiting(r, kinds) == OnScreen(r) /\ r.kind \in kinds /\ r.stage # "abandoned"

\* A request on screen belongs to the view.
ScreenInv ==
  \A s \in Slots : OnScreen(tasks[s]) =>
    /\ tasks[s].kind \in PageKinds => View(phase, route) = "devices"
    /\ tasks[s].kind \in Forms => View(phase, route) # "devices"

\* One change at a time, with its reload.
WorkInv ==
  \A s \in Slots : Awaiting(tasks[s], Working) =>
    busy /\ \A t \in Slots \ {s} : ~Awaiting(tasks[t], Working)

MadeInv == \A s \in Slots : tasks[s] # None => tasks[s].made <= roster

\* Answers on their way are as new as what has been confirmed.
VersionInv ==
  /\ page.confirmed <= roster
  /\ \A s \in Slots : Awaiting(tasks[s], {"load"}) /\ ~page.overlap => page.confirmed = 0
  /\ \A s \in Slots : /\ Awaiting(tasks[s], {"reload"})
                      /\ Answered(tasks[s]) /\ tasks[s].answer = "ok"
                      => tasks[s].seen >= page.confirmed

ListInv ==
  View(phase, route) = "devices" /\ ~page.loading /\ ~page.error /\ ~page.overlap
    => page.list \in Nat /\ page.list >= page.confirmed

PageInv == ScreenInv /\ WorkInv /\ MadeInv /\ VersionInv /\ ListInv

LEMMA BrowserMade ==
  ASSUME TypeOK, MadeInv, NEW kinds, BrowserMove(kinds), roster' = roster
  PROVE  MadeInv'
<1> SUFFICES ASSUME NEW t \in Slots, tasks'[t] # None
             PROVE  tasks'[t].made <= roster
  BY DEF MadeInv
<1>1. CASE Kept(tasks[t], tasks'[t])
  BY <1>1 DEF Kept, MadeInv
<1>2. CASE New(tasks'[t])
  BY <1>2 DEF New, MadeInv, TypeOK
<1> QED BY <1>1, <1>2 DEF BrowserMove, MovesTo

\* A new view: nothing of the old one is on screen.
LEMMA Remounted ==
  ASSUME TypeOK, MadeInv', roster' = roster,
         NEW p, NEW r, NEW ts \in TaskTable, NEW b, NEW pg, Show(p, r, ts, b, pg),
         cookie' \in Sessions \cup {None}, View(p, r) # View(phase, route)
  PROVE  PageInv'
<1>1. /\ phase' = p /\ route' = r /\ page' = BlankPage
      /\ \A t \in Slots :
           \/ ts[t] = None /\ tasks'[t] = None
           \/ ts[t] # None /\ tasks'[t] = [ts[t] EXCEPT !.here = FALSE]
           \/ /\ ts[t] = None /\ tasks'[t] = NewRequest("load", cookie')
              /\ View(p, r) = "devices"
  BY ShowFacts
<1>2. ASSUME NEW t \in Slots, OnScreen(tasks'[t])
      PROVE  View(p, r) = "devices" /\ tasks'[t].kind = "load"
  <2>1. CASE ts[t] # None /\ tasks'[t] = [ts[t] EXCEPT !.here = FALSE]
    <3>1. ts[t] \in Request
      BY <2>1 DEF TaskTable
    <3>2. ~tasks'[t].here
      BY <2>1, <3>1, HereFacts
    <3> QED BY <1>2, <3>2 DEF OnScreen
  <2>2. CASE tasks'[t] = NewRequest("load", cookie') /\ View(p, r) = "devices"
    BY <2>2 DEF NewRequest
  <2>3. CASE tasks'[t] = None
    BY <1>2, <2>3 DEF OnScreen
  <2> QED BY <1>1, <2>1, <2>2, <2>3
<1>3. page'.confirmed = 0 /\ page'.loading /\ roster \in Nat
  BY <1>1, WebAssumption DEF BlankPage, TypeOK
<1>4. ScreenInv'
  <2> SUFFICES ASSUME NEW t \in Slots, OnScreen(tasks'[t])
               PROVE  /\ tasks'[t].kind \in PageKinds => View(phase', route') = "devices"
                      /\ tasks'[t].kind \in Forms => View(phase', route') # "devices"
    BY DEF ScreenInv, OnScreen, View
  <2> QED BY <1>1, <1>2 DEF Forms
<1>5. WorkInv'
  BY <1>2 DEF WorkInv, Awaiting, OnScreen, Working
<1>6. VersionInv'
  BY <1>2, <1>3 DEF VersionInv, Awaiting, OnScreen
<1>7. ListInv'
  BY <1>3 DEF ListInv
<1> QED BY <1>4, <1>5, <1>6, <1>7 DEF PageInv

\* The same view: the requests that matter to it are kept.
LEMMA GoesOn ==
  ASSUME TypeOK, PageInv, MadeInv', roster' = roster, ListInv',
         View(phase', route') = View(phase, route),
         page'.confirmed = page.confirmed, page'.overlap = page.overlap,
         \A t \in Slots : OnScreen(tasks'[t]) /\ tasks'[t].kind \in PageKinds \cup Forms =>
           Kept(tasks[t], tasks'[t]),
         \A t \in Slots : Awaiting(tasks'[t], Working) => busy'
  PROVE  PageInv'
<1>1. ASSUME NEW t \in Slots, OnScreen(tasks'[t]), tasks'[t].kind \in PageKinds \cup Forms
      PROVE  /\ Kept(tasks[t], tasks'[t]) /\ OnScreen(tasks[t])
             /\ tasks[t].kind = tasks'[t].kind
             /\ tasks'[t].stage # "abandoned" => tasks'[t].stage = tasks[t].stage
  BY <1>1 DEF Kept, OnScreen
<1>2. ASSUME NEW t \in Slots, NEW kinds, Awaiting(tasks'[t], kinds), kinds \subseteq PageKinds
      PROVE  Awaiting(tasks[t], kinds)
  BY <1>1, <1>2 DEF Awaiting
<1>3. ScreenInv'
  <2> SUFFICES ASSUME NEW t \in Slots, OnScreen(tasks'[t])
               PROVE  /\ tasks'[t].kind \in PageKinds => View(phase', route') = "devices"
                      /\ tasks'[t].kind \in Forms => View(phase', route') # "devices"
    BY DEF ScreenInv, OnScreen, View
  <2> QED BY <1>1 DEF PageInv, ScreenInv
<1>4. WorkInv'
  <2> SUFFICES ASSUME NEW s \in Slots, Awaiting(tasks'[s], Working)
               PROVE  busy' /\ \A t \in Slots \ {s} : ~Awaiting(tasks'[t], Working)
    BY DEF WorkInv, Awaiting, OnScreen
  <2>1. Awaiting(tasks[s], Working)
    BY <1>2 DEF PageKinds
  <2>2. ASSUME NEW t \in Slots \ {s}, Awaiting(tasks'[t], Working)
        PROVE  FALSE
    BY <1>2, <2>1, <2>2 DEF PageKinds, PageInv, WorkInv
  <2> QED BY <2>2
<1>5. VersionInv'
  <2>1. page'.confirmed <= roster'
    BY DEF PageInv, VersionInv
  <2>2. ASSUME NEW t \in Slots, Awaiting(tasks'[t], {"load"}), ~page'.overlap
        PROVE  page'.confirmed = 0
    BY <1>2, <2>2 DEF PageKinds, PageInv, VersionInv
  <2>3. ASSUME NEW t \in Slots, Awaiting(tasks'[t], {"reload"}),
               Answered(tasks'[t]), tasks'[t].answer = "ok"
        PROVE  tasks'[t].seen >= page'.confirmed
    <3>1. Awaiting(tasks[t], {"reload"})
      BY <1>2, <2>3 DEF PageKinds, Working
    <3>2. Kept(tasks[t], tasks'[t]) /\ tasks'[t].stage = tasks[t].stage
      BY <1>1, <2>3 DEF Awaiting, PageKinds, Working, Answered
    <3> QED BY <2>3, <3>1, <3>2 DEF Kept, PageInv, VersionInv, Answered
  <2> QED BY <2>1, <2>2, <2>3 DEF VersionInv, Awaiting, OnScreen, Answered
<1> QED BY <1>3, <1>4, <1>5 DEF PageInv

LEMMA ShowPage ==
  ASSUME TypeOK, PageInv, MadeInv', roster' = roster, cookie' \in Sessions \cup {None},
         NEW p, NEW r, NEW ts \in TaskTable, NEW b, NEW pg, Show(p, r, ts, b, pg),
         pg.confirmed = page.confirmed, pg.overlap = page.overlap,
         \A t \in Slots : OnScreen(ts[t]) /\ ts[t].kind \in PageKinds \cup Forms =>
           Kept(tasks[t], ts[t]),
         \A t \in Slots : Awaiting(ts[t], Working) => b,
         /\ View(p, r) = "devices" /\ View(phase, route) = "devices"
         /\ ~pg.loading /\ ~pg.error /\ ~pg.overlap
         => pg.list \in Nat /\ pg.list >= pg.confirmed
  PROVE  PageInv'
<1>1. CASE View(p, r) # View(phase, route)
  BY <1>1, Remounted
<1>2. CASE View(p, r) = View(phase, route)
  <2>1. phase' = p /\ route' = r /\ tasks' = ts /\ busy' = b /\ page' = pg
    BY <1>2, Zenon DEF Show
  <2>2. ListInv'
    <3> SUFFICES ASSUME View(phase', route') = "devices",
                        ~page'.loading, ~page'.error, ~page'.overlap
                 PROVE  page'.list \in Nat /\ page'.list >= page'.confirmed
      BY DEF ListInv, View
    <3> QED BY <1>2, <2>1
  <2> QED BY <1>2, <2>1, <2>2, GoesOn
<1> QED BY <1>1, <1>2

\* How a continuation may end, and what it is told.
Ends(s, a) ==
  /\ tasks[s] # None /\ tasks[s].stage # "abandoned"
  /\ a \in Answers \ {"pending"}
  /\ a = "unclaimed" => tasks[s].kind = "status"
  /\ a = "ok" => Answered(tasks[s]) /\ tasks[s].answer = "ok"

\* The slot of the continuation no longer waits.
LEMMA RestAwaits ==
  ASSUME TypeOK, NEW s \in Slots, tasks[s] # None, NEW ts, Rest(s, ts), NEW kinds,
         NEW t \in Slots, Awaiting(ts[t], kinds)
  PROVE  t # s /\ ts[t] = tasks[t] /\ Awaiting(tasks[t], kinds)
<1>1. CASE t = s
  <2>1. /\ tasks[s] \in Request /\ ts[s] # None
        /\ ts[s] = [tasks[s] EXCEPT !.stage = "abandoned"]
    BY <1>1 DEF Awaiting, OnScreen, Rest, TypeOK
  <2>2. ts[s].stage = "abandoned"
    BY <2>1, AbandonedFacts
  <2> QED BY <1>1, <2>2 DEF Awaiting
<1>2. CASE t # s
  BY <1>2 DEF Rest, Awaiting
<1> QED BY <1>1, <1>2

LEMMA PageFields ==
  ASSUME page \in Page
  PROVE  /\ \A r, a : LET l == Loaded(r, a)
                      IN  /\ l.confirmed = page.confirmed /\ l.overlap = page.overlap
                          /\ a = "ok" => l.list = r.seen
                          /\ a = "error" => l.error
         /\ \A e : LET l == [page EXCEPT !.error = @ \/ e]
                   IN  /\ l.confirmed = page.confirmed /\ l.overlap = page.overlap
                       /\ l.list = page.list /\ l.loading = page.loading
                       /\ ~l.error => ~page.error
<1>1. ASSUME NEW r, NEW a
      PROVE  LET l == Loaded(r, a)
             IN  /\ l.confirmed = page.confirmed /\ l.overlap = page.overlap
                 /\ a = "ok" => l.list = r.seen
                 /\ a = "error" => l.error
  BY DEF Loaded, Page
<1>2. ASSUME NEW e
      PROVE  LET l == [page EXCEPT !.error = @ \/ e]
             IN  /\ l.confirmed = page.confirmed /\ l.overlap = page.overlap
                 /\ l.list = page.list /\ l.loading = page.loading
                 /\ ~l.error => ~page.error
  BY DEF Page
<1> QED BY <1>1, <1>2

LEMMA FinishLoadPage ==
  ASSUME TypeOK, PageInv, MadeInv', roster' = roster, cookie' \in Sessions \cup {None},
         NEW s \in Slots, NEW a, NEW ts, Rest(s, ts), Ends(s, a), FinishLoad(s, a, ts)
  PROVE  PageInv'
<1> DEFINE r == tasks[s]
           b == busy /\ ~(r.here /\ r.kind = "reload")
           pg == IF r.here THEN Loaded(r, a) ELSE page
<1>1. /\ r \in Request /\ page \in Page /\ tasks \in TaskTable /\ ts \in TaskTable
      /\ r # None /\ r.kind \in {"load", "reload"} /\ r.stage # "abandoned"
      /\ Show(Shell(a), route, ts, b, pg)
      /\ page.confirmed \in Nat /\ r.seen \in Nat
  BY DEF TypeOK, TaskTable, Rest, Ends, FinishLoad, Page, Request
<1>2. pg.confirmed = page.confirmed /\ pg.overlap = page.overlap
  BY <1>1, PageFields
<1>3. ASSUME NEW t \in Slots, OnScreen(ts[t])
      PROVE  Kept(tasks[t], ts[t])
  BY <1>1, <1>3, RestKept DEF OnScreen
<1>4. ASSUME NEW t \in Slots, Awaiting(ts[t], Working)
      PROVE  b
  <2>1. t # s /\ Awaiting(tasks[t], Working)
    BY <1>1, <1>4, RestAwaits
  <2>2. busy /\ ~Awaiting(tasks[s], Working)
    BY <2>1 DEF PageInv, WorkInv
  <2> QED BY <1>1, <2>2 DEF Awaiting, OnScreen, Working
<1>5. ASSUME View(Shell(a), route) = "devices", View(phase, route) = "devices",
             ~pg.loading, ~pg.error, ~pg.overlap
      PROVE  pg.list \in Nat /\ pg.list >= pg.confirmed
  <2>1. CASE ~r.here
    BY <1>5, <2>1 DEF PageInv, ListInv
  <2>2. CASE r.here
    <3>1. a # "unauthorized"
      BY <1>5 DEF Shell, View
    <3>2. a # "error"
      BY <1>1, <1>5, <2>2, PageFields
    <3>3. CASE a = "ok"
      <4>1. pg.list = r.seen
        BY <1>1, <2>2, <3>3, PageFields
      <4>2. CASE r.kind = "load"
        <5>1. Awaiting(r, {"load"}) /\ ~page.overlap
          BY <1>1, <1>2, <1>5, <2>2, <4>2 DEF Awaiting, OnScreen
        <5>2. page.confirmed = 0
          BY <5>1 DEF PageInv, VersionInv
        <5> HIDE DEF pg
        <5> QED BY <1>1, <1>2, <4>1, <5>2
      <4>3. CASE r.kind = "reload"
        <5>1. Awaiting(r, {"reload"}) /\ Answered(r) /\ r.answer = "ok"
          BY <1>1, <2>2, <3>3, <4>3 DEF Awaiting, OnScreen, Ends
        <5>2. r.seen >= page.confirmed
          BY <5>1 DEF PageInv, VersionInv, Answered
        <5> HIDE DEF pg
        <5> QED BY <1>1, <1>2, <4>1, <5>2
      <4> QED BY <1>1, <4>2, <4>3
    <3> QED BY <1>1, <3>1, <3>2, <3>3 DEF Ends, Answers
  <2> QED BY <2>1, <2>2
<1> HIDE DEF b, pg
<1> QED BY <1>1, <1>2, <1>3, <1>4, <1>5, ShowPage

\* A successful change whose form is on screen: the list is loaded again.
LEMMA ReloadPage ==
  ASSUME TypeOK, PageInv, MadeInv', roster' = roster,
         NEW s \in Slots, NEW ts, Rest(s, ts), Ends(s, "ok"),
         tasks[s].kind \in Changes, tasks[s].here,
         NEW q, q.kind = "reload", q.stage = "sent",
         Stay([ts EXCEPT ![s] = q], busy, Reloading(ts, tasks[s].made))
  PROVE  PageInv'
<1> DEFINE pg == Reloading(ts, tasks[s].made)
<1>1. /\ phase' = phase /\ route' = route /\ busy' = busy /\ page' = pg
      /\ tasks' = [ts EXCEPT ![s] = q]
  BY StayFacts
<1>2. /\ ts \in TaskTable /\ tasks[s] # None /\ tasks[s] \in Request /\ page \in Page
      /\ tasks[s].stage # "abandoned" /\ tasks[s].made \in Nat /\ page.confirmed \in Nat
  BY DEF Rest, Ends, TypeOK, Page, Request
<1>3. tasks'[s] = q /\ \A t \in Slots \ {s} : tasks'[t] = ts[t] /\ tasks'[t] = tasks[t]
  BY <1>1, <1>2 DEF TaskTable, Rest
<1>4. /\ pg.loading /\ pg.confirmed \in {page.confirmed, tasks[s].made}
      /\ pg.overlap = (page.overlap \/ \E t \in InFlight(ts) :
                         ts[t].kind = "load" /\ ts[t].here /\ ts[t].stage # "abandoned")
  BY <1>2 DEF Reloading, Page
<1> HIDE DEF pg
<1>5. Awaiting(tasks[s], Working) /\ OnScreen(tasks[s])
  BY <1>2 DEF Awaiting, OnScreen, Changes, Working
<1>6. busy /\ \A t \in Slots \ {s} : ~Awaiting(tasks'[t], Working)
  BY <1>3, <1>5 DEF PageInv, WorkInv
<1>7. View(phase, route) = "devices"
  BY <1>5 DEF PageInv, ScreenInv, PageKinds, Working, Changes
<1>8. ScreenInv'
  <2> SUFFICES ASSUME NEW t \in Slots, OnScreen(tasks'[t])
               PROVE  tasks'[t].kind \notin Forms
    BY <1>1, <1>7 DEF ScreenInv, OnScreen, View
  <2>1. CASE t = s
    BY <1>3, <2>1 DEF Forms
  <2>2. CASE t # s
    BY <1>3, <1>7, <2>2 DEF PageInv, ScreenInv
  <2> QED BY <2>1, <2>2
<1>9. WorkInv'
  BY <1>1, <1>6 DEF WorkInv, Awaiting, OnScreen
<1>10. VersionInv'
  <2>1. page'.confirmed <= roster'
    BY <1>1, <1>2, <1>4 DEF PageInv, VersionInv, MadeInv
  <2>2. ASSUME NEW t \in Slots, Awaiting(tasks'[t], {"load"})
        PROVE  page'.overlap
    <3>1. t # s
      BY <1>3, <2>2 DEF Awaiting
    <3>2. t \in InFlight(ts) /\ ts[t].kind = "load" /\ ts[t].here /\ ts[t].stage # "abandoned"
      BY <1>3, <2>2, <3>1 DEF Awaiting, OnScreen, InFlight
    <3> QED BY <1>1, <1>4, <3>2
  <2>3. ASSUME NEW t \in Slots, Awaiting(tasks'[t], {"reload"})
        PROVE  ~Answered(tasks'[t])
    <3>1. t = s
      BY <1>6, <2>3 DEF Awaiting, Working
    <3> QED BY <1>3, <3>1 DEF Answered
  <2> QED BY <2>1, <2>2, <2>3 DEF VersionInv, Awaiting, OnScreen, Answered
<1>11. ListInv'
  BY <1>1, <1>4 DEF ListInv
<1> QED BY <1>8, <1>9, <1>10, <1>11 DEF PageInv

LEMMA FinishChangePage ==
  ASSUME TypeOK, PageInv, MadeInv', roster' = roster, cookie' \in Sessions \cup {None},
         NEW s \in Slots, NEW a, NEW ts, Rest(s, ts), Ends(s, a), FinishChange(s, a, ts)
  PROVE  PageInv'
<1> DEFINE r == tasks[s]
<1>1. /\ r \in Request /\ page \in Page /\ tasks \in TaskTable /\ ts \in TaskTable
      /\ r # None /\ r.kind \in Changes /\ r.stage # "abandoned" /\ r.here \in BOOLEAN
  BY DEF TypeOK, TaskTable, Rest, Ends, FinishChange, Changes, Request
<1>2. ASSUME NEW t \in Slots, OnScreen(ts[t])
      PROVE  Kept(tasks[t], ts[t])
  BY <1>1, <1>2, RestKept DEF OnScreen
<1>3. ASSUME NEW t \in Slots, Awaiting(ts[t], Working)
      PROVE  busy /\ ~r.here
  <2>1. t # s /\ Awaiting(tasks[t], Working)
    BY <1>1, <1>3, RestAwaits
  <2>2. busy /\ ~Awaiting(tasks[s], Working)
    BY <2>1 DEF PageInv, WorkInv
  <2> QED BY <1>1, <2>2 DEF Awaiting, OnScreen, Working, Changes
<1>4. CASE a = "ok"
  <2> DEFINE q == [NewRequest("reload", cookie') EXCEPT !.here = r.here, !.made = r.made]
  <2>1. q \in Request /\ q.kind = "reload" /\ q.stage = "sent" /\ q.here = r.here
    BY <1>1 DEF NewRequest, Request, Answers, Kinds
  <2>2. Stay([ts EXCEPT ![s] = q], busy, IF r.here THEN Reloading(ts, r.made) ELSE page)
    BY <1>4 DEF FinishChange
  <2> HIDE DEF q
  <2>3. CASE r.here
    <3>1. Stay([ts EXCEPT ![s] = q], busy, Reloading(ts, r.made))
      BY <2>2, <2>3
    <3> QED BY <1>1, <1>4, <2>1, <2>3, <3>1, ReloadPage
  <2>4. CASE ~r.here
    <3> DEFINE ts2 == [ts EXCEPT ![s] = q]
    <3>1. ts2 \in TaskTable /\ ts2[s] = q /\ \A t \in Slots \ {s} : ts2[t] = ts[t]
      BY <1>1, <2>1 DEF TaskTable
    <3>2. Show(phase, route, ts2, busy, page)
      BY <2>2, <2>4 DEF Stay
    <3> HIDE DEF ts2
    <3>3. ASSUME NEW t \in Slots, OnScreen(ts2[t])
          PROVE  t # s /\ ts2[t] = ts[t] /\ OnScreen(ts[t])
      BY <2>1, <2>4, <3>1, <3>3 DEF OnScreen
    <3>4. \A t \in Slots : OnScreen(ts2[t]) => Kept(tasks[t], ts2[t])
      BY <1>2, <3>3
    <3>5. \A t \in Slots : Awaiting(ts2[t], Working) => busy
      BY <1>3, <3>3 DEF Awaiting
    <3>6. View(phase, route) = "devices" /\ ~page.loading /\ ~page.error /\ ~page.overlap
            => page.list \in Nat /\ page.list >= page.confirmed
      BY DEF PageInv, ListInv
    <3> QED BY <3>1, <3>2, <3>4, <3>5, <3>6, ShowPage
  <2> QED BY <2>3, <2>4
<1>5. CASE a # "ok"
  <2> DEFINE pg == IF r.here /\ r.kind = "revoke"
                     THEN [page EXCEPT !.error = @ \/ a = "error"] ELSE page
             b == busy /\ ~r.here
  <2>1. Show(Shell(a), route, ts, b, pg)
    BY <1>5 DEF FinishChange
  <2>2. /\ pg.confirmed = page.confirmed /\ pg.overlap = page.overlap
        /\ pg.list = page.list /\ pg.loading = page.loading
        /\ ~pg.error => ~page.error
    BY <1>1, PageFields
  <2>3. \A t \in Slots : Awaiting(ts[t], Working) => b
    BY <1>3
  <2> HIDE DEF pg, b
  <2>4. /\ View(Shell(a), route) = "devices" /\ View(phase, route) = "devices"
        /\ ~pg.loading /\ ~pg.error /\ ~pg.overlap
        => pg.list \in Nat /\ pg.list >= pg.confirmed
    BY <2>2 DEF PageInv, ListInv
  <2> QED BY <1>1, <1>2, <2>1, <2>2, <2>3, <2>4, ShowPage
<1> QED BY <1>4, <1>5

\* The continuations that leave the device page alone.
LEMMA FinishOtherPage ==
  ASSUME TypeOK, PageInv, MadeInv', roster' = roster, cookie' \in Sessions \cup {None},
         NEW s \in Slots, NEW a, NEW ts, Rest(s, ts), Ends(s, a),
         \/ FinishStatus(s, a, ts) \/ FinishSession(s, a, ts)
         \/ FinishSignIn(s, a, ts) \/ FinishLogout(s, a, ts)
  PROVE  PageInv'
<1> DEFINE r == tasks[s]
<1>1. /\ r \in Request /\ tasks \in TaskTable /\ ts \in TaskTable
      /\ r # None /\ r.here \in BOOLEAN
  BY DEF TypeOK, TaskTable, Rest, Ends, Request
<1>2. View(phase, route) = "devices" /\ ~page.loading /\ ~page.error /\ ~page.overlap
        => page.list \in Nat /\ page.list >= page.confirmed
  BY DEF PageInv, ListInv
<1>3. ASSUME NEW t \in Slots, OnScreen(ts[t])
      PROVE  Kept(tasks[t], ts[t])
  BY <1>1, <1>3, RestKept DEF OnScreen
<1>4. ASSUME NEW t \in Slots, Awaiting(ts[t], Working)
      PROVE  busy /\ View(phase, route) = "devices"
  <2>1. Awaiting(tasks[t], Working)
    BY <1>1, <1>4, RestAwaits
  <2> QED BY <2>1 DEF PageInv, WorkInv, ScreenInv, Awaiting, PageKinds
<1>5. ASSUME NEW p, NEW rt, Show(p, rt, ts, busy, page)
      PROVE  PageInv'
  BY <1>1, <1>2, <1>3, <1>4, <1>5, ShowPage
<1>6. CASE FinishStatus(s, a, ts)
  <2>1. CASE a = "ok"
    <3> DEFINE q == [NewRequest("session", cookie') EXCEPT !.old = r.old]
               ts2 == [ts EXCEPT ![s] = q]
    <3>1. q \in Request /\ q.kind = "session"
      BY <1>1 DEF NewRequest, Request, Answers, Kinds
    <3>2. Show(phase, route, ts2, busy, page)
      BY <1>6, <2>1 DEF FinishStatus, Stay
    <3> HIDE DEF q
    <3>3. ts2 \in TaskTable /\ ts2[s] = q /\ \A t \in Slots \ {s} : ts2[t] = ts[t]
      BY <1>1, <3>1 DEF TaskTable
    <3> HIDE DEF ts2
    <3>4. ASSUME NEW t \in Slots, OnScreen(ts2[t]), ts2[t].kind \in PageKinds \cup Forms
          PROVE  Kept(tasks[t], ts2[t])
      BY <1>3, <3>1, <3>3, <3>4 DEF OnScreen, PageKinds, Working, Forms
    <3>5. ASSUME NEW t \in Slots, Awaiting(ts2[t], Working)
          PROVE  busy
      <4>1. t # s
        BY <3>1, <3>3, <3>5 DEF Awaiting, Working
      <4> QED BY <1>4, <3>3, <3>5, <4>1
    <3> QED BY <1>2, <3>2, <3>3, <3>4, <3>5, ShowPage
  <2>2. CASE a # "ok"
    BY <1>5, <1>6, <2>2 DEF FinishStatus
  <2> QED BY <2>1, <2>2
<1>7. CASE FinishSession(s, a, ts)
  BY <1>5, <1>7 DEF FinishSession
<1>8. CASE FinishSignIn(s, a, ts)
  <2> DEFINE b == busy /\ ~r.here
  <2>1. \E p, rt : Show(p, rt, ts, b, page)
    BY <1>8 DEF FinishSignIn, Stay
  <2>2. r.here => View(phase, route) # "devices"
    BY <1>1, <1>8 DEF FinishSignIn, PageInv, ScreenInv, OnScreen, Forms
  <2>3. \A t \in Slots : Awaiting(ts[t], Working) => b
    BY <1>4, <2>2
  <2> HIDE DEF b
  <2> QED BY <1>1, <1>2, <1>3, <2>1, <2>3, ShowPage
<1>9. CASE FinishLogout(s, a, ts)
  <2>1. Show("signed-out", "/login", Aged(ts), busy, page)
    BY <1>9 DEF FinishLogout
  <2>2. Aged(ts) \in TaskTable /\ MovesTo(Aged(ts), {})
    BY <1>1, AgedMoves
  <2>3. ASSUME NEW t \in Slots, OnScreen(Aged(ts)[t])
        PROVE  Kept(tasks[t], Aged(ts)[t])
    BY <2>2, <2>3 DEF MovesTo, OnScreen
  <2>4. ASSUME NEW t \in Slots, Awaiting(Aged(ts)[t], Working)
        PROVE  busy
    <3>1. Kept(tasks[t], Aged(ts)[t])
      BY <2>3, <2>4 DEF Awaiting
    <3>2. Awaiting(tasks[t], Working)
      BY <2>4, <3>1 DEF Awaiting, OnScreen, Kept
    <3> QED BY <3>2 DEF PageInv, WorkInv
  <2> QED BY <1>2, <2>1, <2>2, <2>3, <2>4, ShowPage
<1> QED BY <1>6, <1>7, <1>8, <1>9

LEMMA FinishPage ==
  ASSUME TypeOK, PageInv, roster' = roster, cookie' \in Sessions \cup {None},
         NEW s \in Slots, NEW a, NEW ts, Rest(s, ts), Ends(s, a), Finish(s, a, ts)
  PROVE  PageInv'
<1>1. tasks[s] # None
  BY DEF Ends
<1>2. BrowserMove(Followups)
  BY <1>1, FinishMoves
<1>3. MadeInv'
  BY <1>2, BrowserMade DEF PageInv
<1> QED BY <1>3, FinishOtherPage, FinishLoadPage, FinishChangePage DEF Finish

LEMMA UserPage ==
  ASSUME TypeOK, PageInv, TryAgain \/ Submit \/ SignOut \/ Change \/ Navigate
  PROVE  PageInv'
<1>1. roster' = roster
  BY DEF TryAgain, Submit, SignOut, Change, Navigate, Act, server
<1>2. CASE Navigate
  <2>1. PICK r \in Routes : Show(phase, r, tasks, busy, page)
    BY <1>2 DEF Navigate
  <2>2. tasks \in TaskTable /\ cookie' \in Sessions \cup {None}
    BY <1>2 DEF TypeOK, TaskTable, Navigate, Act
  <2>3. MadeInv'
    BY <1>1, <1>2, NavigateMoves, BrowserMade DEF PageInv
  <2>4. \A t \in Slots : OnScreen(tasks[t]) => Kept(tasks[t], tasks[t])
    BY <2>2 DEF OnScreen, Kept, TaskTable
  <2>5. \A t \in Slots : Awaiting(tasks[t], Working) => busy
    BY DEF PageInv, WorkInv
  <2>6. View(phase, route) = "devices" /\ ~page.loading /\ ~page.error /\ ~page.overlap
          => page.list \in Nat /\ page.list >= page.confirmed
    BY DEF PageInv, ListInv
  <2> QED BY <1>1, <2>1, <2>2, <2>3, <2>4, <2>5, <2>6, ShowPage
<1>3. CASE TryAgain \/ Submit \/ SignOut \/ Change
  <2>1. PICK kind \in Kinds : Starts(kind) /\ (kind \in Changes => Change)
    BY <1>3, UserStarts
  <2> DEFINE new == SlotIn(tasks)
  <2>2. /\ new \in Slots /\ tasks[new] = None
        /\ tasks'[new] = NewRequest(kind, cookie)
        /\ \A t \in Slots \ {new} : tasks'[t] = tasks[t]
        /\ phase' = phase /\ route' = route /\ page' = page
        /\ BrowserMove({kind, "load"})
    BY <2>1, StartsFacts DEF Starts
  <2> HIDE DEF new
  <2>3. MadeInv'
    BY <1>1, <2>2, BrowserMade DEF PageInv
  <2>4. tasks'[new].kind = kind
    BY <2>2 DEF NewRequest
  <2>5. ListInv'
    BY <2>2 DEF PageInv, ListInv
  <2>6. CASE kind \in PageKinds \cup Forms
    <3>1. \/ Change /\ kind \in Changes
          \/ Submit /\ kind \in Forms
      BY <1>3, <2>1, <2>2, <2>4, <2>6, StartedKind
    <3>2. busy'
      BY <3>1, Zenon DEF Change, Submit, Stay, Show
    <3>3. ASSUME NEW t \in Slots, OnScreen(tasks'[t])
          PROVE  t = new \/ OnScreen(tasks[t])
      BY <2>2, <3>3
    <3>4. kind \in Changes <=> View(phase, route) = "devices"
      BY <3>1 DEF Change, Submit, View, Changes, Forms
    <3>5. ScreenInv'
      <4> SUFFICES ASSUME NEW t \in Slots, OnScreen(tasks'[t])
                   PROVE  /\ tasks'[t].kind \in PageKinds => View(phase', route') = "devices"
                          /\ tasks'[t].kind \in Forms => View(phase', route') # "devices"
        BY DEF ScreenInv, OnScreen, View
      <4>1. CASE t = new
        BY <2>2, <2>4, <3>1, <3>4, <4>1 DEF PageKinds, Working, Forms, Changes
      <4>2. CASE t # new
        BY <2>2, <4>2 DEF PageInv, ScreenInv
      <4> QED BY <4>1, <4>2
    <3>6. WorkInv'
      <4> SUFFICES ASSUME NEW t \in Slots, Awaiting(tasks'[t], Working),
                          NEW u \in Slots \ {t}, Awaiting(tasks'[u], Working)
                   PROVE  FALSE
        BY <3>2 DEF WorkInv, Awaiting, OnScreen
      <4>1. t = new \/ u = new
        BY <2>2 DEF PageInv, WorkInv
      <4>2. kind \in Working /\ ~busy
        BY <2>4, <3>1, <4>1 DEF Awaiting, Forms, Working, Change
      <4> QED BY <2>2, <4>1, <4>2 DEF PageInv, WorkInv
    <3>7. VersionInv'
      <4>1. kind # "load" /\ kind # "reload"
        BY <3>1 DEF Changes, Forms
      <4>2. ASSUME NEW t \in Slots, Awaiting(tasks'[t], {"load", "reload"})
            PROVE  tasks'[t] = tasks[t]
        BY <2>2, <2>4, <4>1, <4>2 DEF Awaiting
      <4> QED BY <1>1, <2>2, <4>2 DEF PageInv, VersionInv, Awaiting, OnScreen
    <3> QED BY <2>3, <2>5, <3>5, <3>6, <3>7 DEF PageInv
  <2>7. CASE kind \notin PageKinds \cup Forms
    <3>1. ASSUME NEW t \in Slots, OnScreen(tasks'[t]), tasks'[t].kind \in PageKinds \cup Forms
          PROVE  tasks'[t] = tasks[t] /\ Kept(tasks[t], tasks'[t])
      BY <2>2, <2>4, <2>7, <3>1 DEF OnScreen, Kept, TypeOK
    <3>2. busy => busy'
      BY <1>3, Zenon DEF TryAgain, Submit, SignOut, Change, Stay, Show
    <3>3. \A t \in Slots : Awaiting(tasks'[t], Working) => busy'
      BY <3>1, <3>2 DEF PageInv, WorkInv, Awaiting, PageKinds
    <3> QED BY <1>1, <2>2, <2>3, <2>5, <3>1, <3>3, GoesOn
  <2> QED BY <2>6, <2>7
<1> QED BY <1>2, <1>3

LEMMA ServePage ==
  ASSUME TypeOK, PageInv, NEW s \in Slots, Serve(s)
  PROVE  PageInv'
<1>1. PICK q : Replied(s, q)
  BY ServeReplies
<1>2. phase' = phase /\ route' = route /\ busy' = busy /\ page' = page
  BY DEF Serve
<1>3. tasks'[s] = q /\ \A t \in Slots \ {s} : tasks'[t] = tasks[t]
  BY <1>1 DEF Replied, TypeOK
<1>4. roster \in Nat /\ roster' \in Nat /\ roster <= roster' /\ page.confirmed \in Nat
  <2>1. roster \in Nat /\ page.confirmed \in Nat
    BY WebAssumption DEF TypeOK, Page
  <2>2. roster' \in {roster, roster + 1}
    BY ServeServer DEF ServerStep
  <2> QED BY <2>1, <2>2
<1>5. ASSUME NEW t \in Slots, OnScreen(tasks'[t])
      PROVE  OnScreen(tasks[t]) /\ tasks'[t].kind = tasks[t].kind
  BY <1>1, <1>3, <1>5 DEF OnScreen, Replied
<1>6. ASSUME NEW t \in Slots, NEW kinds, Awaiting(tasks'[t], kinds)
      PROVE  Awaiting(tasks[t], kinds)
  BY <1>1, <1>3, <1>5, <1>6 DEF Awaiting, OnScreen, Replied
<1>7. ScreenInv'
  <2> SUFFICES ASSUME NEW t \in Slots, OnScreen(tasks'[t])
               PROVE  /\ tasks'[t].kind \in PageKinds => View(phase', route') = "devices"
                      /\ tasks'[t].kind \in Forms => View(phase', route') # "devices"
    BY DEF ScreenInv, OnScreen, View
  <2> QED BY <1>2, <1>5 DEF PageInv, ScreenInv
<1>8. WorkInv'
  <2> SUFFICES ASSUME NEW t \in Slots, Awaiting(tasks'[t], Working)
               PROVE  busy' /\ \A u \in Slots \ {t} : ~Awaiting(tasks'[u], Working)
    BY DEF WorkInv, Awaiting, OnScreen
  <2> QED BY <1>2, <1>6 DEF PageInv, WorkInv
<1>9. MadeInv'
  <2> SUFFICES ASSUME NEW t \in Slots, tasks'[t] # None
               PROVE  tasks'[t].made <= roster'
    BY DEF MadeInv
  <2>1. CASE t = s
    <3>1. q.made = tasks[s].made \/ q.made = roster'
      BY <1>1, <1>3, <2>1 DEF Replied
    <3>2. tasks[s].made \in Nat /\ tasks[s].made <= roster
      BY <1>1 DEF Replied, PageInv, MadeInv, TypeOK, Request
    <3> QED BY <1>3, <1>4, <2>1, <3>1, <3>2
  <2>2. CASE t # s
    <3>1. tasks[t].made \in Nat /\ tasks[t].made <= roster /\ tasks'[t] = tasks[t]
      BY <1>3, <2>2 DEF PageInv, MadeInv, TypeOK, Request
    <3> QED BY <1>4, <3>1
  <2> QED BY <2>1, <2>2
<1>10. VersionInv'
  <2>1. page'.confirmed <= roster'
    BY <1>2, <1>4 DEF PageInv, VersionInv
  <2>2. ASSUME NEW t \in Slots, Awaiting(tasks'[t], {"load"}), ~page'.overlap
        PROVE  page'.confirmed = 0
    BY <1>2, <1>6, <2>2 DEF PageInv, VersionInv
  <2>3. ASSUME NEW t \in Slots, Awaiting(tasks'[t], {"reload"}),
               Answered(tasks'[t]), tasks'[t].answer = "ok"
        PROVE  tasks'[t].seen >= page'.confirmed
    <3>1. CASE t = s
      <4>1. tasks'[t].seen = roster'
        BY <1>1, <1>3, <2>3, <3>1 DEF Replied, Awaiting, OnScreen
      <4> QED BY <1>2, <1>4, <2>1, <4>1
    <3>2. CASE t # s
      BY <1>2, <1>3, <1>6, <2>3, <3>2 DEF PageInv, VersionInv
    <3> QED BY <3>1, <3>2
  <2> QED BY <2>1, <2>2, <2>3 DEF VersionInv, Awaiting, OnScreen, Answered
<1>11. ListInv'
  BY <1>2 DEF PageInv, ListInv
<1> QED BY <1>7, <1>8, <1>9, <1>10, <1>11 DEF PageInv

LEMMA IdlePage ==
  ASSUME PageInv, Expire \/ UNCHANGED vars
  PROVE  PageInv'
<1>1. UNCHANGED <<roster, tasks, phase, route, busy, page>>
  BY DEF Expire, vars
<1> QED BY <1>1 DEF PageInv, ScreenInv, WorkInv, MadeInv, VersionInv, ListInv, Awaiting,
                    OnScreen, View, Answered

LEMMA DeliverPage ==
  ASSUME TypeOK, SessionInv, PageInv, NEW s \in Slots, Deliver(s)
  PROVE  PageInv'
<1> DEFINE ts == [tasks EXCEPT ![s] = None]
<1>1. /\ tasks[s] # None /\ tasks[s].stage = "answered" /\ cookie' \in Sessions \cup {None}
      /\ Rest(s, ts) /\ Finish(s, tasks[s].answer, ts) /\ roster' = roster
  BY DeliverRest DEF server
<1>2. Ends(s, tasks[s].answer)
  BY <1>1 DEF Ends, SessionInv, RequestInv, TypeOK, Request, Answered
<1> HIDE DEF ts
<1> QED BY <1>1, <1>2, FinishPage

LEMMA AbandonPage ==
  ASSUME TypeOK, PageInv, NEW s \in Slots, Abandon(s)
  PROVE  PageInv'
<1> DEFINE ts == [tasks EXCEPT ![s].stage = "abandoned"]
<1>1. /\ tasks[s] # None /\ tasks[s].stage = "sent" /\ cookie' \in Sessions \cup {None}
      /\ Rest(s, ts) /\ Finish(s, "error", ts) /\ roster' = roster
  BY AbandonRest DEF server
<1>2. Ends(s, "error")
  BY <1>1 DEF Ends, Answers
<1> HIDE DEF ts
<1> QED BY <1>1, <1>2, FinishPage

LEMMA BodyPage ==
  ASSUME TypeOK, SessionInv, PageInv, NEW s \in Slots, ReadBody(s)
  PROVE  PageInv'
<1> DEFINE ts == [tasks EXCEPT ![s] = None]
<1>1. /\ tasks[s] # None /\ tasks[s].stage = "reading" /\ cookie' \in Sessions \cup {None}
      /\ Rest(s, ts) /\ roster' = roster
  BY BodyRest DEF server
<1>2. PICK a \in {tasks[s].answer, "error"} : Finish(s, a, ts)
  BY BodyRest
<1>3. tasks[s] \in Request /\ "error" \in Answers
  BY <1>1 DEF TypeOK, Answers
<1>4. Ends(s, a)
  BY <1>1, <1>2, <1>3 DEF Ends, SessionInv, RequestInv, Request, Answered
<1> HIDE DEF ts
<1> QED BY <1>1, <1>2, <1>4, FinishPage

LEMMA HeadersPage ==
  ASSUME TypeOK, PageInv, NEW s \in Slots, ReceiveHeaders(s)
  PROVE  PageInv'
<1>1. /\ \A t \in Slots \ {s} : tasks'[t] = tasks[t]
      /\ tasks[s] # None /\ tasks[s].stage = "answered"
      /\ tasks'[s] # None /\ tasks'[s].stage = "reading"
      /\ tasks'[s].kind = tasks[s].kind /\ tasks'[s].answer = tasks[s].answer
      /\ tasks'[s].here = tasks[s].here /\ tasks'[s].made = tasks[s].made
      /\ tasks'[s].seen = tasks[s].seen
      /\ UNCHANGED <<roster, phase, route, busy, page>>
  BY HeadersFacts
<1>2. \A t \in Slots : (OnScreen(tasks'[t]) <=> OnScreen(tasks[t]))
                       /\ (tasks[t] # None => tasks'[t].kind = tasks[t].kind)
  BY <1>1 DEF OnScreen
<1>3. \A t \in Slots : \A kinds : Awaiting(tasks'[t], kinds) <=> Awaiting(tasks[t], kinds)
  BY <1>1, <1>2 DEF Awaiting, OnScreen
<1>4. ScreenInv'
  <2> SUFFICES ASSUME NEW t \in Slots, OnScreen(tasks'[t])
               PROVE  /\ tasks'[t].kind \in PageKinds => View(phase', route') = "devices"
                      /\ tasks'[t].kind \in Forms => View(phase', route') # "devices"
    BY DEF ScreenInv, OnScreen, View
  <2> QED BY <1>1, <1>2 DEF PageInv, ScreenInv, OnScreen
<1>5. WorkInv'
  <2> SUFFICES ASSUME NEW t \in Slots, Awaiting(tasks'[t], Working)
               PROVE  busy' /\ \A u \in Slots \ {t} : ~Awaiting(tasks'[u], Working)
    BY DEF WorkInv, Awaiting, OnScreen
  <2> QED BY <1>1, <1>3 DEF PageInv, WorkInv
<1>6. MadeInv'
  BY <1>1 DEF PageInv, MadeInv
<1>7. VersionInv'
  <2>1. page'.confirmed <= roster'
    BY <1>1 DEF PageInv, VersionInv
  <2>2. ASSUME NEW t \in Slots, Awaiting(tasks'[t], {"load"}), ~page'.overlap
        PROVE  page'.confirmed = 0
    BY <1>1, <1>3, <2>2 DEF PageInv, VersionInv
  <2>3. ASSUME NEW t \in Slots, Awaiting(tasks'[t], {"reload"}),
               Answered(tasks'[t]), tasks'[t].answer = "ok"
        PROVE  tasks'[t].seen >= page'.confirmed
    BY <1>1, <1>3, <2>3 DEF PageInv, VersionInv, Answered
  <2> QED BY <2>1, <2>2, <2>3 DEF VersionInv, Awaiting, OnScreen, Answered
<1>8. ListInv'
  BY <1>1 DEF PageInv, ListInv
<1> QED BY <1>4, <1>5, <1>6, <1>7, <1>8 DEF PageInv

LEMMA InitPage == Init => PageInv
<1> SUFFICES ASSUME Init
             PROVE  PageInv
  OBVIOUS
<1> DEFINE q == NewRequest("status", cookie)
<1>1. q \in Request /\ q.kind = "status" /\ q.made = 0
  <2>1. cookie \in Sessions \cup {None}
    BY DEF Init
  <2> QED BY <2>1 DEF NewRequest, Request, Kinds, Answers
<1>2. tasks = Send([s \in Slots |-> None], q)
  BY DEF Init
<1> HIDE DEF q
<1>3. \A s \in Slots : tasks[s] = None \/ tasks[s] = q
  BY <1>2 DEF Send
<1>4. page.confirmed = 0 /\ page.loading /\ roster = 0
  BY DEF Init, BlankPage
<1> QED BY <1>1, <1>3, <1>4 DEF PageInv, ScreenInv, WorkInv, MadeInv, VersionInv, ListInv,
           Awaiting, OnScreen, PageKinds, Working, Forms

(* The device page shows every change its user has been told of, unless it *)
(* shows an error or a load was under way at the change: for any number of *)
(* overlapping requests, in whatever order they are answered, and whichever *)
(* of them fail.                                                           *)
THEOREM WebOwnChangesAreListed == Spec => []OwnChangesAreListed
<1>1. Init => PageInv
  BY InitPage
<1>2. WebInv /\ PageInv /\ [Next]_vars => PageInv'
  BY UserPage, ServePage, IdlePage, DeliverPage, HeadersPage, BodyPage, AbandonPage
     DEF Next, WebInv
<1>3. PageInv => OwnChangesAreListed
  BY DEF PageInv, ListInv, OwnChangesAreListed
<1> QED BY <1>1, <1>2, <1>3, WebInvariance, PTL DEF Spec
=============================================================================
