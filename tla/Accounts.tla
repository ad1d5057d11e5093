------------------------------ MODULE Accounts ------------------------------
(***************************************************************************)
(* Claiming the installation, signing in, and browser sessions, as         *)
(* internal/server and internal/auth run them.                             *)
(*                                                                         *)
(* A worker serves one request of one browser.  Each SQL statement is a    *)
(* step; a response is a message that reaches the browser later, or never, *)
(* and carries what it does to the session cookie.  A browser has one      *)
(* cookie and may have several requests under way.  Passwords are          *)
(* abstracted to whether they match; the stored hash, its upgrade after a  *)
(* sign-in and last_login_at are not part of the state.                    *)
(***************************************************************************)
EXTENDS Integers, FiniteSets

CONSTANTS
  Workers,        \* request-serving goroutines, of one or several servers
  Browsers,       \* clients, each with a cookie jar
  Users,          \* account identifiers
  Sids,           \* session tokens
  Lifetime,       \* auth.session_lifetime
  IdleTimeout,    \* auth.session_idle_timeout; 0 disables it
  TouchInterval,  \* sessionTouchInterval
  MaxTime,        \* bound on the clock
  None            \* absent

ASSUME DurationAssumption ==
  /\ Lifetime \in Nat \ {0} /\ IdleTimeout \in 0..Lifetime
  /\ TouchInterval \in Nat /\ MaxTime \in Nat

ASSUME NameAssumption ==
  None \notin Users /\ None \notin Sids /\ None \notin Browsers

VARIABLES
  claimed,  \* server_metadata has the row bootstrap_claimed_at
  users,    \* the accounts, administrators all: nothing else creates one
  sess,     \* sessions: a row per token
  now,      \* the clock the server reads
  pc,       \* the statement each worker runs next
  req,      \* the request it serves
  jar,      \* the session cookie of each browser
  used      \* history: when each session was last issued or accepted

database == <<claimed, users, sess>>
vars == <<claimed, users, sess, now, pc, req, jar, used>>

OrNone(S) == S \cup {None}

\* A row of sessions.  "unissued" and "ended" both mean there is no row; a
\* token is never drawn twice.
SessionRow == [status : {"unissued", "live", "ended"}, user : OrNone(Users),
               lastUsed : Nat, expires : Nat]

NoSession == [status |-> "unissued", user |-> None, lastUsed |-> 0, expires |-> 0]

Live(s) == sess[s].status = "live"

\* What a response does to the cookie of the browser: nothing, expire it
\* (clearSessionCookies), or set it (setSessionCookies).
Keep == [what |-> "keep", token |-> None]
Clear == [what |-> "clear", token |-> None]
SetTo(s) == [what |-> "set", token |-> s]

Ops == {"bootstrap", "login", "get", "logout"}

Request == [op : Ops \cup {"none"}, from : OrNone(Browsers), token : OrNone(Sids),
            user : OrNone(Users), at : Nat, csrf : BOOLEAN,
            status : {"none", "ok", "conflict", "badRequest", "unauthorized",
                      "forbidden", "internal"},
            cookie : [what : {"keep", "clear", "set"}, token : OrNone(Sids)]]

NoRequest == [op |-> "none", from |-> None, token |-> None, user |-> None, at |-> 0,
              csrf |-> FALSE, status |-> "none", cookie |-> Keep]

PcStates == {"idle", "claim", "create", "commit", "verify", "issue",
             "read", "expire", "touch", "check", "handle", "reply"}

-----------------------------------------------------------------------------
Goto(w, from, to) ==
  /\ pc[w] = from
  /\ pc' = [pc EXCEPT ![w] = to]

\* The handler writes its response; the rest of the request is forgotten.
Respond(w, status, cookie) ==
  /\ pc' = [pc EXCEPT ![w] = "reply"]
  /\ req' = [req EXCEPT ![w] = [@ EXCEPT !.user = None, !.at = 0, !.csrf = FALSE,
                                        !.status = status, !.cookie = cookie]]

Accept(w, b, first, op, token, csrf) ==
  /\ Goto(w, "idle", first)
  /\ req' = [req EXCEPT ![w] =
               [NoRequest EXCEPT !.op = op, !.from = b, !.token = token,
                                 !.at = now, !.csrf = csrf]]
  /\ UNCHANGED <<jar, used, now, database>>

StartBootstrap(w) == \E b \in Browsers : Accept(w, b, "claim", "bootstrap", None, FALSE)

StartLogin(w) == \E b \in Browsers : Accept(w, b, "verify", "login", None, FALSE)

\* A request for a protected endpoint, with the cookie the browser has.  csrf
\* says whether it echoes the session's CSRF token.
StartAuthenticated(w) ==
  \E b \in Browsers :
    /\ jar[b] # None
    /\ \/ Accept(w, b, "read", "get", jar[b], FALSE)
       \/ \E csrf \in BOOLEAN : Accept(w, b, "read", "logout", jar[b], csrf)

\* requireSession: no cookie at all.
RefuseAnonymous(w) ==
  \E b \in Browsers :
    /\ pc[w] = "idle"
    /\ jar[b] = None
    /\ pc' = [pc EXCEPT ![w] = "reply"]
    /\ req' = [req EXCEPT ![w] = [NoRequest EXCEPT !.op = "get", !.from = b,
                                    !.status = "unauthorized", !.cookie = Clear]]
    /\ UNCHANGED <<jar, used, now, database>>

-----------------------------------------------------------------------------
(* handleBootstrap: one transaction for the claim and the account.         *)

\* Another transaction has inserted the claim and not finished.
ClaimPending(w) == \E v \in Workers \ {w} : pc[v] \in {"create", "commit"}

\* Fault: the claim is looked up first and inserted without a condition.
ClaimByLookup(w) ==
  /\ pc[w] = "claim"
  /\ \/ /\ ~claimed
        /\ Goto(w, "claim", "create")
        /\ UNCHANGED req
     \/ /\ claimed
        /\ Respond(w, "conflict", Keep)
  /\ UNCHANGED <<jar, used, now, database>>

\* INSERT ... ON CONFLICT (key) DO NOTHING waits for an open claim, then
\* affects a row only if there is none.
ClaimBootstrap(w) ==
  /\ pc[w] = "claim"
  /\ ~ClaimPending(w)
  /\ \/ /\ ~claimed
        /\ Goto(w, "claim", "create")
        /\ UNCHANGED req
     \/ /\ claimed
        /\ Respond(w, "conflict", Keep)
  /\ UNCHANGED <<jar, used, now, database>>

\* users.Create: an invalid address or password ends the transaction.
CreateUser(w) ==
  /\ pc[w] = "create"
  /\ \/ \E u \in Users \ users :
          /\ \A v \in Workers : req[v].user # u
          /\ Goto(w, "create", "commit")
          /\ req' = [req EXCEPT ![w].user = u]
     \/ Respond(w, "badRequest", Keep)
  /\ UNCHANGED <<jar, used, now, database>>

\* The acknowledgement of the commit may be lost on the way.
CommitBootstrap(w) ==
  /\ pc[w] = "commit"
  /\ claimed' = TRUE
  /\ users' = users \cup {req[w].user}
  /\ \/ /\ Goto(w, "commit", "issue")
        /\ UNCHANGED req
     \/ Respond(w, "internal", Keep)
  /\ UNCHANGED <<sess, now, jar, used>>

-----------------------------------------------------------------------------
(* handleLogin, and the session both it and handleBootstrap issue.         *)

VerifyCredentials(w) ==
  /\ pc[w] = "verify"
  /\ \/ \E u \in users :
          /\ Goto(w, "verify", "issue")
          /\ req' = [req EXCEPT ![w].user = u]
     \/ Respond(w, "unauthorized", Keep)
  /\ UNCHANGED <<jar, used, now, database>>

\* The row Issue inserts.
NewSession(u, t) ==
  [status |-> "live", user |-> u, lastUsed |-> t, expires |-> t + Lifetime]

\* Issue returned an error.  After a bootstrap the account exists, so that
\* request still succeeds.
RespondWithoutSession(w) ==
  Respond(w, IF req[w].op = "bootstrap" THEN "ok" ELSE "internal", Keep)

\* SessionStore.Issue: always a fresh session.  Here and below the write may
\* take effect and its acknowledgement be lost on the way.
IssueSession(w) ==
  /\ pc[w] = "issue"
  /\ \E s \in Sids :
       /\ sess[s].status = "unissued"
       /\ sess' = [sess EXCEPT ![s] = NewSession(req[w].user, req[w].at)]
       /\ used' = [used EXCEPT ![s] = req[w].at]
       /\ Respond(w, "ok", SetTo(s)) \/ RespondWithoutSession(w)
  /\ UNCHANGED <<claimed, users, now, jar>>

IssueFails(w) ==
  /\ pc[w] = "issue"
  /\ RespondWithoutSession(w)
  /\ UNCHANGED <<jar, used, now, database>>

-----------------------------------------------------------------------------
(* requireSession: SessionStore.Lookup.                                    *)

\* Fault: only the absolute lifetime is looked at.
IsExpiredAbsolutely(row, t) == t >= row.expires

IsExpired(row, t) ==
  \/ t >= row.expires
  \/ IdleTimeout > 0 /\ t - row.lastUsed >= IdleTimeout

Stale(row, t) == t - row.lastUsed > TouchInterval

\* Accepting a session is what counts as using it.
Accepted(s, t) == used' = [used EXCEPT ![s] = IF t > @ THEN t ELSE @]

\* The SELECT, and what Lookup decides from the row it returned.
ReadSession(w) ==
  /\ pc[w] = "read"
  /\ LET s == req[w].token
         t == req[w].at
     IN  \/ /\ ~Live(s)
            /\ Respond(w, "unauthorized", Clear)
            /\ UNCHANGED used
         \/ /\ Live(s)
            /\ IsExpired(sess[s], t)
            /\ Goto(w, "read", "expire")
            /\ UNCHANGED <<req, used>>
         \/ /\ Live(s)
            /\ ~IsExpired(sess[s], t)
            /\ Goto(w, "read", IF Stale(sess[s], t) THEN "touch" ELSE "check")
            /\ Accepted(s, t)
            /\ UNCHANGED req
  /\ UNCHANGED <<jar, now, database>>

\* DELETE FROM sessions WHERE id = ?, whatever the row says by now.
ExpireSession(w) ==
  /\ pc[w] = "expire"
  /\ sess' = [sess EXCEPT ![req[w].token].status = "ended"]
  /\ Respond(w, "unauthorized", Clear) \/ Respond(w, "internal", Keep)
  /\ UNCHANGED <<claimed, users, now, jar, used>>

\* Fault: the refresh inserts the row again if it is gone.
TouchByUpsert(w) ==
  /\ Goto(w, "touch", "check")
  /\ sess' = [sess EXCEPT ![req[w].token] =
                [@ EXCEPT !.status = "live", !.lastUsed = req[w].at]]
  /\ UNCHANGED <<claimed, users, now, req, jar, used>>

\* UPDATE sessions SET last_used_at = ? WHERE id = ?; no row is no error.
TouchSession(w) ==
  /\ pc[w] = "touch"
  /\ LET s == req[w].token
     IN  sess' = IF Live(s) THEN [sess EXCEPT ![s].lastUsed = req[w].at] ELSE sess
  /\ \/ /\ Goto(w, "touch", "check")
        /\ UNCHANGED req
     \/ Respond(w, "internal", Keep)
  /\ UNCHANGED <<claimed, users, now, jar, used>>

\* users.ByID finds the account; requireCSRF lets safe methods through.
CheckRequest(w) ==
  /\ pc[w] = "check"
  /\ \/ /\ req[w].op = "get" \/ req[w].csrf
        /\ Goto(w, "check", "handle")
        /\ UNCHANGED req
     \/ /\ req[w].op = "logout" /\ ~req[w].csrf
        /\ Respond(w, "forbidden", Keep)
  /\ UNCHANGED <<jar, used, now, database>>

HandleGet(w) ==
  /\ pc[w] = "handle"
  /\ req[w].op = "get"
  /\ Respond(w, "ok", Keep)
  /\ UNCHANGED <<jar, used, now, database>>

\* Fault: an error of the DELETE is logged and ignored.
LogoutRegardless(w) ==
  /\ pc[w] = "handle"
  /\ req[w].op = "logout"
  /\ sess' \in {sess, [sess EXCEPT ![req[w].token].status = "ended"]}
  /\ Respond(w, "ok", Clear)
  /\ UNCHANGED <<claimed, users, now, jar, used>>

\* handleLogout: DELETE FROM sessions WHERE token_hash = ?
HandleLogout(w) ==
  /\ pc[w] = "handle"
  /\ req[w].op = "logout"
  /\ sess' = [sess EXCEPT ![req[w].token].status = "ended"]
  /\ \E status \in {"ok", "internal"} : Respond(w, status, Clear)
  /\ UNCHANGED <<claimed, users, now, jar, used>>

\* A statement fails, or the request is cut off, and its transaction is
\* rolled back.  A sign-out has cleared the cookie before.
Fail(w) ==
  /\ pc[w] \notin {"idle", "issue", "reply"}
  /\ Respond(w, "internal",
             IF pc[w] = "handle" /\ req[w].op = "logout" THEN Clear ELSE Keep)
  /\ UNCHANGED <<jar, used, now, database>>

-----------------------------------------------------------------------------
\* The response reaches the browser, or is lost with its connection.
Deliver(w) ==
  /\ Goto(w, "reply", "idle")
  /\ LET c == req[w].cookie
     IN  jar' = [jar EXCEPT ![req[w].from] = IF c.what = "keep" THEN @ ELSE c.token]
  /\ req' = [req EXCEPT ![w] = NoRequest]
  /\ UNCHANGED <<used, now, database>>

Lose(w) ==
  /\ Goto(w, "reply", "idle")
  /\ req' = [req EXCEPT ![w] = NoRequest]
  /\ UNCHANGED <<jar, used, now, database>>

Tick ==
  /\ now < MaxTime
  /\ now' = now + 1
  /\ UNCHANGED <<database, pc, req, jar, used>>

Init ==
  /\ claimed = FALSE
  /\ users = {}
  /\ sess = [s \in Sids |-> NoSession]
  /\ now = 0
  /\ pc = [w \in Workers |-> "idle"]
  /\ req = [w \in Workers |-> NoRequest]
  /\ jar = [b \in Browsers |-> None]
  /\ used = [s \in Sids |-> 0]

Start(w) ==
  StartBootstrap(w) \/ StartLogin(w) \/ StartAuthenticated(w) \/ RefuseAnonymous(w)

Step(w) ==
  \/ ClaimBootstrap(w) \/ CreateUser(w) \/ CommitBootstrap(w)
  \/ VerifyCredentials(w) \/ IssueSession(w) \/ IssueFails(w)
  \/ ReadSession(w) \/ ExpireSession(w) \/ TouchSession(w) \/ CheckRequest(w)
  \/ HandleGet(w) \/ HandleLogout(w)

Next ==
  Tick \/ \E w \in Workers : Start(w) \/ Step(w) \/ Fail(w) \/ Deliver(w) \/ Lose(w)

Spec == Init /\ [][Next]_vars

-----------------------------------------------------------------------------
TypeOK ==
  /\ claimed \in BOOLEAN
  /\ users \subseteq Users
  /\ sess \in [Sids -> SessionRow]
  /\ now \in Nat
  /\ pc \in [Workers -> PcStates]
  /\ req \in [Workers -> Request]
  /\ jar \in [Browsers -> OrNone(Sids)]
  /\ used \in [Sids -> Nat]

(* However many requests claim the installation at once, and wherever one  *)
(* of them fails, there is never a second administrator, and the claim and *)
(* the account exist together: the claim (which ClaimBootstrap and the     *)
(* start-up warning read) and the number of accounts (which the status     *)
(* endpoint reads) never disagree.                                         *)
OneAdministrator ==
  /\ TypeOK
  /\ \A u, v \in users : u = v
  /\ claimed <=> users # {}

(* A session that has ended never comes back, whatever a request that had  *)
(* read it before still writes.                                            *)
EndedStaysEnded ==
  [][\A s \in Sids : sess[s].status = "ended" => sess'[s].status = "ended"]_vars

(* Once signing out has answered with success, the session is over, and    *)
(* the browser does not keep its token unless the answer is lost.          *)
SignedOutMeansEnded ==
  \A w \in Workers :
    pc[w] = "reply" /\ req[w].op = "logout" /\ req[w].status = "ok" =>
      ~Live(req[w].token) /\ req[w].cookie = Clear

(* A session nobody has used for the idle timeout, or older than its       *)
(* lifetime, is not accepted again: the recorded time of use, which        *)
(* requests write late and out of order, never runs ahead of a real use.   *)
UnusedIsRefused ==
  [][\A s \in Sids : sess[s].status = "live" /\ used'[s] # used[s] =>
       /\ IdleTimeout > 0 => used'[s] - used[s] < IdleTimeout
       /\ used'[s] < sess[s].expires]_vars

(* The comment of requireSession on clearing the cookies after refusing a  *)
(* token it was sent: "The browser is holding a token that is no longer    *)
(* any use".                                                               *)
ClearedTokenIsUseless ==
  [][\A w \in Workers :
       /\ pc[w] = "reply" /\ pc'[w] = "idle"
       /\ req[w].token # None
       /\ req[w].status = "unauthorized" /\ req[w].cookie = Clear
       /\ jar'[req[w].from] # jar[req[w].from]
       => ~Live(jar[req[w].from])]_vars
=============================================================================
