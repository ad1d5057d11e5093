--------------------------- MODULE AccountsProofs ---------------------------
(***************************************************************************)
(* Proofs about Accounts, for any workers, browsers, accounts, tokens and  *)
(* durations.                                                              *)
(*                                                                         *)
(* Sound(w) is what worker w relies on while it serves a request; every    *)
(* step of a worker moves rows of sessions only in ways (Evolves) that the *)
(* other workers do not notice.                                            *)
(***************************************************************************)
EXTENDS Accounts, TLAPS

Claiming == {"create", "commit"}
Authenticating == {"read", "expire", "touch", "check", "handle"}

Sound(w) ==
  \* the kind of request
  /\ pc[w] = "claim" \/ pc[w] \in Claiming => req[w].op = "bootstrap"
  /\ pc[w] = "verify" => req[w].op = "login"
  /\ pc[w] = "issue" => req[w].op \in {"bootstrap", "login"}
  /\ pc[w] \in Authenticating => req[w].op \in {"get", "logout"} /\ req[w].token \in Sids
  \* the claim it has inserted, and the account
  /\ pc[w] \in Claiming => ~claimed
  /\ pc[w] = "commit" => req[w].user \in Users
  \* the use it is about to write down
  /\ pc[w] = "touch" => /\ sess[req[w].token].status # "unissued"
                        /\ req[w].at <= used[req[w].token]
  \* the sign-out it has reported
  /\ pc[w] = "reply" /\ req[w].op = "logout" /\ req[w].status = "ok" =>
       /\ req[w].token \in Sids /\ sess[req[w].token].status = "ended"
       /\ req[w].cookie = Clear

\* One transaction at a time holds the claim.
OneClaim ==
  \A v, w \in Workers : v # w => ~(pc[v] \in Claiming /\ pc[w] \in Claiming)

\* The recorded time of use is that of a use.
UsesAreReal == \A s \in Sids : Live(s) => sess[s].lastUsed <= used[s]

AccountsInv ==
  OneAdministrator /\ OneClaim /\ UsesAreReal /\ \A w \in Workers : Sound(w)

-----------------------------------------------------------------------------
LEMMA InitInv == Init => AccountsInv
<1> SUFFICES ASSUME Init PROVE AccountsInv
  OBVIOUS
<1> USE NameAssumption, DurationAssumption
<1>1. NoRequest \in Request
  BY DEF NoRequest, Request, Keep, OrNone
<1>2. NoSession \in SessionRow
  BY DEF NoSession, SessionRow, OrNone
<1>3. TypeOK
  BY <1>1, <1>2 DEF Init, TypeOK, PcStates, OrNone
<1>4. OneClaim /\ \A w \in Workers : Sound(w)
  BY DEF Init, OneClaim, Sound, Claiming, Authenticating
<1>5. UsesAreReal
  BY DEF Init, UsesAreReal, Live, NoSession
<1> QED
  BY <1>3, <1>4, <1>5 DEF Init, AccountsInv, OneAdministrator

-----------------------------------------------------------------------------
(* What a step may do.                                                     *)

\* Only w moves.
OnlyMoves(w) ==
  /\ pc' \in [Workers -> PcStates] /\ req' \in [Workers -> Request]
  /\ \A v \in Workers \ {w} : pc'[v] = pc[v] /\ req'[v] = req[v]

\* A row once issued stays issued, an ended one ended, and times of use grow.
Evolves ==
  /\ sess' \in [Sids -> SessionRow] /\ used' \in [Sids -> Nat]
  /\ \A s \in Sids :
       /\ sess[s].status # "unissued" => sess'[s].status # "unissued" /\ used[s] <= used'[s]
       /\ sess[s].status = "ended" => sess'[s].status = "ended"

LEMMA InvTypes == AccountsInv => TypeOK
  BY DEF AccountsInv, OneAdministrator

LEMMA RespondFacts ==
  ASSUME TypeOK, NEW w \in Workers, NEW status, NEW cookie, Respond(w, status, cookie),
         status \in {"none", "ok", "conflict", "badRequest", "unauthorized", "forbidden",
                     "internal"},
         cookie \in [what : {"keep", "clear", "set"}, token : OrNone(Sids)]
  PROVE  /\ OnlyMoves(w)
         /\ pc'[w] = "reply" /\ req'[w].op = req[w].op /\ req'[w].token = req[w].token
         /\ req'[w].status = status /\ req'[w].cookie = cookie
<1> DEFINE r == [req[w] EXCEPT !.user = None, !.at = 0, !.csrf = FALSE,
                               !.status = status, !.cookie = cookie]
<1>1. req[w] \in Request
  BY DEF TypeOK
<1>2. /\ r \in Request /\ r.op = req[w].op /\ r.token = req[w].token
      /\ r.status = status /\ r.cookie = cookie
  BY <1>1 DEF Request, OrNone
<1>3. pc' = [pc EXCEPT ![w] = "reply"] /\ req' = [req EXCEPT ![w] = r]
  BY DEF Respond
<1> QED
  BY <1>2, <1>3 DEF TypeOK, OnlyMoves, PcStates

LEMMA CookiesAreTyped ==
  /\ {Keep, Clear} \subseteq [what : {"keep", "clear", "set"}, token : OrNone(Sids)]
  /\ \A s \in Sids : SetTo(s) \in [what : {"keep", "clear", "set"}, token : OrNone(Sids)]
  BY DEF Keep, Clear, SetTo, OrNone

LEMMA GotoFacts ==
  ASSUME TypeOK, NEW w \in Workers, NEW from, NEW to \in PcStates, Goto(w, from, to),
         UNCHANGED req
  PROVE  OnlyMoves(w) /\ pc[w] = from /\ pc'[w] = to /\ req'[w] = req[w]
  BY DEF TypeOK, Goto, OnlyMoves

\* The other workers do not notice.
LEMMA WorkerStep ==
  ASSUME AccountsInv, NEW w \in Workers, OnlyMoves(w), Evolves,
         UNCHANGED <<claimed, users>>, now' \in Nat,
         jar' \in [Browsers -> OrNone(Sids)],
         UsesAreReal', Sound(w)',
         pc'[w] \in Claiming => \A v \in Workers \ {w} : pc[v] \notin Claiming
  PROVE  AccountsInv'
<1>1. OneAdministrator'
  BY DEF AccountsInv, OneAdministrator, TypeOK, OnlyMoves, Evolves
<1>2. OneClaim'
  BY DEF AccountsInv, OneClaim, OnlyMoves
<1>3. ASSUME NEW v \in Workers PROVE Sound(v)'
  <2>1. CASE v = w
    BY <2>1
  <2>2. CASE v # w
    <3>1. Sound(v) /\ pc'[v] = pc[v] /\ req'[v] = req[v]
      BY <2>2 DEF AccountsInv, OnlyMoves
    <3>2. pc[v] = "touch" => req[v].token \in Sids /\ req[v].at \in Nat
      BY <3>1, InvTypes DEF Sound, Authenticating, TypeOK, Request
    <3>3. used \in [Sids -> Nat]
      BY InvTypes DEF TypeOK
    <3> QED
      BY <3>1, <3>2, <3>3 DEF Sound, Evolves
  <2> QED
    BY <2>1, <2>2
<1> QED
  BY <1>1, <1>2, <1>3 DEF AccountsInv

\* Steps that leave sessions alone.
LEMMA QuietStep ==
  ASSUME AccountsInv, NEW w \in Workers, OnlyMoves(w),
         UNCHANGED <<database, used, now>>, jar' \in [Browsers -> OrNone(Sids)],
         Sound(w)',
         pc'[w] \in Claiming => \A v \in Workers \ {w} : pc[v] \notin Claiming
  PROVE  AccountsInv'
<1>1. Evolves /\ UsesAreReal' /\ now' \in Nat /\ UNCHANGED <<claimed, users>>
  BY InvTypes DEF AccountsInv, TypeOK, Evolves, UsesAreReal, Live, database
<1> QED
  BY <1>1, WorkerStep

\* A refusal, of whatever request.
LEMMA RefusalStep ==
  ASSUME AccountsInv, NEW w \in Workers, NEW status, NEW cookie, Respond(w, status, cookie),
         status \in {"conflict", "badRequest", "unauthorized", "forbidden", "internal"},
         cookie \in {Keep, Clear}, UNCHANGED <<database, used, now, jar>>
  PROVE  AccountsInv'
<1>1. OnlyMoves(w) /\ pc'[w] = "reply" /\ req'[w].status = status
  BY InvTypes, RespondFacts, CookiesAreTyped
<1>2. Sound(w)'
  BY <1>1 DEF Sound, Claiming, Authenticating
<1>3. jar' \in [Browsers -> OrNone(Sids)]
  BY InvTypes DEF TypeOK
<1> QED
  BY <1>1, <1>2, <1>3, QuietStep DEF Claiming

-----------------------------------------------------------------------------
(* Requests come and answers go.                                           *)

LEMMA AcceptStep ==
  ASSUME AccountsInv, NEW w \in Workers, NEW b \in Browsers, NEW first, NEW op, NEW token,
         NEW csrf \in BOOLEAN, Accept(w, b, first, op, token, csrf),
         \/ first = "claim" /\ op = "bootstrap" /\ token = None
         \/ first = "verify" /\ op = "login" /\ token = None
         \/ first = "read" /\ op \in {"get", "logout"} /\ token \in Sids
  PROVE  AccountsInv'
<1> USE NameAssumption
<1> DEFINE r == [NoRequest EXCEPT !.op = op, !.from = b, !.token = token, !.at = now,
                                  !.csrf = csrf]
<1>1. r \in Request /\ r.op = op /\ r.token = token
  BY InvTypes DEF TypeOK, NoRequest, Request, Keep, OrNone, Ops
<1>2. pc' = [pc EXCEPT ![w] = first] /\ req' = [req EXCEPT ![w] = r]
  BY DEF Accept, Goto
<1>3. OnlyMoves(w) /\ pc'[w] = first /\ req'[w].op = op /\ req'[w].token = token
  BY <1>1, <1>2, InvTypes DEF TypeOK, OnlyMoves, PcStates
<1>4. Sound(w)'
  BY <1>3 DEF Sound, Claiming, Authenticating
<1>5. UNCHANGED <<database, used, now>> /\ jar' \in [Browsers -> OrNone(Sids)]
  BY InvTypes DEF Accept, TypeOK
<1> QED
  BY <1>3, <1>4, <1>5, QuietStep DEF Claiming

LEMMA StartStep ==
  ASSUME AccountsInv, NEW w \in Workers, Start(w)
  PROVE  AccountsInv'
<1> USE NameAssumption
<1>1. CASE StartBootstrap(w) \/ StartLogin(w)
  BY <1>1, AcceptStep DEF StartBootstrap, StartLogin
<1>2. CASE StartAuthenticated(w)
  <2>1. \A b \in Browsers : jar[b] # None => jar[b] \in Sids
    BY InvTypes DEF TypeOK, OrNone
  <2> QED
    BY <1>2, <2>1, AcceptStep DEF StartAuthenticated
<1>3. CASE RefuseAnonymous(w)
  <2>1. PICK b \in Browsers :
          /\ pc' = [pc EXCEPT ![w] = "reply"]
          /\ req' = [req EXCEPT ![w] = [NoRequest EXCEPT !.op = "get", !.from = b,
                                          !.status = "unauthorized", !.cookie = Clear]]
          /\ UNCHANGED <<jar, used, now, database>>
    BY <1>3 DEF RefuseAnonymous
  <2> DEFINE r == [NoRequest EXCEPT !.op = "get", !.from = b, !.status = "unauthorized",
                                    !.cookie = Clear]
  <2>2. r \in Request /\ r.op = "get"
    BY DEF NoRequest, Request, Keep, Clear, OrNone, Ops
  <2>3. OnlyMoves(w) /\ pc'[w] = "reply" /\ req'[w].op = "get"
    BY <2>1, <2>2, InvTypes DEF TypeOK, OnlyMoves, PcStates
  <2>4. Sound(w)'
    BY <2>3 DEF Sound, Claiming, Authenticating
  <2>5. jar' \in [Browsers -> OrNone(Sids)]
    BY <2>1, InvTypes DEF TypeOK
  <2> QED
    BY <2>1, <2>3, <2>4, <2>5, QuietStep DEF Claiming
<1> QED
  BY <1>1, <1>2, <1>3 DEF Start

LEMMA AnsweredStep ==
  ASSUME AccountsInv, NEW w \in Workers, Deliver(w) \/ Lose(w)
  PROVE  AccountsInv'
<1> USE NameAssumption
<1>1. pc' = [pc EXCEPT ![w] = "idle"] /\ req' = [req EXCEPT ![w] = NoRequest]
  BY DEF Deliver, Lose, Goto
<1>2. NoRequest \in Request
  BY DEF NoRequest, Request, Keep, OrNone
<1>3. OnlyMoves(w) /\ pc'[w] = "idle"
  BY <1>1, <1>2, InvTypes DEF TypeOK, OnlyMoves, PcStates
<1>4. Sound(w)'
  BY <1>3 DEF Sound, Claiming, Authenticating
<1>5. jar' \in [Browsers -> OrNone(Sids)]
  <2>1. req[w].cookie.token \in OrNone(Sids)
    BY InvTypes DEF TypeOK, Request
  <2> QED
    BY <2>1, InvTypes DEF Deliver, Lose, TypeOK
<1>6. UNCHANGED <<database, used, now>>
  BY DEF Deliver, Lose
<1> QED
  BY <1>3, <1>4, <1>5, <1>6, QuietStep DEF Claiming

-----------------------------------------------------------------------------
(* Claiming the installation.                                              *)

LEMMA ClaimStep ==
  ASSUME AccountsInv, NEW w \in Workers, ClaimBootstrap(w)
  PROVE  AccountsInv'
<1>1. CASE Respond(w, "conflict", Keep)
  BY <1>1, RefusalStep DEF ClaimBootstrap
<1>2. CASE ~claimed /\ Goto(w, "claim", "create") /\ UNCHANGED req
  <2>1. OnlyMoves(w) /\ pc[w] = "claim" /\ pc'[w] = "create" /\ req'[w] = req[w]
    BY <1>2, InvTypes, GotoFacts DEF PcStates
  <2>2. UNCHANGED <<database, used, now>> /\ jar' \in [Browsers -> OrNone(Sids)]
    BY InvTypes DEF ClaimBootstrap, TypeOK
  <2>3. Sound(w)'
    BY <1>2, <2>1, <2>2 DEF AccountsInv, Sound, Claiming, Authenticating, database
  <2>4. \A v \in Workers \ {w} : pc[v] \notin Claiming
    BY DEF ClaimBootstrap, ClaimPending, Claiming
  <2> QED
    BY <2>1, <2>2, <2>3, <2>4, QuietStep
<1> QED
  BY <1>1, <1>2 DEF ClaimBootstrap

LEMMA CreateStep ==
  ASSUME AccountsInv, NEW w \in Workers, CreateUser(w)
  PROVE  AccountsInv'
<1>1. CASE Respond(w, "badRequest", Keep)
  BY <1>1, RefusalStep DEF CreateUser
<1>2. ASSUME NEW u \in Users, Goto(w, "create", "commit"), req' = [req EXCEPT ![w].user = u]
      PROVE  AccountsInv'
  <2>1. [req[w] EXCEPT !.user = u] \in Request /\ [req[w] EXCEPT !.user = u].op = req[w].op
        /\ [req[w] EXCEPT !.user = u].user = u
    BY InvTypes DEF TypeOK, Request, OrNone
  <2>2. OnlyMoves(w) /\ pc[w] = "create" /\ pc'[w] = "commit"
        /\ req'[w].op = req[w].op /\ req'[w].user = u
    BY <1>2, <2>1, InvTypes DEF TypeOK, Goto, OnlyMoves, PcStates
  <2>3. UNCHANGED <<database, used, now>> /\ jar' \in [Browsers -> OrNone(Sids)]
    BY InvTypes DEF CreateUser, TypeOK
  <2>4. Sound(w)'
    BY <2>2, <2>3 DEF AccountsInv, Sound, Claiming, Authenticating, database
  <2>5. \A v \in Workers \ {w} : pc[v] \notin Claiming
    BY <2>2 DEF AccountsInv, OneClaim, Claiming
  <2> QED
    BY <2>2, <2>3, <2>4, <2>5, QuietStep
<1> QED
  BY <1>1, <1>2 DEF CreateUser

LEMMA CommitStep ==
  ASSUME AccountsInv, NEW w \in Workers, CommitBootstrap(w)
  PROVE  AccountsInv'
<1>1. /\ pc[w] = "commit" /\ claimed' = TRUE /\ users' = users \cup {req[w].user}
      /\ UNCHANGED <<sess, now, jar, used>>
  BY DEF CommitBootstrap
<1>2. req[w].user \in Users /\ ~claimed
  BY <1>1 DEF AccountsInv, Sound, Claiming
<1>3. users = {}
  BY <1>2 DEF AccountsInv, OneAdministrator
<1>4. /\ OnlyMoves(w)
      /\ \/ pc'[w] = "issue" /\ req'[w] = req[w]
         \/ pc'[w] = "reply" /\ req'[w].status = "internal"
  <2>1. CASE Goto(w, "commit", "issue") /\ UNCHANGED req
    BY <2>1, InvTypes, GotoFacts DEF PcStates
  <2>2. CASE Respond(w, "internal", Keep)
    BY <2>2, InvTypes, RespondFacts, CookiesAreTyped
  <2> QED
    BY <2>1, <2>2 DEF CommitBootstrap
<1>5. OneAdministrator'
  BY <1>1, <1>2, <1>3, <1>4, InvTypes DEF OneAdministrator, TypeOK, OnlyMoves
<1>6. OneClaim' /\ UsesAreReal'
  BY <1>1, <1>4 DEF AccountsInv, OneClaim, UsesAreReal, Live, OnlyMoves, Claiming
<1>7. ASSUME NEW v \in Workers PROVE Sound(v)'
  <2>1. CASE v = w
    BY <1>1, <1>4, <2>1 DEF AccountsInv, Sound, Claiming, Authenticating
  <2>2. CASE v # w
    <3>1. Sound(v) /\ pc'[v] = pc[v] /\ req'[v] = req[v]
      BY <1>4, <2>2 DEF AccountsInv, OnlyMoves
    <3>2. pc[v] \notin Claiming
      BY <1>1, <2>2 DEF AccountsInv, OneClaim, Claiming
    <3> QED
      BY <1>1, <3>1, <3>2 DEF Sound
  <2> QED
    BY <2>1, <2>2
<1> QED
  BY <1>5, <1>6, <1>7 DEF AccountsInv

-----------------------------------------------------------------------------
(* Signing in.                                                             *)

LEMMA VerifyStep ==
  ASSUME AccountsInv, NEW w \in Workers, VerifyCredentials(w)
  PROVE  AccountsInv'
<1>1. CASE Respond(w, "unauthorized", Keep)
  BY <1>1, RefusalStep DEF VerifyCredentials
<1>2. ASSUME NEW u \in users, Goto(w, "verify", "issue"), req' = [req EXCEPT ![w].user = u]
      PROVE  AccountsInv'
  <2>1. [req[w] EXCEPT !.user = u] \in Request /\ [req[w] EXCEPT !.user = u].op = req[w].op
    BY InvTypes DEF TypeOK, Request, OrNone
  <2>2. /\ OnlyMoves(w) /\ pc[w] = "verify" /\ pc'[w] = "issue"
        /\ req'[w].op = req[w].op
    BY <1>2, <2>1, InvTypes DEF TypeOK, Goto, OnlyMoves, PcStates
  <2>3. UNCHANGED <<database, used, now>> /\ jar' \in [Browsers -> OrNone(Sids)]
    BY InvTypes DEF VerifyCredentials, TypeOK
  <2>4. Sound(w)'
    BY <2>2, <2>3 DEF AccountsInv, Sound, Claiming, Authenticating
  <2> QED
    BY <2>2, <2>3, <2>4, QuietStep DEF Claiming
<1> QED
  BY <1>1, <1>2 DEF VerifyCredentials

\* An answer to a request that was not a sign-out.
LEMMA NotSignOut ==
  ASSUME AccountsInv, NEW w \in Workers, pc'[w] = "reply",
         req'[w].op = req[w].op, req[w].op # "logout"
  PROVE  Sound(w)'
  BY DEF Sound, Claiming, Authenticating

LEMMA IssueStep ==
  ASSUME AccountsInv, NEW w \in Workers, IssueSession(w) \/ IssueFails(w)
  PROVE  AccountsInv'
<1> USE DurationAssumption
<1>1. /\ pc[w] = "issue" /\ req[w].op # "logout"
      /\ UNCHANGED <<claimed, users, now, jar>>
  BY DEF AccountsInv, Sound, IssueSession, IssueFails, database
<1>2. now' \in Nat /\ jar' \in [Browsers -> OrNone(Sids)]
  BY <1>1, InvTypes DEF TypeOK
<1>3. OnlyMoves(w) /\ pc'[w] = "reply" /\ req'[w].op = req[w].op
  <2>1. CASE RespondWithoutSession(w)
    BY <2>1, InvTypes, RespondFacts, CookiesAreTyped DEF RespondWithoutSession
  <2>2. CASE \E s \in Sids : Respond(w, "ok", SetTo(s))
    BY <2>2, InvTypes, RespondFacts, CookiesAreTyped
  <2> QED
    BY <2>1, <2>2 DEF IssueSession, IssueFails
<1>4. Sound(w)'
  BY <1>1, <1>3, NotSignOut
<1>5. CASE IssueFails(w)
  BY <1>2, <1>3, <1>4, <1>5, QuietStep DEF IssueFails, Claiming
<1>6. CASE IssueSession(w)
  <2>1. PICK s \in Sids :
          /\ sess[s].status = "unissued"
          /\ sess' = [sess EXCEPT ![s] = NewSession(req[w].user, req[w].at)]
          /\ used' = [used EXCEPT ![s] = req[w].at]
    BY <1>6 DEF IssueSession
  <2>2. /\ req[w].at \in Nat /\ NewSession(req[w].user, req[w].at) \in SessionRow
        /\ NewSession(req[w].user, req[w].at).lastUsed = req[w].at
    BY InvTypes DEF TypeOK, Request, NewSession, SessionRow, OrNone
  <2>3. Evolves
    BY <2>1, <2>2, InvTypes DEF TypeOK, Evolves
  <2>4. UsesAreReal'
    BY <2>1, <2>2, InvTypes DEF AccountsInv, UsesAreReal, Live, TypeOK
  <2> QED
    BY <1>1, <1>2, <1>3, <1>4, <2>3, <2>4, WorkerStep DEF Claiming
<1> QED
  BY <1>5, <1>6

-----------------------------------------------------------------------------
(* Sessions: requireSession, requireCSRF and signing out.                  *)

LEMMA ReadStep ==
  ASSUME AccountsInv, NEW w \in Workers, ReadSession(w)
  PROVE  AccountsInv'
<1> DEFINE s == req[w].token
           t == req[w].at
<1>1. /\ pc[w] = "read" /\ s \in Sids /\ t \in Nat /\ req[w].op \in {"get", "logout"}
      /\ used \in [Sids -> Nat] /\ sess \in [Sids -> SessionRow]
      /\ UNCHANGED <<jar, now, database>>
  BY InvTypes DEF ReadSession, AccountsInv, Sound, Authenticating, TypeOK, Request
<1>2. now' \in Nat /\ jar' \in [Browsers -> OrNone(Sids)]
  BY <1>1, InvTypes DEF TypeOK
<1>3. CASE Respond(w, "unauthorized", Clear) /\ UNCHANGED used
  BY <1>1, <1>3, RefusalStep
<1>4. CASE Goto(w, "read", "expire") /\ UNCHANGED <<req, used>>
  <2>1. OnlyMoves(w) /\ pc'[w] = "expire" /\ req'[w] = req[w]
    BY <1>4, InvTypes, GotoFacts DEF PcStates
  <2>2. Sound(w)'
    BY <1>1, <2>1 DEF Sound, Claiming, Authenticating
  <2> QED
    BY <1>1, <1>2, <1>4, <2>1, <2>2, QuietStep DEF Claiming
<1>5. CASE /\ Live(s)
           /\ Goto(w, "read", IF Stale(sess[s], t) THEN "touch" ELSE "check")
           /\ Accepted(s, t)
           /\ UNCHANGED req
  <2>1. OnlyMoves(w) /\ pc'[w] \in {"touch", "check"} /\ req'[w] = req[w]
    BY <1>5, InvTypes, GotoFacts DEF PcStates
  <2>2. /\ used' \in [Sids -> Nat] /\ t <= used'[s]
        /\ \A r \in Sids : used[r] <= used'[r]
    BY <1>1, <1>5 DEF Accepted
  <2>3. Evolves
    BY <1>1, <2>2 DEF Evolves, database
  <2>4. UsesAreReal'
    BY <1>1, <2>2 DEF AccountsInv, UsesAreReal, Live, database, SessionRow
  <2>5. Sound(w)'
    BY <1>1, <1>5, <2>1, <2>2 DEF Sound, Claiming, Authenticating, Live, database
  <2> QED
    BY <1>1, <1>2, <2>1, <2>3, <2>4, <2>5, WorkerStep DEF Claiming, database
<1> QED
  BY <1>3, <1>4, <1>5 DEF ReadSession

\* A row is deleted.
LEMMA Ending ==
  ASSUME AccountsInv, NEW s \in Sids, sess' = [sess EXCEPT ![s].status = "ended"],
         UNCHANGED used
  PROVE  Evolves /\ UsesAreReal' /\ sess'[s].status = "ended"
<1>1. sess \in [Sids -> SessionRow] /\ used \in [Sids -> Nat]
  BY InvTypes DEF TypeOK
<1>2. /\ [sess[s] EXCEPT !.status = "ended"] \in SessionRow
      /\ [sess[s] EXCEPT !.status = "ended"].status = "ended"
  BY <1>1 DEF SessionRow
<1>3. /\ sess' \in [Sids -> SessionRow] /\ sess'[s].status = "ended"
      /\ \A r \in Sids \ {s} : sess'[r] = sess[r]
  BY <1>1, <1>2
<1> QED
  BY <1>1, <1>3 DEF AccountsInv, Evolves, UsesAreReal, Live

LEMMA ExpireStep ==
  ASSUME AccountsInv, NEW w \in Workers, ExpireSession(w)
  PROVE  AccountsInv'
<1>1. /\ req[w].token \in Sids
      /\ sess' = [sess EXCEPT ![req[w].token].status = "ended"]
      /\ UNCHANGED <<claimed, users, now, jar, used>>
  BY DEF ExpireSession, AccountsInv, Sound, Authenticating
<1>2. Evolves /\ UsesAreReal'
  BY <1>1, Ending
<1>3. /\ OnlyMoves(w) /\ pc'[w] = "reply" /\ req'[w].status # "ok"
  BY InvTypes, RespondFacts, CookiesAreTyped DEF ExpireSession
<1>4. Sound(w)'
  BY <1>3 DEF Sound, Claiming, Authenticating
<1> QED
  BY <1>1, <1>2, <1>3, <1>4, InvTypes, WorkerStep DEF Claiming, TypeOK

LEMMA TouchStep ==
  ASSUME AccountsInv, NEW w \in Workers, TouchSession(w)
  PROVE  AccountsInv'
<1> DEFINE s == req[w].token
           t == req[w].at
<1>1. /\ pc[w] = "touch" /\ s \in Sids /\ t \in Nat /\ t <= used[s]
      /\ req[w].op \in {"get", "logout"}
      /\ sess \in [Sids -> SessionRow] /\ used \in [Sids -> Nat]
      /\ sess' = IF Live(s) THEN [sess EXCEPT ![s].lastUsed = t] ELSE sess
      /\ UNCHANGED <<claimed, users, now, jar, used>>
  BY InvTypes DEF TouchSession, AccountsInv, Sound, Authenticating, TypeOK, Request
<1>2. /\ [sess[s] EXCEPT !.lastUsed = t] \in SessionRow
      /\ [sess[s] EXCEPT !.lastUsed = t].lastUsed = t
      /\ [sess[s] EXCEPT !.lastUsed = t].status = sess[s].status
  BY <1>1 DEF SessionRow
<1>3. /\ sess' \in [Sids -> SessionRow] /\ sess'[s].status = sess[s].status
      /\ \A r \in Sids \ {s} : sess'[r] = sess[r]
      /\ Live(s) => sess'[s].lastUsed = t
  BY <1>1, <1>2
<1>4. Evolves
  BY <1>1, <1>3 DEF Evolves
<1>5. UsesAreReal'
  BY <1>1, <1>3 DEF AccountsInv, UsesAreReal, Live
<1>6. /\ OnlyMoves(w)
      /\ \/ pc'[w] = "check" /\ req'[w] = req[w]
         \/ pc'[w] = "reply" /\ req'[w].status = "internal"
  <2>1. CASE Goto(w, "touch", "check") /\ UNCHANGED req
    BY <2>1, InvTypes, GotoFacts DEF PcStates
  <2>2. CASE Respond(w, "internal", Keep)
    BY <2>2, InvTypes, RespondFacts, CookiesAreTyped
  <2> QED
    BY <2>1, <2>2 DEF TouchSession
<1>7. Sound(w)'
  BY <1>1, <1>6 DEF Sound, Claiming, Authenticating
<1> QED
  BY <1>1, <1>4, <1>5, <1>6, <1>7, InvTypes, WorkerStep DEF Claiming, TypeOK

LEMMA CheckStep ==
  ASSUME AccountsInv, NEW w \in Workers, CheckRequest(w)
  PROVE  AccountsInv'
<1>1. CASE Respond(w, "forbidden", Keep)
  BY <1>1, RefusalStep DEF CheckRequest
<1>2. CASE Goto(w, "check", "handle") /\ UNCHANGED req
  <2>1. OnlyMoves(w) /\ pc[w] = "check" /\ pc'[w] = "handle" /\ req'[w] = req[w]
    BY <1>2, InvTypes, GotoFacts DEF PcStates
  <2>2. UNCHANGED <<database, used, now>> /\ jar' \in [Browsers -> OrNone(Sids)]
    BY InvTypes DEF CheckRequest, TypeOK
  <2>3. Sound(w)'
    BY <2>1 DEF AccountsInv, Sound, Claiming, Authenticating
  <2> QED
    BY <2>1, <2>2, <2>3, QuietStep DEF Claiming
<1> QED
  BY <1>1, <1>2 DEF CheckRequest

LEMMA GetStep ==
  ASSUME AccountsInv, NEW w \in Workers, HandleGet(w)
  PROVE  AccountsInv'
<1>1. OnlyMoves(w) /\ pc'[w] = "reply" /\ req'[w].op = req[w].op
  BY InvTypes, RespondFacts, CookiesAreTyped DEF HandleGet
<1>2. Sound(w)'
  BY <1>1, NotSignOut DEF HandleGet
<1>3. UNCHANGED <<database, used, now>> /\ jar' \in [Browsers -> OrNone(Sids)]
  BY InvTypes DEF HandleGet, TypeOK
<1> QED
  BY <1>1, <1>2, <1>3, QuietStep DEF Claiming

LEMMA LogoutStep ==
  ASSUME AccountsInv, NEW w \in Workers, HandleLogout(w)
  PROVE  AccountsInv'
<1>1. /\ req[w].token \in Sids
      /\ sess' = [sess EXCEPT ![req[w].token].status = "ended"]
      /\ UNCHANGED <<claimed, users, now, jar, used>>
  BY DEF HandleLogout, AccountsInv, Sound, Authenticating
<1>2. Evolves /\ UsesAreReal' /\ sess'[req[w].token].status = "ended"
  BY <1>1, Ending
<1>3. /\ OnlyMoves(w) /\ pc'[w] = "reply" /\ req'[w].token = req[w].token
      /\ req'[w].cookie = Clear
  <2>1. PICK status \in {"ok", "internal"} : Respond(w, status, Clear)
    BY DEF HandleLogout
  <2> QED
    BY <2>1, InvTypes, RespondFacts, CookiesAreTyped
<1>4. Sound(w)'
  BY <1>1, <1>2, <1>3 DEF Sound, Claiming, Authenticating
<1> QED
  BY <1>1, <1>2, <1>3, <1>4, InvTypes, WorkerStep DEF Claiming, TypeOK

-----------------------------------------------------------------------------
LEMMA StepInv ==
  ASSUME AccountsInv, [Next]_vars
  PROVE  AccountsInv'
<1>1. CASE UNCHANGED vars
  BY <1>1 DEF vars, AccountsInv, OneAdministrator, TypeOK, OneClaim, UsesAreReal, Sound, Live
<1>2. CASE Tick
  <2>1. now' \in Nat /\ UNCHANGED <<claimed, users, sess, pc, req, jar, used>>
    BY <1>2, InvTypes DEF Tick, TypeOK, database
  <2> QED
    BY <2>1 DEF AccountsInv, OneAdministrator, TypeOK, OneClaim, UsesAreReal, Sound, Live
<1>3. ASSUME NEW w \in Workers, Start(w) \/ Step(w) \/ Fail(w) \/ Deliver(w) \/ Lose(w)
      PROVE  AccountsInv'
  <2>1. CASE Step(w)
    BY <2>1, ClaimStep, CreateStep, CommitStep, VerifyStep, IssueStep, ReadStep, ExpireStep,
       TouchStep, CheckStep, GetStep, LogoutStep DEF Step
  <2>2. CASE Fail(w)
    BY <2>2, RefusalStep DEF Fail
  <2> QED
    BY <1>3, <2>1, <2>2, StartStep, AnsweredStep
<1> QED
  BY <1>1, <1>2, <1>3 DEF Next

(* Whatever requests overlap, fail or lose their answers, for any number   *)
(* of workers, browsers, accounts and tokens: what each worker relies on   *)
(* stays true, one transaction at a time holds the claim, and a recorded   *)
(* time of use is one.                                                     *)
THEOREM AccountsInvariance == Spec => []AccountsInv
  BY InitInv, StepInv, PTL DEF Spec

(* handleBootstrap leaves one administrator and the claim together, and a  *)
(* sign-out that answers with success has ended the session for good.      *)
THEOREM AccountsSafety == Spec => [](OneAdministrator /\ SignedOutMeansEnded)
<1>1. AccountsInv => OneAdministrator /\ SignedOutMeansEnded
  BY DEF AccountsInv, Sound, SignedOutMeansEnded, Live
<1> QED
  BY <1>1, AccountsInvariance, PTL

LEMMA SessionWrites ==
  ASSUME [Next]_vars
  PROVE  /\ \/ UNCHANGED sess
            \/ \E w \in Workers : \/ IssueSession(w) \/ ExpireSession(w)
                                  \/ TouchSession(w) \/ HandleLogout(w)
         /\ \/ UNCHANGED used
            \/ \E w \in Workers : IssueSession(w) \/ ReadSession(w)
<1>1. CASE UNCHANGED vars \/ Tick
  BY <1>1 DEF vars, Tick, database
<1>2. ASSUME NEW w \in Workers, Start(w) PROVE UNCHANGED <<sess, used>>
  BY <1>2 DEF Start, StartBootstrap, StartLogin, StartAuthenticated, RefuseAnonymous, Accept,
              database
<1>3. ASSUME NEW w \in Workers, Fail(w) \/ Deliver(w) \/ Lose(w) PROVE UNCHANGED <<sess, used>>
  BY <1>3 DEF Fail, Deliver, Lose, database
<1>4. ASSUME NEW w \in Workers, Step(w)
      PROVE  /\ \/ UNCHANGED sess
                \/ IssueSession(w) \/ ExpireSession(w) \/ TouchSession(w) \/ HandleLogout(w)
             /\ UNCHANGED used \/ IssueSession(w) \/ ReadSession(w)
  BY <1>4 DEF Step, ClaimBootstrap, CreateUser, CommitBootstrap, VerifyCredentials,
              IssueFails, ReadSession, ExpireSession, TouchSession, CheckRequest, HandleGet,
              HandleLogout, database
<1> QED
  BY <1>1, <1>2, <1>3, <1>4 DEF Next

LEMMA EndedStays ==
  ASSUME AccountsInv, [Next]_vars, NEW s \in Sids, sess[s].status = "ended"
  PROVE  sess'[s].status = "ended"
<1>1. sess \in [Sids -> SessionRow]
  BY InvTypes DEF TypeOK
<1>2. ASSUME NEW w \in Workers, IssueSession(w) PROVE sess'[s].status = "ended"
  BY <1>1, <1>2 DEF IssueSession
<1>3. ASSUME NEW w \in Workers, ExpireSession(w) \/ HandleLogout(w)
      PROVE  sess'[s].status = "ended"
  <2>1. [sess[s] EXCEPT !.status = "ended"].status = "ended"
    BY <1>1 DEF SessionRow
  <2>2. sess' = [sess EXCEPT ![req[w].token].status = "ended"]
    BY <1>3 DEF ExpireSession, HandleLogout
  <2> QED
    BY <1>1, <2>1, <2>2
<1>4. ASSUME NEW w \in Workers, TouchSession(w) PROVE sess'[s].status = "ended"
  BY <1>1, <1>4 DEF TouchSession, Live
<1> QED
  BY <1>2, <1>3, <1>4, SessionWrites

LEMMA UseIsInTime ==
  ASSUME AccountsInv, [Next]_vars, NEW s \in Sids, sess[s].status = "live",
         used'[s] # used[s]
  PROVE  /\ IdleTimeout > 0 => used'[s] - used[s] < IdleTimeout
         /\ used'[s] < sess[s].expires
<1>1. sess \in [Sids -> SessionRow] /\ used \in [Sids -> Nat]
  BY InvTypes DEF TypeOK
<1>2. ~(\E w \in Workers : IssueSession(w))
  BY <1>1 DEF IssueSession
<1>3. PICK w \in Workers : ReadSession(w)
  BY <1>2, SessionWrites
<1> DEFINE t == req[w].at
<1>4. t \in Nat /\ sess[s].lastUsed \in Nat /\ sess[s].expires \in Nat
  BY <1>1, InvTypes DEF TypeOK, Request, SessionRow
<1>5. /\ s = req[w].token /\ ~IsExpired(sess[s], t) /\ Accepted(s, t)
  BY <1>1, <1>3 DEF ReadSession, Accepted
<1>6. used'[s] = t
  BY <1>1, <1>5 DEF Accepted
<1>7. sess[s].lastUsed <= used[s]
  BY DEF AccountsInv, UsesAreReal, Live
<1> QED
  BY <1>1, <1>4, <1>5, <1>6, <1>7, DurationAssumption DEF IsExpired

(* A session that was deleted never comes back, not even by the late write *)
(* of a request that had read it, and SessionStore.Lookup accepts none     *)
(* that was idle for the timeout or is past its lifetime.                  *)
THEOREM SessionsEnd == Spec => EndedStaysEnded /\ UnusedIsRefused
<1>1. AccountsInv /\ [Next]_vars =>
        [\A s \in Sids : sess[s].status = "ended" => sess'[s].status = "ended"]_vars
  BY EndedStays
<1>2. AccountsInv /\ [Next]_vars =>
        [\A s \in Sids : sess[s].status = "live" /\ used'[s] # used[s] =>
           /\ IdleTimeout > 0 => used'[s] - used[s] < IdleTimeout
           /\ used'[s] < sess[s].expires]_vars
  BY UseIsInTime
<1> QED
  BY <1>1, <1>2, AccountsInvariance, PTL DEF Spec, EndedStaysEnded, UnusedIsRefused
=============================================================================
