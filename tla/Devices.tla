------------------------------ MODULE Devices -------------------------------
(***************************************************************************)
(* Device enrolment, registration, revocation and check-in, as             *)
(* internal/devices and internal/network run them for the handlers of      *)
(* internal/server.                                                        *)
(*                                                                         *)
(* A worker is a goroutine serving one request at a time.  Each SQL        *)
(* statement is a step.  Statements of a transaction write rows that other *)
(* connections do not see before COMMIT (READ COMMITTED); a statement that *)
(* meets a row written by an open transaction waits for it.  The rows an   *)
(* open transaction has written follow from its control state, so the      *)
(* locks are derived (KeyPending, AddressPending, ...) and rolling back is *)
(* forgetting the worker's locals.  The connection pool has MaxConns       *)
(* connections: SQLite is run with one, PostgreSQL with more.              *)
(***************************************************************************)
EXTENDS Registry

CONSTANTS
  Workers,        \* request-serving goroutines, of one or several servers
  Admins,         \* the users whose scope is every device
  MaxConns,       \* size of the connection pool
  MaxAttempts,    \* maxAllocationAttempts
  ScatterWindow,  \* scatterWindow
  MaxTime,        \* bound on the clock
  Served          \* the operations clients ask for; all of them unless an
                  \* instance is bounded to some

Ops == {"register", "enroll", "revoke", "heartbeat", "createKey", "revokeKey"}

ASSUME WorkerAssumption ==
  /\ Admins \subseteq Users
  /\ MaxConns \in Nat \ {0}
  /\ MaxAttempts \in Nat \ {0}
  /\ ScatterWindow \in Nat \ {0}
  /\ MaxTime \in Nat
  /\ IsFiniteSet(Workers)
  /\ Served \subseteq Ops

VARIABLES
  pc,       \* the statement each worker runs next
  req,      \* the request it serves
  cand,     \* allocateFrom: the candidate address
  attempt,  \* allocateFrom: the attempt number
  held,     \* rows of ip_allocations its transaction has written
  resp      \* the outcome of its last request

locals == <<pc, req, cand, attempt, held, resp>>
vars == <<keys, devs, alloc, tokens, now, pc, req, cand, attempt, held, resp>>

Creating == {"register", "enroll"}

Request == [op : Ops \cup {"none"}, key : OrNull(Keys),
            dev : OrNull(DeviceIds), pk : OrNull(PublicKeys), user : OrNull(Users), at : Nat]

NoRequest == [op |-> "none", key |-> None, dev |-> None,
              pk |-> None, user |-> None, at |-> 0]

\* Control states in which the worker holds a connection.
TxStates == {"consume", "pick", "claim", "insert", "release", "retire", "commit"}
ExecStates == {"issue", "cancel", "beat"}
Connected == TxStates \cup ExecStates
PcStates == {"idle", "lookup", "find", "auth", "begin"} \cup Connected

Responses == {"none", "ok", "badRequest", "keyRejected", "publicKeyTaken",
              "poolExhausted", "notFound", "deviceRevoked", "tokenInvalid",
              "internal"}

ConnFree == Cardinality({w \in Workers : pc[w] \in Connected}) < MaxConns

-----------------------------------------------------------------------------
(* Rows written by open transactions.                                      *)

\* The transaction has an uncommitted uses + 1 of the request's setup key.
Spending(w) ==
  req[w].op = "enroll" /\ pc[w] \in {"pick", "claim", "insert", "commit"}

\* It has inserted the device's row.
Inserted(w) == req[w].op \in Creating /\ pc[w] = "commit"

\* It has marked the device's row revoked.
Retired(w) == req[w].op = "revoke" /\ pc[w] = "commit"

\* The row belongs to an open transaction of another worker.
KeyPending(w, k) == \E v \in Workers \ {w} : Spending(v) /\ req[v].key = k

AddressPending(w, a) == \E v \in Workers \ {w} : a \in held[v]

PublicKeyPending(w, pk) == \E v \in Workers \ {w} : Inserted(v) /\ req[v].pk = pk

DevicePending(w, d) == \E v \in Workers \ {w} : Retired(v) /\ req[v].dev = d

\* shared.NewID: not the identifier of a row, nor one another request drew.
FreshDevice(d) ==
  /\ ~DeviceExists(d)
  /\ \A v \in Workers : req[v].op \in Creating => req[v].dev # d

FreshKey(k) ==
  /\ ~KeyExists(k)
  /\ \A v \in Workers : req[v].op = "createKey" => req[v].key # k

-----------------------------------------------------------------------------
(* Control: moving on, and answering.  Answering ends the request: an open *)
(* transaction is over and its connection goes back to the pool.           *)

Goto(w, from, to) ==
  /\ pc[w] = from
  /\ pc' = [pc EXCEPT ![w] = to]

Reply(w, r) ==
  /\ pc' = [pc EXCEPT ![w] = "idle"]
  /\ req' = [req EXCEPT ![w] = NoRequest]
  /\ cand' = [cand EXCEPT ![w] = None]
  /\ attempt' = [attempt EXCEPT ![w] = 0]
  /\ held' = [held EXCEPT ![w] = {}]
  /\ resp' = [resp EXCEPT ![w] = r]

\* The write took effect; the acknowledgement may still be lost on the way
\* from the database, and the handler then answers with an internal error.
Acknowledge(w) == \E r \in {"ok", "internal"} : Reply(w, r)

Accept(w, first, r) ==
  /\ r.op \in Served
  /\ Goto(w, "idle", first)
  /\ req' = [req EXCEPT ![w] = r]
  /\ resp' = [resp EXCEPT ![w] = "none"]
  /\ UNCHANGED <<cand, attempt, held, keys, devs, alloc, tokens, now>>

-----------------------------------------------------------------------------
(* Requests arrive.  The handler reads the clock once, here, except for a  *)
(* heartbeat.  A public key of None stands for a device description that   *)
(* create refuses (an empty name, a malformed or all-zero key).            *)

StartRegister(w) ==
  \E d \in {e \in DeviceIds : FreshDevice(e)}, pk \in PublicKeys, u \in Users :
    Accept(w, "begin", [op |-> "register", key |-> None, dev |-> d,
                        pk |-> pk, user |-> u, at |-> now])

StartEnroll(w) ==
  \E d \in {e \in DeviceIds : FreshDevice(e)}, pk \in OrNull(PublicKeys), k \in Keys :
    Accept(w, "lookup", [op |-> "enroll", key |-> k, dev |-> d,
                         pk |-> pk, user |-> None, at |-> now])

StartRevoke(w) ==
  \E d \in DeviceIds, u \in Users :
    Accept(w, "find", [op |-> "revoke", key |-> None, dev |-> d,
                       pk |-> None, user |-> u, at |-> now])

StartHeartbeat(w) ==
  \E d \in DeviceIds :
    Accept(w, "auth", [op |-> "heartbeat", key |-> None, dev |-> d,
                       pk |-> None, user |-> None, at |-> now])

StartCreateSetupKey(w) ==
  \E k \in {j \in Keys : FreshKey(j)}, u \in Admins :
    Accept(w, "begin", [op |-> "createKey", key |-> k, dev |-> None,
                        pk |-> None, user |-> u, at |-> now])

StartRevokeSetupKey(w) ==
  \E k \in Keys :
    Accept(w, "begin", [op |-> "revokeKey", key |-> k, dev |-> None,
                        pk |-> None, user |-> None, at |-> now])

\* A request refused before it reaches the store: an undecodable body, a
\* negative limit or lifetime, a heartbeat with a body, a malformed device.
RefuseMalformed(w) ==
  /\ pc[w] = "idle"
  /\ Reply(w, "badRequest")
  /\ UNCHANGED regVars

-----------------------------------------------------------------------------
(* Reads that precede the transaction.                                     *)

\* Enroll: SetupKeyByToken and Redeemable, then the checks of create.
LookupKey(w) ==
  /\ pc[w] = "lookup"
  /\ ConnFree
  /\ \/ /\ Redeemable(req[w].key, req[w].at)
        /\ req[w].pk # None
        /\ Goto(w, "lookup", "begin")
        /\ req' = [req EXCEPT ![w].user = keys[req[w].key].by]
        /\ UNCHANGED <<cand, attempt, held, resp>>
     \/ /\ ~Redeemable(req[w].key, req[w].at)
        /\ Reply(w, "keyRejected")
     \/ /\ Redeemable(req[w].key, req[w].at)
        /\ req[w].pk = None
        /\ Reply(w, "badRequest")
  /\ UNCHANGED regVars

\* Fault: the filter is left out of the query.
InAnyScope(d, u) == DeviceExists(d)

\* ByID within a scope: another user's device is reported as missing.
InScope(d, u) == DeviceExists(d) /\ (u \in Admins \/ devs[d].user = u)

FindDevice(w) ==
  /\ pc[w] = "find"
  /\ ConnFree
  /\ LET d == req[w].dev
     IN  \/ /\ InScope(d, req[w].user)
            /\ devs[d].revoked = None
            /\ Goto(w, "find", "begin")
            /\ UNCHANGED <<req, cand, attempt, held, resp>>
         \/ /\ ~InScope(d, req[w].user)
            /\ Reply(w, "notFound")
         \/ /\ InScope(d, req[w].user)
            /\ devs[d].revoked # None
            /\ Reply(w, "deviceRevoked")
  /\ UNCHANGED regVars

\* requireDevice; the heartbeat handler reads the clock afterwards.
Authenticate(w) ==
  /\ pc[w] = "auth"
  /\ ConnFree
  /\ LET d == req[w].dev
     IN  \/ /\ Active(d) /\ d \in tokens
            /\ Goto(w, "auth", "begin")
            /\ req' = [req EXCEPT ![w].at = now]
            /\ UNCHANGED <<cand, attempt, held, resp>>
         \/ /\ ~(Active(d) /\ d \in tokens)
            /\ Reply(w, "tokenInvalid")
  /\ UNCHANGED regVars

-----------------------------------------------------------------------------
\* A connection is taken from the pool, by BeginTx or by a single statement.
FirstStatement(op) ==
  CASE op = "register"  -> "pick"
    [] op = "enroll"    -> "consume"
    [] op = "revoke"    -> "release"
    [] op = "heartbeat" -> "beat"
    [] op = "createKey" -> "issue"
    [] op = "revokeKey" -> "cancel"

Begin(w) ==
  /\ Goto(w, "begin", FirstStatement(req[w].op))
  /\ ConnFree
  /\ UNCHANGED <<req, cand, attempt, held, resp, keys, devs, alloc, tokens, now>>

-----------------------------------------------------------------------------
(* The transaction of create.                                              *)

\* Faults: the UPDATE trusts the earlier lookup, or checks only part of it.
ConsumableUnchecked(k, t) == TRUE
ConsumableIfRevoked(k, t) ==
  /\ keys[k].expires # None => keys[k].expires > t
  /\ keys[k].maxUses # 0 => keys[k].uses < keys[k].maxUses
ConsumableOnceMore(k, t) ==
  /\ keys[k].revoked = None
  /\ keys[k].expires # None => keys[k].expires > t
  /\ keys[k].maxUses # 0 => keys[k].uses <= keys[k].maxUses

\* The WHERE clause of consumeSetupKey's UPDATE.
Consumable(k, t) ==
  /\ keys[k].revoked = None
  /\ keys[k].expires # None => keys[k].expires > t
  /\ keys[k].maxUses # 0 => keys[k].uses < keys[k].maxUses

\* Fault: the key is read again through the pool instead of the transaction.
ConsumeThroughPool(w) ==
  /\ ConnFree
  /\ Goto(w, "consume", "pick")
  /\ UNCHANGED <<req, cand, attempt, held, resp, keys, devs, alloc, tokens, now>>

ConsumeSetupKey(w) ==
  /\ pc[w] = "consume"
  /\ ~KeyPending(w, req[w].key)
  /\ \/ /\ Consumable(req[w].key, req[w].at)
        /\ Goto(w, "consume", "pick")
        /\ UNCHANGED <<req, cand, attempt, held, resp>>
     \/ /\ ~Consumable(req[w].key, req[w].at)
        /\ Reply(w, "keyRejected")
  /\ UNCHANGED regVars

TakenIn(f) == {a \in Address : FamilyOf(a) = f /\ alloc[a] # None}

\* The lowest limit addresses of a pool that are usable and not taken.
FreeAddresses(f, taken, limit) ==
  LET free == Usable(f) \ taken
  IN  {a \in free : Cardinality({b \in free : b < a}) < limit}

\* The family being allocated: IPv4 first.
Family(w) == IF \E a \in held[w] : FamilyOf(a) = 4 THEN 6 ELSE 4

\* Fault: the table is read through the pool instead of the transaction.
PickThroughPool(w) ==
  /\ ConnFree
  /\ \E a \in FreeAddresses(Family(w), TakenIn(Family(w)), 1) :
       cand' = [cand EXCEPT ![w] = a]
  /\ Goto(w, "pick", "claim")
  /\ UNCHANGED <<req, attempt, held, resp, keys, devs, alloc, tokens, now>>

\* takenIn and pickCandidate.  The candidate that lost the last attempt, if
\* any, counts as taken whatever the table says.
PickCandidate(w) ==
  /\ pc[w] = "pick"
  /\ LET taken == TakenIn(Family(w)) \cup {cand[w]}
         limit == IF attempt[w] = 0 THEN 1 ELSE ScatterWindow
         free  == FreeAddresses(Family(w), taken, limit)
     IN  \/ /\ free = {}
            /\ Reply(w, "poolExhausted")
         \/ \E a \in free :
              /\ Goto(w, "pick", "claim")
              /\ cand' = [cand EXCEPT ![w] = a]
              /\ UNCHANGED <<req, attempt, held, resp>>
  /\ UNCHANGED regVars

\* Fault: ON CONFLICT DO UPDATE.
TakesOver(a) == TRUE

\* ON CONFLICT (address) DO NOTHING: the insert affects a row only if the
\* address has none.
InsertsAddress(a) == alloc[a] = None

\* The INSERT into ip_allocations and the retry after a conflict.
ClaimAddress(w) ==
  /\ pc[w] = "claim"
  /\ ~AddressPending(w, cand[w])
  /\ \/ /\ InsertsAddress(cand[w])
        /\ held' = [held EXCEPT ![w] = @ \cup {cand[w]}]
        /\ cand' = [cand EXCEPT ![w] = None]
        /\ attempt' = [attempt EXCEPT ![w] = 0]
        /\ Goto(w, "claim", IF IPv6Enabled /\ Family(w) = 4 THEN "pick" ELSE "insert")
        /\ UNCHANGED <<req, resp>>
     \/ /\ ~InsertsAddress(cand[w])
        /\ attempt[w] + 1 < MaxAttempts
        /\ attempt' = [attempt EXCEPT ![w] = @ + 1]
        /\ Goto(w, "claim", "pick")
        /\ UNCHANGED <<req, cand, held, resp>>
     \/ /\ ~InsertsAddress(cand[w])
        /\ attempt[w] + 1 >= MaxAttempts
        /\ Reply(w, "internal")
  /\ UNCHANGED regVars

\* INSERT INTO devices, decided by the unique index, and the credential.
InsertDevice(w) ==
  /\ pc[w] = "insert"
  /\ ~PublicKeyPending(w, req[w].pk)
  /\ \/ /\ req[w].pk \notin UsedPublicKeys
        /\ Goto(w, "insert", "commit")
        /\ UNCHANGED <<req, cand, attempt, held, resp>>
     \/ /\ req[w].pk \in UsedPublicKeys
        /\ Reply(w, "publicKeyTaken")
  /\ UNCHANGED regVars

\* Fault: the clock is read again when the row is written.
NewDeviceRowLate(w) ==
  [created |-> now, user |-> req[w].user, pk |-> req[w].pk,
   key |-> req[w].key, ip |-> held[w], seen |-> None, revoked |-> None]

\* The row create inserts, with the time read when the request arrived.
NewDeviceRow(w) ==
  [created |-> req[w].at, user |-> req[w].user, pk |-> req[w].pk,
   key |-> req[w].key, ip |-> held[w], seen |-> None, revoked |-> None]

CommitCreate(w) ==
  /\ pc[w] = "commit"
  /\ req[w].op \in Creating
  /\ LET d == req[w].dev
         k == req[w].key
     IN  /\ devs' = [devs EXCEPT ![d] = NewDeviceRow(w)]
         /\ alloc' = [a \in Address |-> IF a \in held[w] THEN d ELSE alloc[a]]
         /\ IF req[w].op = "enroll"
              THEN /\ keys' = [keys EXCEPT ![k].uses = @ + 1]
                   /\ tokens' = tokens \cup {d}
              ELSE UNCHANGED <<keys, tokens>>
  /\ Acknowledge(w)
  /\ UNCHANGED now

-----------------------------------------------------------------------------
(* The transaction of Revoke.                                              *)

\* Fault: the addresses are not released.
ReleaseNothing(w) ==
  /\ Goto(w, "release", "retire")
  /\ UNCHANGED <<req, cand, attempt, held, resp, keys, devs, alloc, tokens, now>>

\* DELETE FROM ip_allocations WHERE owner_id = ?
ReleaseAddresses(w) ==
  /\ \A a \in AddressesOf(req[w].dev) : ~AddressPending(w, a)
  /\ Goto(w, "release", "retire")
  /\ held' = [held EXCEPT ![w] = AddressesOf(req[w].dev)]
  /\ UNCHANGED <<req, cand, attempt, resp, keys, devs, alloc, tokens, now>>

\* UPDATE devices ... WHERE revoked_at IS NULL, then DELETE FROM device_tokens.
RetireDevice(w) ==
  /\ pc[w] = "retire"
  /\ ~DevicePending(w, req[w].dev)
  /\ \/ /\ devs[req[w].dev].revoked = None
        /\ Goto(w, "retire", "commit")
        /\ UNCHANGED <<req, cand, attempt, held, resp>>
     \/ /\ devs[req[w].dev].revoked # None
        /\ Reply(w, "deviceRevoked")
  /\ UNCHANGED regVars

\* Fault: the credential is left behind.
CommitRevokeKeepingToken(w) ==
  /\ pc[w] = "commit"
  /\ req[w].op = "revoke"
  /\ LET d == req[w].dev
     IN  /\ devs' = [devs EXCEPT ![d] = [@ EXCEPT !.revoked = req[w].at, !.ip = {}]]
         /\ alloc' = [a \in Address |-> IF a \in held[w] THEN None ELSE alloc[a]]
  /\ Acknowledge(w)
  /\ UNCHANGED <<keys, tokens, now>>

CommitRevoke(w) ==
  /\ pc[w] = "commit"
  /\ req[w].op = "revoke"
  /\ LET d == req[w].dev
     IN  /\ devs' = [devs EXCEPT ![d] = [@ EXCEPT !.revoked = req[w].at, !.ip = {}]]
         /\ alloc' = [a \in Address |-> IF a \in held[w] THEN None ELSE alloc[a]]
         /\ tokens' = tokens \ {d}
  /\ Acknowledge(w)
  /\ UNCHANGED <<keys, now>>

-----------------------------------------------------------------------------
(* Single statements, committed as they run.                               *)

IssueSetupKey(w) ==
  /\ pc[w] = "issue"
  /\ \E m \in UseLimits, life \in OrNull(Lifetimes) :
       keys' = [keys EXCEPT ![req[w].key] =
                  IssuedKey(req[w].user, m, life, req[w].at)]
  /\ Acknowledge(w)
  /\ UNCHANGED <<devs, alloc, tokens, now>>

\* RevokeSetupKey: revoking twice is not an error, and the first one stands.
CancelSetupKey(w) ==
  /\ pc[w] = "cancel"
  /\ ~KeyPending(w, req[w].key)
  /\ LET k == req[w].key
     IN  \/ /\ KeyExists(k) /\ keys[k].revoked = None
            /\ keys' = [keys EXCEPT ![k].revoked = req[w].at]
            /\ Acknowledge(w)
         \/ /\ KeyExists(k) /\ keys[k].revoked # None
            /\ Reply(w, "ok")
            /\ UNCHANGED keys
         \/ /\ ~KeyExists(k)
            /\ Reply(w, "notFound")
            /\ UNCHANGED keys
  /\ UNCHANGED <<devs, alloc, tokens, now>>

\* Fault: the UPDATE trusts the authentication that preceded it.
MayCheckInUnchecked(d) == TRUE

\* The WHERE clause of Heartbeat's UPDATE.
MayCheckIn(d) == devs[d].revoked = None /\ d \in tokens

Heartbeat(w) ==
  /\ pc[w] = "beat"
  /\ ~DevicePending(w, req[w].dev)
  /\ \/ /\ MayCheckIn(req[w].dev)
        /\ devs' = [devs EXCEPT ![req[w].dev].seen = req[w].at]
        /\ Acknowledge(w)
     \/ /\ ~MayCheckIn(req[w].dev)
        /\ Reply(w, "tokenInvalid")
        /\ UNCHANGED devs
  /\ UNCHANGED <<keys, alloc, tokens, now>>

-----------------------------------------------------------------------------
\* A statement or the commit fails, the client goes away and its context is
\* cancelled, or the process dies: the transaction is rolled back.
Fail(w) ==
  /\ pc[w] # "idle"
  /\ Reply(w, "internal")
  /\ UNCHANGED regVars

Tick ==
  /\ now < MaxTime
  /\ now' = now + 1
  /\ UNCHANGED <<tables, locals>>

Init ==
  /\ RegInit
  /\ pc = [w \in Workers |-> "idle"]
  /\ req = [w \in Workers |-> NoRequest]
  /\ cand = [w \in Workers |-> None]
  /\ attempt = [w \in Workers |-> 0]
  /\ held = [w \in Workers |-> {}]
  /\ resp = [w \in Workers |-> "none"]

Start(w) ==
  \/ StartRegister(w) \/ StartEnroll(w) \/ StartRevoke(w) \/ StartHeartbeat(w)
  \/ StartCreateSetupKey(w) \/ StartRevokeSetupKey(w) \/ RefuseMalformed(w)

Step(w) ==
  \/ LookupKey(w) \/ FindDevice(w) \/ Authenticate(w) \/ Begin(w)
  \/ ConsumeSetupKey(w) \/ PickCandidate(w) \/ ClaimAddress(w) \/ InsertDevice(w)
  \/ CommitCreate(w)
  \/ ReleaseAddresses(w) \/ RetireDevice(w) \/ CommitRevoke(w)
  \/ IssueSetupKey(w) \/ CancelSetupKey(w) \/ Heartbeat(w)

Next == Tick \/ \E w \in Workers : Start(w) \/ Step(w) \/ Fail(w)

Spec == Init /\ [][Next]_vars

\* A request that can run is run.  The fairness is strong because a statement
\* waiting for a row or for a connection can run only now and then, and both
\* PostgreSQL and database/sql serve their waiters in order of arrival.
Fairness == \A w \in Workers : SF_vars(Step(w))

FairSpec == Spec /\ Fairness

-----------------------------------------------------------------------------
LocalsTypeOK ==
  /\ pc \in [Workers -> PcStates]
  /\ req \in [Workers -> Request]
  /\ cand \in [Workers -> OrNull(Address)]
  /\ attempt \in [Workers -> 0..(MaxAttempts - 1)]
  /\ held \in [Workers -> SUBSET Address]
  /\ resp \in [Workers -> Responses]

TypeOK == TablesTypeOK /\ LocalsTypeOK

\* The request and the control state of a worker fit each other.
RequestOK(w) ==
  /\ req[w].op = "none" <=> pc[w] = "idle"
  /\ pc[w] \in {"lookup", "consume"} => req[w].op = "enroll"
  /\ pc[w] \in {"pick", "claim", "insert"} => req[w].op \in Creating
  /\ pc[w] \in {"find", "release", "retire"} => req[w].op = "revoke"
  /\ pc[w] \in {"auth", "beat"} => req[w].op = "heartbeat"
  /\ pc[w] = "issue" => req[w].op = "createKey"
  /\ pc[w] = "cancel" => req[w].op = "revokeKey"
  /\ pc[w] = "commit" => req[w].op \in Creating \cup {"revoke"}
  /\ req[w].at <= now

\* What a request found out before its transaction still holds.
SubjectOK(w) ==
  /\ req[w].op \in Creating => req[w].dev \in DeviceIds /\ ~DeviceExists(req[w].dev)
  /\ req[w].op = "register" =>
       req[w].key = None /\ req[w].pk \in PublicKeys /\ req[w].user \in Users
  /\ req[w].op = "enroll" => req[w].key \in Keys
  /\ req[w].op = "enroll" /\ pc[w] # "lookup" =>
       /\ req[w].pk \in PublicKeys
       /\ KeyExists(req[w].key)
       /\ req[w].user = keys[req[w].key].by
  /\ req[w].op \in {"revoke", "heartbeat"} => req[w].dev \in DeviceIds
  /\ req[w].op \in {"revoke", "heartbeat"} /\ pc[w] \notin {"find", "auth"} =>
       DeviceExists(req[w].dev)
  /\ req[w].op \in {"createKey", "revokeKey"} => req[w].key \in Keys
  /\ req[w].op = "createKey" => ~KeyExists(req[w].key) /\ req[w].user \in Users

\* What the statements of an open transaction decided still holds.
WritesOK(w) ==
  /\ pc[w] \notin {"pick", "claim", "insert", "retire", "commit"} => held[w] = {}
  /\ pc[w] \in {"pick", "claim"} =>
       held[w] = {} \/ (IPv6Enabled /\ \E a \in Usable(4) : held[w] = {a})
  /\ pc[w] = "claim" => cand[w] \in Usable(Family(w))
  /\ pc[w] = "insert" \/ Inserted(w) => held[w] \in Assignments
  /\ req[w].op \in Creating => \A a \in held[w] : alloc[a] = None
  /\ pc[w] = "retire" \/ Retired(w) =>
       (devs[req[w].dev].revoked = None => held[w] = AddressesOf(req[w].dev))
  /\ Spending(w) => Consumable(req[w].key, req[w].at)
  /\ Inserted(w) => req[w].pk \notin UsedPublicKeys
  /\ Retired(w) => devs[req[w].dev].revoked = None

\* Two open transactions have not written the same row, and two requests have
\* not drawn the same identifier.
Disjoint(v, w) ==
  /\ held[v] \cap held[w] = {}
  /\ req[v].op \in Creating /\ req[w].op \in Creating => req[v].dev # req[w].dev
  /\ req[v].op = "createKey" /\ req[w].op = "createKey" => req[v].key # req[w].key
  /\ Spending(v) /\ Spending(w) => req[v].key # req[w].key
  /\ Inserted(v) /\ Inserted(w) => req[v].pk # req[w].pk
  /\ Retired(v) /\ Retired(w) => req[v].dev # req[w].dev

(* At every moment, everything an open transaction relies on is still true *)
(* of the committed tables: the key it is spending is still redeemable,    *)
(* the addresses it claimed are still free, its public key is still        *)
(* unused, the device it revokes still active with the addresses it        *)
(* released; and no two transactions rely on the same row.  This is why a  *)
(* commit amounts to one indivisible operation on the tables, although the *)
(* code checks and writes in separate statements at READ COMMITTED.        *)
OpenTransactionsSound ==
  /\ \A w \in Workers : RequestOK(w) /\ SubjectOK(w) /\ WritesOK(w)
  /\ \A v, w \in Workers : v # w => Disjoint(v, w)
  /\ \A k \in Keys : KeyExists(k) => keys[k].by \in Users

(* A user who is no administrator never ends the membership of somebody    *)
(* else's device, and cannot tell such a device from one that does not     *)
(* exist: no answer but "not found" (or a failure) ever comes back, whatever *)
(* happens to the device between the lookup and the transaction.           *)
ForeignDeviceLooksMissing ==
  [][\A w \in Workers :
       /\ req[w].op = "revoke" /\ req[w].user \notin Admins
       /\ DeviceExists(req[w].dev) /\ devs[req[w].dev].user # req[w].user
       /\ resp'[w] # resp[w]
       => resp'[w] \in {"notFound", "internal"} /\ UNCHANGED tables]_vars

(* Every request is answered: a request waits for rows written by others   *)
(* and for a connection, and no set of requests waits for each other, not  *)
(* even when one pooled connection serves everybody.                       *)
RequestsFinish == \A w \in Workers : pc[w] # "idle" ~> pc[w] = "idle"
=============================================================================
