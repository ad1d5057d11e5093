---------------------------- MODULE DevicesProofs ---------------------------
(***************************************************************************)
(* The statement-level registry keeps its open transactions sound and      *)
(* implements the atomic one, for every choice of the constants.           *)
(*                                                                         *)
(* The argument: DevInv (typing and OpenTransactionsSound) is inductive;   *)
(* under it every step of Devices is a step of Registry or leaves the      *)
(* tables alone; so everything RegistryProofs shows of the atomic registry *)
(* holds of the statement-level one.                                       *)
(***************************************************************************)
EXTENDS Devices, RegistryProofs

DevInv == TypeOK /\ OpenTransactionsSound

-----------------------------------------------------------------------------
(* Typing of the workers' locals.                                          *)

(* Answering a request leaves well-typed locals.                           *)
LEMMA ReplyType ==
  ASSUME LocalsTypeOK, NEW w \in Workers, NEW r \in Responses, Reply(w, r)
  PROVE  LocalsTypeOK'
<1> USE DEF LocalsTypeOK, Reply
<1>1. pc' \in [Workers -> PcStates] /\ resp' \in [Workers -> Responses]
  BY DEF PcStates
<1>2. req' \in [Workers -> Request]
  BY DEF NoRequest, Request, OrNull
<1>3. cand' \in [Workers -> OrNull(Address)] /\ held' \in [Workers -> SUBSET Address]
  BY DEF OrNull
<1>4. attempt' \in [Workers -> 0..(MaxAttempts - 1)]
  BY WorkerAssumption
<1> QED
  BY <1>1, <1>2, <1>3, <1>4

(* So does taking one on.                                                  *)
LEMMA StartType ==
  ASSUME LocalsTypeOK, TablesTypeOK, NEW w \in Workers, Start(w)
  PROVE  LocalsTypeOK'
<1> USE DEF LocalsTypeOK, TablesTypeOK
<1>1. ASSUME NEW first \in PcStates, NEW r \in Request, Accept(w, first, r)
      PROVE  LocalsTypeOK'
  BY <1>1 DEF Accept, Goto, Responses
<1>2. {"begin", "lookup", "find", "auth"} \subseteq PcStates
  BY DEF PcStates
<1>3. CASE StartRegister(w)
  <2>1. PICK d \in {e \in DeviceIds : FreshDevice(e)}, pk \in PublicKeys, u \in Users :
          Accept(w, "begin", [op |-> "register", key |-> None, dev |-> d,
                              pk |-> pk, user |-> u, at |-> now])
    BY <1>3 DEF StartRegister
  <2>2. [op |-> "register", key |-> None, dev |-> d,
         pk |-> pk, user |-> u, at |-> now] \in Request
    BY DEF Request, OrNull, Ops
  <2> QED
    BY <1>1, <1>2, <2>1, <2>2
<1>4. CASE StartEnroll(w)
  <2>1. PICK d \in {e \in DeviceIds : FreshDevice(e)}, pk \in OrNull(PublicKeys),
             k \in Keys :
          Accept(w, "lookup", [op |-> "enroll", key |-> k, dev |-> d,
                               pk |-> pk, user |-> None, at |-> now])
    BY <1>4 DEF StartEnroll
  <2>2. [op |-> "enroll", key |-> k, dev |-> d,
         pk |-> pk, user |-> None, at |-> now] \in Request
    BY DEF Request, OrNull, Ops
  <2> QED
    BY <1>1, <1>2, <2>1, <2>2
<1>5. CASE StartRevoke(w)
  <2>1. PICK d \in DeviceIds, u \in Users :
          Accept(w, "find", [op |-> "revoke", key |-> None, dev |-> d,
                             pk |-> None, user |-> u, at |-> now])
    BY <1>5 DEF StartRevoke
  <2>2. [op |-> "revoke", key |-> None, dev |-> d,
         pk |-> None, user |-> u, at |-> now] \in Request
    BY DEF Request, OrNull, Ops
  <2> QED
    BY <1>1, <1>2, <2>1, <2>2
<1>6. CASE StartHeartbeat(w)
  <2>1. PICK d \in DeviceIds :
          Accept(w, "auth", [op |-> "heartbeat", key |-> None, dev |-> d,
                             pk |-> None, user |-> None, at |-> now])
    BY <1>6 DEF StartHeartbeat
  <2>2. [op |-> "heartbeat", key |-> None, dev |-> d,
         pk |-> None, user |-> None, at |-> now] \in Request
    BY DEF Request, OrNull, Ops
  <2> QED
    BY <1>1, <1>2, <2>1, <2>2
<1>7. CASE StartCreateSetupKey(w)
  <2>1. PICK k \in {j \in Keys : FreshKey(j)}, u \in Admins :
          Accept(w, "begin", [op |-> "createKey", key |-> k, dev |-> None,
                              pk |-> None, user |-> u, at |-> now])
    BY <1>7 DEF StartCreateSetupKey
  <2>2. [op |-> "createKey", key |-> k, dev |-> None,
         pk |-> None, user |-> u, at |-> now] \in Request
    BY WorkerAssumption DEF Request, OrNull, Ops
  <2> QED
    BY <1>1, <1>2, <2>1, <2>2
<1>8. CASE StartRevokeSetupKey(w)
  <2>1. PICK k \in Keys :
          Accept(w, "begin", [op |-> "revokeKey", key |-> k, dev |-> None,
                              pk |-> None, user |-> None, at |-> now])
    BY <1>8 DEF StartRevokeSetupKey
  <2>2. [op |-> "revokeKey", key |-> k, dev |-> None,
         pk |-> None, user |-> None, at |-> now] \in Request
    BY DEF Request, OrNull, Ops
  <2> QED
    BY <1>1, <1>2, <2>1, <2>2
<1>9. CASE RefuseMalformed(w)
  BY <1>9, ReplyType DEF RefuseMalformed, Responses
<1> QED
  BY <1>3, <1>4, <1>5, <1>6, <1>7, <1>8, <1>9 DEF Start

(* And so does every statement.                                            *)
LEMMA StepType ==
  ASSUME LocalsTypeOK, TablesTypeOK, OpenTransactionsSound,
         NEW w \in Workers, Step(w) \/ Fail(w)
  PROVE  LocalsTypeOK'
<1> USE DEF LocalsTypeOK
<1>0. Responses = {"none", "ok", "badRequest", "keyRejected", "publicKeyTaken",
                   "poolExhausted", "notFound", "deviceRevoked", "tokenInvalid",
                   "internal"}
  BY DEF Responses
<1>1. ASSUME NEW r \in Responses, Reply(w, r)
      PROVE  LocalsTypeOK'
  BY <1>1, ReplyType
<1>2. ASSUME Acknowledge(w)
      PROVE  LocalsTypeOK'
  BY <1>0, <1>1, <1>2 DEF Acknowledge
<1>3. {"begin", "pick", "claim", "insert", "commit", "retire"} \subseteq PcStates
  BY DEF PcStates, Connected, TxStates
<1>4. ASSUME NEW from, NEW to \in PcStates, Goto(w, from, to)
      PROVE  pc' \in [Workers -> PcStates]
  BY <1>4 DEF Goto
<1>5. CASE LookupKey(w)
  <2>1. CASE \E r \in Responses : Reply(w, r)
    BY <1>1, <2>1
  <2>2. CASE /\ Goto(w, "lookup", "begin")
             /\ req' = [req EXCEPT ![w].user = keys[req[w].key].by]
             /\ UNCHANGED <<cand, attempt, held, resp>>
             /\ req[w].op = "enroll"
    <3>1. req[w].key \in Keys
      BY <2>2 DEF OpenTransactionsSound, SubjectOK
    <3>2. keys[req[w].key].by \in OrNull(Users)
      BY <3>1 DEF TablesTypeOK, KeyRow
    <3>3. req' \in [Workers -> Request]
      BY <2>2, <3>2 DEF Request
    <3> QED
      BY <1>3, <1>4, <2>2, <3>3
  <2>3. req[w].op = "enroll"
    BY <1>5 DEF LookupKey, OpenTransactionsSound, RequestOK
  <2> QED
    BY <1>0, <1>5, <2>1, <2>2, <2>3 DEF LookupKey
<1>6. CASE FindDevice(w)
  BY <1>0, <1>1, <1>3, <1>4, <1>6 DEF FindDevice
<1>7. CASE Authenticate(w)
  <2>1. CASE \E r \in Responses : Reply(w, r)
    BY <1>1, <2>1
  <2>2. CASE /\ Goto(w, "auth", "begin")
             /\ req' = [req EXCEPT ![w].at = now]
             /\ UNCHANGED <<cand, attempt, held, resp>>
    <3>1. req' \in [Workers -> Request]
      BY <2>2 DEF Request, TablesTypeOK
    <3> QED
      BY <1>3, <1>4, <2>2, <3>1
  <2> QED
    BY <1>0, <1>7, <2>1, <2>2 DEF Authenticate
<1>8. CASE Begin(w)
  <2>1. req[w].op \in Ops
    BY <1>8 DEF Begin, Goto, OpenTransactionsSound, RequestOK, Request
  <2>2. FirstStatement(req[w].op) \in PcStates
    BY <2>1 DEF FirstStatement, Ops, PcStates, Connected, TxStates, ExecStates
  <2> QED
    BY <1>4, <1>8, <2>2 DEF Begin
<1>9. CASE ConsumeSetupKey(w)
  BY <1>0, <1>1, <1>3, <1>4, <1>9 DEF ConsumeSetupKey
<1>10. CASE PickCandidate(w)
  <2>1. CASE \E r \in Responses : Reply(w, r)
    BY <1>1, <2>1
  <2>2. ASSUME NEW f, NEW S, NEW n, NEW a \in FreeAddresses(f, S, n)
        PROVE  a \in Address
    BY <2>2, PoolAssumption DEF FreeAddresses, Usable, Address
  <2>3. ASSUME NEW a \in Address, Goto(w, "pick", "claim"),
               cand' = [cand EXCEPT ![w] = a], UNCHANGED <<req, attempt, held, resp>>
        PROVE  LocalsTypeOK'
    BY <1>3, <1>4, <2>3 DEF OrNull
  <2> QED
    BY <1>0, <1>10, <2>1, <2>2, <2>3 DEF PickCandidate
<1>11. CASE ClaimAddress(w)
  <2>1. CASE \E r \in Responses : Reply(w, r)
    BY <1>1, <2>1
  <2>2. cand[w] \in Address
    <3>1. cand[w] \in Usable(Family(w))
      BY <1>11 DEF ClaimAddress, OpenTransactionsSound, WritesOK
    <3> QED
      BY <3>1, PoolAssumption DEF Usable, Address
  <2>3. CASE /\ held' = [held EXCEPT ![w] = @ \cup {cand[w]}]
             /\ cand' = [cand EXCEPT ![w] = None]
             /\ attempt' = [attempt EXCEPT ![w] = 0]
             /\ Goto(w, "claim", IF IPv6Enabled /\ Family(w) = 4 THEN "pick" ELSE "insert")
             /\ UNCHANGED <<req, resp>>
    <3>1. pc' \in [Workers -> PcStates]
      BY <1>3, <1>4, <2>3
    <3>2. held' \in [Workers -> SUBSET Address]
      BY <2>2, <2>3
    <3>3. cand' \in [Workers -> OrNull(Address)]
      BY <2>3 DEF OrNull
    <3>4. attempt' \in [Workers -> 0..(MaxAttempts - 1)]
      BY <2>3, WorkerAssumption
    <3> QED
      BY <2>3, <3>1, <3>2, <3>3, <3>4
  <2>4. CASE /\ attempt[w] + 1 < MaxAttempts
             /\ attempt' = [attempt EXCEPT ![w] = @ + 1]
             /\ Goto(w, "claim", "pick")
             /\ UNCHANGED <<req, cand, held, resp>>
    <3>1. attempt' \in [Workers -> 0..(MaxAttempts - 1)]
      BY <2>4, WorkerAssumption
    <3> QED
      BY <1>3, <1>4, <2>4, <3>1
  <2> QED
    BY <1>0, <1>11, <2>1, <2>3, <2>4 DEF ClaimAddress
<1>12. CASE InsertDevice(w)
  BY <1>0, <1>1, <1>3, <1>4, <1>12 DEF InsertDevice
<1>13. CASE ReleaseAddresses(w)
  BY <1>3, <1>4, <1>13 DEF ReleaseAddresses, AddressesOf
<1>14. CASE RetireDevice(w)
  BY <1>0, <1>1, <1>3, <1>4, <1>14 DEF RetireDevice
<1>15. CASE CommitCreate(w) \/ CommitRevoke(w) \/ IssueSetupKey(w)
  BY <1>2, <1>15 DEF CommitCreate, CommitRevoke, IssueSetupKey
<1>16. CASE CancelSetupKey(w) \/ Heartbeat(w) \/ Fail(w)
  BY <1>0, <1>1, <1>2, <1>16 DEF CancelSetupKey, Heartbeat, Fail
<1> QED
  BY <1>5, <1>6, <1>7, <1>8, <1>9, <1>10, <1>11, <1>12, <1>13, <1>14, <1>15, <1>16
     DEF Step

-----------------------------------------------------------------------------
(* Every step is a step of the atomic registry or leaves the tables alone. *)

(* Committing a create is the atomic create: what its statements checked   *)
(* is still true of the committed tables.                                  *)
LEMMA CommitCreateRefines ==
  ASSUME DevInv, NEW w \in Workers, CommitCreate(w)
  PROVE  RegNext
<1> DEFINE d == req[w].dev
           k == req[w].key
           t == req[w].at
<1> USE DEF DevInv, OpenTransactionsSound
<1>1. req[w] \in Request /\ now \in Nat
  BY DEF TypeOK, LocalsTypeOK, TablesTypeOK
<1>2. t \in 0..now
  BY <1>1 DEF RequestOK, Request
<1>3. /\ d \in DeviceIds /\ ~DeviceExists(d) /\ req[w].pk \in PublicKeys
      /\ held[w] \in Assignments /\ req[w].pk \notin UsedPublicKeys
      /\ \A a \in held[w] : alloc[a] = None
  BY DEF CommitCreate, SubjectOK, WritesOK, Inserted, Creating
<1>4. CASE req[w].op = "register"
  <2>1. k = None /\ req[w].user \in Users
    BY <1>4 DEF SubjectOK
  <2>2. RegCreateRow(k, d, t, req[w].pk, held[w], req[w].user)
    BY <1>3, <1>4, <2>1 DEF CommitCreate, RegCreateRow, NewDeviceRow
  <2>3. RegCreate(k, d, t)
    BY <1>3, <2>1, <2>2 DEF RegCreate
  <2> QED
    BY <1>2, <1>3, <2>1, <2>3 DEF RegNext, OrNull
<1>5. CASE req[w].op = "enroll"
  <2>1. k \in Keys /\ KeyExists(k) /\ req[w].user = keys[k].by /\ keys[k].by \in Users
    BY <1>5 DEF SubjectOK, CommitCreate
  <2>2. Consumable(k, t)
    BY <1>5 DEF CommitCreate, WritesOK, Spending
  <2>3. keys[k] \in KeyRow
    BY <2>1 DEF TypeOK, TablesTypeOK
  <2>4. Redeemable(k, t)
    BY <1>2, <1>1, <2>1, <2>2, <2>3
       DEF Consumable, Redeemable, Expired, Exhausted, KeyRow, OrNull
  <2>5. k # None
    BY <2>1, RowAssumption
  <2>6. RegCreateRow(k, d, t, req[w].pk, held[w], req[w].user)
    BY <1>3, <1>5, <2>1, <2>4, <2>5 DEF CommitCreate, RegCreateRow, NewDeviceRow
  <2>7. RegCreate(k, d, t)
    BY <1>3, <2>1, <2>6 DEF RegCreate
  <2> QED
    BY <1>2, <1>3, <2>1, <2>7 DEF RegNext, OrNull
<1> QED
  BY <1>4, <1>5 DEF CommitCreate, Creating

(* Committing a revocation is the atomic revocation: the addresses released *)
(* by its first statement are still all the device has.                    *)
LEMMA CommitRevokeRefines ==
  ASSUME DevInv, NEW w \in Workers, CommitRevoke(w)
  PROVE  RegNext
<1> DEFINE d == req[w].dev
           t == req[w].at
<1> USE DEF DevInv, OpenTransactionsSound
<1>1. req[w] \in Request /\ now \in Nat
  BY DEF TypeOK, LocalsTypeOK, TablesTypeOK
<1>2. t \in 0..now
  BY <1>1 DEF RequestOK, Request
<1>3. d \in DeviceIds /\ Active(d)
  BY DEF CommitRevoke, SubjectOK, WritesOK, Retired, Active
<1>4. held[w] = AddressesOf(d)
  BY <1>3 DEF CommitRevoke, WritesOK, Retired, Active
<1>5. alloc' = [a \in Address |-> IF alloc[a] = d THEN None ELSE alloc[a]]
  BY <1>4 DEF CommitRevoke, AddressesOf
<1>6. RegRevoke(d, t)
  BY <1>3, <1>5 DEF CommitRevoke, RegRevoke
<1> QED
  BY <1>2, <1>3, <1>6 DEF RegNext

LEMMA RefinesStep == DevInv /\ [Next]_vars => [RegNext]_regVars
<1> SUFFICES ASSUME DevInv, [Next]_vars
             PROVE  [RegNext]_regVars
  OBVIOUS
<1>1. CASE UNCHANGED vars
  BY <1>1 DEF vars, regVars
<1>2. CASE Tick
  BY <1>2 DEF Tick, RegNext, RegTick
<1>3. ASSUME NEW w \in Workers, Start(w)
      PROVE  UNCHANGED regVars
  BY <1>3 DEF Start, StartRegister, StartEnroll, StartRevoke, StartHeartbeat,
              StartCreateSetupKey, StartRevokeSetupKey, RefuseMalformed, Accept, regVars
<1>4. ASSUME NEW w \in Workers, Step(w)
      PROVE  [RegNext]_regVars
  <2>0. /\ RequestOK(w) /\ SubjectOK(w) /\ WritesOK(w)
        /\ req[w] \in Request /\ now \in Nat
    BY DEF DevInv, OpenTransactionsSound, TypeOK, LocalsTypeOK, TablesTypeOK
  <2>1. req[w].at \in 0..now
    BY <2>0 DEF RequestOK, Request
  <2>2. CASE CommitCreate(w)
    BY <2>2, CommitCreateRefines
  <2>3. CASE CommitRevoke(w)
    BY <2>3, CommitRevokeRefines
  <2>4. CASE IssueSetupKey(w)
    <3>1. req[w].key \in Keys /\ ~KeyExists(req[w].key) /\ req[w].user \in Users
      BY <2>0, <2>4 DEF IssueSetupKey, RequestOK, SubjectOK
    <3>2. RegCreateSetupKey(req[w].key, req[w].at)
      BY <2>4, <3>1 DEF IssueSetupKey, RegCreateSetupKey
    <3> QED
      BY <2>1, <3>1, <3>2 DEF RegNext
  <2>5. CASE CancelSetupKey(w)
    <3>1. req[w].key \in Keys
      BY <2>0, <2>5 DEF CancelSetupKey, RequestOK, SubjectOK
    <3>2. RegRevokeSetupKey(req[w].key, req[w].at) \/ UNCHANGED regVars
      BY <2>5 DEF CancelSetupKey, RegRevokeSetupKey, regVars
    <3> QED
      BY <2>1, <3>1, <3>2 DEF RegNext
  <2>6. CASE Heartbeat(w)
    <3>1. req[w].dev \in DeviceIds /\ DeviceExists(req[w].dev)
      BY <2>0, <2>6 DEF Heartbeat, RequestOK, SubjectOK
    <3>2. RegHeartbeat(req[w].dev, req[w].at) \/ UNCHANGED regVars
      BY <2>6, <3>1 DEF Heartbeat, MayCheckIn, Active, RegHeartbeat, regVars
    <3> QED
      BY <2>1, <3>1, <3>2 DEF RegNext
  <2>7. CASE \/ LookupKey(w) \/ FindDevice(w) \/ Authenticate(w) \/ Begin(w)
             \/ ConsumeSetupKey(w) \/ PickCandidate(w) \/ ClaimAddress(w)
             \/ InsertDevice(w) \/ ReleaseAddresses(w) \/ RetireDevice(w)
    BY <2>7 DEF LookupKey, FindDevice, Authenticate, Begin, ConsumeSetupKey,
                PickCandidate, ClaimAddress, InsertDevice, ReleaseAddresses,
                RetireDevice, regVars
  <2> QED
    BY <1>4, <2>2, <2>3, <2>4, <2>5, <2>6, <2>7 DEF Step
<1>5. ASSUME NEW w \in Workers, Fail(w)
      PROVE  UNCHANGED regVars
  BY <1>5 DEF Fail
<1> QED
  BY <1>1, <1>2, <1>3, <1>4, <1>5 DEF Next

-----------------------------------------------------------------------------
(* Open transactions stay sound.                                           *)

LocalOK(w) == RequestOK(w) /\ SubjectOK(w) /\ WritesOK(w)

\* A step of w leaves the locals of the other workers alone.
OthersFixed(w) ==
  \A v \in Workers : v # w =>
    pc'[v] = pc[v] /\ req'[v] = req[v] /\ cand'[v] = cand[v] /\ held'[v] = held[v]

(* A worker that is not touched keeps its local facts while the tables     *)
(* stay as they are.                                                       *)
LEMMA UntouchedLocal ==
  ASSUME NEW v \in Workers, LocalOK(v), UNCHANGED tables, now \in Nat, now' \in Nat,
         now <= now', req[v] \in Request,
         pc'[v] = pc[v], req'[v] = req[v], cand'[v] = cand[v], held'[v] = held[v]
  PROVE  LocalOK(v)'
<1>1. RequestOK(v)'
  BY DEF LocalOK, RequestOK, Request
<1>2. SubjectOK(v)'
  BY DEF LocalOK, SubjectOK, tables, DeviceExists, KeyExists
<1>3. WritesOK(v)'
  BY DEF LocalOK, WritesOK, tables, Family, Inserted, Retired, Spending, AddressesOf,
         Consumable, UsedPublicKeys, DeviceExists
<1> QED
  BY <1>1, <1>2, <1>3 DEF LocalOK

(* A step that leaves the tables alone keeps everything, if the worker     *)
(* that takes it keeps its own facts and shares no row with another.       *)
LEMMA MoveSound ==
  ASSUME DevInv, NEW w \in Workers, OthersFixed(w), UNCHANGED regVars, LocalOK(w)',
         \A v \in Workers : v # w => Disjoint(v, w)' /\ Disjoint(w, v)'
  PROVE  OpenTransactionsSound'
<1>1. ASSUME NEW v \in Workers, v # w
      PROVE  LocalOK(v)'
  <2>1. LocalOK(v) /\ req[v] \in Request /\ now \in Nat
    BY DEF DevInv, OpenTransactionsSound, LocalOK, TypeOK, LocalsTypeOK, TablesTypeOK
  <2>2. UNCHANGED tables /\ now' = now
    BY DEF regVars, tables
  <2> QED
    BY <1>1, <2>1, <2>2, UntouchedLocal DEF OthersFixed
<1>2. ASSUME NEW u \in Workers, NEW v \in Workers, u # w, v # w, u # v
      PROVE  Disjoint(u, v)'
  <2>1. Disjoint(u, v)
    BY <1>2 DEF DevInv, OpenTransactionsSound
  <2> QED
    BY <1>2, <2>1 DEF OthersFixed, Disjoint, Spending, Inserted, Retired
<1>3. (\A k \in Keys : KeyExists(k) => keys[k].by \in Users)'
  BY DEF DevInv, OpenTransactionsSound, regVars, KeyExists
<1> QED
  BY <1>1, <1>2, <1>3 DEF OpenTransactionsSound, LocalOK

(* A worker that has answered relies on nothing; only what the answer's    *)
(* write did to the others is left to show.                                *)
LEMMA ReplySound ==
  ASSUME DevInv, NEW w \in Workers, NEW r, Reply(w, r), now' = now,
         \A v \in Workers : v # w => SubjectOK(v)' /\ WritesOK(v)',
         (\A k \in Keys : KeyExists(k) => keys[k].by \in Users)'
  PROVE  OpenTransactionsSound'
<1> USE DEF DevInv, TypeOK, LocalsTypeOK
<1>1. pc'[w] = "idle" /\ req'[w] = NoRequest /\ held'[w] = {} /\ cand'[w] = None
  BY DEF Reply
<1>2. OthersFixed(w)
  BY DEF Reply, OthersFixed
<1>3. LocalOK(w)'
  <2>1. RequestOK(w)'
    BY <1>1 DEF RequestOK, NoRequest, TablesTypeOK, Creating
  <2>2. SubjectOK(w)'
    BY <1>1 DEF SubjectOK, NoRequest, Creating
  <2>3. WritesOK(w)'
    BY <1>1 DEF WritesOK, NoRequest, Creating, Inserted, Retired, Spending
  <2> QED
    BY <2>1, <2>2, <2>3 DEF LocalOK
<1>4. ASSUME NEW v \in Workers, v # w
      PROVE  Disjoint(v, w)' /\ Disjoint(w, v)'
  BY <1>1 DEF Disjoint, NoRequest, Creating, Inserted, Retired, Spending
<1>5. ASSUME NEW v \in Workers, v # w
      PROVE  RequestOK(v)'
  BY <1>2, <1>5 DEF OthersFixed, OpenTransactionsSound, RequestOK
<1>6. ASSUME NEW u \in Workers, NEW v \in Workers, u # w, v # w, u # v
      PROVE  Disjoint(u, v)'
  <2>1. Disjoint(u, v)
    BY <1>6 DEF OpenTransactionsSound
  <2> QED
    BY <1>2, <1>6, <2>1 DEF OthersFixed, Disjoint, Spending, Inserted, Retired
<1> QED
  BY <1>3, <1>4, <1>5, <1>6 DEF OpenTransactionsSound, LocalOK

(* Answering without a write keeps everything.                             *)
LEMMA RefuseSound ==
  ASSUME DevInv, NEW w \in Workers, NEW r, Reply(w, r), UNCHANGED regVars
  PROVE  OpenTransactionsSound'
<1>1. now' = now /\ UNCHANGED tables /\ now \in Nat
  BY DEF regVars, tables, DevInv, TypeOK, TablesTypeOK
<1>2. ASSUME NEW v \in Workers, v # w
      PROVE  SubjectOK(v)' /\ WritesOK(v)'
  <2>1. LocalOK(v) /\ req[v] \in Request
    BY DEF DevInv, OpenTransactionsSound, LocalOK, TypeOK, LocalsTypeOK
  <2>2. pc'[v] = pc[v] /\ req'[v] = req[v] /\ cand'[v] = cand[v] /\ held'[v] = held[v]
    BY <1>2 DEF Reply, DevInv, TypeOK, LocalsTypeOK
  <2>3. LocalOK(v)'
    BY <1>1, <2>1, <2>2, UntouchedLocal
  <2> QED
    BY <2>3 DEF LocalOK
<1>3. (\A k \in Keys : KeyExists(k) => keys[k].by \in Users)'
  BY <1>1 DEF DevInv, OpenTransactionsSound, tables, KeyExists
<1> QED
  BY <1>1, <1>2, <1>3, ReplySound

(* Taking on a request keeps everything, if the request fits its first     *)
(* control state and the identifier it draws is nobody else's.             *)
LEMMA AcceptSound ==
  ASSUME DevInv, NEW w \in Workers, NEW first \in {"begin", "lookup", "find", "auth"},
         NEW r \in Request, Accept(w, first, r), r.at = now,
         r.op # "none",
         first = "lookup" => r.op = "enroll",
         first = "find" => r.op = "revoke",
         first = "auth" => r.op = "heartbeat",
         first = "begin" => r.op \in {"register", "createKey", "revokeKey"},
         r.op = "register" => r.key = None /\ r.pk \in PublicKeys /\ r.user \in Users,
         r.op = "enroll" => r.key \in Keys,
         r.op \in {"revoke", "heartbeat"} => r.dev \in DeviceIds,
         r.op \in {"createKey", "revokeKey"} => r.key \in Keys,
         r.op = "createKey" => FreshKey(r.key) /\ r.user \in Users,
         r.op \in Creating => r.dev \in DeviceIds /\ FreshDevice(r.dev)
  PROVE  OpenTransactionsSound'
<1> USE DEF DevInv, TypeOK, LocalsTypeOK
<1>1. /\ pc[w] = "idle" /\ pc'[w] = first /\ req'[w] = r /\ held'[w] = held[w]
      /\ UNCHANGED regVars
  BY DEF Accept, Goto, regVars
<1>2. OthersFixed(w)
  BY DEF Accept, Goto, OthersFixed
<1>3. held[w] = {}
  BY <1>1 DEF OpenTransactionsSound, WritesOK
<1>4. LocalOK(w)'
  <2>1. RequestOK(w)'
    BY <1>1 DEF RequestOK, regVars, Creating, TablesTypeOK
  <2>2. SubjectOK(w)'
    <3>1. r.op \in Creating => ~DeviceExists(r.dev)'
      BY <1>1 DEF FreshDevice, DeviceExists, regVars
    <3>2. r.op = "createKey" => ~KeyExists(r.key)'
      BY <1>1 DEF FreshKey, KeyExists, regVars
    <3> QED
      BY <1>1, <3>1, <3>2 DEF SubjectOK, Creating
  <2>3. WritesOK(w)'
    BY <1>1, <1>3 DEF WritesOK, Inserted, Retired, Spending
  <2> QED
    BY <2>1, <2>2, <2>3 DEF LocalOK
<1>5. ASSUME NEW v \in Workers, v # w
      PROVE  Disjoint(v, w)' /\ Disjoint(w, v)'
  <2>1. r.op \in Creating /\ req[v].op \in Creating => req[v].dev # r.dev
    BY DEF FreshDevice
  <2>2. r.op = "createKey" /\ req[v].op = "createKey" => req[v].key # r.key
    BY DEF FreshKey
  <2> QED
    BY <1>1, <1>2, <1>3, <1>5, <2>1, <2>2
       DEF Disjoint, OthersFixed, Inserted, Retired, Spending
<1> QED
  BY <1>1, <1>2, <1>4, <1>5, MoveSound

LEMMA StartSound ==
  ASSUME DevInv, NEW w \in Workers, Start(w)
  PROVE  OpenTransactionsSound'
<1>0. now \in Nat
  BY DEF DevInv, TypeOK, TablesTypeOK
<1> USE DEF Creating
<1>1. CASE StartRegister(w)
  <2>1. PICK d \in {e \in DeviceIds : FreshDevice(e)}, pk \in PublicKeys, u \in Users :
          Accept(w, "begin", [op |-> "register", key |-> None, dev |-> d,
                              pk |-> pk, user |-> u, at |-> now])
    BY <1>1 DEF StartRegister
  <2> DEFINE r == [op |-> "register", key |-> None, dev |-> d,
                   pk |-> pk, user |-> u, at |-> now]
  <2>2. r \in Request
    BY <1>0 DEF Request, OrNull, Ops
  <2>3. /\ r.op = "register" /\ r.key = None /\ r.pk \in PublicKeys
        /\ r.user \in Users /\ r.at = now
        /\ r.dev \in DeviceIds /\ FreshDevice(r.dev)
    OBVIOUS
  <2> HIDE DEF r
  <2> QED
    BY <2>1, <2>2, <2>3, AcceptSound DEF r
<1>2. CASE StartEnroll(w)
  <2>1. PICK d \in {e \in DeviceIds : FreshDevice(e)}, pk \in OrNull(PublicKeys),
             k \in Keys :
          Accept(w, "lookup", [op |-> "enroll", key |-> k, dev |-> d,
                               pk |-> pk, user |-> None, at |-> now])
    BY <1>2 DEF StartEnroll
  <2> DEFINE r == [op |-> "enroll", key |-> k, dev |-> d,
                   pk |-> pk, user |-> None, at |-> now]
  <2>2. r \in Request
    BY <1>0 DEF Request, OrNull, Ops
  <2>3. /\ r.op = "enroll" /\ r.key \in Keys /\ r.at = now
        /\ r.dev \in DeviceIds /\ FreshDevice(r.dev)
    OBVIOUS
  <2> HIDE DEF r
  <2> QED
    BY <2>1, <2>2, <2>3, AcceptSound DEF r
<1>3. CASE StartRevoke(w)
  <2>1. PICK d \in DeviceIds, u \in Users :
          Accept(w, "find", [op |-> "revoke", key |-> None, dev |-> d,
                             pk |-> None, user |-> u, at |-> now])
    BY <1>3 DEF StartRevoke
  <2> DEFINE r == [op |-> "revoke", key |-> None, dev |-> d,
                   pk |-> None, user |-> u, at |-> now]
  <2>2. r \in Request
    BY <1>0 DEF Request, OrNull, Ops
  <2>3. r.op = "revoke" /\ r.at = now /\ r.dev \in DeviceIds
    OBVIOUS
  <2> HIDE DEF r
  <2> QED
    BY <2>1, <2>2, <2>3, AcceptSound DEF r
<1>4. CASE StartHeartbeat(w)
  <2>1. PICK d \in DeviceIds :
          Accept(w, "auth", [op |-> "heartbeat", key |-> None, dev |-> d,
                             pk |-> None, user |-> None, at |-> now])
    BY <1>4 DEF StartHeartbeat
  <2> DEFINE r == [op |-> "heartbeat", key |-> None, dev |-> d,
                   pk |-> None, user |-> None, at |-> now]
  <2>2. r \in Request
    BY <1>0 DEF Request, OrNull, Ops
  <2>3. r.op = "heartbeat" /\ r.at = now /\ r.dev \in DeviceIds
    OBVIOUS
  <2> HIDE DEF r
  <2> QED
    BY <2>1, <2>2, <2>3, AcceptSound DEF r
<1>5. CASE StartCreateSetupKey(w)
  <2>1. PICK k \in {j \in Keys : FreshKey(j)}, u \in Admins :
          Accept(w, "begin", [op |-> "createKey", key |-> k, dev |-> None,
                              pk |-> None, user |-> u, at |-> now])
    BY <1>5 DEF StartCreateSetupKey
  <2> DEFINE r == [op |-> "createKey", key |-> k, dev |-> None,
                   pk |-> None, user |-> u, at |-> now]
  <2>2. r \in Request
    BY <1>0, WorkerAssumption DEF Request, OrNull, Ops
  <2>3. /\ r.op = "createKey" /\ r.at = now /\ r.key \in Keys /\ FreshKey(r.key)
        /\ r.user \in Users
    BY WorkerAssumption
  <2> HIDE DEF r
  <2> QED
    BY <2>1, <2>2, <2>3, AcceptSound DEF r
<1>6. CASE StartRevokeSetupKey(w)
  <2>1. PICK k \in Keys :
          Accept(w, "begin", [op |-> "revokeKey", key |-> k, dev |-> None,
                              pk |-> None, user |-> None, at |-> now])
    BY <1>6 DEF StartRevokeSetupKey
  <2> DEFINE r == [op |-> "revokeKey", key |-> k, dev |-> None,
                   pk |-> None, user |-> None, at |-> now]
  <2>2. r \in Request
    BY <1>0 DEF Request, OrNull, Ops
  <2>3. r.op = "revokeKey" /\ r.at = now /\ r.key \in Keys
    OBVIOUS
  <2> HIDE DEF r
  <2> QED
    BY <2>1, <2>2, <2>3, AcceptSound DEF r
<1>7. CASE RefuseMalformed(w)
  BY <1>7, RefuseSound DEF RefuseMalformed
<1> QED
  BY <1>1, <1>2, <1>3, <1>4, <1>5, <1>6, <1>7 DEF Start

-----------------------------------------------------------------------------
(* The statements that leave the committed tables alone, one by one.       *)

LEMMA LookupKeySound ==
  ASSUME DevInv, NEW w \in Workers, LookupKey(w)
  PROVE  OpenTransactionsSound'
<1> USE DEF DevInv, TypeOK, LocalsTypeOK
<1>1. CASE \E r : Reply(w, r)
  BY <1>1, RefuseSound DEF LookupKey
<1>2. CASE /\ Redeemable(req[w].key, req[w].at)
           /\ req[w].pk # None
           /\ Goto(w, "lookup", "begin")
           /\ req' = [req EXCEPT ![w].user = keys[req[w].key].by]
           /\ UNCHANGED <<cand, attempt, held, resp>>
  <2>1. /\ pc[w] = "lookup" /\ pc'[w] = "begin" /\ held'[w] = held[w]
        /\ UNCHANGED regVars
    BY <1>2 DEF LookupKey, Goto
  <2>2. /\ req'[w].op = req[w].op /\ req'[w].key = req[w].key
        /\ req'[w].dev = req[w].dev /\ req'[w].pk = req[w].pk
        /\ req'[w].at = req[w].at /\ req'[w].user = keys[req[w].key].by
    BY <1>2 DEF Request
  <2>3. OthersFixed(w)
    BY <1>2 DEF Goto, OthersFixed
  <2>4. RequestOK(w) /\ SubjectOK(w) /\ WritesOK(w)
    BY DEF OpenTransactionsSound
  <2>5. req[w].op = "enroll" /\ held[w] = {} /\ req[w].pk \in PublicKeys
    BY <1>2, <2>1, <2>4 DEF RequestOK, WritesOK, Request, OrNull
  <2>6. RequestOK(w)'
    BY <2>1, <2>2, <2>4, <2>5 DEF RequestOK, regVars
  <2>7. SubjectOK(w)'
    BY <1>2, <2>1, <2>2, <2>4, <2>5
       DEF SubjectOK, regVars, Redeemable, KeyExists, DeviceExists, Creating
  <2>8. WritesOK(w)'
    BY <2>1, <2>2, <2>5 DEF WritesOK, Inserted, Retired, Spending
  <2>9. ASSUME NEW v \in Workers, v # w
        PROVE  Disjoint(v, w)' /\ Disjoint(w, v)'
    <3>1. Disjoint(v, w) /\ Disjoint(w, v)
      BY <2>9 DEF OpenTransactionsSound
    <3> QED
      BY <2>1, <2>2, <2>3, <2>5, <2>9, <3>1
         DEF Disjoint, OthersFixed, Inserted, Retired, Spending
  <2> QED
    BY <2>1, <2>3, <2>6, <2>7, <2>8, <2>9, MoveSound DEF LocalOK
<1> QED
  BY <1>1, <1>2 DEF LookupKey

(* The steps before a transaction: looking a device up, authenticating,    *)
(* taking a connection.  None of them writes a row.                        *)
LEMMA BeforeSound ==
  ASSUME DevInv, NEW w \in Workers, FindDevice(w) \/ Authenticate(w) \/ Begin(w)
  PROVE  OpenTransactionsSound'
<1> USE DEF DevInv, TypeOK, LocalsTypeOK
<1>0. RequestOK(w) /\ SubjectOK(w) /\ WritesOK(w) /\ now \in Nat
  BY DEF OpenTransactionsSound, TablesTypeOK
<1>1. CASE \E r : Reply(w, r)
  BY <1>1, RefuseSound DEF FindDevice, Authenticate, Begin, regVars
<1>2. CASE /\ FindDevice(w) /\ Goto(w, "find", "begin")
           /\ DeviceExists(req[w].dev)
           /\ UNCHANGED <<req, cand, attempt, held, resp>>
  <2>1. /\ pc[w] = "find" /\ pc'[w] = "begin" /\ req'[w] = req[w]
        /\ held'[w] = held[w] /\ UNCHANGED regVars /\ OthersFixed(w)
    BY <1>2 DEF FindDevice, Goto, OthersFixed
  <2>2. req[w].op = "revoke" /\ held[w] = {}
    BY <1>0, <2>1 DEF RequestOK, WritesOK
  <2>3. LocalOK(w)'
    <3>1. RequestOK(w)'
      BY <1>0, <2>1, <2>2 DEF RequestOK, regVars
    <3>2. SubjectOK(w)'
      BY <1>0, <1>2, <2>1, <2>2 DEF SubjectOK, regVars, Creating, DeviceExists
    <3>3. WritesOK(w)'
      BY <2>1, <2>2 DEF WritesOK, Inserted, Retired, Spending
    <3> QED
      BY <3>1, <3>2, <3>3 DEF LocalOK
  <2>4. ASSUME NEW v \in Workers, v # w
        PROVE  Disjoint(v, w)' /\ Disjoint(w, v)'
    BY <2>1, <2>2, <2>4 DEF Disjoint, OthersFixed, Inserted, Retired, Spending, Creating
  <2> QED
    BY <2>1, <2>3, <2>4, MoveSound
<1>3. CASE /\ Authenticate(w) /\ Goto(w, "auth", "begin")
           /\ DeviceExists(req[w].dev)
           /\ req' = [req EXCEPT ![w].at = now]
           /\ UNCHANGED <<cand, attempt, held, resp>>
  <2>1. /\ pc[w] = "auth" /\ pc'[w] = "begin"
        /\ held'[w] = held[w] /\ UNCHANGED regVars /\ OthersFixed(w)
    BY <1>3 DEF Authenticate, Goto, OthersFixed
  <2>2. req[w].op = "heartbeat" /\ held[w] = {}
    BY <1>0, <2>1 DEF RequestOK, WritesOK
  <2>3. /\ req'[w].op = req[w].op /\ req'[w].dev = req[w].dev /\ req'[w].at = now
    BY <1>3 DEF Request
  <2>4. LocalOK(w)'
    <3>1. RequestOK(w)'
      BY <1>0, <2>1, <2>2, <2>3 DEF RequestOK, regVars
    <3>2. SubjectOK(w)'
      BY <1>0, <1>3, <2>1, <2>2, <2>3 DEF SubjectOK, regVars, Creating, DeviceExists
    <3>3. WritesOK(w)'
      BY <2>1, <2>2, <2>3 DEF WritesOK, Inserted, Retired, Spending
    <3> QED
      BY <3>1, <3>2, <3>3 DEF LocalOK
  <2>5. ASSUME NEW v \in Workers, v # w
        PROVE  Disjoint(v, w)' /\ Disjoint(w, v)'
    BY <2>1, <2>2, <2>3, <2>5
       DEF Disjoint, OthersFixed, Inserted, Retired, Spending, Creating
  <2> QED
    BY <2>1, <2>4, <2>5, MoveSound
<1>4. CASE Begin(w)
  <2>1. /\ pc[w] = "begin" /\ pc'[w] = FirstStatement(req[w].op) /\ req'[w] = req[w]
        /\ held'[w] = held[w] /\ cand'[w] = cand[w]
        /\ UNCHANGED regVars /\ OthersFixed(w)
    BY <1>4 DEF Begin, Goto, OthersFixed, regVars
  <2>2. held[w] = {} /\ req[w].op \in Ops
    BY <1>0, <2>1 DEF RequestOK, WritesOK, Request
  <2>3. /\ pc'[w] \in {"pick", "consume", "release", "beat", "issue", "cancel"}
        /\ pc'[w] = "pick" <=> req[w].op = "register"
        /\ pc'[w] = "consume" <=> req[w].op = "enroll"
        /\ pc'[w] = "release" <=> req[w].op = "revoke"
        /\ pc'[w] = "beat" <=> req[w].op = "heartbeat"
        /\ pc'[w] = "issue" <=> req[w].op = "createKey"
        /\ pc'[w] = "cancel" <=> req[w].op = "revokeKey"
    BY <2>1, <2>2 DEF FirstStatement, Ops
  <2>4. LocalOK(w)'
    <3>1. RequestOK(w)'
      BY <1>0, <2>1, <2>2, <2>3 DEF RequestOK, regVars, Creating, Ops
    <3>2. SubjectOK(w)'
      BY <1>0, <2>1, <2>2, <2>3 DEF SubjectOK, regVars, Creating, DeviceExists, KeyExists
    <3>3. WritesOK(w)'
      BY <2>1, <2>2, <2>3 DEF WritesOK, Inserted, Retired, Spending
    <3> QED
      BY <3>1, <3>2, <3>3 DEF LocalOK
  <2>5. ASSUME NEW v \in Workers, v # w
        PROVE  Disjoint(v, w)' /\ Disjoint(w, v)'
    <3>1. Disjoint(v, w) /\ Disjoint(w, v)
      BY <2>5 DEF OpenTransactionsSound
    <3> QED
      BY <2>1, <2>2, <2>3, <2>5, <3>1
         DEF Disjoint, OthersFixed, Inserted, Retired, Spending
  <2> QED
    BY <2>1, <2>4, <2>5, MoveSound
<1> QED
  BY <1>1, <1>2, <1>3, <1>4 DEF FindDevice, Authenticate, InScope, Active

(* The UPDATE that spends a key: its WHERE clause is what the transaction  *)
(* relies on, and the row lock keeps other transactions off the key.       *)
LEMMA ConsumeSound ==
  ASSUME DevInv, NEW w \in Workers, ConsumeSetupKey(w)
  PROVE  OpenTransactionsSound'
<1> USE DEF DevInv, TypeOK, LocalsTypeOK
<1>0. RequestOK(w) /\ SubjectOK(w) /\ WritesOK(w)
  BY DEF OpenTransactionsSound
<1>1. CASE \E r : Reply(w, r)
  BY <1>1, RefuseSound DEF ConsumeSetupKey
<1>2. CASE /\ Consumable(req[w].key, req[w].at)
           /\ Goto(w, "consume", "pick")
           /\ UNCHANGED <<req, cand, attempt, held, resp>>
  <2>1. /\ pc[w] = "consume" /\ pc'[w] = "pick" /\ req'[w] = req[w]
        /\ held'[w] = held[w] /\ UNCHANGED regVars /\ OthersFixed(w)
        /\ ~KeyPending(w, req[w].key)
    BY <1>2 DEF ConsumeSetupKey, Goto, OthersFixed
  <2>2. req[w].op = "enroll" /\ held[w] = {}
    BY <1>0, <2>1 DEF RequestOK, WritesOK
  <2>3. LocalOK(w)'
    <3>1. RequestOK(w)'
      BY <1>0, <2>1, <2>2 DEF RequestOK, regVars, Creating
    <3>2. SubjectOK(w)'
      BY <1>0, <2>1, <2>2 DEF SubjectOK, regVars, Creating, DeviceExists, KeyExists
    <3>3. Consumable(req[w].key, req[w].at)'
      BY <1>2, <2>1 DEF Consumable, regVars
    <3>4. WritesOK(w)'
      BY <2>1, <2>2, <3>3 DEF WritesOK, Inserted, Retired, Spending, regVars, Consumable
    <3> QED
      BY <3>1, <3>2, <3>4 DEF LocalOK
  <2>4. ASSUME NEW v \in Workers, v # w
        PROVE  Disjoint(v, w)' /\ Disjoint(w, v)'
    <3>1. Disjoint(v, w) /\ Disjoint(w, v)
      BY <2>4 DEF OpenTransactionsSound
    <3>2. Spending(v) => req[v].key # req[w].key
      BY <2>1, <2>4 DEF KeyPending
    <3> QED
      BY <2>1, <2>2, <2>4, <3>1, <3>2
         DEF Disjoint, OthersFixed, Inserted, Retired, Spending
  <2> QED
    BY <2>1, <2>3, <2>4, MoveSound
<1> QED
  BY <1>1, <1>2 DEF ConsumeSetupKey

LEMMA PickSound ==
  ASSUME DevInv, NEW w \in Workers, PickCandidate(w)
  PROVE  OpenTransactionsSound'
<1> USE DEF DevInv, TypeOK, LocalsTypeOK
<1>0. RequestOK(w) /\ SubjectOK(w) /\ WritesOK(w)
  BY DEF OpenTransactionsSound
<1>1. CASE \E r : Reply(w, r)
  BY <1>1, RefuseSound DEF PickCandidate
<1>2. ASSUME NEW a \in Usable(Family(w)), PickCandidate(w), Goto(w, "pick", "claim"),
             cand' = [cand EXCEPT ![w] = a], UNCHANGED <<req, attempt, held, resp>>
      PROVE  OpenTransactionsSound'
  <2>1. /\ pc[w] = "pick" /\ pc'[w] = "claim" /\ req'[w] = req[w] /\ cand'[w] = a
        /\ held'[w] = held[w] /\ UNCHANGED regVars /\ OthersFixed(w)
    BY <1>2 DEF PickCandidate, Goto, OthersFixed
  <2>2. req[w].op \in Creating
    BY <1>0, <2>1 DEF RequestOK
  <2>3. LocalOK(w)'
    <3>1. RequestOK(w)'
      BY <1>0, <2>1, <2>2 DEF RequestOK, regVars, Creating
    <3>2. SubjectOK(w)'
      BY <1>0, <2>1 DEF SubjectOK, regVars, Creating, DeviceExists, KeyExists
    <3>3. Family(w)' = Family(w)
      BY <2>1 DEF Family
    <3>4. WritesOK(w)'
      BY <1>0, <2>1, <2>2, <3>3
         DEF WritesOK, Inserted, Retired, Spending, regVars, Consumable, Creating
    <3> QED
      BY <3>1, <3>2, <3>4 DEF LocalOK
  <2>4. ASSUME NEW v \in Workers, v # w
        PROVE  Disjoint(v, w)' /\ Disjoint(w, v)'
    <3>1. Disjoint(v, w) /\ Disjoint(w, v)
      BY <2>4 DEF OpenTransactionsSound
    <3> QED
      BY <2>1, <2>4, <3>1 DEF Disjoint, OthersFixed, Inserted, Retired, Spending
  <2> QED
    BY <2>1, <2>3, <2>4, MoveSound
<1>3. ASSUME NEW f, NEW S, NEW n, NEW a \in FreeAddresses(f, S, n)
      PROVE  a \in Usable(f)
  BY <1>3 DEF FreeAddresses
<1> QED
  BY <1>1, <1>2, <1>3 DEF PickCandidate

(* The INSERT that claims an address: no other open transaction has the    *)
(* row, and the claimed addresses add up to an assignment.                 *)
LEMMA ClaimSound ==
  ASSUME DevInv, NEW w \in Workers, ClaimAddress(w)
  PROVE  OpenTransactionsSound'
<1> USE DEF DevInv, TypeOK, LocalsTypeOK
<1>0. RequestOK(w) /\ SubjectOK(w) /\ WritesOK(w)
  BY DEF OpenTransactionsSound
<1>1. /\ pc[w] = "claim" /\ req[w].op \in Creating
      /\ cand[w] \in Usable(Family(w)) /\ ~AddressPending(w, cand[w])
  BY <1>0 DEF ClaimAddress, RequestOK, WritesOK
<1>2. CASE \E r : Reply(w, r)
  BY <1>2, RefuseSound DEF ClaimAddress
<1>3. CASE /\ Goto(w, "claim", "pick")
           /\ UNCHANGED <<req, cand, held, resp>>
  <2>1. /\ pc'[w] = "pick" /\ req'[w] = req[w] /\ cand'[w] = cand[w]
        /\ held'[w] = held[w] /\ UNCHANGED regVars /\ OthersFixed(w)
    BY <1>3 DEF ClaimAddress, Goto, OthersFixed
  <2>2. LocalOK(w)'
    <3>1. RequestOK(w)'
      BY <1>0, <1>1, <2>1 DEF RequestOK, regVars, Creating
    <3>2. SubjectOK(w)'
      BY <1>0, <1>1, <2>1 DEF SubjectOK, regVars, Creating, DeviceExists, KeyExists
    <3>3. WritesOK(w)'
      BY <1>0, <1>1, <2>1
         DEF WritesOK, Inserted, Retired, Spending, regVars, Consumable, Creating
    <3> QED
      BY <3>1, <3>2, <3>3 DEF LocalOK
  <2>3. ASSUME NEW v \in Workers, v # w
        PROVE  Disjoint(v, w)' /\ Disjoint(w, v)'
    <3>1. Disjoint(v, w) /\ Disjoint(w, v)
      BY <2>3 DEF OpenTransactionsSound
    <3> QED
      BY <1>1, <2>1, <2>3, <3>1 DEF Disjoint, OthersFixed, Inserted, Retired, Spending
  <2> QED
    BY <2>1, <2>2, <2>3, MoveSound
<1>4. CASE /\ InsertsAddress(cand[w])
           /\ held' = [held EXCEPT ![w] = @ \cup {cand[w]}]
           /\ cand' = [cand EXCEPT ![w] = None]
           /\ Goto(w, "claim", IF IPv6Enabled /\ Family(w) = 4 THEN "pick" ELSE "insert")
           /\ UNCHANGED <<req, resp>>
  <2>1. /\ pc'[w] = IF IPv6Enabled /\ Family(w) = 4 THEN "pick" ELSE "insert"
        /\ req'[w] = req[w] /\ held'[w] = held[w] \cup {cand[w]}
        /\ UNCHANGED regVars /\ OthersFixed(w)
    BY <1>4 DEF ClaimAddress, Goto, OthersFixed
  <2>2. \A a \in Usable(4) : FamilyOf(a) = 4
    BY PoolAssumption DEF Usable, FamilyOf
  <2>3. \/ held[w] = {} /\ Family(w) = 4
        \/ IPv6Enabled /\ Family(w) = 6 /\ \E a \in Usable(4) : held[w] = {a}
    BY <1>0, <1>1, <2>2 DEF WritesOK, Family
  <2>4. IPv6Enabled /\ Family(w) = 4 => held'[w] = {cand[w]} /\ cand[w] \in Usable(4)
    BY <1>1, <2>1, <2>3
  <2>5. ~(IPv6Enabled /\ Family(w) = 4) => held'[w] \in Assignments
    <3>1. CASE held[w] = {} /\ Family(w) = 4 /\ ~IPv6Enabled
      BY <1>1, <2>1, <3>1 DEF Assignments
    <3>2. CASE IPv6Enabled /\ Family(w) = 6 /\ \E a \in Usable(4) : held[w] = {a}
      <4>1. PICK a \in Usable(4) : held[w] = {a}
        BY <3>2
      <4>2. held'[w] = {a, cand[w]} /\ cand[w] \in Usable(6)
        BY <1>1, <2>1, <3>2, <4>1
      <4> QED
        BY <3>2, <4>2 DEF Assignments
    <3> QED
      BY <2>3, <3>1, <3>2
  <2>6. LocalOK(w)'
    <3>1. RequestOK(w)'
      BY <1>0, <1>1, <2>1 DEF RequestOK, regVars, Creating
    <3>2. SubjectOK(w)'
      BY <1>0, <1>1, <2>1 DEF SubjectOK, regVars, Creating, DeviceExists, KeyExists
    <3>3. \A a \in held'[w] : alloc'[a] = None
      BY <1>0, <1>1, <1>4, <2>1 DEF WritesOK, InsertsAddress, regVars
    <3>4. Spending(w)' => Consumable(req[w].key, req[w].at)'
      BY <1>0, <1>1, <2>1 DEF WritesOK, Spending, Consumable, regVars
    <3>5. WritesOK(w)'
      BY <1>1, <2>1, <2>4, <2>5, <3>3, <3>4
         DEF WritesOK, Inserted, Retired, Creating, Consumable
    <3> QED
      BY <3>1, <3>2, <3>5 DEF LocalOK
  <2>7. ASSUME NEW v \in Workers, v # w
        PROVE  Disjoint(v, w)' /\ Disjoint(w, v)'
    <3>1. Disjoint(v, w) /\ Disjoint(w, v)
      BY <2>7 DEF OpenTransactionsSound
    <3>2. cand[w] \notin held[v]
      BY <1>1, <2>7 DEF AddressPending
    <3>3. held'[v] \cap held'[w] = {}
      BY <2>1, <2>7, <3>1, <3>2 DEF Disjoint, OthersFixed
    <3> QED
      BY <1>1, <2>1, <2>7, <3>1, <3>3 DEF Disjoint, OthersFixed, Inserted, Retired, Spending
  <2> QED
    BY <2>1, <2>6, <2>7, MoveSound
<1> QED
  BY <1>2, <1>3, <1>4 DEF ClaimAddress

(* The INSERT of the device: the unique index has decided, and no other    *)
(* open transaction has inserted the same public key.                      *)
LEMMA InsertSound ==
  ASSUME DevInv, NEW w \in Workers, InsertDevice(w)
  PROVE  OpenTransactionsSound'
<1> USE DEF DevInv, TypeOK, LocalsTypeOK
<1>0. RequestOK(w) /\ SubjectOK(w) /\ WritesOK(w)
  BY DEF OpenTransactionsSound
<1>1. CASE \E r : Reply(w, r)
  BY <1>1, RefuseSound DEF InsertDevice
<1>2. CASE /\ req[w].pk \notin UsedPublicKeys
           /\ Goto(w, "insert", "commit")
           /\ UNCHANGED <<req, cand, attempt, held, resp>>
  <2>1. /\ pc[w] = "insert" /\ pc'[w] = "commit" /\ req'[w] = req[w]
        /\ held'[w] = held[w] /\ UNCHANGED regVars /\ OthersFixed(w)
        /\ ~PublicKeyPending(w, req[w].pk)
    BY <1>2 DEF InsertDevice, Goto, OthersFixed
  <2>2. req[w].op \in Creating /\ held[w] \in Assignments
    BY <1>0, <2>1 DEF RequestOK, WritesOK
  <2>3. LocalOK(w)'
    <3>1. RequestOK(w)'
      BY <1>0, <2>1, <2>2 DEF RequestOK, regVars, Creating
    <3>2. SubjectOK(w)'
      BY <1>0, <2>1, <2>2 DEF SubjectOK, regVars, Creating, DeviceExists, KeyExists
    <3>3. UsedPublicKeys' = UsedPublicKeys
      BY <2>1 DEF UsedPublicKeys, DeviceExists, regVars
    <3>4. WritesOK(w)'
      BY <1>0, <1>2, <2>1, <2>2, <3>3
         DEF WritesOK, Inserted, Retired, Spending, regVars, Consumable, Creating
    <3> QED
      BY <3>1, <3>2, <3>4 DEF LocalOK
  <2>4. ASSUME NEW v \in Workers, v # w
        PROVE  Disjoint(v, w)' /\ Disjoint(w, v)'
    <3>1. Disjoint(v, w) /\ Disjoint(w, v)
      BY <2>4 DEF OpenTransactionsSound
    <3>2. Inserted(v) => req[v].pk # req[w].pk
      BY <2>1, <2>4 DEF PublicKeyPending
    <3> QED
      BY <2>1, <2>2, <2>4, <3>1, <3>2
         DEF Disjoint, OthersFixed, Inserted, Retired, Spending, Creating
  <2> QED
    BY <2>1, <2>3, <2>4, MoveSound
<1> QED
  BY <1>1, <1>2 DEF InsertDevice

(* The DELETE that releases a device's addresses waits for every row of    *)
(* them that an open transaction has written.                              *)
LEMMA ReleaseSound ==
  ASSUME DevInv, NEW w \in Workers, ReleaseAddresses(w)
  PROVE  OpenTransactionsSound'
<1> USE DEF DevInv, TypeOK, LocalsTypeOK
<1>0. RequestOK(w) /\ SubjectOK(w) /\ WritesOK(w)
  BY DEF OpenTransactionsSound
<1>1. /\ pc[w] = "release" /\ pc'[w] = "retire" /\ req'[w] = req[w]
      /\ held'[w] = AddressesOf(req[w].dev) /\ UNCHANGED regVars /\ OthersFixed(w)
      /\ \A a \in AddressesOf(req[w].dev) : ~AddressPending(w, a)
  BY DEF ReleaseAddresses, Goto, OthersFixed, regVars
<1>2. req[w].op = "revoke"
  BY <1>0, <1>1 DEF RequestOK
<1>3. LocalOK(w)'
  <2>1. RequestOK(w)'
    BY <1>0, <1>1, <1>2 DEF RequestOK, regVars, Creating
  <2>2. SubjectOK(w)'
    BY <1>0, <1>1, <1>2 DEF SubjectOK, regVars, Creating, DeviceExists, KeyExists
  <2>3. WritesOK(w)'
    BY <1>1, <1>2 DEF WritesOK, Inserted, Retired, Spending, regVars, Creating, AddressesOf
  <2> QED
    BY <2>1, <2>2, <2>3 DEF LocalOK
<1>4. ASSUME NEW v \in Workers, v # w
      PROVE  Disjoint(v, w)' /\ Disjoint(w, v)'
  <2>1. held'[v] \cap held'[w] = {}
    BY <1>1, <1>4 DEF AddressPending, OthersFixed
  <2> QED
    BY <1>1, <1>2, <1>4, <2>1
       DEF Disjoint, OthersFixed, Inserted, Retired, Spending, Creating
<1> QED
  BY <1>1, <1>3, <1>4, MoveSound

LEMMA RetireSound ==
  ASSUME DevInv, NEW w \in Workers, RetireDevice(w)
  PROVE  OpenTransactionsSound'
<1> USE DEF DevInv, TypeOK, LocalsTypeOK
<1>0. RequestOK(w) /\ SubjectOK(w) /\ WritesOK(w)
  BY DEF OpenTransactionsSound
<1>1. CASE \E r : Reply(w, r)
  BY <1>1, RefuseSound DEF RetireDevice
<1>2. CASE /\ devs[req[w].dev].revoked = None
           /\ Goto(w, "retire", "commit")
           /\ UNCHANGED <<req, cand, attempt, held, resp>>
  <2>1. /\ pc[w] = "retire" /\ pc'[w] = "commit" /\ req'[w] = req[w]
        /\ held'[w] = held[w] /\ UNCHANGED regVars /\ OthersFixed(w)
        /\ ~DevicePending(w, req[w].dev)
    BY <1>2 DEF RetireDevice, Goto, OthersFixed
  <2>2. req[w].op = "revoke" /\ held[w] = AddressesOf(req[w].dev)
    BY <1>0, <1>2, <2>1 DEF RequestOK, WritesOK
  <2>3. LocalOK(w)'
    <3>1. RequestOK(w)'
      BY <1>0, <2>1, <2>2 DEF RequestOK, regVars, Creating
    <3>2. SubjectOK(w)'
      BY <1>0, <2>1, <2>2 DEF SubjectOK, regVars, Creating, DeviceExists, KeyExists
    <3>3. WritesOK(w)'
      BY <1>2, <2>1, <2>2
         DEF WritesOK, Inserted, Retired, Spending, regVars, Creating, AddressesOf
    <3> QED
      BY <3>1, <3>2, <3>3 DEF LocalOK
  <2>4. ASSUME NEW v \in Workers, v # w
        PROVE  Disjoint(v, w)' /\ Disjoint(w, v)'
    <3>1. Disjoint(v, w) /\ Disjoint(w, v)
      BY <2>4 DEF OpenTransactionsSound
    <3>2. Retired(v) => req[v].dev # req[w].dev
      BY <2>1, <2>4 DEF DevicePending
    <3> QED
      BY <2>1, <2>2, <2>4, <3>1, <3>2
         DEF Disjoint, OthersFixed, Inserted, Retired, Spending, Creating
  <2> QED
    BY <2>1, <2>3, <2>4, MoveSound
<1> QED
  BY <1>1, <1>2 DEF RetireDevice

-----------------------------------------------------------------------------
(* The commits: what one transaction's writes do to the others' facts.     *)

LEMMA CommitCreateSound ==
  ASSUME DevInv, NEW w \in Workers, CommitCreate(w)
  PROVE  OpenTransactionsSound'
<1> DEFINE d == req[w].dev
           k == req[w].key
<1> USE DEF DevInv, TypeOK, LocalsTypeOK
<1>0. RequestOK(w) /\ SubjectOK(w) /\ WritesOK(w)
  BY DEF OpenTransactionsSound
<1>1. PICK r : Reply(w, r)
  BY DEF CommitCreate, Acknowledge
<1>2. OthersFixed(w)
  BY <1>1 DEF Reply, OthersFixed
<1>3. /\ d \in DeviceIds /\ ~DeviceExists(d) /\ pc[w] = "commit" /\ Inserted(w)
      /\ req[w].op \in Creating /\ \A a \in held[w] : alloc[a] = None
  BY <1>0 DEF CommitCreate, SubjectOK, WritesOK, Inserted
<1>4. /\ devs'[d] = NewDeviceRow(w)
      /\ \A e \in DeviceIds : e # d => devs'[e] = devs[e]
  BY <1>3 DEF CommitCreate, TablesTypeOK
<1>5. alloc' = [a \in Address |-> IF a \in held[w] THEN d ELSE alloc[a]]
  BY DEF CommitCreate
<1>6. \A j \in Keys :
        /\ keys'[j].created = keys[j].created /\ keys'[j].by = keys[j].by
        /\ j # k \/ req[w].op # "enroll" => keys'[j] = keys[j]
  BY DEF CommitCreate, TablesTypeOK, KeyRow
<1>7. ASSUME NEW v \in Workers, v # w
      PROVE  SubjectOK(v)' /\ WritesOK(v)'
  <2>1. /\ pc'[v] = pc[v] /\ req'[v] = req[v] /\ cand'[v] = cand[v]
        /\ held'[v] = held[v] /\ RequestOK(v) /\ SubjectOK(v) /\ WritesOK(v)
        /\ Disjoint(v, w) /\ Disjoint(w, v) /\ req[v] \in Request
    BY <1>2, <1>7 DEF OthersFixed, OpenTransactionsSound
  <2>2. req[v].op \in Creating => req[v].dev # d
    BY <1>3, <2>1 DEF Disjoint
  <2>3. SubjectOK(v)'
    <3>1. \A e \in DeviceIds : e # d => (devs'[e].created = devs[e].created)
      BY <1>4
    <3>2. devs'[d].created # None
      <4>1. req[w].at \in Nat
        BY DEF Request
      <4> QED
        BY <1>4, <4>1, RowAssumption DEF NewDeviceRow
    <3> QED
      BY <1>6, <2>1, <2>2, <3>1, <3>2 DEF SubjectOK, DeviceExists, KeyExists, Creating
  <2>4. pc[v] = "retire" \/ Retired(v) =>
          req[v].dev \in DeviceIds /\ DeviceExists(req[v].dev) /\ req[v].dev # d
    BY <1>3, <2>1 DEF RequestOK, SubjectOK, Retired
  <2>5. ASSUME NEW e \in DeviceIds, e # d
        PROVE  AddressesOf(e)' = AddressesOf(e)
    BY <1>3, <1>5, <2>5, RowAssumption DEF AddressesOf
  <2>6. req[v].op \in Creating => \A a \in held[v] : alloc'[a] = None
    <3>1. held[v] \cap held[w] = {}
      BY <2>1 DEF Disjoint
    <3>2. held[v] \subseteq Address
      OBVIOUS
    <3> QED
      BY <1>5, <2>1, <3>1, <3>2 DEF WritesOK
  <2>7. Spending(v) => Consumable(req[v].key, req[v].at)'
    <3>1. Spending(v) => req[v].key \in Keys /\ Consumable(req[v].key, req[v].at)
      BY <2>1 DEF SubjectOK, WritesOK, Spending
    <3>2. Spending(v) /\ req[w].op = "enroll" => req[v].key # k
      BY <1>3, <2>1 DEF Disjoint, Spending
    <3>3. Spending(v) => keys'[req[v].key] = keys[req[v].key]
      BY <1>6, <3>1, <3>2
    <3> QED
      BY <2>1, <3>1, <3>3 DEF Consumable
  <2>8. Inserted(v) => req[v].pk \notin UsedPublicKeys'
    <3>1. ASSUME Inserted(v), NEW e \in DeviceIds, devs'[e].created # None
          PROVE  devs'[e].pk # req[v].pk
      <4>1. CASE e = d
        BY <1>3, <1>4, <2>1, <3>1, <4>1 DEF Disjoint, NewDeviceRow
      <4>2. CASE e # d
        BY <1>4, <2>1, <3>1, <4>2 DEF WritesOK, UsedPublicKeys, DeviceExists
      <4> QED
        BY <4>1, <4>2
    <3> QED
      BY <3>1 DEF UsedPublicKeys, DeviceExists
  <2>9. Family(v)' = Family(v)
    BY <2>1 DEF Family
  <2>10. WritesOK(v)'
    <3>1. pc[v] = "retire" \/ Retired(v) =>
            /\ devs'[req[v].dev] = devs[req[v].dev]
            /\ AddressesOf(req[v].dev)' = AddressesOf(req[v].dev)
      BY <1>4, <2>1, <2>4, <2>5 DEF AddressesOf
    <3>2. /\ Spending(v)' <=> Spending(v)
          /\ Inserted(v)' <=> Inserted(v)
          /\ Retired(v)' <=> Retired(v)
      BY <2>1 DEF Spending, Inserted, Retired
    <3> QED
      BY <2>1, <2>6, <2>7, <2>8, <2>9, <3>1, <3>2 DEF WritesOK
  <2> QED
    BY <2>3, <2>10
<1>8. (\A j \in Keys : KeyExists(j) => keys[j].by \in Users)'
  BY <1>6 DEF OpenTransactionsSound, KeyExists
<1>9. now' = now
  BY DEF CommitCreate
<1> QED
  BY <1>1, <1>7, <1>8, <1>9, ReplySound

LEMMA CommitRevokeSound ==
  ASSUME DevInv, NEW w \in Workers, CommitRevoke(w)
  PROVE  OpenTransactionsSound'
<1> DEFINE d == req[w].dev
<1> USE DEF DevInv, TypeOK, LocalsTypeOK
<1>0. RequestOK(w) /\ SubjectOK(w) /\ WritesOK(w)
  BY DEF OpenTransactionsSound
<1>1. PICK r : Reply(w, r)
  BY DEF CommitRevoke, Acknowledge
<1>2. OthersFixed(w)
  BY <1>1 DEF Reply, OthersFixed
<1>3. /\ d \in DeviceIds /\ pc[w] = "commit" /\ Retired(w)
      /\ devs[d].revoked = None /\ held[w] = AddressesOf(d)
  BY <1>0 DEF CommitRevoke, SubjectOK, WritesOK, Retired
<1>4. req[w].at # None
  <2>1. req[w].at \in Nat
    BY DEF Request
  <2> QED
    BY <2>1, RowAssumption
<1>5. /\ devs'[d].revoked = req[w].at
      /\ \A e \in DeviceIds : e # d => devs'[e] = devs[e]
      /\ \A e \in DeviceIds : devs'[e].created = devs[e].created /\ devs'[e].pk = devs[e].pk
  BY <1>3 DEF CommitRevoke, TablesTypeOK, DeviceRow
<1>6. alloc' = [a \in Address |-> IF a \in held[w] THEN None ELSE alloc[a]]
  BY DEF CommitRevoke
<1>7. keys' = keys /\ now' = now
  BY DEF CommitRevoke
<1>8. ASSUME NEW v \in Workers, v # w
      PROVE  SubjectOK(v)' /\ WritesOK(v)'
  <2>1. /\ pc'[v] = pc[v] /\ req'[v] = req[v] /\ cand'[v] = cand[v]
        /\ held'[v] = held[v] /\ RequestOK(v) /\ SubjectOK(v) /\ WritesOK(v)
        /\ Disjoint(v, w) /\ Disjoint(w, v) /\ req[v] \in Request
    BY <1>2, <1>8 DEF OthersFixed, OpenTransactionsSound
  <2>2. SubjectOK(v)'
    BY <1>5, <1>7, <2>1 DEF SubjectOK, DeviceExists, KeyExists, Creating
  <2>3. pc[v] = "retire" \/ Retired(v) => req[v].dev \in DeviceIds
    BY <2>1 DEF RequestOK, SubjectOK, Retired
  <2>4. ASSUME NEW e \in DeviceIds, e # d
        PROVE  AddressesOf(e)' = AddressesOf(e)
    BY <1>3, <1>6, <2>4, RowAssumption DEF AddressesOf
  <2>5. req[v].op \in Creating => \A a \in held[v] : alloc'[a] = None
    BY <1>6, <2>1 DEF WritesOK
  <2>6. Retired(v) => req[v].dev # d
    BY <1>3, <2>1 DEF Disjoint
  <2>7. UsedPublicKeys' = UsedPublicKeys
    BY <1>5 DEF UsedPublicKeys, DeviceExists
  <2>8. Family(v)' = Family(v)
    BY <2>1 DEF Family
  <2>9. WritesOK(v)'
    <3>1. /\ Spending(v)' <=> Spending(v)
          /\ Inserted(v)' <=> Inserted(v)
          /\ Retired(v)' <=> Retired(v)
      BY <2>1 DEF Spending, Inserted, Retired
    <3>2. ASSUME pc[v] = "retire" \/ Retired(v), devs'[req[v].dev].revoked = None
          PROVE  held[v] = AddressesOf(req[v].dev)'
      <4>1. req[v].dev \in DeviceIds /\ req[v].dev # d
        BY <1>4, <1>5, <2>3, <3>2
      <4>2. AddressesOf(req[v].dev)' = AddressesOf(req[v].dev)
        BY <2>1, <2>4, <4>1 DEF AddressesOf
      <4>3. devs[req[v].dev].revoked = None
        BY <1>5, <3>2, <4>1
      <4> QED
        BY <2>1, <3>2, <4>2, <4>3 DEF WritesOK
    <3>3. Retired(v) => devs'[req[v].dev].revoked = None
      BY <1>5, <2>1, <2>3, <2>6 DEF WritesOK
    <3>4. Spending(v) => Consumable(req[v].key, req[v].at)'
      BY <1>7, <2>1 DEF WritesOK, Consumable
    <3> QED
      BY <2>1, <2>5, <2>7, <2>8, <3>1, <3>2, <3>3, <3>4 DEF WritesOK
  <2> QED
    BY <2>2, <2>9
<1>9. (\A j \in Keys : KeyExists(j) => keys[j].by \in Users)'
  BY <1>7 DEF OpenTransactionsSound, KeyExists
<1> QED
  BY <1>1, <1>7, <1>8, <1>9, ReplySound

(* Writing a setup key's row: no open transaction relies on a key that did *)
(* not exist, and a revocation waits for the transaction spending the key. *)
LEMMA KeyWriteSound ==
  ASSUME DevInv, NEW w \in Workers, NEW k \in Keys, NEW r, Reply(w, r),
         UNCHANGED <<devs, alloc, tokens, now>>,
         \A j \in Keys : j # k => keys'[j] = keys[j],
         keys'[k].created # None, keys'[k].by \in Users,
         req[w].op \in {"createKey", "revokeKey"},
         \/ /\ ~KeyExists(k) /\ req[w].op = "createKey" /\ req[w].key = k
         \/ /\ keys'[k].by = keys[k].by /\ KeyExists(k) /\ ~KeyPending(w, k)
  PROVE  OpenTransactionsSound'
<1> USE DEF DevInv, TypeOK, LocalsTypeOK
<1>1. OthersFixed(w)
  BY DEF Reply, OthersFixed
<1>2. ASSUME NEW v \in Workers, v # w
      PROVE  SubjectOK(v)' /\ WritesOK(v)'
  <2>1. /\ pc'[v] = pc[v] /\ req'[v] = req[v] /\ cand'[v] = cand[v]
        /\ held'[v] = held[v] /\ RequestOK(v) /\ SubjectOK(v) /\ WritesOK(v)
        /\ Disjoint(v, w) /\ req[v] \in Request
    BY <1>1, <1>2 DEF OthersFixed, OpenTransactionsSound
  <2>2. SubjectOK(v)'
    <3>1. req[v].op = "createKey" => req[v].key # k
      BY <2>1 DEF SubjectOK, Disjoint
    <3>2. req[v].op = "enroll" /\ pc[v] # "lookup" =>
            /\ keys'[req[v].key].created # None
            /\ req[v].user = keys'[req[v].key].by
      BY <2>1 DEF SubjectOK, KeyExists
    <3>3. req[v].op = "createKey" => keys'[req[v].key] = keys[req[v].key]
      BY <2>1, <3>1 DEF SubjectOK
    <3> QED
      BY <2>1, <3>2, <3>3 DEF SubjectOK, DeviceExists, KeyExists, Creating
  <2>3. Spending(v) => req[v].key \in Keys /\ req[v].key # k
    BY <1>2, <2>1 DEF SubjectOK, Spending, KeyPending
  <2>4. Spending(v) => Consumable(req[v].key, req[v].at)'
    BY <2>1, <2>3 DEF WritesOK, Consumable
  <2>5. /\ Spending(v)' <=> Spending(v)
        /\ Inserted(v)' <=> Inserted(v)
        /\ Retired(v)' <=> Retired(v)
    BY <2>1 DEF Spending, Inserted, Retired
  <2>6. Family(v)' = Family(v) /\ UsedPublicKeys' = UsedPublicKeys
    BY <2>1 DEF Family, UsedPublicKeys, DeviceExists
  <2>7. AddressesOf(req[v].dev)' = AddressesOf(req[v].dev)
    BY <2>1 DEF AddressesOf
  <2>8. WritesOK(v)'
    BY <2>1, <2>4, <2>5, <2>6, <2>7 DEF WritesOK
  <2> QED
    BY <2>2, <2>8
<1>3. (\A j \in Keys : KeyExists(j) => keys[j].by \in Users)'
  BY DEF OpenTransactionsSound, KeyExists
<1> QED
  BY <1>2, <1>3, ReplySound

LEMMA SetupKeySound ==
  ASSUME DevInv, NEW w \in Workers, IssueSetupKey(w) \/ CancelSetupKey(w)
  PROVE  OpenTransactionsSound'
<1> DEFINE k == req[w].key
<1>0. RequestOK(w) /\ SubjectOK(w) /\ keys \in [Keys -> KeyRow]
  BY DEF DevInv, OpenTransactionsSound, TypeOK, TablesTypeOK
<1>1. CASE IssueSetupKey(w)
  <2>1. req[w].op = "createKey" /\ k \in Keys /\ ~KeyExists(k) /\ req[w].user \in Users
    BY <1>0, <1>1 DEF IssueSetupKey, RequestOK, SubjectOK
  <2>2. PICK m \in UseLimits, life \in OrNull(Lifetimes) :
          keys' = [keys EXCEPT ![k] = IssuedKey(req[w].user, m, life, req[w].at)]
    BY <1>1 DEF IssueSetupKey
  <2>3. req[w].at # None
    <3>1. req[w].at \in Nat
      BY DEF DevInv, TypeOK, LocalsTypeOK, Request
    <3> QED
      BY <3>1, RowAssumption
  <2>4. /\ \A j \in Keys : j # k => keys'[j] = keys[j]
        /\ keys'[k].created # None /\ keys'[k].by \in Users
    BY <1>0, <2>1, <2>2, <2>3 DEF IssuedKey
  <2>5. PICK r : Reply(w, r)
    BY <1>1 DEF IssueSetupKey, Acknowledge
  <2>6. UNCHANGED <<devs, alloc, tokens, now>>
    BY <1>1 DEF IssueSetupKey
  <2> HIDE DEF k
  <2> QED
    BY <2>1, <2>4, <2>5, <2>6, KeyWriteSound DEF k
<1>2. CASE CancelSetupKey(w)
  <2>1. req[w].op = "revokeKey" /\ k \in Keys
    BY <1>0, <1>2 DEF CancelSetupKey, RequestOK, SubjectOK
  <2>2. CASE keys' = keys
    <3>1. \E r : Reply(w, r)
      BY <1>2 DEF CancelSetupKey, Acknowledge
    <3>2. UNCHANGED regVars
      BY <1>2, <2>2 DEF CancelSetupKey, regVars
    <3> QED
      BY <3>1, <3>2, RefuseSound
  <2>3. CASE KeyExists(k) /\ keys' = [keys EXCEPT ![k].revoked = req[w].at]
    <3>1. \A j \in Keys : j # k => keys'[j] = keys[j]
      BY <1>0, <2>3
    <3>2. /\ keys'[k].created = keys[k].created /\ keys'[k].by = keys[k].by
      BY <1>0, <2>1, <2>3 DEF KeyRow
    <3>3. keys'[k].created # None /\ keys'[k].by \in Users
      BY <2>1, <2>3, <3>2 DEF DevInv, OpenTransactionsSound, KeyExists
    <3>4. PICK r : Reply(w, r)
      BY <1>2 DEF CancelSetupKey, Acknowledge
    <3>5. UNCHANGED <<devs, alloc, tokens, now>> /\ ~KeyPending(w, k)
      BY <1>2 DEF CancelSetupKey
    <3>6. KeyExists(k)
      BY <2>3
    <3> HIDE DEF k
    <3> QED
      BY <2>1, <3>1, <3>2, <3>3, <3>4, <3>5, <3>6, KeyWriteSound
  <2> QED
    BY <1>2, <2>2, <2>3 DEF CancelSetupKey
<1> QED
  BY <1>1, <1>2

LEMMA HeartbeatSound ==
  ASSUME DevInv, NEW w \in Workers, Heartbeat(w)
  PROVE  OpenTransactionsSound'
<1> DEFINE d == req[w].dev
<1> USE DEF DevInv, TypeOK, LocalsTypeOK
<1>1. PICK r : Reply(w, r)
  BY DEF Heartbeat, Acknowledge
<1>2. OthersFixed(w)
  BY <1>1 DEF Reply, OthersFixed
<1>3. keys' = keys /\ alloc' = alloc /\ now' = now
  BY DEF Heartbeat
<1>4. \A e \in DeviceIds :
        /\ devs'[e].created = devs[e].created /\ devs'[e].pk = devs[e].pk
        /\ devs'[e].revoked = devs[e].revoked
  BY DEF Heartbeat, TablesTypeOK, DeviceRow
<1>5. ASSUME NEW v \in Workers, v # w
      PROVE  SubjectOK(v)' /\ WritesOK(v)'
  <2>1. /\ pc'[v] = pc[v] /\ req'[v] = req[v] /\ cand'[v] = cand[v]
        /\ held'[v] = held[v] /\ RequestOK(v) /\ SubjectOK(v) /\ WritesOK(v)
    BY <1>2, <1>5 DEF OthersFixed, OpenTransactionsSound
  <2>2. SubjectOK(v)'
    BY <1>3, <1>4, <2>1 DEF SubjectOK, DeviceExists, KeyExists, Creating
  <2>3. pc[v] = "retire" \/ Retired(v) => req[v].dev \in DeviceIds
    BY <2>1 DEF RequestOK, SubjectOK, Retired
  <2>4. /\ Spending(v)' <=> Spending(v)
        /\ Inserted(v)' <=> Inserted(v)
        /\ Retired(v)' <=> Retired(v)
    BY <2>1 DEF Spending, Inserted, Retired
  <2>5. Family(v)' = Family(v)
    BY <2>1 DEF Family
  <2>6. UsedPublicKeys' = UsedPublicKeys
    BY <1>4 DEF UsedPublicKeys, DeviceExists
  <2>7. AddressesOf(req[v].dev)' = AddressesOf(req[v].dev)
    BY <1>3, <2>1 DEF AddressesOf
  <2>8. Spending(v) => Consumable(req[v].key, req[v].at)'
    BY <1>3, <2>1 DEF WritesOK, Consumable
  <2>9. WritesOK(v)'
    BY <1>3, <1>4, <2>1, <2>3, <2>4, <2>5, <2>6, <2>7, <2>8 DEF WritesOK
  <2> QED
    BY <2>2, <2>9
<1>6. (\A j \in Keys : KeyExists(j) => keys[j].by \in Users)'
  BY <1>3 DEF OpenTransactionsSound, KeyExists
<1> QED
  BY <1>1, <1>3, <1>5, <1>6, ReplySound

-----------------------------------------------------------------------------
(* The inductive step and what follows from it.                            *)

LEMMA DevInvStep == DevInv /\ [Next]_vars => DevInv'
<1> SUFFICES ASSUME DevInv, [Next]_vars
             PROVE  DevInv'
  OBVIOUS
<1>1. TablesTypeOK'
  BY RefinesStep, RegTypeStep DEF DevInv, TypeOK
<1>2. CASE UNCHANGED <<tables, locals>> /\ now' \in Nat /\ now <= now'
  <2>1. LocalsTypeOK'
    BY <1>2 DEF locals, DevInv, TypeOK, LocalsTypeOK
  <2>2. ASSUME NEW v \in Workers
        PROVE  LocalOK(v)'
    <3>1. LocalOK(v) /\ req[v] \in Request /\ now \in Nat
      BY DEF DevInv, OpenTransactionsSound, LocalOK, TypeOK, LocalsTypeOK, TablesTypeOK
    <3> QED
      BY <1>2, <3>1, UntouchedLocal DEF locals
  <2>3. ASSUME NEW u \in Workers, NEW v \in Workers, u # v
        PROVE  Disjoint(u, v)'
    <3>1. Disjoint(u, v)
      BY <2>3 DEF DevInv, OpenTransactionsSound
    <3> QED
      BY <1>2, <3>1 DEF locals, Disjoint, Spending, Inserted, Retired
  <2>4. (\A k \in Keys : KeyExists(k) => keys[k].by \in Users)'
    BY <1>2 DEF DevInv, OpenTransactionsSound, tables, KeyExists
  <2>5. OpenTransactionsSound'
    BY <2>2, <2>3, <2>4 DEF OpenTransactionsSound, LocalOK
  <2> QED
    BY <1>1, <2>1, <2>5 DEF DevInv, TypeOK
<1>3. CASE UNCHANGED vars \/ Tick
  BY <1>2, <1>3 DEF vars, tables, locals, Tick, DevInv, TypeOK, TablesTypeOK
<1>4. ASSUME NEW w \in Workers, Start(w)
      PROVE  DevInv'
  BY <1>1, <1>4, StartType, StartSound DEF DevInv, TypeOK
<1>5. ASSUME NEW w \in Workers, Step(w) \/ Fail(w)
      PROVE  DevInv'
  <2>1. LocalsTypeOK'
    BY <1>5, StepType DEF DevInv, TypeOK
  <2>2. OpenTransactionsSound'
    BY <1>5, LookupKeySound, BeforeSound, ConsumeSound, PickSound, ClaimSound,
       InsertSound, CommitCreateSound, ReleaseSound, RetireSound, CommitRevokeSound,
       SetupKeySound, HeartbeatSound, RefuseSound DEF Step, Fail
  <2> QED
    BY <1>1, <2>1, <2>2 DEF DevInv, TypeOK
<1> QED
  BY <1>3, <1>4, <1>5 DEF Next

(* Typing and the soundness of open transactions are invariants of the     *)
(* statement-level registry, however many requests run at once.            *)
THEOREM DevInvariance == Spec => [](TypeOK /\ OpenTransactionsSound)
<1>1. Init => DevInv
  <2> SUFFICES ASSUME Init PROVE DevInv
    OBVIOUS
  <2>1. TablesTypeOK
    BY DEF Init, RegInit, TablesTypeOK, NoKey, NoDevice, KeyRow, DeviceRow, OrNull
  <2>2. LocalsTypeOK
    <3>1. 0 \in 0..(MaxAttempts - 1)
      BY WorkerAssumption
    <3>2. NoRequest \in Request
      BY DEF NoRequest, Request, OrNull
    <3> QED
      BY <3>1, <3>2 DEF Init, LocalsTypeOK, PcStates, OrNull, Responses
  <2>3. OpenTransactionsSound
    <3>1. ASSUME NEW w \in Workers
          PROVE  RequestOK(w) /\ SubjectOK(w) /\ WritesOK(w)
      BY DEF Init, RegInit, NoRequest, RequestOK, SubjectOK, WritesOK, Creating,
             Inserted, Retired, Spending
    <3>2. ASSUME NEW v \in Workers, NEW w \in Workers
          PROVE  Disjoint(v, w)
      BY DEF Init, NoRequest, Disjoint, Creating, Inserted, Retired, Spending
    <3>3. \A k \in Keys : ~KeyExists(k)
      BY DEF Init, RegInit, NoKey, KeyExists
    <3> QED
      BY <3>1, <3>2, <3>3 DEF OpenTransactionsSound
  <2> QED
    BY <2>1, <2>2, <2>3 DEF DevInv, TypeOK
<1> QED
  BY <1>1, DevInvStep, PTL DEF Spec, DevInv

(* The registry as the code runs it, statement by statement with any number *)
(* of requests at once, implements the registry in which every operation   *)
(* is one indivisible step.                                                *)
THEOREM DevicesRefineRegistry == Spec => RegSpec
<1>1. Init => RegInit
  BY DEF Init
<1>2. DevInv /\ [Next]_vars => [RegNext]_regVars
  BY RefinesStep
<1> QED
  BY <1>1, <1>2, DevInvariance, PTL DEF Spec, RegSpec, DevInv

(* So the tables are consistent at all times.                              *)
THEOREM DevicesConsistent ==
  Spec => [](/\ AddressIntegrity /\ UsesAreDevices /\ PublicKeyUnique
             /\ CredentialIffEnrolled /\ EnrolledInTime)
<1>1. RegInv => /\ AddressIntegrity /\ UsesAreDevices /\ PublicKeyUnique
                /\ CredentialIffEnrolled /\ EnrolledInTime
  BY DEF RegInv
<1> QED
  BY <1>1, DevicesRefineRegistry, RegInvariance, PTL

(* And revocation is final.                                                *)
THEOREM DevicesRevocationIsFinal ==
  Spec => RevokedKeyIsDead /\ RevokedDeviceIsFrozen /\ NoAddressHandover
  BY DevicesRefineRegistry, RegRevocationIsFinal, PTL

-----------------------------------------------------------------------------
(* Other users' devices.                                                   *)

\* A revocation that is past the lookup is of a device in its user's scope.
ScopeInv ==
  \A w \in Workers : req[w].op = "revoke" /\ pc[w] # "find" =>
    req[w].dev \in DeviceIds /\ InScope(req[w].dev, req[w].user)

\* A device has one owner for as long as its row exists, which is for ever.
LEMMA OwnersStay ==
  ASSUME TablesTypeOK, [RegNext]_regVars, NEW d \in DeviceIds, DeviceExists(d)
  PROVE  DeviceExists(d)' /\ devs'[d].user = devs[d].user
<1> USE DEF TablesTypeOK, DeviceExists
<1>1. CASE devs' = devs
  BY <1>1
<1>2. ASSUME NEW t \in 0..now, NEW k \in OrNull(Keys), NEW e \in DeviceIds, RegCreate(k, e, t)
      PROVE  DeviceExists(d)' /\ devs'[d].user = devs[d].user
  <2>1. e # d /\ devs'[d] = devs[d]
    BY <1>2 DEF RegCreate, RegCreateRow
  <2> QED BY <2>1
<1>3. ASSUME NEW t \in 0..now, NEW e \in DeviceIds, RegRevoke(e, t) \/ RegHeartbeat(e, t)
      PROVE  DeviceExists(d)' /\ devs'[d].user = devs[d].user
  <2>1. e # d => devs'[d] = devs[d]
    BY <1>3 DEF RegRevoke, RegHeartbeat
  <2>2. devs[e] \in DeviceRow
    OBVIOUS
  <2>3. devs'[e].created = devs[e].created /\ devs'[e].user = devs[e].user
    <3>1. CASE RegRevoke(e, t)
      <4>1. devs'[e] = [devs[e] EXCEPT !.revoked = t, !.ip = {}]
        BY <3>1 DEF RegRevoke
      <4> QED BY <2>2, <4>1 DEF DeviceRow
    <3>2. CASE RegHeartbeat(e, t)
      <4>1. devs'[e] = [devs[e] EXCEPT !.seen = t]
        BY <3>2 DEF RegHeartbeat
      <4> QED BY <2>2, <4>1 DEF DeviceRow
    <3> QED BY <1>3, <3>1, <3>2
  <2> QED BY <2>1, <2>3
<1> QED
  BY <1>1, <1>2, <1>3
     DEF RegNext, RegTick, RegCreateSetupKey, RegRevokeSetupKey, regVars, tables

\* What a step of a worker leaves alone, and how it gets past the lookup.
LEMMA ScopeSteps ==
  ASSUME DevInv, NEW w \in Workers, Start(w) \/ Step(w) \/ Fail(w)
  PROVE  /\ \A v \in Workers : v # w =>
              pc'[v] = pc[v] /\ req'[v] = req[v] /\ resp'[v] = resp[v]
         /\ req'[w].op = "revoke" /\ pc'[w] # "find" =>
              /\ req'[w] = req[w]
              /\ pc[w] = "find" => InScope(req[w].dev, req[w].user)
         /\ pc[w] = "find" /\ ~InScope(req[w].dev, req[w].user) =>
              UNCHANGED tables /\ resp'[w] \in {"notFound", "internal"}
<1> DEFINE Goal ==
      /\ \A v \in Workers : v # w =>
           pc'[v] = pc[v] /\ req'[v] = req[v] /\ resp'[v] = resp[v]
      /\ req'[w].op = "revoke" /\ pc'[w] # "find" =>
           /\ req'[w] = req[w]
           /\ pc[w] = "find" => InScope(req[w].dev, req[w].user)
      /\ pc[w] = "find" /\ ~InScope(req[w].dev, req[w].user) =>
           UNCHANGED tables /\ resp'[w] \in {"notFound", "internal"}
<1>0. LocalsTypeOK /\ RequestOK(w)
  BY DEF DevInv, TypeOK, OpenTransactionsSound
<1>1. ASSUME NEW r, Reply(w, r),
             pc[w] = "find" /\ ~InScope(req[w].dev, req[w].user) =>
               UNCHANGED tables /\ r \in {"notFound", "internal"}
      PROVE  Goal
  BY <1>0, <1>1 DEF Reply, NoRequest, LocalsTypeOK
<1>2. ASSUME NEW from, NEW to, Goto(w, from, to), UNCHANGED <<req, resp>>, from # "find"
      PROVE  Goal
  BY <1>0, <1>2 DEF Goto, LocalsTypeOK
<1>3. CASE Start(w)
  <2>1. ASSUME NEW first, NEW r, Accept(w, first, r), r.op = "revoke" => first = "find"
        PROVE  Goal
    BY <1>0, <2>1 DEF Accept, Goto, LocalsTypeOK
  <2>2. CASE RefuseMalformed(w)
    BY <1>1, <2>2 DEF RefuseMalformed
  <2>3. CASE StartRegister(w)
    BY <2>1, <2>3 DEF StartRegister
  <2>4. CASE StartEnroll(w)
    BY <2>1, <2>4 DEF StartEnroll
  <2>5. CASE StartRevoke(w)
    BY <2>1, <2>5 DEF StartRevoke
  <2>6. CASE StartHeartbeat(w)
    BY <2>1, <2>6 DEF StartHeartbeat
  <2>7. CASE StartCreateSetupKey(w)
    BY <2>1, <2>7 DEF StartCreateSetupKey
  <2>8. CASE StartRevokeSetupKey(w)
    BY <2>1, <2>8 DEF StartRevokeSetupKey
  <2> HIDE DEF Goal
  <2> QED
    BY <1>3, <2>2, <2>3, <2>4, <2>5, <2>6, <2>7, <2>8 DEF Start
<1>4. CASE Fail(w)
  BY <1>1, <1>4 DEF Fail, regVars, tables
<1>5. CASE LookupKey(w)
  <2>1. CASE \E r : Reply(w, r)
    BY <1>1, <1>5, <2>1 DEF LookupKey
  <2>2. CASE /\ Goto(w, "lookup", "begin")
             /\ req' = [req EXCEPT ![w].user = keys[req[w].key].by] /\ UNCHANGED resp
    BY <1>0, <2>2 DEF Goto, LocalsTypeOK, RequestOK
  <2> HIDE DEF Goal
  <2> QED BY <1>5, <2>1, <2>2 DEF LookupKey
<1>6. CASE FindDevice(w)
  <2>1. CASE Reply(w, "notFound")
    BY <1>1, <1>6, <2>1 DEF FindDevice, regVars, tables
  <2>2. CASE InScope(req[w].dev, req[w].user) /\ Reply(w, "deviceRevoked")
    BY <1>1, <2>2
  <2>3. CASE /\ InScope(req[w].dev, req[w].user) /\ Goto(w, "find", "begin")
             /\ UNCHANGED <<req, resp>>
    BY <1>0, <2>3 DEF Goto, LocalsTypeOK
  <2> HIDE DEF Goal
  <2> QED BY <1>6, <2>1, <2>2, <2>3 DEF FindDevice
<1>7. CASE Authenticate(w)
  <2>1. CASE Reply(w, "tokenInvalid")
    BY <1>1, <1>7, <2>1 DEF Authenticate
  <2>2. CASE /\ Goto(w, "auth", "begin")
             /\ req' = [req EXCEPT ![w].at = now] /\ UNCHANGED resp
    BY <1>0, <2>2 DEF Goto, LocalsTypeOK, RequestOK
  <2> HIDE DEF Goal
  <2> QED BY <1>7, <2>1, <2>2 DEF Authenticate
<1>8. CASE Begin(w) \/ ReleaseAddresses(w)
  <2>1. \E from, to : from # "find" /\ Goto(w, from, to) /\ UNCHANGED <<req, resp>>
    BY <1>8 DEF Begin, ReleaseAddresses
  <2> QED BY <1>2, <2>1
<1>9. CASE ConsumeSetupKey(w) \/ PickCandidate(w) \/ ClaimAddress(w) \/ InsertDevice(w) \/ RetireDevice(w)
  <2>1. pc[w] # "find"
    BY <1>9 DEF ConsumeSetupKey, PickCandidate, ClaimAddress, InsertDevice, RetireDevice
  <2>2. (\E r : Reply(w, r)) \/ (\E from, to : from # "find" /\ Goto(w, from, to) /\ UNCHANGED <<req, resp>>)
    BY <1>9 DEF ConsumeSetupKey, PickCandidate, ClaimAddress, InsertDevice, RetireDevice
  <2> QED BY <1>1, <1>2, <2>1, <2>2
<1>10. CASE \/ CommitCreate(w) \/ CommitRevoke(w) \/ IssueSetupKey(w) \/ CancelSetupKey(w)
            \/ Heartbeat(w)
  <2>1. pc[w] # "find" /\ \E r : Reply(w, r)
    BY <1>10 DEF CommitCreate, CommitRevoke, IssueSetupKey, CancelSetupKey, Heartbeat, Acknowledge
  <2> QED BY <1>1, <2>1
<1>11. CASE Step(w)
  BY <1>5, <1>6, <1>7, <1>8, <1>9, <1>10, <1>11 DEF Step
<1> QED BY <1>3, <1>4, <1>11

LEMMA ScopeStep == DevInv /\ ScopeInv /\ [Next]_vars => ScopeInv'
<1> SUFFICES ASSUME DevInv, ScopeInv, [Next]_vars, NEW v \in Workers,
                    req'[v].op = "revoke", pc'[v] # "find"
             PROVE  req'[v].dev \in DeviceIds /\ InScope(req[v].dev, req[v].user)'
  BY DEF ScopeInv
<1>1. /\ req'[v] = req[v]
      /\ pc[v] = "find" => InScope(req[v].dev, req[v].user)
  <2>1. CASE UNCHANGED vars \/ Tick
    BY <2>1 DEF vars, Tick, locals
  <2>2. ASSUME NEW w \in Workers, Start(w) \/ Step(w) \/ Fail(w)
        PROVE  /\ req'[v] = req[v]
               /\ pc[v] = "find" => InScope(req[v].dev, req[v].user)
    BY <2>2, ScopeSteps
  <2> QED BY <2>1, <2>2 DEF Next
<1>2. req[v].dev \in DeviceIds
  BY <1>1 DEF DevInv, OpenTransactionsSound, SubjectOK
<1>3. DeviceExists(req[v].dev) /\ (req[v].user \in Admins \/ devs[req[v].dev].user = req[v].user)
  BY <1>1 DEF ScopeInv, InScope
<1>4. DeviceExists(req[v].dev)' /\ devs'[req[v].dev].user = devs[req[v].dev].user
  <2>1. DeviceExists(req[v].dev) => devs'[req[v].dev].created # None /\ devs'[req[v].dev].user = devs[req[v].dev].user
    BY <1>2, RefinesStep, OwnersStay DEF DevInv, TypeOK, DeviceExists
  <2> QED BY <1>1, <1>3, <2>1 DEF DeviceExists
<1> QED BY <1>1, <1>2, <1>3, <1>4 DEF InScope, DeviceExists

(* For any number of users and overlapping requests, revoking another      *)
(* user's device changes nothing and is answered as if the device did not  *)
(* exist.                                                                  *)
THEOREM DevicesStayInScope == Spec => ForeignDeviceLooksMissing
<1>1. Init => ScopeInv
  BY DEF Init, ScopeInv, NoRequest
<1>2. ASSUME DevInv, ScopeInv, [Next]_vars
      PROVE  [\A w \in Workers :
                /\ req[w].op = "revoke" /\ req[w].user \notin Admins
                /\ DeviceExists(req[w].dev) /\ devs[req[w].dev].user # req[w].user
                /\ resp'[w] # resp[w]
                => resp'[w] \in {"notFound", "internal"} /\ UNCHANGED tables]_vars
  <2> SUFFICES ASSUME Next, NEW v \in Workers, req[v].op = "revoke", req[v].user \notin Admins,
                      devs[req[v].dev].user # req[v].user, resp'[v] # resp[v]
               PROVE  resp'[v] \in {"notFound", "internal"} /\ UNCHANGED tables
    BY <1>2
  <2>1. ~InScope(req[v].dev, req[v].user)
    BY DEF InScope
  <2>2. pc[v] = "find"
    BY <1>2, <2>1 DEF ScopeInv
  <2>3. ~Tick
    BY DEF Tick, locals
  <2>4. PICK w \in Workers : Start(w) \/ Step(w) \/ Fail(w)
    BY <2>3 DEF Next
  <2>5. w = v
    BY <1>2, <2>4, ScopeSteps
  <2> QED BY <1>2, <2>1, <2>2, <2>4, <2>5, ScopeSteps
<1> QED
  BY <1>1, <1>2, ScopeStep, DevInvariance, PTL DEF Spec, DevInv, ForeignDeviceLooksMissing
=============================================================================
