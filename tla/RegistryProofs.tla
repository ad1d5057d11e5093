--------------------------- MODULE RegistryProofs ---------------------------
(***************************************************************************)
(* What the atomic registry guarantees, for every choice of the constants. *)
(***************************************************************************)
EXTENDS Registry, FiniteSetTheorems, TLAPS

(* An assignment of addresses, as create makes it, lies within the pools.  *)
LEMMA AssignmentsAreAddresses == \A A \in Assignments : A \subseteq Address
  BY PoolAssumption DEF Assignments, Usable, Address

(* Every step of the atomic registry keeps the tables well typed.          *)
LEMMA RegTypeStep == TablesTypeOK /\ [RegNext]_regVars => TablesTypeOK'
<1> SUFFICES ASSUME TablesTypeOK, [RegNext]_regVars
             PROVE  TablesTypeOK'
  OBVIOUS
<1> USE DEF TablesTypeOK
<1>1. CASE RegTick
  BY <1>1 DEF RegTick, tables
<1>2. ASSUME NEW t \in 0..now, NEW k \in Keys, RegCreateSetupKey(k, t)
      PROVE  TablesTypeOK'
  <2>1. PICK u \in Users, m \in UseLimits, life \in OrNull(Lifetimes) :
          keys' = [keys EXCEPT ![k] = IssuedKey(u, m, life, t)]
    BY <1>2 DEF RegCreateSetupKey
  <2>2. IssuedKey(u, m, life, t) \in KeyRow
    BY RowAssumption DEF IssuedKey, KeyRow, OrNull
  <2> QED
    BY <1>2, <2>1, <2>2 DEF RegCreateSetupKey
<1>3. ASSUME NEW t \in 0..now, NEW k \in Keys, RegRevokeSetupKey(k, t)
      PROVE  TablesTypeOK'
  BY <1>3 DEF RegRevokeSetupKey, KeyRow, OrNull
<1>4. ASSUME NEW t \in 0..now, NEW k \in OrNull(Keys), NEW d \in DeviceIds,
             RegCreate(k, d, t)
      PROVE  TablesTypeOK'
  <2>1. PICK pk \in PublicKeys \ UsedPublicKeys, A \in Assignments, u \in Users :
          RegCreateRow(k, d, t, pk, A, u)
    BY <1>4 DEF RegCreate
  <2>2. devs' \in [DeviceIds -> DeviceRow]
    BY <2>1, AssignmentsAreAddresses DEF RegCreateRow, DeviceRow, OrNull
  <2>3. alloc' \in [Address -> OrNull(DeviceIds)]
    BY <2>1 DEF RegCreateRow, OrNull
  <2>4. keys' \in [Keys -> KeyRow]
    BY <2>1 DEF RegCreateRow, KeyRow, OrNull
  <2>5. tokens' \subseteq DeviceIds /\ now' \in Nat
    BY <2>1 DEF RegCreateRow
  <2> QED
    BY <2>2, <2>3, <2>4, <2>5
<1>5. ASSUME NEW t \in 0..now, NEW d \in DeviceIds, RegRevoke(d, t)
      PROVE  TablesTypeOK'
  <2>1. devs' \in [DeviceIds -> DeviceRow]
    <3>1. devs' = [devs EXCEPT ![d] = [@ EXCEPT !.revoked = t, !.ip = {}]]
      BY <1>5 DEF RegRevoke
    <3>2. [devs[d] EXCEPT !.revoked = t] \in DeviceRow
      BY DEF DeviceRow, OrNull
    <3>3. ASSUME NEW r \in DeviceRow
          PROVE  [r EXCEPT !.ip = {}] \in DeviceRow
      BY DEF DeviceRow
    <3> QED
      BY <3>1, <3>2, <3>3
  <2>2. alloc' \in [Address -> OrNull(DeviceIds)]
    BY <1>5 DEF RegRevoke, OrNull
  <2> QED
    BY <1>5, <2>1, <2>2 DEF RegRevoke
<1>6. ASSUME NEW t \in 0..now, NEW d \in DeviceIds, RegHeartbeat(d, t)
      PROVE  TablesTypeOK'
  <2>1. [devs[d] EXCEPT !.seen = t] \in DeviceRow
    BY DEF DeviceRow, OrNull
  <2> QED
    BY <1>6, <2>1 DEF RegHeartbeat
<1>7. CASE UNCHANGED regVars
  BY <1>7 DEF regVars
<1> QED
  BY <1>1, <1>2, <1>3, <1>4, <1>5, <1>6, <1>7 DEF RegNext

(* The tables are well typed at all times.                                 *)
THEOREM RegTypeCorrect == RegSpec => []TablesTypeOK
<1>1. RegInit => TablesTypeOK
  BY DEF RegInit, TablesTypeOK, NoKey, NoDevice, KeyRow, DeviceRow, OrNull
<1> QED
  BY <1>1, RegTypeStep, PTL DEF RegSpec

-----------------------------------------------------------------------------
(* Creating a device: the invariant, part by part.                         *)

LEMMA CreateKeepsAddresses ==
  ASSUME RegInv, TablesTypeOK',
         NEW t \in 0..now, NEW k \in OrNull(Keys), NEW d \in DeviceIds,
         NEW pk \in PublicKeys \ UsedPublicKeys, NEW A \in Assignments,
         NEW u \in Users, RegCreateRow(k, d, t, pk, A, u)
  PROVE  AddressIntegrity'
<1> USE DEF RegInv, TablesTypeOK
<1>1. A \subseteq Address
  BY AssignmentsAreAddresses
<1>2. /\ devs'[d].ip = A /\ devs'[d].created = t /\ devs'[d].revoked = None
      /\ \A e \in DeviceIds : e # d => devs'[e] = devs[e]
  BY DEF RegCreateRow
<1>3. t # None
  BY RowAssumption
<1>4. \A a \in Address : a \in A => alloc[a] = None /\ alloc'[a] = d
  BY <1>1 DEF RegCreateRow
<1>5. \A a \in Address : a \notin A => alloc'[a] = alloc[a]
  BY DEF RegCreateRow
<1>6. AddressesOf(d) = {}
  BY DEF AddressIntegrity, RegCreateRow, BlankRows, NoDevice, Active
<1>7. AddressesOf(d)' = A
  BY <1>1, <1>4, <1>5, <1>6 DEF AddressesOf
<1>8. ASSUME NEW e \in DeviceIds, e # d
      PROVE  AddressesOf(e)' = AddressesOf(e)
  BY <1>4, <1>5, <1>8, RowAssumption DEF AddressesOf
<1>9. Active(d)'
  BY <1>2, <1>3 DEF Active, DeviceExists
<1>10. ASSUME NEW e \in DeviceIds, e # d
       PROVE  Active(e)' <=> Active(e)
  BY <1>2, <1>10 DEF Active, DeviceExists
<1> QED
  BY <1>2, <1>7, <1>8, <1>9, <1>10 DEF AddressIntegrity

LEMMA CreateKeepsCount ==
  ASSUME RegInv, TablesTypeOK',
         NEW t \in 0..now, NEW k \in OrNull(Keys), NEW d \in DeviceIds,
         NEW pk \in PublicKeys \ UsedPublicKeys, NEW A \in Assignments,
         NEW u \in Users, RegCreateRow(k, d, t, pk, A, u)
  PROVE  UsesAreDevices'
<1> USE DEF RegInv, TablesTypeOK
<1>1. /\ devs'[d].key = k
      /\ \A e \in DeviceIds : e # d => devs'[e] = devs[e]
  BY DEF RegCreateRow
<1>2. devs[d].key = None
  BY DEF RegCreateRow, BlankRows, NoDevice
<1>3. ASSUME NEW j \in Keys, j # k
      PROVE  /\ EnrolledWith(j)' = EnrolledWith(j)
             /\ keys'[j] = keys[j]
  <2>1. EnrolledWith(j)' = EnrolledWith(j)
    BY <1>1, <1>2, <1>3, RowAssumption DEF EnrolledWith
  <2>2. keys'[j] = keys[j]
    BY <1>3 DEF RegCreateRow
  <2> QED
    BY <2>1, <2>2
<1>4. ASSUME k \in Keys
      PROVE  /\ Cardinality(EnrolledWith(k)') = keys'[k].uses
             /\ keys'[k].maxUses > 0 => keys'[k].uses <= keys'[k].maxUses
  <2>1. EnrolledWith(k)' = EnrolledWith(k) \cup {d}
    BY <1>1 DEF EnrolledWith
  <2>2. d \notin EnrolledWith(k)
    BY <1>2, <1>4, RowAssumption DEF EnrolledWith
  <2>3. IsFiniteSet(EnrolledWith(k))
    BY RowAssumption, FS_Subset DEF EnrolledWith
  <2>4. Cardinality(EnrolledWith(k) \cup {d}) = Cardinality(EnrolledWith(k)) + 1
    BY <2>2, <2>3, FS_AddElement
  <2>5. keys' = [keys EXCEPT ![k].uses = @ + 1] /\ Redeemable(k, t)
    BY <1>4, RowAssumption DEF RegCreateRow
  <2>6. keys[k].uses \in Nat /\ keys[k].maxUses \in Nat
    BY <1>4 DEF KeyRow
  <2>7. keys'[k].uses = keys[k].uses + 1 /\ keys'[k].maxUses = keys[k].maxUses
    BY <1>4, <2>5 DEF KeyRow
  <2>8. Cardinality(EnrolledWith(k)) = keys[k].uses
    BY <1>4 DEF UsesAreDevices
  <2>9. keys[k].maxUses > 0 => keys[k].uses < keys[k].maxUses
    BY <2>5, <2>6 DEF Redeemable, Exhausted
  <2> QED
    BY <2>1, <2>4, <2>6, <2>7, <2>8, <2>9
<1> QED
  BY <1>3, <1>4 DEF UsesAreDevices

LEMMA CreateKeepsRest ==
  ASSUME RegInv, TablesTypeOK',
         NEW t \in 0..now, NEW k \in OrNull(Keys), NEW d \in DeviceIds,
         NEW pk \in PublicKeys \ UsedPublicKeys, NEW A \in Assignments,
         NEW u \in Users, RegCreateRow(k, d, t, pk, A, u)
  PROVE  BlankRows' /\ PublicKeyUnique' /\ CredentialIffEnrolled' /\ EnrolledInTime'
<1> USE DEF RegInv, TablesTypeOK
<1>1. /\ devs'[d] = [created |-> t, user |-> u, pk |-> pk, key |-> k,
                     ip |-> A, seen |-> None, revoked |-> None]
      /\ \A e \in DeviceIds : e # d => devs'[e] = devs[e]
  BY DEF RegCreateRow
<1>2. t # None /\ devs[d] = NoDevice /\ ~DeviceExists(d)
  BY RowAssumption DEF RegCreateRow, BlankRows
<1>3. \A j \in Keys :
        /\ keys'[j].created = keys[j].created
        /\ keys'[j].by = keys[j].by
        /\ keys'[j].expires = keys[j].expires
        /\ j # k => keys'[j] = keys[j]
  BY DEF RegCreateRow, KeyRow
<1>4. k \in Keys => KeyExists(k) /\ ~Expired(k, t) /\ u = keys[k].by
  BY RowAssumption DEF RegCreateRow, Redeemable
<1>5. \A e \in DeviceIds : devs[e].key \in OrNull(Keys) /\ devs'[e].key \in OrNull(Keys)
  BY DEF DeviceRow
<1>6. BlankRows'
  <2>1. ASSUME NEW j \in Keys, keys'[j].created = None
        PROVE  keys'[j] = NoKey
    <3>1. ~KeyExists(j)
      BY <1>3, <2>1 DEF KeyExists
    <3>2. keys[j] = NoKey /\ j # k
      BY <1>4, <3>1 DEF BlankRows
    <3> QED
      BY <1>3, <3>2
  <2>2. \A e \in DeviceIds : devs'[e].created = None => devs'[e] = NoDevice
    BY <1>1, <1>2 DEF BlankRows, DeviceExists
  <2>3. ASSUME NEW e \in DeviceIds, devs'[e].key # None
        PROVE  keys'[devs'[e].key].created # None
    <3>1. CASE e = d
      BY <1>1, <1>3, <1>4, <2>3, <3>1 DEF OrNull, KeyExists
    <3>2. CASE e # d
      <4>1. devs'[e].key = devs[e].key /\ devs[e].key \in Keys
        BY <1>1, <1>5, <2>3, <3>2 DEF OrNull
      <4>2. KeyExists(devs[e].key)
        BY <2>3, <4>1 DEF BlankRows
      <4> QED
        BY <1>3, <4>1, <4>2 DEF KeyExists
    <3> QED
      BY <3>1, <3>2
  <2> QED
    BY <2>1, <2>2, <2>3 DEF BlankRows, DeviceExists, KeyExists
<1>7. PublicKeyUnique'
  <2>1. \A e \in DeviceIds : devs[e].created # None => devs[e].pk # pk
    BY DEF UsedPublicKeys, DeviceExists
  <2> QED
    BY <1>1, <2>1 DEF PublicKeyUnique, DeviceExists
<1>8. CredentialIffEnrolled'
  <2>1. tokens' = IF k = None THEN tokens ELSE tokens \cup {d}
    BY DEF RegCreateRow
  <2>2. d \notin tokens
    BY <1>2 DEF CredentialIffEnrolled, Active
  <2> QED
    BY <1>1, <1>2, <2>1, <2>2 DEF CredentialIffEnrolled, Active, DeviceExists
<1>9. EnrolledInTime'
  <2>1. \A j \in Keys : keys[j].expires \in OrNull(Nat)
    BY DEF KeyRow
  <2>2. k \in Keys /\ keys[k].expires # None => t < keys[k].expires
    BY <1>4, <2>1 DEF Expired, OrNull
  <2>3. ASSUME NEW e \in DeviceIds, devs'[e].key # None
        PROVE  LET j == devs'[e].key
               IN  /\ keys'[j].expires # None => devs'[e].created < keys'[j].expires
                   /\ devs'[e].user = keys'[j].by
    <3>1. CASE e = d
      BY <1>1, <1>3, <1>4, <2>2, <2>3, <3>1 DEF OrNull
    <3>2. CASE e # d
      <4>1. devs'[e] = devs[e] /\ devs[e].key \in Keys
        BY <1>1, <1>5, <2>3, <3>2 DEF OrNull
      <4> QED
        BY <1>3, <2>3, <4>1 DEF EnrolledInTime
    <3> QED
      BY <3>1, <3>2
  <2> QED
    BY <2>3 DEF EnrolledInTime
<1> QED
  BY <1>6, <1>7, <1>8, <1>9

-----------------------------------------------------------------------------
(* Every step of the atomic registry keeps its invariant.                  *)
LEMMA RegInvStep == RegInv /\ [RegNext]_regVars => RegInv'
<1> SUFFICES ASSUME RegInv, [RegNext]_regVars
             PROVE  RegInv'
  OBVIOUS
<1> USE DEF RegInv
<1>0. TablesTypeOK'
  BY RegTypeStep
<1>1. ASSUME UNCHANGED tables
      PROVE  RegInv'
  <2>1. /\ BlankRows' /\ PublicKeyUnique' /\ CredentialIffEnrolled'
        /\ EnrolledInTime'
    BY <1>1 DEF tables, BlankRows, PublicKeyUnique, CredentialIffEnrolled,
                EnrolledInTime, KeyExists, DeviceExists, Active
  <2>2. AddressIntegrity'
    BY <1>1 DEF tables, AddressIntegrity, AddressesOf, Active, DeviceExists
  <2>3. UsesAreDevices'
    BY <1>1 DEF tables, UsesAreDevices, EnrolledWith
  <2> QED
    BY <1>0, <2>1, <2>2, <2>3
<1>2. ASSUME NEW t \in 0..now, NEW k \in Keys, RegCreateSetupKey(k, t)
      PROVE  RegInv'
  <2>1. PICK u \in Users, m \in UseLimits, life \in OrNull(Lifetimes) :
          keys' = [keys EXCEPT ![k] = IssuedKey(u, m, life, t)]
    BY <1>2 DEF RegCreateSetupKey
  <2>2. /\ devs' = devs /\ alloc' = alloc /\ tokens' = tokens
        /\ \A j \in Keys : j # k => keys'[j] = keys[j]
        /\ keys'[k].created = t /\ keys'[k].uses = 0
        /\ keys'[k].maxUses = m
    BY <1>2, <2>1 DEF RegCreateSetupKey, IssuedKey, TablesTypeOK
  <2>3. t # None
    BY RowAssumption DEF TablesTypeOK
  <2>4. keys[k] = NoKey /\ ~KeyExists(k)
    BY <1>2 DEF RegCreateSetupKey, BlankRows
  <2>5. \A d \in DeviceIds : devs[d].key # None => devs[d].key \in Keys /\ devs[d].key # k
    BY <2>4 DEF BlankRows, TablesTypeOK, DeviceRow, OrNull
  <2>6. BlankRows'
    BY <2>2, <2>3, <2>5 DEF BlankRows, KeyExists, DeviceExists
  <2>7. AddressIntegrity' /\ PublicKeyUnique' /\ CredentialIffEnrolled'
    BY <2>2 DEF AddressIntegrity, PublicKeyUnique, CredentialIffEnrolled,
                AddressesOf, Active, DeviceExists
  <2>8. UsesAreDevices'
    <3>1. \A j \in Keys : Cardinality(EnrolledWith(j)) = keys'[j].uses
      BY <2>2, <2>4 DEF UsesAreDevices, NoKey
    <3>2. \A j \in Keys : keys'[j].maxUses > 0 => keys'[j].uses <= keys'[j].maxUses
      BY <2>2, RowAssumption DEF UsesAreDevices
    <3> QED
      BY <2>2, <3>1, <3>2 DEF UsesAreDevices, EnrolledWith
  <2>9. EnrolledInTime'
    BY <2>2, <2>5 DEF EnrolledInTime
  <2> QED
    BY <1>0, <2>6, <2>7, <2>8, <2>9
<1>3. ASSUME NEW t \in 0..now, NEW k \in Keys, RegRevokeSetupKey(k, t)
      PROVE  RegInv'
  <2>1. /\ devs' = devs /\ alloc' = alloc /\ tokens' = tokens
        /\ \A j \in Keys : j # k => keys'[j] = keys[j]
        /\ KeyExists(k)
    BY <1>3 DEF RegRevokeSetupKey, TablesTypeOK
  <2>2. \A j \in Keys :
          /\ keys'[j].created = keys[j].created /\ keys'[j].by = keys[j].by
          /\ keys'[j].expires = keys[j].expires
          /\ keys'[j].maxUses = keys[j].maxUses /\ keys'[j].uses = keys[j].uses
    BY <1>3 DEF RegRevokeSetupKey, TablesTypeOK, KeyRow
  <2>3. \A d \in DeviceIds : devs[d].key # None => devs[d].key \in Keys
    BY DEF TablesTypeOK, DeviceRow, OrNull
  <2>4. BlankRows'
    BY <2>1, <2>2, <2>3 DEF BlankRows, KeyExists, DeviceExists
  <2>5. AddressIntegrity' /\ PublicKeyUnique' /\ CredentialIffEnrolled'
    BY <2>1 DEF AddressIntegrity, PublicKeyUnique, CredentialIffEnrolled,
                AddressesOf, Active, DeviceExists
  <2>6. UsesAreDevices'
    BY <2>1, <2>2 DEF UsesAreDevices, EnrolledWith
  <2>7. EnrolledInTime'
    BY <2>1, <2>2, <2>3 DEF EnrolledInTime
  <2> QED
    BY <1>0, <2>4, <2>5, <2>6, <2>7
<1>4. ASSUME NEW t \in 0..now, NEW k \in OrNull(Keys), NEW d \in DeviceIds,
             RegCreate(k, d, t)
      PROVE  RegInv'
  <2>1. PICK pk \in PublicKeys \ UsedPublicKeys, A \in Assignments, u \in Users :
          RegCreateRow(k, d, t, pk, A, u)
    BY <1>4 DEF RegCreate
  <2>2. AddressIntegrity'
    BY <1>0, <2>1, CreateKeepsAddresses
  <2>3. UsesAreDevices'
    BY <1>0, <2>1, CreateKeepsCount
  <2>4. BlankRows' /\ PublicKeyUnique' /\ CredentialIffEnrolled' /\ EnrolledInTime'
    BY <1>0, <2>1, CreateKeepsRest
  <2> QED
    BY <1>0, <2>2, <2>3, <2>4
<1>5. ASSUME NEW t \in 0..now, NEW d \in DeviceIds, RegRevoke(d, t)
      PROVE  RegInv'
  <2>1. /\ devs'[d].created = devs[d].created /\ devs'[d].user = devs[d].user
        /\ devs'[d].pk = devs[d].pk /\ devs'[d].key = devs[d].key
        /\ devs'[d].ip = {} /\ devs'[d].revoked = t
        /\ \A e \in DeviceIds : e # d => devs'[e] = devs[e]
    BY <1>5 DEF RegRevoke, TablesTypeOK, DeviceRow
  <2>2. /\ keys' = keys /\ tokens' = tokens \ {d}
        /\ \A a \in Address : alloc'[a] = IF alloc[a] = d THEN None ELSE alloc[a]
    BY <1>5 DEF RegRevoke
  <2>3. t # None /\ d # None /\ Active(d)
    BY <1>5, RowAssumption DEF TablesTypeOK, RegRevoke
  <2>4. BlankRows'
    BY <2>1, <2>2, <2>3 DEF BlankRows, KeyExists, DeviceExists, Active
  <2>5. AddressIntegrity'
    <3>1. AddressesOf(d)' = {}
      BY <2>2, <2>3 DEF AddressesOf
    <3>2. ASSUME NEW e \in DeviceIds, e # d
          PROVE  AddressesOf(e)' = AddressesOf(e)
      BY <2>2, <3>2, RowAssumption DEF AddressesOf
    <3> QED
      BY <2>1, <2>3, <3>1, <3>2 DEF AddressIntegrity, Active, DeviceExists
  <2>6. UsesAreDevices'
    <3>1. ASSUME NEW j \in Keys PROVE EnrolledWith(j)' = EnrolledWith(j)
      BY <2>1 DEF EnrolledWith
    <3> QED
      BY <2>2, <3>1 DEF UsesAreDevices
  <2>7. PublicKeyUnique'
    BY <2>1 DEF PublicKeyUnique, DeviceExists
  <2>8. CredentialIffEnrolled'
    BY <2>1, <2>2, <2>3 DEF CredentialIffEnrolled, Active, DeviceExists
  <2>9. EnrolledInTime'
    BY <2>1, <2>2 DEF EnrolledInTime
  <2> QED
    BY <1>0, <2>4, <2>5, <2>6, <2>7, <2>8, <2>9
<1>6. ASSUME NEW t \in 0..now, NEW d \in DeviceIds, RegHeartbeat(d, t)
      PROVE  RegInv'
  <2>1. /\ devs'[d].created = devs[d].created /\ devs'[d].user = devs[d].user
        /\ devs'[d].pk = devs[d].pk /\ devs'[d].key = devs[d].key
        /\ devs'[d].ip = devs[d].ip /\ devs'[d].revoked = devs[d].revoked
        /\ \A e \in DeviceIds : e # d => devs'[e] = devs[e]
    BY <1>6 DEF RegHeartbeat, TablesTypeOK, DeviceRow
  <2>2. keys' = keys /\ tokens' = tokens /\ alloc' = alloc /\ Active(d)
    BY <1>6 DEF RegHeartbeat
  <2>3. BlankRows'
    BY <2>1, <2>2 DEF BlankRows, KeyExists, DeviceExists, Active
  <2>4. AddressIntegrity'
    BY <2>1, <2>2 DEF AddressIntegrity, AddressesOf, Active, DeviceExists
  <2>5. UsesAreDevices'
    <3>1. ASSUME NEW j \in Keys PROVE EnrolledWith(j)' = EnrolledWith(j)
      BY <2>1 DEF EnrolledWith
    <3> QED
      BY <2>2, <3>1 DEF UsesAreDevices
  <2>6. PublicKeyUnique'
    BY <2>1 DEF PublicKeyUnique, DeviceExists
  <2>7. CredentialIffEnrolled'
    BY <2>1, <2>2 DEF CredentialIffEnrolled, Active, DeviceExists
  <2>8. EnrolledInTime'
    BY <2>1, <2>2 DEF EnrolledInTime
  <2> QED
    BY <1>0, <2>3, <2>4, <2>5, <2>6, <2>7, <2>8
<1> QED
  BY <1>1, <1>2, <1>3, <1>4, <1>5, <1>6 DEF RegNext, RegTick, regVars, tables

(* The tables of the atomic registry are consistent at all times: the      *)
(* invariant holds of every behaviour.                                     *)
THEOREM RegInvariance == RegSpec => []RegInv
<1>1. RegInit => RegInv
  <2> SUFFICES ASSUME RegInit PROVE RegInv
    OBVIOUS
  <2>1. TablesTypeOK
    BY DEF RegInit, TablesTypeOK, NoKey, NoDevice, KeyRow, DeviceRow, OrNull
  <2>2. /\ BlankRows /\ PublicKeyUnique /\ CredentialIffEnrolled /\ EnrolledInTime
    BY DEF RegInit, NoKey, NoDevice, BlankRows, PublicKeyUnique,
           CredentialIffEnrolled, EnrolledInTime, KeyExists, DeviceExists, Active
  <2>3. AddressIntegrity
    BY RowAssumption DEF RegInit, NoDevice, AddressIntegrity, AddressesOf, Active, DeviceExists
  <2>4. UsesAreDevices
    <3>1. ASSUME NEW k \in Keys PROVE EnrolledWith(k) = {}
      BY RowAssumption DEF RegInit, EnrolledWith, NoDevice
    <3> QED
      BY <3>1, FS_EmptySet DEF RegInit, UsesAreDevices, NoKey
  <2> QED
    BY <2>1, <2>2, <2>3, <2>4 DEF RegInv
<1> QED
  BY <1>1, RegInvStep, PTL DEF RegSpec

-----------------------------------------------------------------------------
(* What no step of the registry may do.                                    *)

\* RevokedKeyIsDead and RevokedDeviceIsFrozen as predicates on one step.
KeyStaysDead ==
  \A k \in Keys : keys[k].revoked # None =>
    keys'[k] = keys[k] /\ EnrolledWith(k)' = EnrolledWith(k)

DeviceStaysFrozen ==
  \A d \in DeviceIds : devs[d].revoked # None =>
    devs'[d] = devs[d] /\ d \notin tokens'

NotHandedOver ==
  \A a \in Address : alloc[a] # None => alloc'[a] \in {alloc[a], None}

LEMMA RevokedStaysRevoked ==
  RegInv /\ [RegNext]_regVars => KeyStaysDead /\ DeviceStaysFrozen /\ NotHandedOver
<1> SUFFICES ASSUME RegInv, [RegNext]_regVars
             PROVE  KeyStaysDead /\ DeviceStaysFrozen /\ NotHandedOver
  OBVIOUS
<1> USE DEF RegInv, TablesTypeOK
<1>0. \A d \in DeviceIds : devs[d].revoked # None => d \notin tokens /\ DeviceExists(d)
  BY DEF CredentialIffEnrolled, Active, BlankRows, NoDevice
<1>1. ASSUME UNCHANGED tables
      PROVE  KeyStaysDead /\ DeviceStaysFrozen /\ NotHandedOver
  BY <1>0, <1>1 DEF tables, KeyStaysDead, DeviceStaysFrozen, NotHandedOver, EnrolledWith
<1>2. ASSUME NEW t \in 0..now, NEW k \in Keys,
             RegCreateSetupKey(k, t) \/ RegRevokeSetupKey(k, t)
      PROVE  KeyStaysDead /\ DeviceStaysFrozen /\ NotHandedOver
  <2>1. /\ devs' = devs /\ alloc' = alloc /\ tokens' = tokens
        /\ \A j \in Keys : j # k => keys'[j] = keys[j]
    BY <1>2 DEF RegCreateSetupKey, RegRevokeSetupKey
  <2>2. keys[k].revoked = None
    BY <1>2 DEF RegCreateSetupKey, RegRevokeSetupKey, BlankRows, NoKey
  <2> QED
    BY <1>0, <2>1, <2>2 DEF KeyStaysDead, DeviceStaysFrozen, NotHandedOver, EnrolledWith
<1>3. ASSUME NEW t \in 0..now, NEW k \in OrNull(Keys), NEW d \in DeviceIds,
             RegCreate(k, d, t)
      PROVE  KeyStaysDead /\ DeviceStaysFrozen /\ NotHandedOver
  <2>1. PICK pk \in PublicKeys \ UsedPublicKeys, A \in Assignments, u \in Users :
          RegCreateRow(k, d, t, pk, A, u)
    BY <1>3 DEF RegCreate
  <2>2. /\ \A e \in DeviceIds : e # d => devs'[e] = devs[e]
        /\ devs'[d].key = k
        /\ tokens' \subseteq tokens \cup {d}
        /\ ~DeviceExists(d)
    BY <2>1 DEF RegCreateRow
  <2>3. \A j \in Keys : j # k => keys'[j] = keys[j]
    BY <2>1 DEF RegCreateRow
  <2>4. k # None => keys[k].revoked = None
    BY <2>1 DEF RegCreateRow, Redeemable
  <2>5. devs[d].key = None
    BY <2>2 DEF BlankRows, NoDevice
  <2>6. KeyStaysDead
    <3>1. ASSUME NEW j \in Keys, j # k
          PROVE  EnrolledWith(j)' = EnrolledWith(j)
      BY <2>2, <2>5, <3>1, RowAssumption DEF EnrolledWith
    <3> QED
      BY <2>3, <2>4, <3>1, RowAssumption DEF KeyStaysDead
  <2>7. DeviceStaysFrozen
    BY <1>0, <2>2 DEF DeviceStaysFrozen
  <2>8. NotHandedOver
    BY <2>1 DEF RegCreateRow, NotHandedOver
  <2> QED
    BY <2>6, <2>7, <2>8
<1>4. ASSUME NEW t \in 0..now, NEW d \in DeviceIds,
             RegRevoke(d, t) \/ RegHeartbeat(d, t)
      PROVE  KeyStaysDead /\ DeviceStaysFrozen /\ NotHandedOver
  <2>1. /\ devs'[d].key = devs[d].key
        /\ \A e \in DeviceIds : e # d => devs'[e] = devs[e]
    BY <1>4 DEF RegRevoke, RegHeartbeat, DeviceRow
  <2>2. keys' = keys /\ tokens' \subseteq tokens /\ Active(d)
    BY <1>4 DEF RegRevoke, RegHeartbeat
  <2>3. KeyStaysDead
    <3>1. ASSUME NEW j \in Keys PROVE EnrolledWith(j)' = EnrolledWith(j)
      BY <2>1 DEF EnrolledWith
    <3> QED
      BY <2>2, <3>1 DEF KeyStaysDead
  <2>4. DeviceStaysFrozen
    BY <1>0, <2>1, <2>2 DEF DeviceStaysFrozen, Active
  <2>5. NotHandedOver
    BY <1>4 DEF RegRevoke, RegHeartbeat, NotHandedOver
  <2> QED
    BY <2>3, <2>4, <2>5
<1> QED
  BY <1>1, <1>2, <1>3, <1>4 DEF RegNext, RegTick, regVars, tables

(* In the atomic registry revocation is final, for keys and for devices,   *)
(* and an address is released before it is given to another device.        *)
THEOREM RegRevocationIsFinal ==
  RegSpec => RevokedKeyIsDead /\ RevokedDeviceIsFrozen /\ NoAddressHandover
<1>1. RegInv /\ [RegNext]_regVars =>
        /\ [\A k \in Keys : keys[k].revoked # None =>
              keys'[k] = keys[k] /\ EnrolledWith(k)' = EnrolledWith(k)]_regVars
        /\ [\A d \in DeviceIds : devs[d].revoked # None =>
              devs'[d] = devs[d] /\ d \notin tokens']_regVars
        /\ [\A a \in Address :
              alloc[a] # None => alloc'[a] \in {alloc[a], None}]_regVars
  BY RevokedStaysRevoked DEF KeyStaysDead, DeviceStaysFrozen, NotHandedOver
<1> QED
  BY <1>1, RegInvariance, PTL
     DEF RegSpec, RevokedKeyIsDead, RevokedDeviceIsFrozen, NoAddressHandover
=============================================================================
