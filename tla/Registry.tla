------------------------------ MODULE Registry ------------------------------
(***************************************************************************)
(* What the device registry of the control plane promises.                 *)
(*                                                                         *)
(* The registry is four tables: setup_keys, devices, ip_allocations and    *)
(* device_tokens.  This module gives their rows, the row predicates of     *)
(* internal/devices, and an abstract specification (RegSpec) in which      *)
(* every operation of devices.Store that changes a table happens in one    *)
(* indivisible step, against the tables as they are at that step.          *)
(* Module Devices gives the operations as the code runs them, statement by *)
(* statement and several at once, and is shown to implement RegSpec.       *)
(***************************************************************************)
EXTENDS Integers, FiniteSets

CONSTANTS
  Keys,          \* identifiers of setup keys
  DeviceIds,     \* identifiers of devices
  PublicKeys,    \* well-formed WireGuard public keys
  Users,         \* account identifiers
  V4First,       \* first (network) address of the IPv4 pool
  V4Last,        \* last (broadcast) address of the IPv4 pool
  V6First,       \* first address of the IPv6 pool
  V6Last,        \* last address of the IPv6 pool
  IPv6Enabled,   \* whether the deployment hands out IPv6 addresses
  DefaultExpiry, \* lifetime of a setup key created without one
  Lifetimes,     \* lifetimes an operator asks for; 0 is "not given"
  UseLimits,     \* max_uses an operator asks for; 0 is "unlimited"
  None           \* SQL NULL

ASSUME PoolAssumption ==
  /\ V4First \in Nat /\ V4Last \in Nat /\ V6First \in Nat /\ V6Last \in Nat
  /\ V4First <= V4Last /\ V4Last < V6First /\ V6First <= V6Last
  /\ IPv6Enabled \in BOOLEAN

ASSUME RowAssumption ==
  /\ DefaultExpiry \in Nat \ {0}
  /\ Lifetimes \subseteq Nat /\ UseLimits \subseteq Nat
  /\ IsFiniteSet(DeviceIds)
  /\ None \notin Nat
  /\ None \notin DeviceIds
  /\ None \notin Keys
  /\ None \notin PublicKeys
  /\ None \notin Users

-----------------------------------------------------------------------------
(* Addresses.  An address is a number; the two pools are disjoint ranges.  *)

Address == (V4First..V4Last) \cup (V6First..V6Last)

FamilyOf(a) == IF a <= V4Last THEN 4 ELSE 6

\* The addresses of a family that may be handed out: never the network
\* address, and in the IPv4 pool never the broadcast address.
Usable(f) == IF f = 4 THEN (V4First + 1)..(V4Last - 1)
                      ELSE (V6First + 1)..V6Last

-----------------------------------------------------------------------------
VARIABLES
  keys,    \* setup_keys: a row per identifier
  devs,    \* devices: a row per identifier
  alloc,   \* ip_allocations: the owner of each address, or None
  tokens,  \* device_tokens: the devices that have a credential
  now      \* the clock the server reads

tables == <<keys, devs, alloc, tokens>>
regVars == <<keys, devs, alloc, tokens, now>>

OrNull(S) == S \cup {None}

KeyRow == [created : OrNull(Nat), by : OrNull(Users), expires : OrNull(Nat),
           maxUses : Nat, uses : Nat, revoked : OrNull(Nat)]

DeviceRow == [created : OrNull(Nat), user : OrNull(Users),
              pk : OrNull(PublicKeys), key : OrNull(Keys),
              ip : SUBSET Address, seen : OrNull(Nat), revoked : OrNull(Nat)]

\* An identifier no row has yet.
NoKey == [created |-> None, by |-> None, expires |-> None,
          maxUses |-> 0, uses |-> 0, revoked |-> None]

NoDevice == [created |-> None, user |-> None, pk |-> None, key |-> None,
             ip |-> {}, seen |-> None, revoked |-> None]

\* The row CreateSetupKey inserts.  life is the requested lifetime, None for a
\* key that never expires; an omitted (zero) lifetime becomes the default.
IssuedKey(u, m, life, t) ==
  [created |-> t, by |-> u,
   expires |-> IF life = None THEN None
               ELSE t + (IF life = 0 THEN DefaultExpiry ELSE life),
   maxUses |-> m, uses |-> 0, revoked |-> None]

KeyExists(k) == keys[k].created # None
DeviceExists(d) == devs[d].created # None
Active(d) == DeviceExists(d) /\ devs[d].revoked = None

Expired(k, t) == keys[k].expires # None /\ t >= keys[k].expires
Exhausted(k) == keys[k].maxUses > 0 /\ keys[k].uses >= keys[k].maxUses

\* SetupKey.Redeemable for a key that was found.
Redeemable(k, t) ==
  /\ KeyExists(k)
  /\ keys[k].revoked = None
  /\ ~Expired(k, t)
  /\ ~Exhausted(k)

\* Fault: the index forgets the keys of revoked devices.
ActivePublicKeys == {devs[d].pk : d \in {e \in DeviceIds : Active(e)}}

\* The public keys the unique index on devices.public_key refuses.
UsedPublicKeys == {devs[d].pk : d \in {e \in DeviceIds : DeviceExists(e)}}

AddressesOf(d) == {a \in Address : alloc[a] = d}

EnrolledWith(k) == {d \in DeviceIds : devs[d].key = k}

\* The sets of addresses a device may be given: one usable address of every
\* enabled family.
Assignments ==
  IF IPv6Enabled THEN {{a, b} : a \in Usable(4), b \in Usable(6)}
                 ELSE {{a} : a \in Usable(4)}

-----------------------------------------------------------------------------
(* The operations, each as one step.  t is the time the request read from  *)
(* the clock, which may be earlier than the step.                          *)

RegCreateSetupKey(k, t) ==
  /\ ~KeyExists(k)
  /\ \E u \in Users, m \in UseLimits, life \in OrNull(Lifetimes) :
       keys' = [keys EXCEPT ![k] = IssuedKey(u, m, life, t)]
  /\ UNCHANGED <<devs, alloc, tokens, now>>

RegRevokeSetupKey(k, t) ==
  /\ KeyExists(k)
  /\ keys[k].revoked = None
  /\ keys' = [keys EXCEPT ![k].revoked = t]
  /\ UNCHANGED <<devs, alloc, tokens, now>>

\* Register (k = None) or Enroll: the key is redeemable and is spent, the
\* public key is new, the addresses are free, and all of it happens at once.
RegCreateRow(k, d, t, pk, A, u) ==
  /\ ~DeviceExists(d)
  /\ k # None => Redeemable(k, t) /\ u = keys[k].by
  /\ \A a \in A : alloc[a] = None
  /\ devs' = [devs EXCEPT ![d] =
                [created |-> t, user |-> u, pk |-> pk, key |-> k,
                 ip |-> A, seen |-> None, revoked |-> None]]
  /\ alloc' = [a \in Address |-> IF a \in A THEN d ELSE alloc[a]]
  /\ IF k = None
       THEN UNCHANGED <<keys, tokens>>
       ELSE /\ keys' = [keys EXCEPT ![k].uses = @ + 1]
            /\ tokens' = tokens \cup {d}
  /\ UNCHANGED now

RegCreate(k, d, t) ==
  \E pk \in PublicKeys \ UsedPublicKeys, A \in Assignments, u \in Users :
    RegCreateRow(k, d, t, pk, A, u)

RegRevoke(d, t) ==
  /\ Active(d)
  /\ devs' = [devs EXCEPT ![d] = [@ EXCEPT !.revoked = t, !.ip = {}]]
  /\ alloc' = [a \in Address |-> IF alloc[a] = d THEN None ELSE alloc[a]]
  /\ tokens' = tokens \ {d}
  /\ UNCHANGED <<keys, now>>

RegHeartbeat(d, t) ==
  /\ Active(d)
  /\ d \in tokens
  /\ devs' = [devs EXCEPT ![d].seen = t]
  /\ UNCHANGED <<keys, alloc, tokens, now>>

RegTick ==
  /\ now' = now + 1
  /\ UNCHANGED tables

RegInit ==
  /\ keys = [k \in Keys |-> NoKey]
  /\ devs = [d \in DeviceIds |-> NoDevice]
  /\ alloc = [a \in Address |-> None]
  /\ tokens = {}
  /\ now = 0

RegNext ==
  \/ RegTick
  \/ \E t \in 0..now :
       \/ \E k \in Keys : RegCreateSetupKey(k, t) \/ RegRevokeSetupKey(k, t)
       \/ \E k \in OrNull(Keys), d \in DeviceIds : RegCreate(k, d, t)
       \/ \E d \in DeviceIds : RegRevoke(d, t) \/ RegHeartbeat(d, t)

RegSpec == RegInit /\ [][RegNext]_regVars

-----------------------------------------------------------------------------
(* What the tables must satisfy.                                           *)

TablesTypeOK ==
  /\ keys \in [Keys -> KeyRow]
  /\ devs \in [DeviceIds -> DeviceRow]
  /\ alloc \in [Address -> OrNull(DeviceIds)]
  /\ tokens \subseteq DeviceIds
  /\ now \in Nat

\* Identifiers without a row are blank, and a device names a key that exists.
BlankRows ==
  /\ \A k \in Keys : ~KeyExists(k) => keys[k] = NoKey
  /\ \A d \in DeviceIds : ~DeviceExists(d) => devs[d] = NoDevice
  /\ \A d \in DeviceIds : devs[d].key # None => KeyExists(devs[d].key)

(* The allocation table and the address columns of devices agree: an       *)
(* address is allocated exactly to the device whose row shows it, an       *)
(* active device holds one usable address of every enabled family and a    *)
(* revoked one holds none.  create and Revoke write the two tables in      *)
(* different statements of one transaction; a leaked or doubly issued      *)
(* address breaks this.                                                    *)
AddressIntegrity ==
  \A d \in DeviceIds :
    /\ devs[d].ip = AddressesOf(d)
    /\ IF Active(d) THEN devs[d].ip \in Assignments ELSE devs[d].ip = {}

(* A key's use counter is the number of devices enrolled with it, and the  *)
(* limit on a limited key is never exceeded: a single-use key enrols one   *)
(* device however many enrolments redeem it at once, and an enrolment that *)
(* fails or is cut off does not spend it.                                  *)
UsesAreDevices ==
  \A k \in Keys :
    /\ Cardinality(EnrolledWith(k)) = keys[k].uses
    /\ keys[k].maxUses > 0 => keys[k].uses <= keys[k].maxUses

(* No two devices, revoked ones included, have the same public key: a      *)
(* revoked key never comes back as another device.                         *)
PublicKeyUnique ==
  \A d, e \in DeviceIds :
    DeviceExists(d) /\ DeviceExists(e) /\ devs[d].pk = devs[e].pk => d = e

(* A device has a credential exactly while it is active, if it was         *)
(* enrolled with a setup key; a registered inventory record never has one. *)
CredentialIffEnrolled ==
  \A d \in DeviceIds : d \in tokens <=> Active(d) /\ devs[d].key # None

(* A device enrolled with a key was created before the key expired, and    *)
(* belongs to the user who created the key, although the key is looked up  *)
(* outside the transaction that spends it.                                 *)
EnrolledInTime ==
  \A d \in DeviceIds : devs[d].key # None =>
    LET k == devs[d].key
    IN  /\ keys[k].expires # None => devs[d].created < keys[k].expires
        /\ devs[d].user = keys[k].by

\* The inductive invariant of the atomic registry.
RegInv ==
  /\ TablesTypeOK
  /\ BlankRows
  /\ AddressIntegrity
  /\ UsesAreDevices
  /\ PublicKeyUnique
  /\ CredentialIffEnrolled
  /\ EnrolledInTime

(* Once a revocation of a setup key has completed, the key enrols nothing  *)
(* more, and the first revocation stands.                                  *)
RevokedKeyIsDead ==
  [][\A k \in Keys : keys[k].revoked # None =>
       keys'[k] = keys[k] /\ EnrolledWith(k)' = EnrolledWith(k)]_regVars

(* Once a revocation of a device has completed, its row never changes      *)
(* again (no check-in is recorded, no address comes back) and it never has *)
(* a credential again, whatever was authenticated before.                  *)
RevokedDeviceIsFrozen ==
  [][\A d \in DeviceIds : devs[d].revoked # None =>
       devs'[d] = devs[d] /\ d \notin tokens']_regVars

(* An address never passes from one device to another in a single step: it *)
(* is released, committed, and only then claimed again.                    *)
NoAddressHandover ==
  [][\A a \in Address : alloc[a] # None => alloc'[a] \in {alloc[a], None}]_regVars
=============================================================================
