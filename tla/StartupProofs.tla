--------------------------- MODULE StartupProofs ----------------------------
(***************************************************************************)
(* Proofs about Startup, for any set of servers, of any builds.            *)
(*                                                                         *)
(* A server compares the ledger with its build once and goes by what it    *)
(* has read ever after.  Reads says that this stays true, because rows of  *)
(* the ledger are never changed; Migrating says what a server relies on    *)
(* while it applies a migration, Identified what it knows of the identity. *)
(***************************************************************************)
EXTENDS Startup, TLAPS

Migrating == {"ddl", "record", "commit"}
Migrated == {"getId", "insertId", "commitId", "rereadId", "serving"}

\* What a server takes to be applied is applied, from the file it embeds.
ReadsHold ==
  \A s \in Servers : \A v \in applied[s] :
    v \in 1..Build[s] /\ v \in schema /\ ledger[v] = Checksum(s, v)

\* Migrations are applied in order; an open transaction creates tables that
\* do not exist and that no other one creates.
MigrationsInOrder ==
  \A s \in Servers :
    /\ pc[s] \in Migrating =>
         /\ cur[s] \in 1..Build[s]
         /\ \A v \in 1..Build[s] : v < cur[s] => v \in applied[s]
    /\ pc[s] \in {"record", "commit"} =>
         /\ cur[s] \notin schema
         /\ \A t \in Servers \ {s} : ~Creating(t, cur[s])
    /\ pc[s] \in Migrated => \A v \in 1..Build[s] : v \in applied[s]

\* A candidate is drawn before it is inserted; after the commit there is an
\* identity.
Identified ==
  \A s \in Servers :
    /\ pc[s] \in {"insertId", "commitId"} => id[s] # None
    /\ pc[s] \in {"rereadId", "serving"} => instance # None

\* So that the ledger has a highest version.
SchemaIsPrefix == \E n \in Nat : schema = 1..n

StartupInv ==
  /\ LedgerIsSchema /\ SchemaIsPrefix
  /\ ReadsHold /\ MigrationsInOrder /\ Identified /\ OneIdentity

-----------------------------------------------------------------------------
LEMMA VersionsAreBuilt ==
  \A v : v \in Versions <=> \E s \in Servers : v \in 1..Build[s]
  BY DEF Versions

LEMMA InitInv == Init => StartupInv
<1> SUFFICES ASSUME Init PROVE StartupInv
  OBVIOUS
<1> USE BuildAssumption
<1>1. TypeOK
  BY DEF Init, TypeOK, PcStates, Outcomes
<1>2. InLedger = {}
  BY DEF Init, InLedger
<1>3. SchemaIsPrefix
  <2>1. schema = 1..0
    BY DEF Init
  <2> QED
    BY <2>1 DEF SchemaIsPrefix
<1> QED
  BY <1>1, <1>2, <1>3
     DEF Init, StartupInv, LedgerIsSchema, ReadsHold, MigrationsInOrder, Identified,
         OneIdentity, Migrating, Migrated

-----------------------------------------------------------------------------
(* What a step leaves behind for the server that takes it.                 *)

LocalTypes ==
  /\ pc \in [Servers -> PcStates]
  /\ applied \in [Servers -> SUBSET Versions]
  /\ cur \in [Servers -> Versions \cup {0}]
  /\ id \in [Servers -> Ids \cup {None}]
  /\ outcome \in [Servers -> Outcomes]

\* Only s moves.
OnlyMoves(s) ==
  /\ LocalTypes'
  /\ \A t \in Servers \ {s} :
       pc'[t] = pc[t] /\ applied'[t] = applied[t] /\ cur'[t] = cur[t] /\ id'[t] = id[t]

LEMMA EmbeddedAreVersions == \A s \in Servers : 1..Build[s] \subseteq Versions
  BY VersionsAreBuilt

LEMMA ExitFacts ==
  ASSUME LocalTypes, NEW s \in Servers, NEW how \in Outcomes, Exit(s, how)
  PROVE  OnlyMoves(s) /\ pc'[s] = "down" /\ applied'[s] = {} /\ id'[s] = None
  BY DEF LocalTypes, Exit, OnlyMoves, PcStates

LEMMA ContinueFacts ==
  ASSUME LocalTypes, NEW s \in Servers, NEW done, done \subseteq 1..Build[s],
         ContinueFrom(s, done)
  PROVE  /\ OnlyMoves(s) /\ applied'[s] = done
         /\ \/ /\ pc'[s] = "ddl" /\ cur'[s] \in 1..Build[s]
               /\ \A v \in 1..Build[s] : v < cur'[s] => v \in done
            \/ pc'[s] = "getId" /\ \A v \in 1..Build[s] : v \in done
<1> USE BuildAssumption
<1>1. done \in SUBSET Versions
  BY EmbeddedAreVersions
<1>2. CASE /\ pc' = [pc EXCEPT ![s] = "ddl"]
           /\ \E v \in Pending(s, done) : /\ \A u \in Pending(s, done) : v <= u
                                          /\ cur' = [cur EXCEPT ![s] = v]
           /\ UNCHANGED <<id, outcome>>
  <2>1. PICK v \in Pending(s, done) : /\ \A u \in Pending(s, done) : v <= u
                                      /\ cur' = [cur EXCEPT ![s] = v]
    BY <1>2
  <2>2. v \in 1..Build[s] /\ v \in Versions
    BY EmbeddedAreVersions DEF Pending
  <2>3. \A u \in 1..Build[s] : u < v => u \in done
    BY <2>1, <2>2 DEF Pending
  <2> QED
    BY <1>1, <1>2, <2>1, <2>2, <2>3 DEF ContinueFrom, LocalTypes, OnlyMoves, PcStates
<1>3. CASE /\ Pending(s, done) = {}
           /\ pc' = [pc EXCEPT ![s] = "getId"]
           /\ cur' = [cur EXCEPT ![s] = 0]
           /\ UNCHANGED <<id, outcome>>
  <2>1. \A v \in 1..Build[s] : v \in done
    BY <1>3 DEF Pending
  <2> QED
    BY <1>1, <1>3, <2>1 DEF ContinueFrom, LocalTypes, OnlyMoves, PcStates
<1> QED
  BY <1>2, <1>3 DEF ContinueFrom

-----------------------------------------------------------------------------
(* Steps that leave the database alone.                                    *)

\* What Inv says of s alone.
Sound(s) ==
  /\ \A v \in applied[s] : v \in 1..Build[s] /\ v \in schema /\ ledger[v] = Checksum(s, v)
  /\ pc[s] \in Migrating =>
       /\ cur[s] \in 1..Build[s]
       /\ \A v \in 1..Build[s] : v < cur[s] => v \in applied[s]
  /\ pc[s] \in {"record", "commit"} => cur[s] \notin schema
  /\ pc[s] \in Migrated => \A v \in 1..Build[s] : v \in applied[s]
  /\ pc[s] \in {"insertId", "commitId"} => id[s] # None
  /\ pc[s] \in {"rereadId", "serving"} => instance # None
  /\ pc[s] = "serving" => id[s] = instance

NoSharedCreation ==
  \A s, t \in Servers : s # t => ~(pc[s] \in {"record", "commit"} /\ Creating(t, cur[s]))

LEMMA InvIsSound ==
  /\ StartupInv <=> /\ LedgerIsSchema /\ SchemaIsPrefix /\ NoSharedCreation
                    /\ \A s \in Servers : Sound(s)
  /\ StartupInv' <=> /\ LedgerIsSchema' /\ SchemaIsPrefix' /\ NoSharedCreation'
                     /\ \A s \in Servers : Sound(s)'
  BY DEF StartupInv, ReadsHold, MigrationsInOrder, Identified, OneIdentity, Sound,
         NoSharedCreation

LEMMA LocalStep ==
  ASSUME StartupInv, NEW s \in Servers, OnlyMoves(s), UNCHANGED database,
         faults' \in 0..MaxFaults, stops' \in 0..MaxStops,
         Sound(s)',
         pc'[s] \in {"record", "commit"} =>
           \A t \in Servers \ {s} : ~Creating(t, cur'[s])
  PROVE  StartupInv'
<1>1. LedgerIsSchema' /\ SchemaIsPrefix'
  BY DEF StartupInv, LedgerIsSchema, SchemaIsPrefix, TypeOK, InLedger, database, OnlyMoves,
         LocalTypes
<1>2. NoSharedCreation'
  BY InvIsSound DEF OnlyMoves, NoSharedCreation, Creating
<1>3. ASSUME NEW t \in Servers PROVE Sound(t)'
  <2>1. CASE t = s
    BY <2>1
  <2>2. CASE t # s
    <3>1. Sound(t)
      BY InvIsSound
    <3>2. /\ pc'[t] = pc[t] /\ applied'[t] = applied[t] /\ cur'[t] = cur[t] /\ id'[t] = id[t]
          /\ schema' = schema /\ ledger' = ledger /\ instance' = instance
      BY <2>2 DEF OnlyMoves, database
    <3> QED
      BY <3>1, <3>2 DEF Sound
  <2> QED
    BY <2>1, <2>2
<1> QED
  BY <1>1, <1>2, <1>3, InvIsSound

LEMMA InvTypes ==
  StartupInv => LocalTypes /\ TypeOK /\ faults \in 0..MaxFaults /\ stops \in 0..MaxStops
  BY DEF StartupInv, LedgerIsSchema, TypeOK, LocalTypes

LEMMA ExitStep ==
  ASSUME StartupInv, NEW s \in Servers, NEW how \in Outcomes, Exit(s, how),
         UNCHANGED database, faults' \in 0..MaxFaults, stops' \in 0..MaxStops
  PROVE  StartupInv'
<1>1. OnlyMoves(s) /\ pc'[s] = "down" /\ applied'[s] = {}
  BY InvTypes, ExitFacts
<1>2. Sound(s)'
  BY <1>1 DEF Sound, Migrating, Migrated
<1> QED
  BY <1>1, <1>2, LocalStep

LEMMA LaunchStep ==
  ASSUME StartupInv, NEW s \in Servers, Launch(s)
  PROVE  StartupInv'
<1>1. OnlyMoves(s) /\ pc'[s] = "read" /\ applied'[s] = applied[s]
  BY InvTypes DEF Launch, Goto, OnlyMoves, LocalTypes, PcStates, Outcomes
<1>2. Sound(s)'
  BY <1>1, InvIsSound DEF Launch, database, Sound, Migrating, Migrated
<1> QED
  BY <1>1, <1>2, InvTypes, LocalStep DEF Launch, counters

LEMMA ReadStep ==
  ASSUME StartupInv, NEW s \in Servers, ReadLedger(s)
  PROVE  StartupInv'
<1> USE BuildAssumption
<1>1. UNCHANGED database /\ faults' \in 0..MaxFaults /\ stops' \in 0..MaxStops
  BY InvTypes DEF ReadLedger, counters
<1>2. ASSUME NEW how \in Outcomes, Exit(s, how) PROVE StartupInv'
  BY <1>1, <1>2, ExitStep
<1>3. CASE ~Ahead(s) /\ ~Modified(s) /\ ContinueFrom(s, InLedger)
  <2>1. InLedger = schema /\ schema \subseteq Versions
    BY DEF StartupInv, LedgerIsSchema, TypeOK
  <2>2. \A v \in InLedger : v \in 1..Build[s] /\ ledger[v] = Checksum(s, v)
    <3>1. \A v \in Versions : v \in Nat /\ v >= 1
      BY VersionsAreBuilt
    <3> QED
      BY <1>3, <3>1 DEF Ahead, Modified, InLedger
  <2>3. InLedger \subseteq 1..Build[s]
    BY <2>2
  <2>4. /\ OnlyMoves(s) /\ applied'[s] = InLedger
        /\ \/ /\ pc'[s] = "ddl" /\ cur'[s] \in 1..Build[s]
              /\ \A v \in 1..Build[s] : v < cur'[s] => v \in InLedger
           \/ pc'[s] = "getId" /\ \A v \in 1..Build[s] : v \in InLedger
    BY <1>3, <2>3, InvTypes, ContinueFacts
  <2>5. Sound(s)'
    BY <1>1, <2>1, <2>2, <2>4 DEF Sound, Migrating, Migrated, database
  <2> QED
    BY <1>1, <2>4, <2>5, LocalStep
<1> QED
  BY <1>2, <1>3 DEF ReadLedger, FinishMigrating, Outcomes

LEMMA RunStep ==
  ASSUME StartupInv, NEW s \in Servers, RunMigration(s)
  PROVE  StartupInv'
<1>1. UNCHANGED database /\ faults' \in 0..MaxFaults /\ stops' \in 0..MaxStops
  BY InvTypes DEF RunMigration, counters
<1>2. CASE Exit(s, "conflict")
  BY <1>1, <1>2, ExitStep DEF Outcomes
<1>3. CASE /\ cur[s] \notin schema
           /\ Goto(s, "ddl", "record")
           /\ UNCHANGED <<applied, cur, id, outcome>>
  <2>1. OnlyMoves(s) /\ pc[s] = "ddl" /\ pc'[s] = "record"
    BY <1>3, InvTypes DEF Goto, OnlyMoves, LocalTypes, PcStates
  <2>2. Sound(s)'
    BY <1>1, <1>3, <2>1, InvIsSound DEF Sound, Migrating, Migrated, database
  <2>3. \A t \in Servers \ {s} : ~Creating(t, cur'[s])
    BY <1>3 DEF RunMigration, CreationPending
  <2> QED
    BY <1>1, <2>1, <2>2, <2>3, LocalStep
<1> QED
  BY <1>2, <1>3 DEF RunMigration

LEMMA RecordStep ==
  ASSUME StartupInv, NEW s \in Servers, RecordMigration(s)
  PROVE  StartupInv'
<1>1. /\ UNCHANGED database /\ faults' \in 0..MaxFaults /\ stops' \in 0..MaxStops
      /\ UNCHANGED <<applied, cur, id, outcome>>
  BY InvTypes DEF RecordMigration, counters
<1>2. OnlyMoves(s) /\ pc[s] = "record" /\ pc'[s] = "commit"
  BY InvTypes DEF RecordMigration, Goto, OnlyMoves, LocalTypes, PcStates
<1>3. Sound(s)'
  BY <1>1, <1>2, InvIsSound DEF Sound, Migrating, Migrated, database
<1>4. \A t \in Servers \ {s} : ~Creating(t, cur'[s])
  BY <1>1, <1>2 DEF StartupInv, MigrationsInOrder
<1> QED
  BY <1>1, <1>2, <1>3, <1>4, LocalStep

LEMMA GetIdStep ==
  ASSUME StartupInv, NEW s \in Servers, GetInstanceId(s)
  PROVE  StartupInv'
<1> USE BuildAssumption
<1>1. /\ UNCHANGED database /\ faults' \in 0..MaxFaults /\ stops' \in 0..MaxStops
      /\ UNCHANGED <<applied, cur, outcome>> /\ pc[s] = "getId"
  BY InvTypes DEF GetInstanceId, counters
<1>2. CASE /\ instance # None
           /\ Goto(s, "getId", "serving")
           /\ id' = [id EXCEPT ![s] = instance]
  <2>1. OnlyMoves(s) /\ pc'[s] = "serving" /\ id'[s] = instance
    BY <1>1, <1>2, InvTypes DEF Goto, OnlyMoves, LocalTypes, PcStates, TypeOK
  <2>2. Sound(s)'
    BY <1>1, <1>2, <2>1, InvIsSound DEF Sound, Migrating, Migrated, database
  <2> QED
    BY <1>1, <2>1, <2>2, LocalStep
<1>3. CASE /\ Goto(s, "getId", "insertId")
           /\ \E i \in Ids : id' = [id EXCEPT ![s] = i]
  <2>1. OnlyMoves(s) /\ pc'[s] = "insertId" /\ id'[s] # None
    BY <1>1, <1>3, InvTypes DEF Goto, OnlyMoves, LocalTypes, PcStates
  <2>2. Sound(s)'
    BY <1>1, <2>1, InvIsSound DEF Sound, Migrating, Migrated, database
  <2> QED
    BY <1>1, <2>1, <2>2, LocalStep
<1> QED
  BY <1>2, <1>3 DEF GetInstanceId

LEMMA InsertIdStep ==
  ASSUME StartupInv, NEW s \in Servers, InsertInstanceId(s)
  PROVE  StartupInv'
<1>1. /\ UNCHANGED database /\ faults' \in 0..MaxFaults /\ stops' \in 0..MaxStops
      /\ UNCHANGED <<applied, cur, id, outcome>>
  BY InvTypes DEF InsertInstanceId, counters
<1>2. OnlyMoves(s) /\ pc[s] = "insertId" /\ pc'[s] = "commitId"
  BY InvTypes DEF InsertInstanceId, Goto, OnlyMoves, LocalTypes, PcStates
<1>3. Sound(s)'
  BY <1>1, <1>2, InvIsSound DEF Sound, Migrating, Migrated, database
<1> QED
  BY <1>1, <1>2, <1>3, LocalStep

LEMMA RereadStep ==
  ASSUME StartupInv, NEW s \in Servers, RereadInstanceId(s)
  PROVE  StartupInv'
<1>1. /\ UNCHANGED database /\ faults' \in 0..MaxFaults /\ stops' \in 0..MaxStops
      /\ UNCHANGED <<applied, cur, outcome>>
  BY InvTypes DEF RereadInstanceId, counters
<1>2. OnlyMoves(s) /\ pc[s] = "rereadId" /\ pc'[s] = "serving" /\ id'[s] = instance
  BY InvTypes DEF RereadInstanceId, Goto, OnlyMoves, LocalTypes, PcStates, TypeOK
<1>3. Sound(s)'
  BY <1>1, <1>2, InvIsSound DEF Sound, Migrating, Migrated, database
<1> QED
  BY <1>1, <1>2, <1>3, LocalStep

LEMMA EndStep ==
  ASSUME StartupInv, NEW s \in Servers, Fail(s) \/ Shutdown(s)
  PROVE  StartupInv'
<1>1. UNCHANGED database /\ faults' \in 0..MaxFaults /\ stops' \in 0..MaxStops
  BY InvTypes, BuildAssumption DEF Fail, Shutdown, database
<1> QED
  BY <1>1, ExitStep DEF Fail, Shutdown, Outcomes

-----------------------------------------------------------------------------
(* The two commits.                                                        *)

LEMMA CommitIdStep ==
  ASSUME StartupInv, NEW s \in Servers, CommitInstanceId(s)
  PROVE  StartupInv'
<1> USE BuildAssumption
<1>1. /\ schema' = schema /\ ledger' = ledger
      /\ faults' \in 0..MaxFaults /\ stops' \in 0..MaxStops
  BY InvTypes DEF CommitInstanceId
<1>2. id[s] # None
  BY InvIsSound DEF CommitInstanceId, Sound
<1>3. /\ instance' # None /\ instance' \in Ids
      /\ instance # None => instance' = instance
  BY <1>2, InvTypes DEF CommitInstanceId, TypeOK
<1>4. /\ OnlyMoves(s)
      /\ \/ pc'[s] = "rereadId" /\ applied'[s] = applied[s]
         \/ pc'[s] = "down" /\ applied'[s] = {}
  <2>1. CASE Exit(s, "error")
    BY <2>1, InvTypes, ExitFacts DEF Outcomes
  <2>2. CASE Goto(s, "commitId", "rereadId") /\ UNCHANGED <<applied, cur, id, outcome>>
    BY <2>2, InvTypes DEF Goto, OnlyMoves, LocalTypes, PcStates
  <2> QED
    BY <2>1, <2>2 DEF CommitInstanceId
<1>5. LedgerIsSchema' /\ SchemaIsPrefix'
  BY <1>1, <1>3, <1>4 DEF StartupInv, LedgerIsSchema, SchemaIsPrefix, TypeOK, InLedger,
                          OnlyMoves, LocalTypes
<1>6. NoSharedCreation'
  BY <1>4, InvIsSound DEF OnlyMoves, NoSharedCreation, Creating
<1>7. ASSUME NEW t \in Servers PROVE Sound(t)'
  <2>1. Sound(t)
    BY InvIsSound
  <2>2. CASE t = s
    <3>1. pc[s] = "commitId"
      BY DEF CommitInstanceId
    <3> QED
      BY <1>1, <1>3, <1>4, <2>1, <2>2, <3>1 DEF Sound, Migrating, Migrated
  <2>3. CASE t # s
    <3>1. pc'[t] = pc[t] /\ applied'[t] = applied[t] /\ cur'[t] = cur[t] /\ id'[t] = id[t]
      BY <1>4, <2>3 DEF OnlyMoves
    <3> QED
      BY <1>1, <1>3, <2>1, <3>1 DEF Sound
  <2> QED
    BY <2>2, <2>3
<1> QED
  BY <1>5, <1>6, <1>7, InvIsSound

LEMMA CommitStep ==
  ASSUME StartupInv, NEW s \in Servers, CommitMigration(s)
  PROVE  StartupInv'
<1> USE BuildAssumption
<1> DEFINE v == cur[s]
           done == applied[s] \cup {v}
<1>1. /\ schema' = schema \cup {v}
      /\ ledger' = [ledger EXCEPT ![v] = Checksum(s, v)]
      /\ instance' = instance
      /\ faults' \in 0..MaxFaults /\ stops' \in 0..MaxStops
      /\ pc[s] = "commit"
  BY InvTypes DEF CommitMigration
<1>2. /\ v \in 1..Build[s] /\ v \in Versions /\ v \notin schema
      /\ \A u \in 1..Build[s] : u < v => u \in applied[s]
      /\ \A u \in applied[s] :
           u \in 1..Build[s] /\ u \in schema /\ ledger[u] = Checksum(s, u)
  BY <1>1, InvIsSound, EmbeddedAreVersions DEF Sound, Migrating
<1>3. /\ ledger' \in [Versions -> {None, "original", "edited"}]
      /\ ledger'[v] = Checksum(s, v) /\ ledger'[v] # None
      /\ \A u \in Versions \ {v} : ledger'[u] = ledger[u]
  BY <1>1, <1>2, InvTypes DEF TypeOK, Checksum
<1>4. /\ OnlyMoves(s)
      /\ \/ /\ applied'[s] = done
            /\ \/ /\ pc'[s] = "ddl" /\ cur'[s] \in 1..Build[s]
                  /\ \A u \in 1..Build[s] : u < cur'[s] => u \in done
               \/ pc'[s] = "getId" /\ \A u \in 1..Build[s] : u \in done
         \/ pc'[s] = "down" /\ applied'[s] = {}
  <2>1. CASE ContinueFrom(s, done)
    <3>1. done \subseteq 1..Build[s]
      BY <1>2
    <3> QED
      BY <2>1, <3>1, InvTypes, ContinueFacts
  <2>2. ASSUME NEW how \in Outcomes, Exit(s, how)
        PROVE  OnlyMoves(s) /\ pc'[s] = "down" /\ applied'[s] = {}
    BY <2>2, InvTypes, ExitFacts
  <2> QED
    BY <2>1, <2>2 DEF CommitMigration, FinishMigrating, Outcomes
<1>5. LedgerIsSchema'
  <2>1. TypeOK'
    BY <1>1, <1>2, <1>3, <1>4, InvTypes DEF TypeOK, OnlyMoves, LocalTypes
  <2>2. schema' = InLedger'
    BY <1>1, <1>2, <1>3 DEF StartupInv, LedgerIsSchema, InLedger
  <2>3. ASSUME NEW u \in schema' PROVE 1..u \subseteq schema'
    <3>1. CASE u = v
      BY <1>1, <1>2, <3>1
    <3>2. CASE u \in schema
      BY <1>1, <3>2 DEF StartupInv, LedgerIsSchema
    <3> QED
      BY <1>1, <3>1, <3>2
  <2> QED
    BY <2>1, <2>2, <2>3 DEF LedgerIsSchema
<1>6. NoSharedCreation'
  BY <1>4, InvIsSound DEF OnlyMoves, NoSharedCreation, Creating
<1>7. ASSUME NEW t \in Servers PROVE Sound(t)'
  <2>1. Sound(t)
    BY InvIsSound
  <2>2. \A u \in schema : u \in Versions \ {v}
    BY <1>2, InvTypes DEF TypeOK
  <2>3. CASE t = s
    BY <1>1, <1>2, <1>3, <1>4, <2>2, <2>3 DEF Sound, Migrating, Migrated
  <2>4. CASE t # s
    <3>1. pc'[t] = pc[t] /\ applied'[t] = applied[t] /\ cur'[t] = cur[t] /\ id'[t] = id[t]
      BY <1>4, <2>4 DEF OnlyMoves
    <3>2. pc[t] \in {"record", "commit"} => cur[t] # v
      BY <1>1, <2>4, InvIsSound DEF NoSharedCreation, Creating
    <3> QED
      BY <1>1, <1>3, <2>1, <2>2, <3>1, <3>2 DEF Sound
  <2> QED
    BY <2>3, <2>4
<1>8. SchemaIsPrefix'
  <2>1. PICK n \in Nat : schema = 1..n
    BY DEF StartupInv, SchemaIsPrefix
  <2>2. \A u \in 1..Build[s] : u < v => u \in schema
    BY <1>2
  <2>3. v = n + 1
    <3>1. v \in Nat /\ v > n
      BY <1>2, <2>1
    <3>2. n + 1 < v => n + 1 \in 1..Build[s]
      BY <1>2, <3>1
    <3> QED
      BY <2>1, <2>2, <3>1, <3>2
  <2>4. schema' = 1..(n + 1)
    BY <1>1, <2>1, <2>3
  <2> QED
    BY <2>4 DEF SchemaIsPrefix
<1> QED
  BY <1>5, <1>6, <1>7, <1>8, InvIsSound

-----------------------------------------------------------------------------
(* Whatever the builds of the servers, however many start at once and      *)
(* wherever they fail: ledger and schema agree, what a server has read     *)
(* once stays true, and no two transactions create the same tables.        *)
THEOREM StartupInvariance == Spec => []StartupInv
<1>1. StartupInv /\ [Next]_vars => StartupInv'
  <2> SUFFICES ASSUME StartupInv, [Next]_vars PROVE StartupInv'
    OBVIOUS
  <2>1. CASE UNCHANGED vars
    BY <2>1 DEF vars, StartupInv, LedgerIsSchema, SchemaIsPrefix, TypeOK, InLedger,
                ReadsHold, MigrationsInOrder, Identified, OneIdentity, Creating
  <2>2. ASSUME NEW s \in Servers, Step(s) \/ Fail(s) \/ Shutdown(s) PROVE StartupInv'
    BY <2>2, LaunchStep, ReadStep, RunStep, RecordStep, CommitStep, GetIdStep,
       InsertIdStep, CommitIdStep, RereadStep, EndStep DEF Step
  <2> QED
    BY <2>1, <2>2 DEF Next
<1> QED
  BY <1>1, InitInv, PTL DEF Spec

(* Migrate and InstanceID keep their promises for any servers: the ledger  *)
(* describes the schema, a serving process runs on the migrations it       *)
(* embeds and under the one identity, and a probe that says "ok" means     *)
(* that the schema is exactly the one of its build.                        *)
THEOREM StartupSafety ==
  Spec => [](LedgerIsSchema /\ ServesWhatItEmbeds /\ OneIdentity /\ HealthyMeansCurrent)
<1>1. StartupInv => ServesWhatItEmbeds
  BY DEF StartupInv, ReadsHold, MigrationsInOrder, ServesWhatItEmbeds, Migrated
<1>2. StartupInv => HealthyMeansCurrent
  <2> SUFFICES ASSUME StartupInv, NEW s \in Servers, pc[s] = "serving",
                      CheckDatabase(s) = "ok"
               PROVE  /\ schema = 1..Build[s]
                      /\ \A v \in schema : ledger[v] = Checksum(s, v)
    BY DEF HealthyMeansCurrent
  <2> USE BuildAssumption
  <2>1. SchemaVersion = Build[s]
    BY DEF CheckDatabase
  <2>2. \A v \in 1..Build[s] : v \in schema /\ ledger[v] = Checksum(s, v)
    BY <1>1 DEF ServesWhatItEmbeds
  <2>3. PICK n \in Nat : InLedger = 1..n /\ schema = 1..n
    BY DEF StartupInv, LedgerIsSchema, SchemaIsPrefix
  <2>4. Build[s] \in InLedger
    BY <2>2, <2>3
  <2>5. SchemaVersion = n
    <3>1. n \in InLedger /\ \A u \in InLedger : u <= n
      BY <2>3, <2>4
    <3>2. \A v \in InLedger : (\A u \in InLedger : u <= v) => v = n
      BY <2>3, <3>1
    <3> QED
      BY <3>1, <3>2 DEF SchemaVersion
  <2> QED
    BY <2>1, <2>2, <2>3, <2>5
<1> QED
  BY <1>1, <1>2, StartupInvariance, PTL DEF StartupInv
=============================================================================
