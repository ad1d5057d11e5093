------------------------------ MODULE Startup -------------------------------
(***************************************************************************)
(* Starting control-plane servers against one database: the migrations of  *)
(* internal/storage/migrate.go, the identity of the deployment             *)
(* (InstanceID in metadata.go), and their order in apps/server/main.go.    *)
(*                                                                         *)
(* Servers may be of different builds, start at the same time, fail at any *)
(* statement and be started again.  Each SQL statement is a step; DDL is   *)
(* transactional, and a statement that creates a table which an open       *)
(* transaction is creating waits for it.  A migration is its version: the  *)
(* tables it creates either exist or do not.                               *)
(***************************************************************************)
EXTENDS Integers, FiniteSets

CONSTANTS
  Servers,      \* server processes
  Build,        \* the newest migration each one embeds; it embeds all older
  Edited,       \* <<server, version>>: the embedded file was changed
  MigrateOnly,  \* servers run with -migrate-only
  Ids,          \* instance identifiers
  MaxFaults,    \* bound on failures and crashes
  MaxStops,     \* bound on orderly shutdowns
  None          \* absent

ASSUME BuildAssumption ==
  /\ Build \in [Servers -> Nat \ {0}]
  /\ Edited \subseteq Servers \X Nat
  /\ MigrateOnly \subseteq Servers
  /\ MaxFaults \in Nat /\ MaxStops \in Nat
  /\ None \notin Ids /\ None \notin {"original", "edited"}

Versions == UNION {1..Build[s] : s \in Servers}

Checksum(s, v) == IF <<s, v>> \in Edited THEN "edited" ELSE "original"

VARIABLES
  schema,    \* the migrations whose tables exist
  ledger,    \* schema_migrations: the checksum recorded for each version
  instance,  \* server_metadata: the value of instance_id
  pc,        \* the statement each server runs next
  applied,   \* Migrate: the versions its reading of the ledger contained
  cur,       \* Migrate: the migration it is applying
  id,        \* InstanceID: its candidate; then the identity it serves under
  outcome,   \* how its last run ended
  faults,    \* failures so far
  stops      \* orderly shutdowns so far

database == <<schema, ledger, instance>>
counters == <<faults, stops>>
vars == <<schema, ledger, instance, pc, applied, cur, id, outcome, faults, stops>>

PcStates == {"down", "read", "ddl", "record", "commit",
             "getId", "insertId", "commitId", "rereadId", "serving"}

Outcomes == {"none", "done", "stopped", "ahead", "modified", "conflict", "error"}

-----------------------------------------------------------------------------
Goto(s, from, to) ==
  /\ pc[s] = from
  /\ pc' = [pc EXCEPT ![s] = to]

\* run returns: the process ends, and an open transaction is rolled back.
Exit(s, how) ==
  /\ pc' = [pc EXCEPT ![s] = "down"]
  /\ applied' = [applied EXCEPT ![s] = {}]
  /\ cur' = [cur EXCEPT ![s] = 0]
  /\ id' = [id EXCEPT ![s] = None]
  /\ outcome' = [outcome EXCEPT ![s] = how]

\* The process starts and opens the database; ensureLedger creates the
\* ledger's table if there is none, which leaves the ledger as it is.  A
\* finished -migrate-only run is not repeated.
Launch(s) ==
  /\ Goto(s, "down", "read")
  /\ outcome[s] # "done"
  /\ outcome' = [outcome EXCEPT ![s] = "none"]
  /\ UNCHANGED <<database, applied, cur, id, counters>>

-----------------------------------------------------------------------------
(* Migrate.                                                                *)

InLedger == {v \in Versions : ledger[v] # None}

\* verifyLedger, in its two refusals.
Ahead(s) == \E v \in InLedger : v > Build[s]
Modified(s) == \E v \in InLedger : v <= Build[s] /\ ledger[v] # Checksum(s, v)

\* The migrations still to apply, going by what the server has read and done.
Pending(s, done) == (1..Build[s]) \ done

\* The next migration to apply, in version order, or whatever follows Migrate.
ContinueFrom(s, done) ==
  /\ applied' = [applied EXCEPT ![s] = done]
  /\ \/ /\ pc' = [pc EXCEPT ![s] = "ddl"]
        /\ \E v \in Pending(s, done) : /\ \A u \in Pending(s, done) : v <= u
                                       /\ cur' = [cur EXCEPT ![s] = v]
        /\ UNCHANGED <<id, outcome>>
     \/ /\ Pending(s, done) = {}
        /\ s \notin MigrateOnly
        /\ pc' = [pc EXCEPT ![s] = "getId"]
        /\ cur' = [cur EXCEPT ![s] = 0]
        /\ UNCHANGED <<id, outcome>>

FinishMigrating(s, done) ==
  /\ Pending(s, done) = {}
  /\ s \in MigrateOnly
  /\ Exit(s, "done")

\* AppliedMigrations and verifyLedger: read and checked once, in version
\* order, so that an edited file is noticed before an unknown version.
ReadLedger(s) ==
  /\ pc[s] = "read"
  /\ \/ /\ ~Ahead(s) /\ ~Modified(s)
        /\ ContinueFrom(s, InLedger) \/ FinishMigrating(s, InLedger)
     \/ /\ Ahead(s) /\ ~Modified(s)
        /\ Exit(s, "ahead")
     \/ /\ Modified(s)
        /\ Exit(s, "modified")
  /\ UNCHANGED <<database, counters>>

\* Another open transaction is creating the tables of this migration.
Creating(t, v) == pc[t] \in {"record", "commit"} /\ cur[t] = v
CreationPending(s) == \E t \in Servers \ {s} : Creating(t, cur[s])

\* Fault: the tables are created IF NOT EXISTS and the ledger row upserted.
RunIfMissing(s) ==
  /\ ~CreationPending(s)
  /\ Goto(s, "ddl", "record")
  /\ UNCHANGED <<database, applied, cur, id, outcome, counters>>

\* Fault: a migration that fails is tried again, and the ledger is not.
RetryBlindly(s) ==
  /\ ~CreationPending(s)
  /\ cur[s] \notin schema
  /\ Goto(s, "ddl", "record")
  /\ UNCHANGED <<database, applied, cur, id, outcome, counters>>

\* applyOne runs the migration's SQL: CREATE TABLE, without IF NOT EXISTS.
RunMigration(s) ==
  /\ pc[s] = "ddl"
  /\ ~CreationPending(s)
  /\ \/ /\ cur[s] \notin schema
        /\ Goto(s, "ddl", "record")
        /\ UNCHANGED <<applied, cur, id, outcome>>
     \/ /\ cur[s] \in schema
        /\ Exit(s, "conflict")
  /\ UNCHANGED <<database, counters>>

\* Fault: the migration is committed before it is recorded.
RecordSeparately(s) ==
  /\ Goto(s, "record", "commit")
  /\ schema' = schema \cup {cur[s]}
  /\ UNCHANGED <<ledger, instance, applied, cur, id, outcome, counters>>

RecordMigration(s) ==
  /\ Goto(s, "record", "commit")
  /\ UNCHANGED <<database, applied, cur, id, outcome, counters>>

\* The commit; its acknowledgement may be lost.
CommitMigration(s) ==
  /\ pc[s] = "commit"
  /\ LET v == cur[s]
         done == applied[s] \cup {v}
     IN  /\ schema' = schema \cup {v}
         /\ ledger' = [ledger EXCEPT ![v] = Checksum(s, v)]
         /\ \/ ContinueFrom(s, done) /\ UNCHANGED faults
            \/ FinishMigrating(s, done) /\ UNCHANGED faults
            \/ /\ faults < MaxFaults
               /\ faults' = faults + 1
               /\ Exit(s, "error")
  /\ UNCHANGED <<instance, stops>>

-----------------------------------------------------------------------------
(* InstanceID.                                                             *)

\* GetMetadata: the identity, or the draw of a candidate.
GetInstanceId(s) ==
  /\ pc[s] = "getId"
  /\ \/ /\ instance # None
        /\ Goto(s, "getId", "serving")
        /\ id' = [id EXCEPT ![s] = instance]
     \/ /\ instance = None
        /\ Goto(s, "getId", "insertId")
        /\ \E i \in Ids : /\ \A t \in Servers : id[t] # i
                          /\ id' = [id EXCEPT ![s] = i]
  /\ UNCHANGED <<database, applied, cur, outcome, counters>>

\* Another open transaction has inserted the row.
InsertPending(s) == instance = None /\ \E t \in Servers \ {s} : pc[t] = "commitId"

\* INSERT ... ON CONFLICT (key) DO NOTHING.
InsertInstanceId(s) ==
  /\ ~InsertPending(s)
  /\ Goto(s, "insertId", "commitId")
  /\ UNCHANGED <<database, applied, cur, id, outcome, counters>>

CommitInstanceId(s) ==
  /\ pc[s] = "commitId"
  /\ instance' = IF instance = None THEN id[s] ELSE instance
  /\ \/ /\ Goto(s, "commitId", "rereadId")
        /\ UNCHANGED <<applied, cur, id, outcome, faults>>
     \/ /\ faults < MaxFaults
        /\ faults' = faults + 1
        /\ Exit(s, "error")
  /\ UNCHANGED <<schema, ledger, stops>>

\* Fault: the server keeps the candidate it drew.
KeepCandidate(s) ==
  /\ Goto(s, "rereadId", "serving")
  /\ UNCHANGED <<database, applied, cur, id, outcome, counters>>

\* The value is read again, whoever inserted it; New and Run follow.
RereadInstanceId(s) ==
  /\ Goto(s, "rereadId", "serving")
  /\ id' = [id EXCEPT ![s] = instance]
  /\ UNCHANGED <<database, applied, cur, outcome, counters>>

-----------------------------------------------------------------------------
(* The readiness and health probes.                                        *)

\* The highest version in the ledger, or zero.
SchemaVersion == IF InLedger = {} THEN 0 ELSE CHOOSE v \in InLedger : \A u \in InLedger : u <= v

\* Fault: only a schema that is behind is reported.
CheckForPending(s) == IF SchemaVersion < Build[s] THEN "degraded" ELSE "ok"

\* checkDatabase, when the database answers in time; it is "down" otherwise.
CheckDatabase(s) == IF SchemaVersion # Build[s] THEN "degraded" ELSE "ok"

-----------------------------------------------------------------------------
\* A statement fails, or the process is killed.
Fail(s) ==
  /\ pc[s] # "down"
  /\ faults < MaxFaults
  /\ faults' = faults + 1
  /\ Exit(s, "error")
  /\ UNCHANGED <<database, stops>>

\* A signal ends a serving process in order.
Shutdown(s) ==
  /\ pc[s] = "serving"
  /\ stops < MaxStops
  /\ stops' = stops + 1
  /\ Exit(s, "stopped")
  /\ UNCHANGED <<database, faults>>

Init ==
  /\ schema = {}
  /\ ledger = [v \in Versions |-> None]
  /\ instance = None
  /\ pc = [s \in Servers |-> "down"]
  /\ applied = [s \in Servers |-> {}]
  /\ cur = [s \in Servers |-> 0]
  /\ id = [s \in Servers |-> None]
  /\ outcome = [s \in Servers |-> "none"]
  /\ faults = 0
  /\ stops = 0

Step(s) ==
  \/ Launch(s) \/ ReadLedger(s)
  \/ RunMigration(s) \/ RecordMigration(s) \/ CommitMigration(s)
  \/ GetInstanceId(s) \/ InsertInstanceId(s) \/ CommitInstanceId(s)
  \/ RereadInstanceId(s)

Next == \E s \in Servers : Step(s) \/ Fail(s) \/ Shutdown(s)

Spec == Init /\ [][Next]_vars

\* A process runs, and is started again when it ends (the deployments shipped
\* with the repository say restart: unless-stopped).  A wait for another
\* transaction may begin anew, so the fairness is strong.
FairSpec == Spec /\ \A s \in Servers : SF_vars(Step(s))

-----------------------------------------------------------------------------
TypeOK ==
  /\ schema \subseteq Versions
  /\ ledger \in [Versions -> {None, "original", "edited"}]
  /\ instance \in Ids \cup {None}
  /\ pc \in [Servers -> PcStates]
  /\ applied \in [Servers -> SUBSET Versions]
  /\ cur \in [Servers -> Versions \cup {0}]
  /\ id \in [Servers -> Ids \cup {None}]
  /\ outcome \in [Servers -> Outcomes]
  /\ faults \in 0..MaxFaults /\ stops \in 0..MaxStops

(* Whatever fails and whenever, the tables that exist are exactly the ones *)
(* the ledger records, and they are those of the first so many migrations: *)
(* no migration is applied before an older one, twice, or unrecorded.      *)
LedgerIsSchema ==
  /\ TypeOK
  /\ schema = InLedger
  /\ \A v \in schema : 1..v \subseteq schema

(* A server that serves has had every migration of its build applied, and  *)
(* applied from the very file it embeds, although it compared the ledger   *)
(* only once, before others may have gone on migrating.                    *)
ServesWhatItEmbeds ==
  \A s \in Servers : pc[s] = "serving" =>
    \A v \in 1..Build[s] : v \in schema /\ ledger[v] = Checksum(s, v)

(* All servers of a database serve under one identity, however many of     *)
(* them start for the first time at once.                                  *)
OneIdentity ==
  \A s \in Servers : pc[s] = "serving" => id[s] = instance /\ instance # None

(* A serving process that reports itself healthy works on exactly the      *)
(* schema of its build: one that another server has moved on from under it *)
(* says so, although it only compares the highest version.                 *)
HealthyMeansCurrent ==
  \A s \in Servers : pc[s] = "serving" /\ CheckDatabase(s) = "ok" =>
    /\ schema = 1..Build[s]
    /\ \A v \in schema : ledger[v] = Checksum(s, v)

(* Servers started against one database all come to serve, or to finish,   *)
(* whatever they do to each other on the way, if a process that fails is   *)
(* started again and failures come to an end: only one whose build the     *)
(* ledger contradicts stays down.                                          *)
EveryServerStarts ==
  \A s \in Servers :
    <>[](\/ IF s \in MigrateOnly THEN outcome[s] = "done" ELSE pc[s] = "serving"
         \/ Ahead(s) \/ Modified(s))
=============================================================================
