------------------------------ MODULE KeyStore ------------------------------
(***************************************************************************)
(* The private key file of a device: Store.LoadOrCreate of                 *)
(* internal/wireguard/keystore.go, with the file operations of             *)
(* keystore_unix.go and keystore_windows.go.                               *)
(*                                                                         *)
(* Several daemons start on one machine.  Each file operation is a step and *)
(* may fail; a process may die between two of them, and the machine may    *)
(* lose power.  Syncing a file saves its content and not the entry that    *)
(* leads to it: nothing syncs the directory, so a power loss may leave the *)
(* path as it was at any time since the last one.  An operator may remove  *)
(* or replace the file and change permissions, though not while a daemon   *)
(* is creating a key.                                                      *)
(*                                                                         *)
(* A file is named by the key it is made for: the path leads to a file, and *)
(* a handle stays with its file when the path comes to lead elsewhere.     *)
(***************************************************************************)
EXTENDS Naturals, FiniteSets

CONSTANTS
  Daemons,      \* processes that call LoadOrCreate
  Generated,    \* keys GenerateKey can draw
  Foreign,      \* keys in files that come from elsewhere, a backup or a link; a
                \* key that nothing refers to any more stands for a new one
  Platforms,    \* subset of {"unix", "windows"}
  Settings,     \* protections an operator can give a file or a directory
  Inherited,    \* protections a new directory can have on Windows
  MaxIOErrors,  \* bound on file operations that fail
  MaxCrashes,   \* bound on processes that die and on power losses
  MaxEdits,     \* bound on what the operator does
  None          \* absent

Keys == Generated \cup Foreign

\* Who a file belongs to and who its entries name.  LocalSystem and the
\* Administrators group are trusted.
Accounts == {"self", "administrators", "stranger"}

\* What an entry of an access control list is; on Unix only "allow" exists,
\* and stands for a permission bit of the group or of others.
EntryTypes == {"allow", "allowCallback", "allowObject", "deny", "denyObject"}
Entry == [type : EntryTypes, who : Accounts, right : {"read", "write"}]

\* A link is a symbolic link or a reparse point.
Protection ==
  [kind : {"regular", "link"}, owner : Accounts, nullDacl : BOOLEAN,
   entries : SUBSET Entry]

Private == [kind |-> "regular", owner |-> "self", nullDacl |-> FALSE, entries |-> {}]

ASSUME KeyStoreAssumption ==
  /\ Generated \cap Foreign = {} /\ None \notin Keys /\ None \notin Protection
  /\ Platforms \subseteq {"unix", "windows"}
  /\ Settings \subseteq Protection /\ Inherited \subseteq Protection
  /\ {MaxIOErrors, MaxCrashes, MaxEdits} \subseteq Nat

VARIABLES
  platform,  \* the build that runs
  path,      \* the file at the key's path, or None
  dir,       \* the protection of the state directory; None if it is missing
  guard,     \* the protection of each file
  whole,     \* the files that contain a complete key
  synced,    \* the files whose content survives a power loss
  lingering, \* what the path may lead to after a power loss
  rooted,    \* a power loss does not cost the state directory itself
  pc,        \* the file operation each daemon does next
  mine,      \* the key it is saving; None while it loads
  handle,    \* the file it has open for reading
  got,       \* the key LoadOrCreate returned to it
  created,   \* history: the key the last successful creation returned, until
             \* the operator or a power loss takes its entry away
  ioErrors, crashes, edits   \* what has happened so far

disk == <<path, dir, guard, whole, synced, lingering, rooted>>
bounds == <<ioErrors, crashes, edits>>
vars == <<platform, path, dir, guard, whole, synced, lingering, rooted,
          pc, mine, handle, got, created, ioErrors, crashes, edits>>

PcStates == {"off", "stateDir", "open", "verify", "read", "mkdir", "restrictDir",
             "create", "write", "sync", "close", "restrict", "finish", "remove", "on"}

\* A daemon that is inside save.
Saving(d) == mine[d] # None

\* Keys that are neither on disk nor in any process.
Unused ==
  {k \in Keys \ ({path} \cup lingering) :
     \A d \in Daemons : k \notin {mine[d], handle[d], got[d]}}

Fresh == Unused \cap Generated

-----------------------------------------------------------------------------
(* Judging the protection of a file or of the directory.                   *)

Trusted == IF platform = "windows" THEN {"self", "administrators"} ELSE {"self"}

\* Fault: every entry that is not a plain allow entry counts as a denial.
DispositionOfPlain(type) == IF type = "allow" THEN "grants" ELSE "denies"

DispositionOf(type) ==
  CASE type \in {"allow", "allowCallback"} -> "grants"
    [] type \in {"deny", "denyObject"}     -> "denies"
    [] OTHER                               -> "unknown"

\* The owner, a missing list, then every entry; what cannot be read is refused.
VerifyHandleSecurity(p) ==
  /\ p.owner \in Trusted
  /\ ~p.nullDacl
  /\ \A e \in p.entries :
       \/ DispositionOf(e.type) = "denies"
       \/ DispositionOf(e.type) = "grants" /\ e.who \in Trusted

VerifyOpenKeyFile(p) ==
  /\ p.kind = "regular"
  /\ \/ platform = "windows" /\ VerifyHandleSecurity(p)
     \/ platform = "unix" /\ p.owner = "self" /\ p.entries = {}

\* On Unix only the write bits of the directory count.
VerifyStateDir(p) ==
  \/ platform = "windows" /\ VerifyHandleSecurity(p)
  \/ /\ platform = "unix" /\ p.owner = "self"
     /\ \A e \in p.entries : e.right # "write"

-----------------------------------------------------------------------------
Goto(d, to) == pc' = [pc EXCEPT ![d] = to]

\* LoadOrCreate returns k, or None with an error.  Handles are closed.
Return(d, k) ==
  /\ pc' = [pc EXCEPT ![d] = IF k = None THEN "off" ELSE "on"]
  /\ got' = [got EXCEPT ![d] = k]
  /\ mine' = [mine EXCEPT ![d] = None]
  /\ handle' = [handle EXCEPT ![d] = None]

\* What fails before the file is opened again ends Load; in save, the file it
\* wrote is removed first.
Refuse(d) ==
  \/ /\ Saving(d)
     /\ pc' = [pc EXCEPT ![d] = "remove"]
     /\ handle' = [handle EXCEPT ![d] = None]
     /\ UNCHANGED <<mine, got>>
  \/ ~Saving(d) /\ Return(d, None)

\* ErrNotExist: Load says ErrNoKey and LoadOrCreate goes on to Create.
Missing(d) ==
  IF Saving(d) THEN Refuse(d)
               ELSE Goto(d, "mkdir") /\ UNCHANGED <<mine, handle, got>>

Start(d) ==
  /\ pc[d] = "off"
  /\ Goto(d, "stateDir")
  /\ UNCHANGED <<platform, disk, mine, handle, got, created, bounds>>

\* openKeyFile, as Load and, to check what it has written, save call it.
CheckStateDir(d) ==
  /\ pc[d] = "stateDir"
  /\ \/ dir = None /\ Missing(d)
     \/ dir # None /\ ~VerifyStateDir(dir) /\ Refuse(d)
     \/ /\ dir # None /\ VerifyStateDir(dir)
        /\ Goto(d, "open")
        /\ UNCHANGED <<mine, handle, got>>
  /\ UNCHANGED <<platform, disk, created, bounds>>

\* Windows refuses to share a file that another process has open for writing.
Writing(d) == pc[d] \in {"write", "sync", "close"}
SharingViolation ==
  platform = "windows" /\ \E d \in Daemons : Writing(d) /\ path = mine[d]

\* O_NOFOLLOW refuses a link; on Windows the link itself is opened.
OpenKeyFile(d) ==
  /\ pc[d] = "open"
  /\ \/ path = None /\ Missing(d)
     \/ /\ path # None
        /\ SharingViolation \/ (platform = "unix" /\ guard[path].kind = "link")
        /\ Refuse(d)
     \/ /\ path # None
        /\ ~SharingViolation
        /\ ~(platform = "unix" /\ guard[path].kind = "link")
        /\ handle' = [handle EXCEPT ![d] = path]
        /\ Goto(d, "verify")
        /\ UNCHANGED <<mine, got>>
  /\ UNCHANGED <<platform, disk, created, bounds>>

\* Every check is made on the handle.
VerifyHandle(d) ==
  /\ pc[d] = "verify"
  /\ \/ ~VerifyOpenKeyFile(guard[handle[d]]) /\ Refuse(d)
     \/ /\ VerifyOpenKeyFile(guard[handle[d]])
        /\ Goto(d, IF Saving(d) THEN "finish" ELSE "read")
        /\ UNCHANGED <<mine, handle, got>>
  /\ UNCHANGED <<platform, disk, created, bounds>>

\* Fault: the file is checked by its handle and then read by its path.
ReadByPath(d) ==
  /\ pc[d] = "read"
  /\ Return(d, IF path \in whole THEN path ELSE None)
  /\ UNCHANGED <<platform, disk, created, bounds>>

\* The content, read through the handle; ParsePrivateKey refuses what is not
\* a complete key.
ReadKey(d) ==
  /\ pc[d] = "read"
  /\ Return(d, IF handle[d] \in whole THEN handle[d] ELSE None)
  /\ UNCHANGED <<platform, disk, created, bounds>>

-----------------------------------------------------------------------------
(* Create and save.                                                        *)

\* GenerateKey, and MkdirAll of createStateDir, which leaves an existing
\* directory alone.  On Windows a new one inherits the list of its parent.
MakeStateDir(d) ==
  /\ pc[d] = "mkdir"
  /\ Fresh # {}
  /\ LET k == CHOOSE k \in Fresh : TRUE
     IN  /\ mine' = [mine EXCEPT ![d] = k]
         /\ whole' = whole \ {k}
         /\ synced' = synced \ {k}
  /\ \/ dir # None /\ UNCHANGED dir
     \/ dir = None /\ dir' \in (IF platform = "windows" THEN Inherited ELSE {Private})
  /\ Goto(d, "restrictDir")
  /\ UNCHANGED <<platform, path, guard, lingering, rooted, handle, got, created, bounds>>

\* chmod takes the bits of others away; restrictToCurrentUser also takes the
\* ownership.
Restricted(p) ==
  IF platform = "windows" THEN [Private EXCEPT !.kind = p.kind]
                          ELSE [p EXCEPT !.entries = {}]

\* The second half of createStateDir, also for a directory that existed.  Who
\* does not own it may be refused.
RestrictStateDir(d) ==
  /\ pc[d] = "restrictDir"
  /\ \/ /\ dir' = Restricted(dir)
        /\ Goto(d, "create")
        /\ UNCHANGED <<mine, handle, got>>
     \/ /\ dir.owner \notin Trusted
        /\ Return(d, None)
        /\ UNCHANGED dir
  /\ UNCHANGED <<platform, path, guard, whole, synced, lingering, rooted, created, bounds>>

\* Fault: the file is created without O_EXCL.
CreateOrTruncate(d) ==
  /\ pc[d] = "create"
  /\ path' = mine[d]
  /\ lingering' = lingering \cup {path'}
  /\ Goto(d, "write")
  /\ UNCHANGED <<platform, dir, guard, whole, synced, rooted, mine, handle, got,
                 created, bounds>>

\* O_CREATE with O_EXCL: ErrKeyExists if the path leads to anything.  On
\* Windows the new file has the list of the directory.
CreateFile(d) ==
  /\ pc[d] = "create"
  /\ \/ /\ path = None
        /\ path' = mine[d]
        /\ lingering' = lingering \cup {path'}
        /\ guard' = [guard EXCEPT ![mine[d]] =
                        IF platform = "windows" THEN [dir EXCEPT !.owner = "self"]
                                                ELSE Private]
        /\ Goto(d, "write")
        /\ UNCHANGED <<mine, handle, got>>
     \/ /\ path # None
        /\ Return(d, None)
        /\ UNCHANGED <<path, lingering, guard>>
  /\ UNCHANGED <<platform, dir, whole, synced, rooted, created, bounds>>

WriteKey(d) ==
  /\ pc[d] = "write"
  /\ whole' = whole \cup {mine[d]}
  /\ Goto(d, "sync")
  /\ UNCHANGED <<platform, path, dir, guard, synced, lingering, rooted, mine, handle, got,
                 created, bounds>>

\* Fault: the file is not synced.
SyncNothing(d) ==
  /\ pc[d] = "sync"
  /\ Goto(d, "close")
  /\ UNCHANGED <<platform, disk, mine, handle, got, created, bounds>>

\* f.Sync: the content, and not the entry in the directory.
SyncKey(d) ==
  /\ pc[d] = "sync"
  /\ synced' = synced \cup {mine[d]}
  /\ Goto(d, "close")
  /\ UNCHANGED <<platform, path, dir, guard, whole, lingering, rooted, mine, handle, got,
                 created, bounds>>

CloseKey(d) ==
  /\ pc[d] = "close"
  /\ Goto(d, "restrict")
  /\ UNCHANGED <<platform, disk, mine, handle, got, created, bounds>>

\* restrictKeyFile, by path; then the file is opened and checked as Load does.
RestrictKey(d) ==
  /\ pc[d] = "restrict"
  /\ guard' = [guard EXCEPT ![path] = Restricted(@)]
  /\ Goto(d, "stateDir")
  /\ UNCHANGED <<platform, path, dir, whole, synced, lingering, rooted, mine, handle, got,
                 created, bounds>>

FinishCreate(d) ==
  /\ pc[d] = "finish"
  /\ created' = mine[d]
  /\ Return(d, mine[d])
  /\ UNCHANGED <<platform, disk, bounds>>

\* Windows does not remove a file that someone reads.
Held(d) == platform = "windows" /\ \E e \in Daemons \ {d} : path # None /\ handle[e] = path

\* Fault: a failed creation leaves its file behind.
LeaveFile(d) ==
  /\ pc[d] = "remove"
  /\ Return(d, None)
  /\ UNCHANGED <<platform, disk, created, bounds>>

\* os.Remove(s.path), whose error is ignored.
RemoveKey(d) ==
  /\ pc[d] = "remove"
  /\ path' = IF Held(d) THEN path ELSE None
  /\ lingering' = lingering \cup {path'}
  /\ Return(d, None)
  /\ UNCHANGED <<platform, dir, guard, whole, synced, rooted, created, bounds>>

-----------------------------------------------------------------------------
(* Failures.                                                               *)

\* The operation fails.  Before save has a file an error is simply returned,
\* and so it is when the last handle cannot be closed; from Write on the file
\* is removed.  A write that fails may have left a part of the key.
IOError(d) ==
  /\ ioErrors < MaxIOErrors
  /\ ioErrors' = ioErrors + 1
  /\ \/ /\ pc[d] \in {"stateDir", "open", "verify", "write", "sync", "close", "restrict"}
        /\ Refuse(d)
     \/ /\ pc[d] \in {"read", "mkdir", "restrictDir", "create", "finish", "remove"}
        /\ Return(d, None)
  /\ UNCHANGED <<platform, disk, created, crashes, edits>>

\* The process dies; the kernel closes its handles.
Crash(d) ==
  /\ pc[d] # "off"
  /\ crashes < MaxCrashes
  /\ crashes' = crashes + 1
  /\ Return(d, None)
  /\ UNCHANGED <<platform, disk, created, ioErrors, edits>>

\* The machine stops.  The path leads to what it led to at some time since
\* the last power loss, or the directory is gone with all it held; content
\* that was not synced may be there in full or not.  What comes back stays,
\* and a file nothing leads to is gone.
PowerLoss ==
  /\ crashes < MaxCrashes
  /\ crashes' = crashes + 1
  /\ \/ /\ path' \in lingering
        /\ rooted' = (dir # None)
        /\ UNCHANGED dir
     \/ /\ ~rooted
        /\ path' = None /\ dir' = None
        /\ UNCHANGED rooted
  /\ lingering' = {path'}
  /\ \E kept \in {{}, {path'}} :
       whole' = Foreign \cup (whole \cap {path'} \cap (synced \cup kept))
  /\ synced' = synced \cap {path'}
  /\ guard' = [k \in Keys |-> IF k = path' THEN guard[k] ELSE Private]
  /\ created' = IF path' = created THEN created ELSE None
  /\ pc' = [d \in Daemons |-> "off"]
  /\ mine' = [d \in Daemons |-> None]
  /\ handle' = [d \in Daemons |-> None]
  /\ got' = [d \in Daemons |-> None]
  /\ UNCHANGED <<platform, ioErrors, edits>>

-----------------------------------------------------------------------------
(* The operator.                                                           *)

Edit == edits < MaxEdits /\ edits' = edits + 1

\* On Unix only permission bits and the owner can be set.
Settable(p) ==
  platform = "unix" => ~p.nullDacl /\ \A e \in p.entries : e.type = "allow"

\* The file is removed, as the error messages advise, or replaced by another.
ReplaceFile ==
  /\ Edit
  /\ \A d \in Daemons : ~Saving(d)
  /\ path # None
  /\ \/ path' = None /\ UNCHANGED guard
     \/ \E p \in Settings :
          /\ Settable(p)
          /\ path' \in Unused \cap Foreign
          /\ guard' = [guard EXCEPT ![path'] = p]
  /\ lingering' = lingering \cup {path'}
  /\ created' = None
  /\ UNCHANGED <<platform, dir, whole, synced, rooted, pc, mine, handle, got,
                 ioErrors, crashes>>

ProtectFile ==
  /\ Edit
  /\ path \in Generated
  /\ \E p \in Settings : /\ p.kind = "regular" /\ Settable(p)
                         /\ guard' = [guard EXCEPT ![path] = p]
  /\ UNCHANGED <<platform, path, dir, whole, synced, lingering, rooted, pc, mine, handle,
                 got, created, ioErrors, crashes>>

ProtectDir ==
  /\ Edit
  /\ dir # None
  /\ \E p \in Settings : p.kind = "regular" /\ Settable(p) /\ dir' = p
  /\ UNCHANGED <<platform, path, guard, whole, synced, lingering, rooted, pc, mine, handle,
                 got, created, ioErrors, crashes>>

\* A first start.
Init ==
  /\ platform \in Platforms
  /\ path = None
  /\ dir \in {None, Private}
  /\ guard = [k \in Keys |-> Private]
  /\ whole = Foreign
  /\ synced = {}
  /\ lingering = {None} /\ rooted = (dir # None)
  /\ pc = [d \in Daemons |-> "off"]
  /\ mine = [d \in Daemons |-> None]
  /\ handle = [d \in Daemons |-> None]
  /\ got = [d \in Daemons |-> None]
  /\ created = None
  /\ ioErrors = 0 /\ crashes = 0 /\ edits = 0

Step(d) ==
  \/ Start(d) \/ CheckStateDir(d) \/ OpenKeyFile(d) \/ VerifyHandle(d) \/ ReadKey(d)
  \/ MakeStateDir(d) \/ RestrictStateDir(d) \/ CreateFile(d) \/ WriteKey(d)
  \/ SyncKey(d) \/ CloseKey(d) \/ RestrictKey(d) \/ FinishCreate(d) \/ RemoveKey(d)

Next ==
  \/ \E d \in Daemons : Step(d) \/ IOError(d) \/ Crash(d)
  \/ PowerLoss \/ ReplaceFile \/ ProtectFile \/ ProtectDir

Spec == Init /\ [][Next]_vars

\* A daemon runs, and its service manager starts it again while it has no key.
FairSpec == Spec /\ \A d \in Daemons : WF_vars(Step(d))

-----------------------------------------------------------------------------
(* The types; a daemon has a file open only between opening and reading or *)
(* refusing it, and a key exactly while it runs.                           *)
TypeOK ==
  /\ platform \in Platforms
  /\ path \in Keys \cup {None} /\ dir \in Protection \cup {None}
  /\ guard \in [Keys -> Protection]
  /\ whole \subseteq Keys /\ synced \subseteq Generated
  /\ lingering \subseteq Keys \cup {None} /\ rooted \in BOOLEAN
  /\ pc \in [Daemons -> PcStates]
  /\ mine \in [Daemons -> Generated \cup {None}]
  /\ handle \in [Daemons -> Keys \cup {None}]
  /\ got \in [Daemons -> Keys \cup {None}]
  /\ created \in Generated \cup {None}
  /\ \A d \in Daemons :
       /\ handle[d] # None <=> pc[d] \in {"verify", "read", "finish"}
       /\ got[d] # None <=> pc[d] = "on"
  /\ ioErrors \in 0..MaxIOErrors /\ crashes \in 0..MaxCrashes /\ edits \in 0..MaxEdits

(* Once a creation has been reported as successful its key stays at the    *)
(* path, complete: no other daemon that starts, fails and cleans up takes  *)
(* the device's identity away or replaces it.  The operator can; and so    *)
(* can a power loss, since save does not sync the directory, but where the *)
(* path still leads to the file afterwards, the key in it is complete.     *)
CreatedKeyStays ==
  /\ TypeOK
  /\ created # None => path = created /\ created \in whole

(* What the platform would in fact let another account do to the file.     *)
OthersReach(p) ==
  \/ p.kind = "link" \/ p.owner \notin Trusted \/ p.nullDacl
  \/ \E e \in p.entries : /\ e.type \in {"allow", "allowCallback", "allowObject"}
                          /\ e.who \notin Trusted

(* A daemon never runs with the key of a file that others could reach,     *)
(* whatever was put in place of the key file between the check and the     *)
(* reading: openKeyFile returns the handle it has checked.                 *)
ExposedKeyIsNotUsed ==
  \A d \in Daemons : got[d] \in Foreign => ~OthersReach(guard[got[d]])

(* Of any number of daemons that find no key and start to create one, at   *)
(* most one is told that it has: no creation succeeds after another one,   *)
(* until the operator or a power loss has taken its key away.              *)
OneCreation ==
  [][\A d \in Daemons : pc[d] = "finish" /\ pc'[d] = "on" => created = None]_vars

\* The path holds something no start will accept or replace.
Unusable ==
  \/ dir # None /\ ~VerifyStateDir(dir)
  \/ path # None /\ (path \notin whole \/ ~VerifyOpenKeyFile(guard[path]))

\* More than a single failed operation has happened; on Windows one is enough,
\* because the removal fails while another daemon reads the file.
Damaged ==
  \/ crashes > 0 \/ edits > 0 \/ ioErrors > 1
  \/ platform = "windows" /\ ioErrors > 0

(* Once failures have ended every daemon comes to run with a key: daemons  *)
(* that started together do not keep failing because of each other, and an *)
(* operation that fails leaves nothing in the way of the next start.  Only *)
(* after a crash, an operator's change or a failed removal may the path    *)
(* hold a file that every start refuses.                                   *)
EveryDaemonGetsAKey ==
  \A d \in Daemons : <>[](pc[d] = "on" \/ (Unusable /\ Damaged))

(* The comment in save: "Leaving a truncated key file behind would make    *)
(* the next start fail with a parse error instead of enrolling, so clear   *)
(* it away."                                                               *)
NextStartEnrols == \A d \in Daemons : <>[](pc[d] = "on")
=============================================================================
