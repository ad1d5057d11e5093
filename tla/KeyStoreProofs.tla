--------------------------- MODULE KeyStoreProofs ---------------------------
(***************************************************************************)
(* Proofs about KeyStore, for any daemons, keys and protections.           *)
(*                                                                         *)
(* A daemon owns the path from the creation of its file until save ends:   *)
(* no other daemon owns it then, and no creation counts as successful.     *)
(***************************************************************************)
EXTENDS KeyStore, TLAPS

\* Before save has a file.
Preparing == {"restrictDir", "create"}

OnlySaving ==
  Preparing \cup {"write", "sync", "close", "restrict", "finish", "remove"}

SavingStates == OnlySaving \cup {"stateDir", "open", "verify"}

Owns(d) == mine[d] # None /\ pc[d] \notin Preparing

Sound(d) ==
  /\ mine[d] # None => pc[d] \in SavingStates
  /\ pc[d] \in OnlySaving => mine[d] # None
  /\ pc[d] \in Preparing => dir # None
  /\ Owns(d) => path = mine[d] /\ created = None
  /\ Owns(d) /\ pc[d] \notin {"write", "remove"} => pc[d] = "sync" \/ mine[d] \in synced
  /\ Owns(d) /\ pc[d] \notin {"write", "remove"} => mine[d] \in whole
  /\ pc[d] = "read" /\ handle[d] \in Foreign => VerifyOpenKeyFile(guard[handle[d]])
  /\ got[d] \in Foreign => VerifyOpenKeyFile(guard[got[d]])

\* No key is drawn twice.
DistinctKeys == \A d, e \in Daemons : d # e /\ mine[d] # None => mine[d] # mine[e]

CreatedIsSafe ==
  created # None => path = created /\ created \in whole /\ created \in synced

\* Files from elsewhere have protections the platform can express.
ForeignGuards == \A k \in Foreign : Settable(guard[k])

KeyInv ==
  /\ TypeOK /\ DistinctKeys /\ CreatedIsSafe /\ ForeignGuards
  /\ \A d \in Daemons : Sound(d)

-----------------------------------------------------------------------------
LEMMA PrivateIsProtection == Private \in Protection
  BY DEF Private, Protection, Accounts

LEMMA RestrictedIsProtection ==
  ASSUME NEW p \in Protection
  PROVE  Restricted(p) \in Protection
  BY PrivateIsProtection DEF Restricted, Private, Protection

LEMMA InitInv == Init => KeyInv
<1> SUFFICES ASSUME Init PROVE KeyInv
  OBVIOUS
<1> USE KeyStoreAssumption, PrivateIsProtection
<1>2. guard \in [Keys -> Protection] /\ ForeignGuards
  BY DEF Init, Keys, ForeignGuards, Settable, Private
<1>3. TypeOK
  BY <1>2 DEF Init, TypeOK, PcStates, Keys
<1> QED
  BY <1>2, <1>3 DEF Init, KeyInv, DistinctKeys, CreatedIsSafe, Sound, Owns, OnlySaving, Preparing, Keys

-----------------------------------------------------------------------------
(* Steps of a daemon.                                                      *)

LocalTypes ==
  /\ pc \in [Daemons -> PcStates]
  /\ mine \in [Daemons -> Generated \cup {None}]
  /\ handle \in [Daemons -> Keys \cup {None}]
  /\ got \in [Daemons -> Keys \cup {None}]
  /\ \A d \in Daemons :
       /\ handle[d] # None <=> pc[d] \in {"verify", "read", "finish"}
       /\ got[d] # None <=> pc[d] = "on"

DiskTypes ==
  /\ path \in Keys \cup {None} /\ dir \in Protection \cup {None}
  /\ guard \in [Keys -> Protection]
  /\ whole \subseteq Keys /\ synced \subseteq Generated
  /\ lingering \subseteq Keys \cup {None} /\ rooted \in BOOLEAN
  /\ created \in Generated \cup {None}

Bounded == ioErrors \in 0..MaxIOErrors /\ crashes \in 0..MaxCrashes /\ edits \in 0..MaxEdits

LEMMA TypeParts ==
  /\ TypeOK <=> platform \in Platforms /\ LocalTypes /\ DiskTypes /\ Bounded
  /\ TypeOK' <=> platform' \in Platforms /\ LocalTypes' /\ DiskTypes' /\ Bounded'
  BY DEF TypeOK, LocalTypes, DiskTypes, Bounded

\* Only d moves.
OnlyMoves(d) ==
  /\ LocalTypes'
  /\ \A e \in Daemons \ {d} : /\ pc'[e] = pc[e] /\ mine'[e] = mine[e]
                              /\ handle'[e] = handle[e] /\ got'[e] = got[e]

LEMMA OneOwner ==
  ASSUME KeyInv, NEW d \in Daemons, NEW e \in Daemons, Owns(d), Owns(e)
  PROVE  d = e
  BY DEF KeyInv, Sound, Owns, DistinctKeys

LEMMA JudgedAlike ==
  ASSUME UNCHANGED platform, NEW p
  PROVE  /\ VerifyOpenKeyFile(p)' <=> VerifyOpenKeyFile(p)
         /\ Settable(p)' <=> Settable(p)
  BY DEF VerifyOpenKeyFile, VerifyHandleSecurity, Trusted, Settable

\* The other daemons do not notice.
LEMMA DaemonStep ==
  ASSUME KeyInv, NEW d \in Daemons, OnlyMoves(d), DiskTypes', Bounded', UNCHANGED platform,
         \A k \in Foreign : guard'[k] = guard[k], dir # None => dir' # None,
         DistinctKeys', CreatedIsSafe', Sound(d)',
         \A e \in Daemons \ {d} : Owns(e) =>
           /\ path' = path /\ created' = created
           /\ mine[e] \in whole => mine[e] \in whole'
           /\ mine[e] \in synced => mine[e] \in synced'
  PROVE  KeyInv'
<1>1. TypeOK'
  BY TypeParts DEF KeyInv, OnlyMoves
<1>2. ForeignGuards'
  BY JudgedAlike DEF KeyInv, ForeignGuards, Settable
<1>3. ASSUME NEW e \in Daemons PROVE Sound(e)'
  <2>1. CASE e = d
    BY <2>1
  <2>2. CASE e # d
    <3>1. /\ pc'[e] = pc[e] /\ mine'[e] = mine[e] /\ handle'[e] = handle[e]
          /\ got'[e] = got[e] /\ Sound(e)
      BY <2>2 DEF OnlyMoves, KeyInv
    <3>2. Owns(e)' <=> Owns(e)
      BY <3>1 DEF Owns
    <3>3. \A k \in Foreign : VerifyOpenKeyFile(guard[k]) => VerifyOpenKeyFile(guard[k])'
      BY DEF VerifyOpenKeyFile, VerifyHandleSecurity, Trusted
    <3> QED
      BY <2>2, <3>1, <3>2, <3>3 DEF Sound
  <2> QED
    BY <2>1, <2>2
<1> QED
  BY <1>1, <1>2, <1>3 DEF KeyInv

\* Steps that leave the disk alone.
LEMMA QuietStep ==
  ASSUME KeyInv, NEW d \in Daemons, OnlyMoves(d), Bounded',
         UNCHANGED <<platform, disk, created>>,
         mine'[d] = mine[d] \/ mine'[d] = None, Sound(d)'
  PROVE  KeyInv'
<1>1. DiskTypes' /\ CreatedIsSafe'
  BY TypeParts DEF KeyInv, DiskTypes, CreatedIsSafe, disk
<1>2. DistinctKeys'
  BY DEF KeyInv, DistinctKeys, OnlyMoves
<1> QED
  BY <1>1, <1>2, DaemonStep DEF disk

LEMMA ReturnFacts ==
  ASSUME KeyInv, NEW d \in Daemons, NEW k \in Keys \cup {None}, Return(d, k)
  PROVE  /\ OnlyMoves(d) /\ mine'[d] = None /\ got'[d] = k
         /\ pc'[d] = IF k = None THEN "off" ELSE "on"
<1> USE KeyStoreAssumption
<1>1. LocalTypes
  BY TypeParts DEF KeyInv
<1> QED
  BY <1>1 DEF Return, OnlyMoves, LocalTypes, PcStates, Keys

LEMMA GotoFacts ==
  ASSUME KeyInv, NEW d \in Daemons, NEW to \in PcStates, Goto(d, to),
         UNCHANGED <<mine, handle, got>>,
         handle[d] # None <=> to \in {"verify", "read", "finish"},
         got[d] # None <=> to = "on"
  PROVE  OnlyMoves(d) /\ pc'[d] = to /\ mine'[d] = mine[d]
         /\ handle'[d] = handle[d] /\ got'[d] = got[d]
<1>1. LocalTypes
  BY TypeParts DEF KeyInv
<1> QED
  BY <1>1 DEF Goto, OnlyMoves, LocalTypes

\* A failed return.
LEMMA ReturnNone ==
  ASSUME KeyInv, NEW d \in Daemons, Return(d, None), UNCHANGED <<platform, disk, created>>,
         Bounded'
  PROVE  KeyInv'
<1>1. OnlyMoves(d) /\ mine'[d] = None /\ got'[d] = None /\ pc'[d] = "off"
  BY ReturnFacts
<1>2. Sound(d)'
  BY <1>1, KeyStoreAssumption DEF Sound, Owns, OnlySaving, Preparing, Keys
<1> QED
  BY <1>1, <1>2, QuietStep

LEMMA RefuseStep ==
  ASSUME KeyInv, NEW d \in Daemons, Refuse(d), UNCHANGED <<platform, disk, created>>,
         Bounded', pc[d] \notin Preparing \cup {"on"}
  PROVE  KeyInv'
<1> USE KeyStoreAssumption
<1>1. CASE ~Saving(d) /\ Return(d, None)
  BY <1>1, ReturnNone
<1>2. CASE /\ Saving(d)
           /\ pc' = [pc EXCEPT ![d] = "remove"]
           /\ handle' = [handle EXCEPT ![d] = None]
           /\ UNCHANGED <<mine, got>>
  <2>1. LocalTypes
    BY TypeParts DEF KeyInv
  <2>2. /\ OnlyMoves(d) /\ pc'[d] = "remove" /\ mine'[d] = mine[d] /\ got'[d] = None
        /\ handle'[d] = None
    BY <1>2, <2>1 DEF OnlyMoves, LocalTypes, PcStates
  <2>3. Owns(d) /\ Sound(d)
    BY <1>2 DEF Owns, Saving, KeyInv
  <2>4. Sound(d)'
    BY <1>2, <2>2, <2>3 DEF Sound, Owns, Saving, SavingStates, OnlySaving, Preparing, disk, Keys
  <2> QED
    BY <2>2, <2>4, QuietStep
<1> QED
  BY <1>1, <1>2 DEF Refuse

-----------------------------------------------------------------------------
(* Loading, and the check of what save has written.                        *)

LEMMA BoundsKept == KeyInv /\ UNCHANGED bounds => Bounded'
  BY TypeParts DEF KeyInv, Bounded, bounds

\* A daemon goes on to a step of Load and of save alike.
LEMMA AdvanceStep ==
  ASSUME KeyInv, NEW d \in Daemons, NEW to, UNCHANGED <<platform, disk, created, bounds>>,
         Goto(d, to), UNCHANGED <<mine, handle, got>>,
         \/ pc[d] = "off" /\ to = "stateDir"
         \/ pc[d] = "stateDir" /\ to = "open"
         \/ pc[d] \in {"stateDir", "open"} /\ to = "mkdir" /\ mine[d] = None
         \/ pc[d] = "verify" /\ to = "finish" /\ mine[d] # None
         \/ pc[d] = "verify" /\ to = "read" /\ mine[d] = None
            /\ VerifyOpenKeyFile(guard[handle[d]])
         \/ pc[d] = "close" /\ to = "restrict"
  PROVE  KeyInv'
<1>1. LocalTypes /\ Sound(d)
  BY TypeParts DEF KeyInv
<1>2. /\ to \in PcStates
      /\ handle[d] # None <=> to \in {"verify", "read", "finish"}
      /\ got[d] # None <=> to = "on"
  BY <1>1 DEF LocalTypes, PcStates
<1>3. /\ OnlyMoves(d) /\ pc'[d] = to /\ mine'[d] = mine[d]
      /\ handle'[d] = handle[d] /\ got'[d] = got[d]
  BY <1>2, GotoFacts
<1>4. UNCHANGED <<path, dir, guard, whole, synced>>
  BY DEF disk
<1>5. Sound(d)'
  <2>1. got[d] = None
    BY <1>1 DEF LocalTypes
  <2>2. \A p : VerifyOpenKeyFile(p)' <=> VerifyOpenKeyFile(p)
    BY JudgedAlike
  <2>3. to = "read" => VerifyOpenKeyFile(guard[handle[d]])'
    BY <1>4 DEF VerifyOpenKeyFile, VerifyHandleSecurity, Trusted
  <2> QED
    BY <1>1, <1>3, <1>4, <2>1, <2>3, KeyStoreAssumption
       DEF Sound, Owns, SavingStates, OnlySaving, Preparing, Keys
<1> QED
  BY <1>3, <1>5, BoundsKept, QuietStep

LEMMA MissingStep ==
  ASSUME KeyInv, NEW d \in Daemons, pc[d] \in {"stateDir", "open"}, Missing(d),
         UNCHANGED <<platform, disk, created, bounds>>
  PROVE  KeyInv'
<1>1. CASE Saving(d)
  BY <1>1, BoundsKept, RefuseStep DEF Missing, Preparing
<1>2. CASE ~Saving(d)
  BY <1>2, AdvanceStep DEF Missing, Saving
<1> QED
  BY <1>1, <1>2

LEMMA LoadStep ==
  ASSUME KeyInv, NEW d \in Daemons, Start(d) \/ CheckStateDir(d) \/ VerifyHandle(d) \/ CloseKey(d)
  PROVE  KeyInv'
<1>1. CASE Start(d) \/ CloseKey(d)
  BY <1>1, AdvanceStep DEF Start, CloseKey
<1>2. CASE CheckStateDir(d)
  BY <1>2, AdvanceStep, MissingStep, RefuseStep, BoundsKept DEF CheckStateDir, Preparing
<1>3. CASE VerifyHandle(d)
  <2>1. CASE Refuse(d)
    BY <1>3, <2>1, RefuseStep, BoundsKept DEF VerifyHandle, Preparing
  <2>2. CASE /\ VerifyOpenKeyFile(guard[handle[d]])
             /\ Goto(d, IF Saving(d) THEN "finish" ELSE "read")
             /\ UNCHANGED <<mine, handle, got>>
    BY <1>3, <2>2, AdvanceStep DEF VerifyHandle, Saving
  <2> QED
    BY <1>3, <2>1, <2>2 DEF VerifyHandle
<1> QED
  BY <1>1, <1>2, <1>3

LEMMA OpenStep ==
  ASSUME KeyInv, NEW d \in Daemons, OpenKeyFile(d)
  PROVE  KeyInv'
<1> USE KeyStoreAssumption
<1>1. pc[d] = "open" /\ UNCHANGED <<platform, disk, created, bounds>>
  BY DEF OpenKeyFile
<1>2. CASE Missing(d) \/ Refuse(d)
  BY <1>1, <1>2, MissingStep, RefuseStep, BoundsKept DEF Preparing
<1>3. CASE /\ path # None
           /\ handle' = [handle EXCEPT ![d] = path]
           /\ Goto(d, "verify")
           /\ UNCHANGED <<mine, got>>
  <2>1. LocalTypes /\ DiskTypes /\ Sound(d)
    BY TypeParts DEF KeyInv
  <2>2. /\ OnlyMoves(d) /\ pc'[d] = "verify" /\ mine'[d] = mine[d]
        /\ handle'[d] = path /\ got'[d] = None
    BY <1>1, <1>3, <2>1 DEF Goto, OnlyMoves, LocalTypes, DiskTypes, PcStates
  <2>3. Sound(d)'
    BY <1>1, <2>1, <2>2 DEF Sound, Owns, SavingStates, OnlySaving, Preparing, Keys, disk
  <2> QED
    BY <1>1, <2>2, <2>3, BoundsKept, QuietStep
<1> QED
  BY <1>2, <1>3 DEF OpenKeyFile

LEMMA ReadStep ==
  ASSUME KeyInv, NEW d \in Daemons, ReadKey(d)
  PROVE  KeyInv'
<1> USE KeyStoreAssumption
<1>1. pc[d] = "read" /\ UNCHANGED <<platform, disk, created, bounds>>
  BY DEF ReadKey
<1>2. LocalTypes /\ Sound(d)
  BY TypeParts DEF KeyInv
<1>3. CASE handle[d] \in whole
  <2>1. handle[d] \in Keys /\ Return(d, handle[d])
    BY <1>1, <1>2, <1>3 DEF LocalTypes, ReadKey
  <2>2. /\ OnlyMoves(d) /\ mine'[d] = None /\ got'[d] = handle[d] /\ pc'[d] = "on"
    BY <2>1, ReturnFacts DEF Keys
  <2>3. got'[d] \in Foreign => VerifyOpenKeyFile(guard[got[d]])'
    <3>1. guard'[got'[d]] = guard[handle[d]] /\ platform' = platform
      BY <1>1, <2>2 DEF disk
    <3>2. got'[d] \in Foreign => VerifyOpenKeyFile(guard[handle[d]])
      BY <1>1, <1>2, <2>2 DEF Sound
    <3> QED
      BY <3>1, <3>2 DEF VerifyOpenKeyFile, VerifyHandleSecurity, Trusted
  <2>4. Sound(d)'
    BY <2>2, <2>3 DEF Sound, Owns, OnlySaving, Preparing
  <2> QED
    BY <1>1, <2>2, <2>4, BoundsKept, QuietStep
<1>4. CASE handle[d] \notin whole
  BY <1>1, <1>4, BoundsKept, ReturnNone DEF ReadKey
<1> QED
  BY <1>3, <1>4

-----------------------------------------------------------------------------
(* Creating.                                                               *)

LEMMA MakeStep ==
  ASSUME KeyInv, NEW d \in Daemons, MakeStateDir(d)
  PROVE  KeyInv'
<1> USE KeyStoreAssumption
<1>1. PICK k \in Fresh : /\ mine' = [mine EXCEPT ![d] = k]
                         /\ whole' = whole \ {k}
                         /\ synced' = synced \ {k}
  BY DEF MakeStateDir
<1>2. /\ pc[d] = "mkdir" /\ Goto(d, "restrictDir") /\ dir' \in Protection
      /\ UNCHANGED <<platform, path, guard, lingering, rooted, handle, got, created, bounds>>
  BY PrivateIsProtection, TypeParts DEF MakeStateDir, KeyInv, DiskTypes
<1>3. k \in Generated /\ k # path /\ \A e \in Daemons : k # mine[e]
  BY DEF Fresh, Unused
<1>4. LocalTypes /\ DiskTypes /\ None \notin Protection
  BY TypeParts DEF KeyInv
<1>5. /\ OnlyMoves(d) /\ pc'[d] = "restrictDir" /\ mine'[d] = k /\ got'[d] = None
  BY <1>1, <1>2, <1>3, <1>4 DEF Goto, OnlyMoves, LocalTypes, PcStates
<1>6. DiskTypes'
  BY <1>1, <1>2, <1>4 DEF DiskTypes
<1>7. DistinctKeys' /\ CreatedIsSafe'
  BY <1>1, <1>2, <1>3, <1>5 DEF KeyInv, DistinctKeys, CreatedIsSafe, OnlyMoves
<1>8. Sound(d)'
  BY <1>2, <1>3, <1>4, <1>5 DEF Sound, Owns, SavingStates, OnlySaving, Preparing, Keys
<1> QED
  BY <1>1, <1>2, <1>3, <1>4, <1>5, <1>6, <1>7, <1>8, BoundsKept, DaemonStep

LEMMA RestrictDirStep ==
  ASSUME KeyInv, NEW d \in Daemons, RestrictStateDir(d)
  PROVE  KeyInv'
<1> USE KeyStoreAssumption
<1>1. /\ pc[d] = "restrictDir"
      /\ UNCHANGED <<platform, path, guard, whole, synced, lingering, rooted, created, bounds>>
  BY DEF RestrictStateDir
<1>2. CASE Return(d, None) /\ UNCHANGED dir
  BY <1>1, <1>2, BoundsKept, ReturnNone DEF disk
<1>3. CASE dir' = Restricted(dir) /\ Goto(d, "create") /\ UNCHANGED <<mine, handle, got>>
  <2>1. LocalTypes /\ DiskTypes /\ Sound(d) /\ None \notin Protection
    BY TypeParts DEF KeyInv
  <2>2. dir \in Protection /\ mine[d] \in Generated
    BY <1>1, <2>1 DEF DiskTypes, LocalTypes, Sound, OnlySaving, Preparing
  <2>3. dir' \in Protection
    BY <1>3, <2>2, RestrictedIsProtection
  <2>4. OnlyMoves(d) /\ pc'[d] = "create" /\ mine'[d] = mine[d] /\ got'[d] = None
    BY <1>1, <1>3, <2>1, GotoFacts DEF LocalTypes, PcStates
  <2>5. DiskTypes' /\ DistinctKeys' /\ CreatedIsSafe'
    BY <1>1, <1>3, <2>1, <2>3 DEF KeyInv, DiskTypes, DistinctKeys, CreatedIsSafe
  <2>6. Sound(d)'
    BY <2>1, <2>2, <2>3, <2>4 DEF Sound, Owns, SavingStates, OnlySaving, Preparing, Keys
  <2> QED
    BY <1>1, <2>1, <2>3, <2>4, <2>5, <2>6, BoundsKept, DaemonStep
<1> QED
  BY <1>2, <1>3 DEF RestrictStateDir

LEMMA CreateStep ==
  ASSUME KeyInv, NEW d \in Daemons, CreateFile(d)
  PROVE  KeyInv'
<1> USE KeyStoreAssumption
<1>1. pc[d] = "create" /\ UNCHANGED <<platform, dir, whole, synced, rooted, created, bounds>>
  BY DEF CreateFile
<1>2. CASE Return(d, None) /\ UNCHANGED <<path, lingering, guard>>
  BY <1>1, <1>2, BoundsKept, ReturnNone DEF disk
<1>3. CASE /\ path = None
           /\ path' = mine[d]
           /\ lingering' = lingering \cup {path'}
           /\ guard' = [guard EXCEPT ![mine[d]] =
                           IF platform = "windows" THEN [dir EXCEPT !.owner = "self"]
                                                   ELSE Private]
           /\ Goto(d, "write")
           /\ UNCHANGED <<mine, handle, got>>
  <2>1. LocalTypes /\ DiskTypes /\ Sound(d)
    BY TypeParts DEF KeyInv
  <2>8. [dir EXCEPT !.owner = "self"] \in Protection
    <3>1. dir \in Protection
      BY <1>1, <2>1 DEF DiskTypes, Sound, Preparing
    <3> QED
      BY <3>1 DEF Protection, Accounts
  <2>2. mine[d] \in Generated /\ created = None
    BY <1>1, <1>3, <2>1 DEF LocalTypes, Sound, OnlySaving, Preparing, KeyInv, CreatedIsSafe
  <2>3. /\ OnlyMoves(d) /\ pc'[d] = "write" /\ mine'[d] = mine[d] /\ got'[d] = None
    BY <1>1, <1>3, <2>1, GotoFacts DEF LocalTypes, PcStates
  <2>4. DiskTypes' /\ \A k \in Foreign : guard'[k] = guard[k]
    BY <1>1, <1>3, <2>1, <2>2, <2>8, PrivateIsProtection DEF DiskTypes, Keys
  <2>5. DistinctKeys' /\ CreatedIsSafe'
    BY <1>1, <1>3, <2>2 DEF KeyInv, DistinctKeys, CreatedIsSafe
  <2>6. Sound(d)'
    BY <1>1, <1>3, <2>2, <2>3 DEF Sound, Owns, SavingStates, OnlySaving, Preparing, Keys
  <2>7. \A e \in Daemons : ~Owns(e)
    BY <1>3 DEF KeyInv, Sound, Owns
  <2> QED
    BY <1>1, <2>3, <2>4, <2>5, <2>6, <2>7, BoundsKept, DaemonStep
<1> QED
  BY <1>2, <1>3 DEF CreateFile

LEMMA WriteStep ==
  ASSUME KeyInv, NEW d \in Daemons, WriteKey(d) \/ SyncKey(d)
  PROVE  KeyInv'
<1> USE KeyStoreAssumption
<1>1. /\ pc[d] \in {"write", "sync"}
      /\ UNCHANGED <<platform, path, dir, guard, lingering, rooted, mine, handle, got,
                     created, bounds>>
  BY DEF WriteKey, SyncKey
<1>2. LocalTypes /\ DiskTypes /\ Sound(d)
  BY TypeParts DEF KeyInv
<1>3. mine[d] \in Generated /\ Owns(d)
  BY <1>1, <1>2 DEF LocalTypes, Sound, OnlySaving, Preparing, Owns
<1>4. /\ OnlyMoves(d) /\ mine'[d] = mine[d] /\ got'[d] = None
      /\ \/ pc'[d] = "sync" /\ mine[d] \in whole'
         \/ pc[d] = "sync" /\ pc'[d] = "close" /\ mine[d] \in synced'
      /\ whole \subseteq whole' /\ synced \subseteq synced'
  BY <1>1, <1>2, GotoFacts DEF WriteKey, SyncKey, LocalTypes, PcStates
<1>5. DiskTypes'
  BY <1>1, <1>2, <1>3 DEF WriteKey, SyncKey, DiskTypes, Keys
<1>6. DistinctKeys' /\ CreatedIsSafe'
  BY <1>1, <1>4 DEF KeyInv, DistinctKeys, CreatedIsSafe
<1>7. Sound(d)'
  BY <1>1, <1>2, <1>3, <1>4 DEF Sound, Owns, SavingStates, OnlySaving, Preparing, Keys
<1> QED
  BY <1>1, <1>4, <1>5, <1>6, <1>7, BoundsKept, DaemonStep

LEMMA RestrictStep ==
  ASSUME KeyInv, NEW d \in Daemons, RestrictKey(d)
  PROVE  KeyInv'
<1> USE KeyStoreAssumption
<1>1. /\ pc[d] = "restrict" /\ guard' = [guard EXCEPT ![path] = Restricted(@)]
      /\ Goto(d, "stateDir")
      /\ UNCHANGED <<platform, path, dir, whole, synced, lingering, rooted, mine, handle,
                     got, created, bounds>>
  BY DEF RestrictKey
<1>2. LocalTypes /\ DiskTypes /\ Sound(d)
  BY TypeParts DEF KeyInv
<1>3. path = mine[d] /\ path \in Generated /\ Owns(d)
  BY <1>1, <1>2 DEF LocalTypes, Sound, OnlySaving, Preparing, Owns
<1>4. OnlyMoves(d) /\ pc'[d] = "stateDir" /\ mine'[d] = mine[d] /\ got'[d] = None
  BY <1>1, <1>2, GotoFacts DEF LocalTypes, PcStates
<1>5. DiskTypes' /\ \A k \in Foreign : guard'[k] = guard[k]
  <2>1. path \in Keys /\ guard[path] \in Protection
    BY <1>2, <1>3 DEF DiskTypes, Keys
  <2>2. Restricted(guard[path]) \in Protection
    BY <2>1, RestrictedIsProtection
  <2> QED
    BY <1>1, <1>2, <1>3, <2>1, <2>2 DEF DiskTypes, Keys
<1>6. DistinctKeys' /\ CreatedIsSafe'
  BY <1>1 DEF KeyInv, DistinctKeys, CreatedIsSafe
<1>7. Sound(d)'
  BY <1>1, <1>2, <1>3, <1>4 DEF Sound, Owns, SavingStates, OnlySaving, Preparing, Keys
<1> QED
  BY <1>1, <1>4, <1>5, <1>6, <1>7, BoundsKept, DaemonStep

\* Save ends: with success, or by the removal of its file.
LEMMA EndStep ==
  ASSUME KeyInv, NEW d \in Daemons, FinishCreate(d) \/ RemoveKey(d)
  PROVE  KeyInv'
<1> USE KeyStoreAssumption
<1>1. /\ pc[d] \in {"finish", "remove"}
      /\ UNCHANGED <<platform, dir, guard, whole, synced, rooted, bounds>>
      /\ lingering' \in {lingering, lingering \cup {path'}}
  BY DEF FinishCreate, RemoveKey, disk
<1>2. LocalTypes /\ DiskTypes /\ Sound(d)
  BY TypeParts DEF KeyInv
<1>3. mine[d] \in Generated /\ mine[d] \in Keys /\ Owns(d) /\ path = mine[d] /\ created = None
  BY <1>1, <1>2 DEF LocalTypes, Sound, OnlySaving, Preparing, Owns, Keys
<1>4. \A e \in Daemons \ {d} : ~Owns(e)
  BY <1>3, OneOwner
<1>5. /\ OnlyMoves(d) /\ mine'[d] = None /\ pc'[d] \in {"off", "on"}
      /\ got'[d] = None \/ got'[d] = mine[d]
  BY <1>3, ReturnFacts DEF FinishCreate, RemoveKey
<1>6. DiskTypes' /\ CreatedIsSafe'
  <2>1. CASE FinishCreate(d)
    BY <1>1, <1>2, <1>3, <2>1 DEF FinishCreate, DiskTypes, CreatedIsSafe, Sound, disk
  <2>2. CASE RemoveKey(d)
    BY <1>1, <1>2, <1>3, <2>2 DEF RemoveKey, DiskTypes, CreatedIsSafe
  <2> QED
    BY <2>1, <2>2
<1>7. DistinctKeys'
  BY <1>5 DEF KeyInv, DistinctKeys, OnlyMoves
<1>8. Sound(d)'
  BY <1>3, <1>5 DEF Sound, Owns, OnlySaving, Preparing, Keys
<1> QED
  BY <1>1, <1>4, <1>5, <1>6, <1>7, <1>8, BoundsKept, DaemonStep

-----------------------------------------------------------------------------
(* Failures and the operator.                                              *)

LEMMA FailureStep ==
  ASSUME KeyInv, NEW d \in Daemons, IOError(d) \/ Crash(d)
  PROVE  KeyInv'
<1>1. Bounded' /\ UNCHANGED <<platform, disk, created>>
  BY TypeParts, KeyStoreAssumption DEF KeyInv, Bounded, IOError, Crash
<1>2. CASE Return(d, None)
  BY <1>1, <1>2, ReturnNone
<1>3. CASE Refuse(d) /\ pc[d] \notin Preparing \cup {"on"}
  BY <1>1, <1>3, RefuseStep
<1> QED
  BY <1>2, <1>3 DEF IOError, Crash, Preparing

LEMMA PowerLossStep ==
  ASSUME KeyInv, PowerLoss
  PROVE  KeyInv'
<1> USE KeyStoreAssumption
<1>1. LocalTypes /\ DiskTypes /\ Bounded /\ CreatedIsSafe /\ ForeignGuards
  BY TypeParts DEF KeyInv
<1>2. /\ path' \in Keys \cup {None} /\ dir' \in Protection \cup {None}
      /\ rooted' \in BOOLEAN /\ lingering' = {path'}
  BY <1>1 DEF PowerLoss, DiskTypes
<1>3. PICK kept \in {{}, {path'}} :
        whole' = Foreign \cup (whole \cap {path'} \cap (synced \cup kept))
  BY DEF PowerLoss
<1>4. /\ synced' = synced \cap {path'}
      /\ guard' = [k \in Keys |-> IF k = path' THEN guard[k] ELSE Private]
      /\ created' = IF path' = created THEN created ELSE None
      /\ UNCHANGED <<platform, ioErrors, edits>>
  BY DEF PowerLoss
<1>5. /\ LocalTypes'
      /\ \A d \in Daemons :
           pc'[d] = "off" /\ mine'[d] = None /\ handle'[d] = None /\ got'[d] = None
  BY DEF PowerLoss, LocalTypes, PcStates
<1>6. DiskTypes' /\ CreatedIsSafe'
  BY <1>1, <1>2, <1>3, <1>4, PrivateIsProtection DEF DiskTypes, CreatedIsSafe, Keys
<1>7. Bounded'
  BY <1>1 DEF PowerLoss, Bounded
<1>8. TypeOK'
  BY <1>4, <1>5, <1>6, <1>7, TypeParts DEF KeyInv
<1>9. ForeignGuards'
  BY <1>1, <1>4 DEF ForeignGuards, Settable, Private, Keys
<1>10. DistinctKeys' /\ \A d \in Daemons : Sound(d)'
  BY <1>5 DEF DistinctKeys, Sound, Owns, OnlySaving, Preparing, Keys
<1> QED
  BY <1>6, <1>8, <1>9, <1>10 DEF KeyInv

LEMMA OperatorStep ==
  ASSUME KeyInv, ReplaceFile \/ ProtectFile \/ ProtectDir
  PROVE  KeyInv'
<1> USE KeyStoreAssumption
<1>1. LocalTypes /\ DiskTypes /\ Bounded /\ CreatedIsSafe /\ ForeignGuards
  BY TypeParts DEF KeyInv
<1>2. UNCHANGED <<platform, whole, synced, pc, mine, handle, got, ioErrors, crashes>>
  BY DEF ReplaceFile, ProtectFile, ProtectDir
<1>3. /\ guard' \in [Keys -> Protection]
      /\ \A k \in Foreign : guard'[k] = guard[k] \/ (k \in Unused /\ Settable(guard'[k]))
  <2>1. CASE UNCHANGED guard
    BY <1>1, <2>1 DEF DiskTypes
  <2>2. CASE ProtectFile
    <3>1. PICK p \in Settings : guard' = [guard EXCEPT ![path] = p]
      BY <2>2 DEF ProtectFile
    <3>2. path \in Generated /\ guard \in [Keys -> Protection]
      BY <1>1, <2>2 DEF ProtectFile, DiskTypes
    <3> QED
      BY <3>1, <3>2 DEF Keys
  <2>3. CASE \E p \in Settings : /\ Settable(p)
                                 /\ path' \in Unused \cap Foreign
                                 /\ guard' = [guard EXCEPT ![path'] = p]
    <3>1. PICK p \in Settings : /\ Settable(p)
                                /\ path' \in Unused \cap Foreign
                                /\ guard' = [guard EXCEPT ![path'] = p]
      BY <2>3
    <3>2. guard \in [Keys -> Protection] /\ path' \in Keys
      BY <1>1, <3>1 DEF DiskTypes, Keys
    <3>3. guard' \in [Keys -> Protection]
      BY <3>1, <3>2
    <3>4. \A k \in Keys : guard'[k] = IF k = path' THEN p ELSE guard[k]
      BY <3>1, <3>2
    <3> QED
      BY <3>1, <3>3, <3>4 DEF Keys
  <2> QED
    BY <2>1, <2>2, <2>3 DEF ReplaceFile, ProtectDir
<1>4. /\ path' \in Keys \cup {None} /\ created' \in Generated \cup {None}
      /\ \/ UNCHANGED <<path, created>>
         \/ created' = None /\ \A d \in Daemons : mine[d] = None
  BY <1>1 DEF ReplaceFile, ProtectFile, ProtectDir, DiskTypes, Saving, Keys
<1>5. /\ dir' \in Protection \cup {None} /\ (dir # None => dir' # None)
      /\ lingering' \subseteq Keys \cup {None} /\ rooted' \in BOOLEAN
  BY <1>1, <1>4 DEF ReplaceFile, ProtectFile, ProtectDir, DiskTypes
<1>6. DiskTypes' /\ CreatedIsSafe'
  BY <1>1, <1>2, <1>3, <1>4, <1>5 DEF DiskTypes, CreatedIsSafe
<1>7. LocalTypes' /\ Bounded'
  <2>1. LocalTypes'
    BY <1>1, <1>2 DEF LocalTypes
  <2>2. edits < MaxEdits /\ edits' = edits + 1
    BY DEF ReplaceFile, ProtectFile, ProtectDir, Edit
  <2> QED
    BY <1>1, <1>2, <2>1, <2>2 DEF Bounded
<1>8. TypeOK'
  BY <1>2, <1>6, <1>7, TypeParts DEF KeyInv
<1>9. ForeignGuards' /\ DistinctKeys'
  BY <1>1, <1>2, <1>3 DEF KeyInv, ForeignGuards, Settable, DistinctKeys
<1>10. ASSUME NEW d \in Daemons PROVE Sound(d)'
  <2>1. Sound(d)
    BY DEF KeyInv
  <2>2. \A k \in Foreign \ Unused :
          VerifyOpenKeyFile(guard[k]) => VerifyOpenKeyFile(guard[k])'
    BY <1>2, <1>3 DEF VerifyOpenKeyFile, VerifyHandleSecurity, Trusted
  <2>3. handle[d] \notin Unused /\ got[d] \notin Unused
    BY DEF Unused
  <2> QED
    BY <1>2, <1>4, <1>5, <2>1, <2>2, <2>3 DEF Sound, Owns
<1> QED
  BY <1>6, <1>8, <1>9, <1>10 DEF KeyInv

-----------------------------------------------------------------------------
(* For any number of daemons, keys, failures, crashes and interventions of *)
(* the operator: a daemon that saves a key owns the path, and a key that   *)
(* was reported as created is in place with its content, though not its    *)
(* entry in the directory, on stable storage.                              *)
THEOREM KeyInvariance == Spec => []KeyInv
<1>1. KeyInv /\ [Next]_vars => KeyInv'
  <2> SUFFICES ASSUME KeyInv, [Next]_vars PROVE KeyInv'
    OBVIOUS
  <2>1. CASE UNCHANGED vars
    BY <2>1 DEF vars, KeyInv, TypeOK, DistinctKeys, CreatedIsSafe, ForeignGuards, Settable,
                Sound, Owns, VerifyOpenKeyFile, VerifyHandleSecurity, Trusted
  <2>2. ASSUME NEW d \in Daemons, Step(d) PROVE KeyInv'
    BY <2>2, LoadStep, OpenStep, ReadStep, MakeStep, CreateStep, WriteStep, RestrictStep,
       EndStep, RestrictDirStep DEF Step
  <2> QED
    BY <2>1, <2>2, FailureStep, PowerLossStep, OperatorStep DEF Next
<1> QED
  BY <1>1, InitInv, PTL DEF Spec

\* The checks are as strict as what the platform lets others do.
LEMMA VerifiedIsPrivate ==
  ASSUME platform \in {"unix", "windows"}, NEW p \in Protection, Settable(p),
         VerifyOpenKeyFile(p)
  PROVE  ~OthersReach(p)
<1>1. CASE platform = "unix"
  BY <1>1 DEF VerifyOpenKeyFile, Settable, OthersReach, Trusted
<1>2. CASE platform = "windows"
  <2>1. p.kind = "regular" /\ VerifyHandleSecurity(p)
    BY <1>2 DEF VerifyOpenKeyFile
  <2>2. ASSUME NEW e \in p.entries, e.type \in {"allow", "allowCallback", "allowObject"}
        PROVE  e.who \in Trusted
    BY <2>1, <2>2 DEF VerifyHandleSecurity, DispositionOf
  <2> QED
    BY <2>1, <2>2 DEF VerifyHandleSecurity, OthersReach
<1> QED
  BY <1>1, <1>2

(* Store.LoadOrCreate: a key that was reported as created stays, complete, *)
(* until the operator or a power loss takes its entry away, no second      *)
(* creation succeeds before that, and no daemon uses a key from a file     *)
(* that others could reach.                                                *)
THEOREM KeySafety == Spec => [](CreatedKeyStays /\ ExposedKeyIsNotUsed) /\ OneCreation
<1>1. KeyInv => CreatedKeyStays
  BY DEF KeyInv, CreatedIsSafe, CreatedKeyStays
<1>2. KeyInv => ExposedKeyIsNotUsed
  <2> SUFFICES ASSUME KeyInv, NEW d \in Daemons, got[d] \in Foreign
               PROVE  ~OthersReach(guard[got[d]])
    BY DEF ExposedKeyIsNotUsed
  <2>1. VerifyOpenKeyFile(guard[got[d]]) /\ Settable(guard[got[d]])
    BY DEF KeyInv, Sound, ForeignGuards
  <2>2. platform \in {"unix", "windows"} /\ guard[got[d]] \in Protection
    BY KeyStoreAssumption DEF KeyInv, TypeOK, Keys
  <2> QED
    BY <2>1, <2>2, VerifiedIsPrivate
<1>3. KeyInv => [\A d \in Daemons : pc[d] = "finish" /\ pc'[d] = "on" => created = None]_vars
  BY DEF KeyInv, Sound, Owns, OnlySaving, Preparing
<1> QED
  BY <1>1, <1>2, <1>3, KeyInvariance, PTL DEF OneCreation
=============================================================================
