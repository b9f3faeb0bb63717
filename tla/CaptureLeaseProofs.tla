------------------------- MODULE CaptureLeaseProofs --------------------------
(***************************************************************************)
(* Theorems about CaptureLease for any number of invocations, kills, file  *)
(* failures and edits: first what the lock of each state directory         *)
(* protects, for any number of them, then what holds of game.cfg itself    *)
(* when every capture of it uses one state directory (OneStateDir): the    *)
(* lock is of the directory, not of the file.                              *)
(*                                                                         *)
(* The argument: the flock makes at most one invocation live inside a      *)
(* directory (Exclusive), so what that invocation knows about the files    *)
(* stays true until it acts on it (DirectoryKnows, HolderKnows); between   *)
(* invocations only Reversible, Recoverable and PlainBackup remain, and    *)
(* the next one starts from them.  After a failing check has passed over a *)
(* pending backup only Reversible is left of the last three.               *)
(***************************************************************************)
EXTENDS CaptureLease, TLAPS

OneStateDir == \E d : Dirs = {d}

Unpatched(c) == [c EXCEPT !.patched = FALSE]

Exclusive == \A p \in Procs : pc[p] # "idle" => lock[dir[p]] = p

(* What the invocation that holds a directory knows of its two files.      *)
DirectoryKnows ==
  \A p \in Procs :
    /\ pc[p] \in {"read", "write_backup"} /\ dir[p] \notin missed => backup[dir[p]] = None
    /\ pc[p] \in {"read", "write_backup", "write_manifest", "drop_backup"}
         /\ dir[p] \notin missed => manifest[dir[p]] = None
    /\ pc[p] = "drop_restored" => manifest[dir[p]] = None
    /\ pc[p] \in {"write_manifest", "patch", "restore_write"} => backup[dir[p]] = mem[p]
    /\ pc[p] \in {"patch", "restore_write"} => manifest[dir[p]] = mem[p]

InEachDirectory == TypeOK /\ Exclusive /\ DirectoryKnows

(* What can be restored now, and what Apply is about to back up over it,   *)
(* is the patched file itself or the settings it was made from.            *)
Reversible ==
  /\ \A d \in Dirs : config.patched /\ Intact(d) =>
       backup[d] \in {config, Unpatched(config)}
  /\ \A p \in Procs :
       pc[p] \in {"write_backup", "write_manifest", "patch"} /\ config.patched =>
         mem[p] = config

(* A backup is always of the player's own settings. *)
PlainBackup == \A d \in Dirs : backup[d] # None => ~backup[d].patched

Recoverable == \A d \in Dirs : config.patched =>
                 Intact(d) /\ backup[d] = Unpatched(config)

(* What the holder knows of the settings in the file and in its memory.    *)
HolderKnows ==
  \A p \in Procs :
    /\ pc[p] \in {"write_backup", "write_manifest", "patch", "restore_write"} =>
         ~mem[p].patched
    /\ pc[p] \in {"read", "write_backup", "write_manifest", "drop_backup", "patch",
                  "drop_manifest", "drop_restored"} => ~config.patched

Unmissed == PlainBackup /\ Recoverable /\ HolderKnows

Inductive == InEachDirectory /\ Reversible /\ (missed = {} => Unmissed)

-----------------------------------------------------------------------------
LEMMA TypeInit == Init => TypeOK
BY LeaseAssumption
DEF LeaseAssumption, Init, TypeOK, Pristine, Contents, Steps

LEMMA TypeStep == ASSUME TypeOK, [Next]_vars PROVE TypeOK'
<1> USE LeaseAssumption
    DEF LeaseAssumption, TypeOK, Contents, Steps, ApplySteps, CaptureSteps,
        RestoreSteps, files, Move, Pristine
<1>1. ASSUME NEW p \in Procs, BeginCapture(p) \/ BeginRecover(p) PROVE TypeOK'
  <2>1. lock' \in [Dirs -> Procs \cup {None}] /\ pc' \in [Procs -> Steps]
    BY <1>1 DEF BeginCapture, BeginRecover, AcquireLock
  <2> QED BY <1>1, <2>1 DEF BeginCapture, BeginRecover, AcquireLock
<1>2. ASSUME NEW p \in Procs, ApplyStep(p) PROVE TypeOK'
  <2>1. CASE CheckPending(p) \/ ReadConfig(p)
    BY <2>1 DEF CheckPending, ReadConfig
  <2>2. CASE WriteBackup(p)
    BY <2>2 DEF WriteBackup
  <2>4. CASE WriteManifest(p)
    BY <2>4 DEF WriteManifest
  <2>5. CASE DropBackup(p)
    <3>1. backup' \in [Dirs -> Contents \cup {None}]
      BY <2>5 DEF DropBackup
    <3> QED BY <2>5, <3>1 DEF DropBackup
  <2>3. CASE WriteConfig(p)
    BY <2>3 DEF WriteConfig
  <2> QED BY <1>2, <2>1, <2>2, <2>3, <2>4, <2>5 DEF ApplyStep
<1>3. ASSUME NEW p \in Procs, CaptureStep(p) PROVE TypeOK'
  BY <1>3 DEF CaptureStep, Launch, StartGame, EndRender, StopOwned
<1>4. ASSUME NEW p \in Procs, RestoreStep(p) PROVE TypeOK'
  <2>1. CASE CheckRecover(p) \/ RestoreImpossible(p)
    BY <2>1 DEF CheckRecover, RestoreImpossible
  <2>2. CASE RestoreRead(p)
    <3>1. backup[dir[p]] \in Contents
      BY <2>2 DEF RestoreRead, Intact
    <3> QED BY <2>2, <3>1 DEF RestoreRead
  <2>5. CASE RestoreWrite(p)
    BY <2>5 DEF RestoreWrite
  <2>3. CASE DropManifest(p)
    <3>1. manifest' \in [Dirs -> Contents \cup {None}]
      BY <2>3 DEF DropManifest
    <3> QED BY <2>3, <3>1 DEF DropManifest
  <2>6. CASE DropRestored(p)
    <3>1. backup' \in [Dirs -> Contents \cup {None}]
      BY <2>6 DEF DropRestored
    <3> QED BY <2>6, <3>1 DEF DropRestored
  <2>4. CASE ReleaseLock(p)
    BY <2>4 DEF ReleaseLock
  <2> QED BY <1>4, <2>1, <2>2, <2>3, <2>4, <2>5, <2>6 DEF RestoreStep
<1>5. ASSUME NEW p \in Procs, FileFails(p) PROVE TypeOK'
  <2>1. missed' \subseteq Dirs
    BY <1>5 DEF FileFails
  <2> QED BY <1>5, <2>1 DEF FileFails, FallibleSteps, AfterFailure
<1>6. ASSUME NEW p \in Procs, Crash(p) PROVE TypeOK'
  <2>1. crashes' \in 0..MaxCrashes
    BY <1>6 DEF Crash
  <2> QED BY <1>6, <2>1 DEF Crash
<1>7. CASE World
  <2>1. CASE PlayerEdits
    BY <2>1 DEF PlayerEdits
  <2>2. CASE PlayerStartsGame
    BY <2>2 DEF PlayerStartsGame
  <2>3. ASSUME NEW g \in Procs \cup {Other}, GameExits(g) PROVE TypeOK'
    BY <2>3 DEF GameExits
  <2> QED BY <1>7, <2>1, <2>2, <2>3 DEF World
<1>8. CASE UNCHANGED vars
  BY <1>8 DEF vars
<1> QED BY <1>1, <1>2, <1>3, <1>4, <1>5, <1>6, <1>7, <1>8 DEF Next, Step

(* No operation leaves a value of the wrong kind in a file, a lock or a    *)
(* process (gamecfg.go).                                                   *)
THEOREM TypeCorrect == Spec => []TypeOK
BY TypeInit, TypeStep, PTL DEF Spec

-----------------------------------------------------------------------------
(***************************************************************************)
(* What the lock of each state directory protects, also when captures of   *)
(* one game.cfg use several.                                               *)
(***************************************************************************)

(* A step that writes no file. *)
LEMMA OnlyWritersWrite ==
  ASSUME [Next]_vars,
         \A p \in Procs : ~(WriteBackup(p) \/ WriteManifest(p) \/ DropBackup(p)
                            \/ WriteConfig(p) \/ RestoreWrite(p) \/ DropManifest(p)
                            \/ DropRestored(p)),
         ~PlayerEdits
  PROVE  UNCHANGED files
BY DEF Next, vars, files, World, Step, ApplyStep, CaptureStep, RestoreStep, BeginCapture,
       BeginRecover, AcquireLock, CheckPending, ReadConfig, Launch, StartGame, EndRender,
       StopOwned, CheckRecover, RestoreRead, RestoreImpossible, ReleaseLock, FileFails,
       Crash, PlayerStartsGame, GameExits

LEMMA DirectoryInit == Init => InEachDirectory
BY TypeInit DEF Init, InEachDirectory, Exclusive, DirectoryKnows

(* Two invocations that are both inside are in different directories. *)
LEMMA Apart ==
  ASSUME InEachDirectory, NEW p \in Procs, NEW q \in Procs, p # q,
         pc[p] # "idle", pc[q] # "idle"
  PROVE  dir[p] # dir[q]
BY DEF InEachDirectory, Exclusive

(* An operation of p on its own directory: what any other invocation knows *)
(* is of another one.                                                      *)
LEMMA DirectoryStep == ASSUME InEachDirectory, [Next]_vars PROVE InEachDirectory'
<1>0. TypeOK'
  BY TypeStep DEF InEachDirectory
<1> USE LeaseAssumption, NoFileAssumption
    DEF LeaseAssumption, NoFileAssumption, InEachDirectory, TypeOK, Exclusive,
        DirectoryKnows, files, Move
<1>1. ASSUME NEW p \in Procs, BeginCapture(p) \/ BeginRecover(p)
      PROVE  Exclusive' /\ DirectoryKnows'
  BY <1>1 DEF BeginCapture, BeginRecover, AcquireLock
<1>2. ASSUME NEW p \in Procs, ApplyStep(p) PROVE Exclusive' /\ DirectoryKnows'
  <2>1. CASE CheckPending(p)
    BY <2>1 DEF CheckPending, Pending
  <2>2. CASE ReadConfig(p)
    BY <2>2 DEF ReadConfig
  <2>3. CASE WriteBackup(p)
    BY <2>3, Apart DEF WriteBackup
  <2>4. CASE WriteManifest(p)
    BY <2>4, Apart DEF WriteManifest
  <2>5. CASE DropBackup(p)
    BY <2>5, Apart DEF DropBackup
  <2>6. CASE WriteConfig(p)
    BY <2>6 DEF WriteConfig
  <2> QED BY <1>2, <2>1, <2>2, <2>3, <2>4, <2>5, <2>6 DEF ApplyStep
<1>3. ASSUME NEW p \in Procs, CaptureStep(p) PROVE Exclusive' /\ DirectoryKnows'
  BY <1>3 DEF CaptureStep, Launch, StartGame, EndRender, StopOwned
<1>4. ASSUME NEW p \in Procs, RestoreStep(p) PROVE Exclusive' /\ DirectoryKnows'
  <2>1. CASE CheckRecover(p) \/ RestoreImpossible(p)
    BY <2>1 DEF CheckRecover, RestoreImpossible
  <2>2. CASE RestoreRead(p)
    BY <2>2 DEF RestoreRead, Intact
  <2>3. CASE RestoreWrite(p)
    BY <2>3 DEF RestoreWrite
  <2>4. CASE DropManifest(p)
    BY <2>4, Apart DEF DropManifest
  <2>5. CASE DropRestored(p)
    BY <2>5, Apart DEF DropRestored
  <2>6. CASE ReleaseLock(p)
    BY <2>6 DEF ReleaseLock
  <2> QED BY <1>4, <2>1, <2>2, <2>3, <2>4, <2>5, <2>6 DEF RestoreStep
<1>5. ASSUME NEW p \in Procs, FileFails(p) PROVE Exclusive' /\ DirectoryKnows'
  <2>1. /\ pc' = [pc EXCEPT ![p] = AfterFailure(pc[p])]
        /\ UNCHANGED <<backup, manifest, lock, dir, mem>>
    BY <1>5 DEF FileFails
  <2>2. missed \subseteq missed' /\ pc[p] # "idle"
    BY <1>5 DEF FileFails, FallibleSteps
  <2>3. AfterFailure(pc[p]) = "read" /\ Pending(dir[p]) => dir[p] \in missed'
    BY <1>5 DEF FileFails, AfterFailure
  <2>4. AfterFailure(pc[p]) \in {"read", "drop_backup", "restore_read", "unlock"}
    BY DEF AfterFailure
  <2>5. AfterFailure(pc[p]) = "drop_backup" => pc[p] = "write_manifest"
    BY DEF AfterFailure
  <2>6. Exclusive'
    BY <2>1, <2>2
  <2>7. DirectoryKnows'
    BY <2>1, <2>2, <2>3, <2>4, <2>5 DEF Pending
  <2> QED BY <2>6, <2>7
<1>6. ASSUME NEW p \in Procs, Crash(p) PROVE Exclusive' /\ DirectoryKnows'
  BY <1>6 DEF Crash
<1>7. CASE World \/ UNCHANGED vars
  <2>1. UNCHANGED <<backup, manifest, lock, pc, dir, mem, missed>>
    BY <1>7 DEF World, PlayerEdits, PlayerStartsGame, GameExits, vars
  <2>2. Exclusive'
    BY <2>1
  <2>3. DirectoryKnows'
    BY <2>1
  <2> QED BY <1>0, <2>2, <2>3
<1> QED BY <1>0, <1>1, <1>2, <1>3, <1>4, <1>5, <1>6, <1>7 DEF Next, Step

LEMMA EachDirectory == Spec => []InEachDirectory
BY DirectoryInit, DirectoryStep, PTL DEF Spec

(* With any number of state directories: an invocation writes only to the  *)
(* two files of the directory it has locked, and what another one left     *)
(* there is removed, never replaced, as long as no failing check has       *)
(* passed over it (gamecfg.go: Apply, restoreFiles, pendingBackup).        *)
THEOREM LockGuardsItsDirectory ==
  Spec => [][\A d \in Dirs :
               /\ backup'[d] # backup[d] \/ manifest'[d] # manifest[d] =>
                    \E p \in Procs : dir[p] = d /\ lock[d] = p
               /\ d \notin missed =>
                    /\ backup'[d] \in {None, backup[d]} \/ backup[d] = None
                    /\ manifest'[d] \in {None, manifest[d]} \/ manifest[d] = None]_vars
<1> DEFINE Held(d) == \E p \in Procs : dir[p] = d /\ lock[d] = p
           Guarded == \A d \in Dirs :
             /\ backup'[d] # backup[d] \/ manifest'[d] # manifest[d] => Held(d)
             /\ d \notin missed =>
                  /\ backup'[d] \in {None, backup[d]} \/ backup[d] = None
                  /\ manifest'[d] \in {None, manifest[d]} \/ manifest[d] = None
<1>1. ASSUME InEachDirectory, [Next]_vars PROVE [Guarded]_vars
  <2> USE DEF InEachDirectory, TypeOK, Exclusive, DirectoryKnows, Move
  <2>1. ASSUME NEW p \in Procs, WriteBackup(p) PROVE Guarded
    BY <1>1, <2>1 DEF WriteBackup
  <2>2. ASSUME NEW p \in Procs, WriteManifest(p) PROVE Guarded
    BY <1>1, <2>2 DEF WriteManifest
  <2>3. ASSUME NEW p \in Procs, DropBackup(p) \/ DropRestored(p) PROVE Guarded
    BY <1>1, <2>3 DEF DropBackup, DropRestored
  <2>4. ASSUME NEW p \in Procs, DropManifest(p) PROVE Guarded
    BY <1>1, <2>4 DEF DropManifest
  <2>5. ASSUME NEW p \in Procs, WriteConfig(p) \/ RestoreWrite(p) PROVE Guarded
    BY <2>5 DEF WriteConfig, RestoreWrite
  <2>6. CASE PlayerEdits \/ UNCHANGED files
    BY <2>6 DEF PlayerEdits, files
  <2> QED BY <1>1, <2>1, <2>2, <2>3, <2>4, <2>5, <2>6, OnlyWritersWrite
<1> QED BY <1>1, EachDirectory, PTL DEF Spec

(* With any number of state directories: whoever patches game.cfg has a    *)
(* matching backup of what it read in its own directory, and whoever       *)
(* restores writes the backup of its own directory.                        *)
THEOREM PatchIsBacked ==
  Spec => [][\A p \in Procs :
               /\ WriteConfig(p) => /\ Intact(dir[p])
                                    /\ config' = [backup[dir[p]] EXCEPT !.patched = TRUE]
               /\ RestoreWrite(p) => Intact(dir[p]) /\ config' = backup[dir[p]]]_vars
<1> DEFINE Backed == \A p \in Procs :
             /\ WriteConfig(p) => /\ Intact(dir[p])
                                  /\ config' = [backup[dir[p]] EXCEPT !.patched = TRUE]
             /\ RestoreWrite(p) => Intact(dir[p]) /\ config' = backup[dir[p]]
<1>1. ASSUME InEachDirectory PROVE Backed
  <2> SUFFICES ASSUME NEW p \in Procs, WriteConfig(p) \/ RestoreWrite(p)
               PROVE  /\ backup[dir[p]] = mem[p] /\ manifest[dir[p]] = mem[p]
                      /\ mem[p] # None
    BY DEF WriteConfig, RestoreWrite, Intact
  <2>1. pc[p] \in {"patch", "restore_write"}
    BY DEF WriteConfig, RestoreWrite, Move
  <2> QED BY <1>1, <2>1, NoFileAssumption
          DEF NoFileAssumption, InEachDirectory, TypeOK, DirectoryKnows
<1> QED BY <1>1, EachDirectory, PTL DEF Spec
-----------------------------------------------------------------------------
(***************************************************************************)
(* With one state directory: the inductive invariant.                      *)
(***************************************************************************)
LEMMA InductiveInit == Init => Inductive
BY DirectoryInit DEF Init, Inductive, Reversible, Unmissed, PlainBackup, Recoverable,
   HolderKnows, Pristine

(* Taking the lock gives no knowledge yet. *)
LEMMA BeginKeeps ==
  ASSUME OneStateDir, Inductive, NEW p \in Procs,
         BeginCapture(p) \/ BeginRecover(p)
  PROVE  Reversible' /\ (missed' = {} => Unmissed')
<1>1. PICK d : Dirs = {d} /\ \A q \in Procs : dir[q] = d
  BY DEF OneStateDir, Inductive, InEachDirectory, TypeOK
<1> USE <1>1, LeaseAssumption DEF LeaseAssumption, Inductive, InEachDirectory, TypeOK,
        Contents, Exclusive, DirectoryKnows, Reversible, Unmissed, PlainBackup,
        Recoverable, HolderKnows, Unpatched, Intact, Pending, files, Move
<1>2. CASE BeginCapture(p)
  BY <1>2 DEF BeginCapture, AcquireLock
<1>3. CASE BeginRecover(p)
  BY <1>3 DEF BeginRecover, AcquireLock
<1> QED BY <1>2, <1>3

(* Taking the capture settings out again gives the original content. *)
LEMMA PatchIsUndone ==
  ASSUME NEW c \in Contents, ~c.patched
  PROVE  Unpatched([c EXCEPT !.patched = TRUE]) = c
BY DEF Contents, Unpatched

(* Apply. *)
LEMMA ApplyKeeps ==
  ASSUME OneStateDir, Inductive, NEW p \in Procs,
         CheckPending(p) \/ ReadConfig(p) \/ WriteBackup(p) \/ WriteManifest(p) \/ DropBackup(p) \/ WriteConfig(p)
  PROVE  Reversible' /\ (missed' = {} => Unmissed')
<1>1. PICK d : Dirs = {d} /\ \A q \in Procs : dir[q] = d
  BY DEF OneStateDir, Inductive, InEachDirectory, TypeOK
<1> USE <1>1, LeaseAssumption DEF LeaseAssumption, Inductive, InEachDirectory, TypeOK,
        Contents, Exclusive, DirectoryKnows, Reversible, Unmissed, PlainBackup,
        Recoverable, HolderKnows, Unpatched, Intact, Pending, files, Move
<1>2. CASE CheckPending(p)
  BY <1>2 DEF CheckPending
<1>3. CASE ReadConfig(p)
  BY <1>3 DEF ReadConfig
<1>4. CASE WriteBackup(p)
  BY <1>4 DEF WriteBackup
<1>5. CASE WriteManifest(p)
  BY <1>5 DEF WriteManifest
<1>6. CASE DropBackup(p)
  BY <1>6 DEF DropBackup
<1>7. CASE WriteConfig(p)
  <2>1. backup'[d] = mem[p] /\ manifest'[d] = mem[p] /\ mem[p] # None
    BY <1>7, NoFileAssumption DEF NoFileAssumption, WriteConfig
  <2>2. config' = [mem[p] EXCEPT !.patched = TRUE] /\ missed' = missed
    BY <1>7 DEF WriteConfig
  <2>3. Reversible'
    <3>1. mem[p] \in {config', Unpatched(config')}
      <4>1. mem[p].patched => config' = mem[p]
        BY <2>2
      <4> QED BY <2>2, <4>1, PatchIsUndone
    <3>2. \A q \in Procs : pc'[q] \notin {"write_backup", "write_manifest", "patch"}
      BY <1>7 DEF WriteConfig
    <3> QED BY <2>1, <3>1, <3>2
  <2>4. ASSUME missed = {} PROVE Unmissed'
    <3>1. Unpatched(config') = mem[p]
      <4>1. ~mem[p].patched /\ mem[p] \in Contents
        BY <1>7, <2>4 DEF WriteConfig
      <4> QED BY ONLY <2>2, <4>1, PatchIsUndone
    <3>2. Recoverable'
      <4>1. Dirs = {d}
        BY <1>1
      <4> QED BY ONLY <2>1, <3>1, <4>1 DEF Recoverable, Intact, Unpatched
    <3>3. PlainBackup' /\ HolderKnows'
      BY <1>7, <2>4 DEF WriteConfig
    <3> QED BY <3>2, <3>3
  <2> QED BY <2>2, <2>3, <2>4
<1> QED BY <1>2, <1>3, <1>4, <1>5, <1>6, <1>7

(* The capture leaves the files alone. *)
LEMMA CaptureKeeps ==
  ASSUME OneStateDir, Inductive, NEW p \in Procs,
         Launch(p) \/ StartGame(p) \/ EndRender(p) \/ StopOwned(p)
  PROVE  Reversible' /\ (missed' = {} => Unmissed')
<1>1. PICK d : Dirs = {d} /\ \A q \in Procs : dir[q] = d
  BY DEF OneStateDir, Inductive, InEachDirectory, TypeOK
<1> USE <1>1, LeaseAssumption DEF LeaseAssumption, Inductive, InEachDirectory, TypeOK,
        Contents, Exclusive, DirectoryKnows, Reversible, Unmissed, PlainBackup,
        Recoverable, HolderKnows, Unpatched, Intact, Pending, files, Move
<1>2. CASE Launch(p)
  BY <1>2 DEF Launch
<1>3. CASE StartGame(p)
  BY <1>3 DEF StartGame
<1>4. CASE EndRender(p)
  BY <1>4 DEF EndRender
<1>5. CASE StopOwned(p)
  BY <1>5 DEF StopOwned
<1> QED BY <1>2, <1>3, <1>4, <1>5

(* restoreFiles and the release of the lock. *)
LEMMA RestoreKeeps ==
  ASSUME OneStateDir, Inductive, NEW p \in Procs,
         CheckRecover(p) \/ RestoreRead(p) \/ RestoreImpossible(p) \/ RestoreWrite(p) \/ DropManifest(p) \/ DropRestored(p) \/ ReleaseLock(p)
  PROVE  Reversible' /\ (missed' = {} => Unmissed')
<1>1. PICK d : Dirs = {d} /\ \A q \in Procs : dir[q] = d
  BY DEF OneStateDir, Inductive, InEachDirectory, TypeOK
<1> USE <1>1, LeaseAssumption DEF LeaseAssumption, Inductive, InEachDirectory, TypeOK,
        Contents, Exclusive, DirectoryKnows, Reversible, Unmissed, PlainBackup,
        Recoverable, HolderKnows, Unpatched, Intact, Pending, files, Move
<1>2. CASE CheckRecover(p)
  BY <1>2 DEF CheckRecover
<1>3. CASE RestoreRead(p)
  BY <1>3 DEF RestoreRead
<1>4. CASE RestoreImpossible(p)
  BY <1>4 DEF RestoreImpossible
<1>5. CASE RestoreWrite(p)
  BY <1>5 DEF RestoreWrite
<1>6. CASE DropManifest(p)
  BY <1>6 DEF DropManifest
<1>7. CASE DropRestored(p)
  BY <1>7 DEF DropRestored
<1>8. CASE ReleaseLock(p)
  BY <1>8 DEF ReleaseLock
<1> QED BY <1>2, <1>3, <1>4, <1>5, <1>6, <1>7, <1>8

(* A failing operation or a kill at any point. *)
LEMMA FailureKeeps ==
  ASSUME OneStateDir, Inductive, NEW p \in Procs,
         FileFails(p) \/ Crash(p)
  PROVE  Reversible' /\ (missed' = {} => Unmissed')
<1>1. PICK d : Dirs = {d} /\ \A q \in Procs : dir[q] = d
  BY DEF OneStateDir, Inductive, InEachDirectory, TypeOK
<1> USE <1>1, LeaseAssumption DEF LeaseAssumption, Inductive, InEachDirectory, TypeOK,
        Contents, Exclusive, DirectoryKnows, Reversible, Unmissed, PlainBackup,
        Recoverable, HolderKnows, Unpatched, Intact, Pending, files, Move
<1>2. CASE FileFails(p)
  BY <1>2 DEF FileFails, FallibleSteps, AfterFailure
<1>3. CASE Crash(p)
  BY <1>3 DEF Crash
<1> QED BY <1>2, <1>3

(* What the player does outside a capture. *)
LEMMA WorldKeeps ==
  ASSUME OneStateDir, Inductive, World
  PROVE  Reversible' /\ (missed' = {} => Unmissed')
<1> USE DEF Inductive, InEachDirectory, TypeOK, Contents, Exclusive, DirectoryKnows,
        Reversible, Unmissed, PlainBackup, Recoverable, HolderKnows, Unpatched, Intact,
        Pending, files
<1>1. CASE PlayerEdits
  <2>1. ~config.patched /\ ~config'.patched
    BY <1>1 DEF PlayerEdits
  <2>2. UNCHANGED <<backup, manifest, lock, pc, dir, mem, missed>>
    BY <1>1 DEF PlayerEdits
  <2> QED BY <2>1, <2>2
<1>2. CASE PlayerStartsGame \/ \E g \in Procs \cup {Other} : GameExits(g)
  <2>1. UNCHANGED <<config, backup, manifest, lock, pc, dir, mem, missed>>
    BY <1>2 DEF PlayerStartsGame, GameExits
  <2> QED BY <2>1
<1> QED BY <1>1, <1>2 DEF World

LEMMA InductiveStep ==
  ASSUME OneStateDir, Inductive, [Next]_vars
  PROVE  Inductive'
<1>1. InEachDirectory'
  BY DirectoryStep DEF Inductive
<1>2. Reversible' /\ (missed' = {} => Unmissed')
  <2>1. ASSUME NEW p \in Procs,
               BeginCapture(p) \/ BeginRecover(p) \/ Step(p) \/ Crash(p)
        PROVE  Reversible' /\ (missed' = {} => Unmissed')
    BY <2>1, BeginKeeps, ApplyKeeps, CaptureKeeps, RestoreKeeps, FailureKeeps
    DEF Step, ApplyStep, CaptureStep, RestoreStep
  <2>2. CASE World
    BY <2>2, WorldKeeps
  <2>3. CASE UNCHANGED vars
    BY <2>3 DEF vars, Inductive, Reversible, Unmissed, PlainBackup, Recoverable,
                HolderKnows, Unpatched, Intact
  <2> QED BY <2>1, <2>2, <2>3 DEF Next
<1> QED BY <1>1, <1>2 DEF Inductive

(* OneStateDir speaks of a constant. *)
LEMMA OneStateDirStays == OneStateDir => []OneStateDir
<1>1. OneStateDir <=> OneStateDir'
  OBVIOUS
<1> QED BY <1>1, PTL

THEOREM InductiveInvariant == OneStateDir /\ Spec => []Inductive
<1>1. OneStateDir /\ Inductive /\ [Next]_vars => Inductive'
  BY InductiveStep
<1> QED BY <1>1, OneStateDirStays, InductiveInit, PTL DEF Spec

-----------------------------------------------------------------------------
(* With one state directory the player's settings can be brought back from *)
(* it at any instant: Apply writes backup and manifest before it patches,  *)
(* and restoreFiles removes them after it has restored.  Only a failing    *)
(* check can lose them, when it passes over a pending backup.              *)
THEOREM OriginalIsRecoverable == OneStateDir /\ Spec => []OriginalRecoverable
<1>1. OneStateDir /\ Inductive => OriginalRecoverable
  BY DEF OneStateDir, Inductive, Unmissed, Recoverable, OriginalRecoverable, Unpatched
<1> QED BY <1>1, OneStateDirStays, InductiveInvariant, PTL

(* Whoever restores, lease, failed Apply or another invocation, the        *)
(* capture settings give way to exactly the settings they replaced; this   *)
(* much holds also after a failing check.                                  *)
THEOREM ExactRestore == OneStateDir /\ Spec => RestoreIsExact
<1> DEFINE Exact == config.patched => config' \in {config, Unpatched(config)}
<1>1. ASSUME OneStateDir, Inductive, [Next]_vars PROVE [Exact]_vars
  <2> USE DEF Inductive, InEachDirectory, DirectoryKnows, Reversible, TypeOK
  <2>1. ASSUME NEW p \in Procs, WriteConfig(p) PROVE Exact
    <3>1. config.patched => mem[p] = config
      BY <1>1, <2>1 DEF WriteConfig, Move
    <3>2. config.patched => config' = config
      BY <1>1, <2>1, <3>1 DEF WriteConfig, Contents
    <3> QED BY <3>2
  <2>2. ASSUME NEW p \in Procs, RestoreWrite(p) PROVE Exact
    <3>1. backup[dir[p]] = mem[p] /\ manifest[dir[p]] = mem[p] /\ mem[p] # None
      BY <1>1, <2>2, NoFileAssumption DEF NoFileAssumption, RestoreWrite, Move
    <3>2. config' = mem[p] /\ dir[p] \in Dirs
      BY <1>1, <2>2 DEF RestoreWrite
    <3> QED BY <1>1, <3>1, <3>2 DEF Intact
  <2>3. CASE PlayerEdits
    BY <2>3 DEF PlayerEdits
  <2>4. ASSUME NEW p \in Procs,
               WriteBackup(p) \/ WriteManifest(p) \/ DropBackup(p) \/ DropManifest(p)
               \/ DropRestored(p)
        PROVE  Exact
    BY <2>4 DEF WriteBackup, WriteManifest, DropBackup, DropManifest, DropRestored
  <2>5. CASE UNCHANGED files
    BY <2>5 DEF files
  <2> QED BY <1>1, <2>1, <2>2, <2>3, <2>4, <2>5, OnlyWritersWrite
<1> QED BY <1>1, OneStateDirStays, InductiveInvariant, PTL DEF Spec, RestoreIsExact, Unpatched

(* No capture overwrites a backup another one left, and a backup goes only *)
(* when game.cfg holds the player's settings, unless a failing check has   *)
(* passed over it.                                                         *)
THEOREM BackupsOutlivePatches == OneStateDir /\ Spec => BackupOutlivesPatch
<1> DEFINE Kept == \A d \in Dirs \ missed :
                     backup[d] # None /\ backup'[d] # backup[d] =>
                       backup'[d] = None /\ ~config'.patched
<1>1. ASSUME OneStateDir, Inductive, [Next]_vars PROVE [Kept]_vars
  <2>0. PICK d : Dirs = {d} /\ \A q \in Procs : dir[q] = d
    BY <1>1 DEF OneStateDir, Inductive, InEachDirectory, TypeOK
  <2> USE <2>0 DEF Inductive, InEachDirectory, DirectoryKnows, Unmissed, HolderKnows,
          TypeOK, Move
  <2>1. ASSUME NEW p \in Procs, WriteBackup(p) PROVE Kept
    BY <1>1, <2>1 DEF WriteBackup
  <2>2. ASSUME NEW p \in Procs, DropBackup(p) \/ DropRestored(p) PROVE Kept
    BY <1>1, <2>2 DEF DropBackup, DropRestored
  <2>3. ASSUME NEW p \in Procs,
               WriteManifest(p) \/ WriteConfig(p) \/ RestoreWrite(p) \/ DropManifest(p)
        PROVE  Kept
    BY <2>3 DEF WriteManifest, WriteConfig, RestoreWrite, DropManifest
  <2>4. CASE PlayerEdits \/ UNCHANGED files
    BY <2>4 DEF PlayerEdits, files
  <2> QED BY <1>1, <2>1, <2>2, <2>3, <2>4, OnlyWritersWrite
<1> QED BY <1>1, OneStateDirStays, InductiveInvariant, PTL DEF Spec, BackupOutlivesPatch
=============================================================================
