---------------------------- MODULE CaptureLease -----------------------------
(***************************************************************************)
(* The reversible League configuration of an automated replay capture:     *)
(* internal/leagueconfig (Apply, Restore, RestorePending) as driven by     *)
(* Automation.GenerateDeathClips and by journalol capture restore-config.  *)
(*                                                                         *)
(* Each process is one invocation of the host command line.  Every file    *)
(* operation is one action and can fail; atomicWrite renames last, so it   *)
(* has happened or it has not, and a failing os.Stat reads as the absence  *)
(* of the file.  A process can be killed between any two of them: its      *)
(* flock goes with it, its files and the game it started do not.           *)
(*                                                                         *)
(* Abstractions:                                                           *)
(*  - the content of game.cfg is the version of the player's settings it   *)
(*    was made from and whether the capture settings are patched in;       *)
(*  - the manifest is the content its SHA-256 was taken of: the checksum   *)
(*    matches exactly when the contents are equal.  All captures are of    *)
(*    one game.cfg, so the manifest's path always agrees;                  *)
(*  - while the capture settings are in force only Journalol writes the    *)
(*    file; at any other time the player may change it;                    *)
(*  - rendering is one step of any outcome (success, error, Ctrl-C, a      *)
(*    timeout): what happens inside it touches neither file nor lock.      *)
(***************************************************************************)
EXTENDS Naturals

CONSTANTS
  Procs,       \* invocations of journalol capture
  Dirs,        \* capture state directories in use (--state-dir)
  FilesFail,   \* TRUE when file operations may fail
  MaxEdits,    \* bound on the player's own changes of game.cfg
  MaxCrashes,  \* bound on killed processes
  None,        \* no file, or no holder of a lock
  Other        \* a game no live invocation started

ASSUME LeaseAssumption ==
  /\ FilesFail \in BOOLEAN
  /\ MaxEdits \in Nat
  /\ MaxCrashes \in Nat
  /\ None \notin Procs
  /\ Other \notin Procs

Contents == [base : 0..MaxEdits, patched : BOOLEAN]

ASSUME NoFileAssumption == None \notin Contents

VARIABLES
  config,    \* game.cfg
  backup,    \* backup[d]: game.cfg.backup in state directory d
  manifest,  \* manifest[d]: game.cfg.backup.json
  lock,      \* lock[d]: who holds the flock on capture.lock
  games,     \* running League games, by who started them
  pc,        \* pc[p]: the operation process p makes next
  dir,       \* dir[p]: its state directory
  mem,       \* mem[p]: the configuration bytes it holds in memory
  crashes,   \* processes killed so far
  missed     \* history: directories in which a failing check of Apply passed
             \* over a pending backup

files == <<config, backup, manifest>>
vars  == <<config, backup, manifest, lock, games, pc, dir, mem, crashes, missed>>

ApplySteps   == {"check", "read", "write_backup", "write_manifest", "drop_backup", "patch"}
CaptureSteps == {"launch", "start", "playing", "stop"}
RestoreSteps == {"recover", "restore_read", "restore_write", "drop_manifest",
                 "drop_restored"}
Steps == {"idle", "unlock"} \cup ApplySteps \cup CaptureSteps \cup RestoreSteps

TypeOK ==
  /\ config \in Contents
  /\ backup \in [Dirs -> Contents \cup {None}]
  /\ manifest \in [Dirs -> Contents \cup {None}]
  /\ lock \in [Dirs -> Procs \cup {None}]
  /\ games \subseteq Procs \cup {Other}
  /\ pc \in [Procs -> Steps]
  /\ dir \in [Procs -> Dirs]
  /\ mem \in [Procs -> Contents]
  /\ crashes \in 0..MaxCrashes
  /\ missed \subseteq Dirs

Pristine == [base |-> 0, patched |-> FALSE]

Init ==
  /\ config = Pristine
  /\ backup = [d \in Dirs |-> None]
  /\ manifest = [d \in Dirs |-> None]
  /\ lock = [d \in Dirs |-> None]
  /\ games = {}
  /\ pc = [p \in Procs |-> "idle"]
  /\ dir \in [Procs -> Dirs]
  /\ mem = [p \in Procs |-> Pristine]
  /\ crashes = 0
  /\ missed = {}

(* pendingBackup: either file is left. *)
Pending(d) == backup[d] # None \/ manifest[d] # None

(* Process p is at step s and goes on at step t. *)
Move(p, s, t) == pc[p] = s /\ pc' = [pc EXCEPT ![p] = t]

-----------------------------------------------------------------------------
(***************************************************************************)
(* Apply.                                                                  *)
(***************************************************************************)

(* acquireLock without waiting; a held lock is ErrCaptureBusy and changes  *)
(* nothing.                                                                *)
AcquireLock(p, first) ==
  /\ lock[dir[p]] = None
  /\ lock' = [lock EXCEPT ![dir[p]] = p]
  /\ Move(p, "idle", first)
  /\ UNCHANGED <<files, games, dir, mem, crashes, missed>>

BeginCapture(p) == AcquireLock(p, "check")

(* Mutant: the pending backup is not looked for. *)
CheckNothing(p) ==
  /\ Move(p, "check", "read")
  /\ UNCHANGED <<files, lock, games, dir, mem, crashes, missed>>

(* An unfinished backup refuses the lease. *)
CheckPending(p) ==
  /\ Move(p, "check", IF Pending(dir[p]) THEN "unlock" ELSE "read")
  /\ UNCHANGED <<files, lock, games, dir, mem, crashes, missed>>

ReadConfig(p) ==
  /\ Move(p, "read", "write_backup")
  /\ mem' = [mem EXCEPT ![p] = config]
  /\ UNCHANGED <<files, lock, games, dir, crashes, missed>>

WriteBackup(p) ==
  /\ Move(p, "write_backup", "write_manifest")
  /\ backup' = [backup EXCEPT ![dir[p]] = mem[p]]
  /\ UNCHANGED <<config, manifest, lock, games, dir, mem, crashes, missed>>

WriteManifest(p) ==
  /\ Move(p, "write_manifest", "patch")
  /\ manifest' = [manifest EXCEPT ![dir[p]] = mem[p]]
  /\ UNCHANGED <<config, backup, lock, games, dir, mem, crashes, missed>>

(* The manifest could not be written: the backup is taken away again. *)
DropBackup(p) ==
  /\ Move(p, "drop_backup", "unlock")
  /\ backup' = [backup EXCEPT ![dir[p]] = None]
  /\ UNCHANGED <<config, manifest, lock, games, dir, mem, crashes, missed>>

WriteConfig(p) ==
  /\ Move(p, "patch", "launch")
  /\ config' = [mem[p] EXCEPT !.patched = TRUE]
  /\ UNCHANGED <<backup, manifest, lock, games, dir, mem, crashes, missed>>

-----------------------------------------------------------------------------
(***************************************************************************)
(* GenerateDeathClips, with the lease held.                                *)
(***************************************************************************)

(* Launch starts nothing while any League game runs; its refusal and every *)
(* later error run the deferred clean-up.                                  *)
Launch(p) ==
  /\ \/ games = {} /\ Move(p, "launch", "start")
     \/ Move(p, "launch", "restore_read")
  /\ UNCHANGED <<files, lock, games, dir, mem, crashes, missed>>

StartGame(p) ==
  /\ \/ Move(p, "start", "playing") /\ games' = games \cup {p}
     \/ Move(p, "start", "restore_read") /\ UNCHANGED games
  /\ UNCHANGED <<files, lock, dir, mem, crashes, missed>>

EndRender(p) ==
  /\ Move(p, "playing", "stop")
  /\ UNCHANGED <<files, lock, games, dir, mem, crashes, missed>>

(* Mutant: the clean-up's context has no timeout and waits for the exit.   *)
StopOwnedUntilGone(p) ==
  /\ p \notin games
  /\ Move(p, "stop", "restore_read")
  /\ UNCHANGED <<files, lock, games, dir, mem, crashes, missed>>

(* StopOwned, inside thirty seconds: the game is gone, or it is not (it    *)
(* ignores the signals, is not recognised, or ps fails and is taken for an *)
(* exit).  The lease is restored in both cases.                            *)
StopOwned(p) ==
  /\ Move(p, "stop", "restore_read")
  /\ games' \in {games, games \ {p}}
  /\ UNCHANGED <<files, lock, dir, mem, crashes, missed>>

-----------------------------------------------------------------------------
(***************************************************************************)
(* restoreFiles: from a failed Apply, a lease or RestorePending.           *)
(***************************************************************************)

(* RestorePending *)
BeginRecover(p) == AcquireLock(p, "recover")

CheckRecover(p) ==
  /\ Move(p, "recover", IF Pending(dir[p]) THEN "restore_read" ELSE "unlock")
  /\ UNCHANGED <<files, lock, games, dir, mem, crashes, missed>>

(* Manifest, path, backup and checksum in order; any of them missing or    *)
(* wrong ends the restore.                                                 *)
Intact(d) == /\ manifest[d] # None
             /\ backup[d] # None
             /\ backup[d] = manifest[d]

(* Mutant: the bytes in memory are used instead of the file's. *)
RestoreReadFromMemory(p) ==
  /\ Intact(dir[p])
  /\ Move(p, "restore_read", "restore_write")
  /\ UNCHANGED <<files, lock, games, dir, mem, crashes, missed>>

RestoreRead(p) ==
  /\ Intact(dir[p])
  /\ Move(p, "restore_read", "restore_write")
  /\ mem' = [mem EXCEPT ![p] = backup[dir[p]]]
  /\ UNCHANGED <<files, lock, games, dir, crashes, missed>>

RestoreImpossible(p) ==
  /\ ~Intact(dir[p])
  /\ Move(p, "restore_read", "unlock")
  /\ UNCHANGED <<files, lock, games, dir, mem, crashes, missed>>

(* Mutant: the files are removed without the configuration being put back. *)
RestoreWriteLate(p) ==
  /\ Move(p, "restore_write", "drop_manifest")
  /\ UNCHANGED <<files, lock, games, dir, mem, crashes, missed>>

RestoreWrite(p) ==
  /\ Move(p, "restore_write", "drop_manifest")
  /\ config' = mem[p]
  /\ UNCHANGED <<backup, manifest, lock, games, dir, mem, crashes, missed>>

DropManifest(p) ==
  /\ Move(p, "drop_manifest", "drop_restored")
  /\ manifest' = [manifest EXCEPT ![dir[p]] = None]
  /\ UNCHANGED <<config, backup, lock, games, dir, mem, crashes, missed>>

DropRestored(p) ==
  /\ Move(p, "drop_restored", "unlock")
  /\ backup' = [backup EXCEPT ![dir[p]] = None]
  /\ UNCHANGED <<config, manifest, lock, games, dir, mem, crashes, missed>>

(* releaseLock; the invocation ends and another may start, anywhere. *)
ReleaseLock(p) ==
  /\ Move(p, "unlock", "idle")
  /\ lock' = [lock EXCEPT ![dir[p]] = None]
  /\ dir' \in {[dir EXCEPT ![p] = d] : d \in Dirs}
  /\ mem' = [mem EXCEPT ![p] = Pristine]
  /\ UNCHANGED <<files, games, crashes, missed>>

-----------------------------------------------------------------------------
(* A file operation fails: where the code goes from each of them.  To      *)
(* pendingBackup a file it cannot stat is a file that is not there: Apply  *)
(* goes on, and restore-config has nothing to restore.                     *)
AfterFailure(s) ==
  CASE s = "check"          -> "read"
    [] s = "write_manifest" -> "drop_backup"
    [] s = "patch"          -> "restore_read"
    [] OTHER                -> "unlock"

FallibleSteps == {"check", "read", "write_backup", "write_manifest", "drop_backup",
                  "patch", "recover", "restore_read", "restore_write",
                  "drop_manifest", "drop_restored"}

(* Mutant: a failed manifest is ignored and the configuration patched. *)
FileFailsAndGoesOn(p) ==
  /\ FilesFail
  /\ pc[p] \in FallibleSteps
  /\ pc' = [pc EXCEPT ![p] = IF @ = "write_manifest" THEN "patch" ELSE AfterFailure(@)]
  /\ missed' = missed \cup {d \in {dir[p]} : pc[p] = "check" /\ Pending(d)}
  /\ UNCHANGED <<files, lock, games, dir, mem, crashes>>

FileFails(p) ==
  /\ FilesFail
  /\ pc[p] \in FallibleSteps
  /\ pc' = [pc EXCEPT ![p] = AfterFailure(@)]
  /\ missed' = missed \cup {d \in {dir[p]} : pc[p] = "check" /\ Pending(d)}
  /\ UNCHANGED <<files, lock, games, dir, mem, crashes>>

(* The process is killed; the kernel drops its flock and its game goes on. *)
Crash(p) ==
  /\ pc[p] # "idle"
  /\ crashes < MaxCrashes
  /\ crashes' = crashes + 1
  /\ pc' = [pc EXCEPT ![p] = "idle"]
  /\ lock' = [lock EXCEPT ![dir[p]] = None]
  /\ games' = IF p \in games THEN (games \ {p}) \cup {Other} ELSE games
  /\ mem' = [mem EXCEPT ![p] = Pristine]
  /\ UNCHANGED <<files, dir, missed>>

(* The world: the player changes a setting, opens or closes a game.        *)
PlayerEdits ==
  /\ ~config.patched
  /\ config.base < MaxEdits
  /\ config' = [config EXCEPT !.base = @ + 1]
  /\ UNCHANGED <<backup, manifest, lock, games, pc, dir, mem, crashes, missed>>

PlayerStartsGame ==
  /\ games = {}
  /\ games' = {Other}
  /\ UNCHANGED <<files, lock, pc, dir, mem, crashes, missed>>

GameExits(g) ==
  /\ g \in games
  /\ games' = games \ {g}
  /\ UNCHANGED <<files, lock, pc, dir, mem, crashes, missed>>

-----------------------------------------------------------------------------
ApplyStep(p) ==
  \/ CheckPending(p) \/ ReadConfig(p) \/ WriteBackup(p) \/ WriteManifest(p)
  \/ DropBackup(p) \/ WriteConfig(p)

CaptureStep(p) == Launch(p) \/ StartGame(p) \/ EndRender(p) \/ StopOwned(p)

RestoreStep(p) ==
  \/ CheckRecover(p) \/ RestoreRead(p) \/ RestoreImpossible(p) \/ RestoreWrite(p)
  \/ DropManifest(p) \/ DropRestored(p) \/ ReleaseLock(p)

Step(p) == ApplyStep(p) \/ CaptureStep(p) \/ RestoreStep(p) \/ FileFails(p)

World == \/ PlayerEdits \/ PlayerStartsGame
         \/ \E g \in Procs \cup {Other} : GameExits(g)

Next ==
  \/ \E p \in Procs : BeginCapture(p) \/ BeginRecover(p) \/ Step(p) \/ Crash(p)
  \/ World

Spec == Init /\ [][Next]_vars

(***************************************************************************)
(* A running invocation goes on; a file operation that is tried again and  *)
(* again succeeds at some time; and the user does what Apply's message and *)
(* the README ask for: run restore-config after an interrupted capture,    *)
(* again if it fails.                                                      *)
(***************************************************************************)
Fairness ==
  \A p \in Procs :
    /\ WF_vars(Step(p))
    /\ SF_vars(CheckRecover(p)) /\ SF_vars(RestoreRead(p)) /\ SF_vars(RestoreWrite(p))
    /\ SF_vars(Pending(dir[p]) /\ BeginRecover(p))

FairSpec == Spec /\ Fairness

-----------------------------------------------------------------------------
(***************************************************************************)
(* Properties.                                                             *)
(***************************************************************************)

(* Whenever the player's game.cfg is replaced by capture settings, the     *)
(* exact settings it was made from are safe on disk: whatever failed or    *)
(* was killed, some state directory holds a matching backup and manifest.  *)
(* One thing loses them: a check that cannot stat a pending backup and     *)
(* lets Apply back up the patched file in its place.                       *)
OriginalRecoverable ==
  config.patched /\ missed = {} =>
    \E d \in Dirs : Intact(d) /\ backup[d] = [config EXCEPT !.patched = FALSE]

(* The only way out of the capture settings is to the very settings they   *)
(* replaced, also when another process restores them later, and also when  *)
(* a check has passed over a pending backup.                               *)
RestoreIsExact ==
  [][config.patched => config' \in {config, [config EXCEPT !.patched = FALSE]}]_vars

(* A backup that may still be needed is never overwritten by a later       *)
(* capture, and leaves only after the capture settings have left, in every *)
(* directory in which no failing check has passed over it.                 *)
BackupOutlivesPatch ==
  [][\A d \in Dirs \ missed :
       backup[d] # None /\ backup'[d] # backup[d] =>
         backup'[d] = None /\ ~config'.patched]_vars

(* Every capture and every restore-config lets go of the lock, whatever    *)
(* fails inside it and also when the game it started will not exit, so the *)
(* next one is not refused as busy for ever.                               *)
LockIsReleased == \A d \in Dirs : lock[d] # None ~> lock[d] = None

(* The capture settings do not stay: a lease, a failed Apply or the user's *)
(* restore-config brings the player's settings back, unless a check has    *)
(* passed over the backup they are in.                                     *)
SettingsComeBack == config.patched ~> ~config.patched \/ missed # {}

(* What Apply tells the user to do works: an unfinished backup that no     *)
(* process is working on can be restored ("close League and run journalol  *)
(* capture restore-config before retrying").                               *)
PendingIsRestorable ==
  \A d \in Dirs : lock[d] = None /\ Pending(d) => Intact(d)
==============================================================================
