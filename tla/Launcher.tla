------------------------------- MODULE Launcher -------------------------------
(***************************************************************************)
(* The game process of a capture: internal/replay Launcher, WaitReady of   *)
(* its client, and the order in which internal/capture                     *)
(* Automation.GenerateDeathClips uses them between taking the lease on     *)
(* game.cfg and giving it back.                                            *)
(*                                                                         *)
(* A process is known by its PID and by what ps says of it.  The game may  *)
(* exit at any moment and its PID be given to another process; League      *)
(* rewrites its process title, so that the replay can no longer be seen in *)
(* it; the player opens games and replays of their own; ps may fail.       *)
(*                                                                         *)
(* Abstractions: Ctrl-C, deadlines and failing requests are one error      *)
(* return of the step they end; ClipRender has the rendering and           *)
(* CaptureLease the lease, which is one step here, and killed commands,    *)
(* whose games are the player's afterwards.                                *)
(***************************************************************************)
EXTENDS Naturals

CONSTANTS PIDs, None

ASSUME LauncherAssumption == None \notin PIDs

VARIABLES
  kind,      \* what ps says of a PID: see Kinds
  own,       \* the process this command started, while it lives: a history
  pc,        \* what the command does next
  target,    \* Automation: ownedPID
  owned,     \* Launcher.owned[target]
  patched,   \* whether the capture settings are in game.cfg
  error,     \* whether the command is going to return an error
  mistaken   \* whether a failing ps was taken for an exit: a history

system  == <<kind, own>>
command == <<target, owned>>
outcome == <<patched, error, mistaken>>
vars    == <<system, pc, command, outcome>>

(* A League game with the replay in its arguments, or without; not League. *)
League == {"replay", "game"}
Kinds  == League \cup {"none", "other"}

Unlaunched == {"idle", "check", "start"}
Launched   == {"ready", "verify", "render", "press", "stop", "term", "await",
               "again", "kill", "await_kill"}

TypeOK ==
  /\ kind \in [PIDs -> Kinds]
  /\ own \in PIDs \cup {None}
  /\ pc \in Unlaunched \cup Launched \cup {"restore"}
  /\ target \in PIDs \cup {None}
  /\ owned \in {"no", "launched", "verified"}
  /\ patched \in BOOLEAN /\ error \in BOOLEAN /\ mistaken \in BOOLEAN
  /\ pc \in Unlaunched => target = None
  /\ pc \in Launched => target # None

Init ==
  /\ kind \in [PIDs -> Kinds]
  /\ own = None
  /\ pc = "idle" /\ target = None /\ owned = "no"
  /\ patched = FALSE /\ error = FALSE /\ mistaken = FALSE

At(s)   == pc = s
Goto(s) == pc' = s

(* The step ends in an error, and the command goes on with s. *)
FailTo(s) == Goto(s) /\ error' = TRUE /\ UNCHANGED <<patched, mistaken>>

-----------------------------------------------------------------------------
(***************************************************************************)
(* Launch.                                                                 *)
(***************************************************************************)
Begin ==
  /\ At("idle") /\ Goto("check")
  /\ patched' = TRUE /\ error' = FALSE /\ mistaken' = FALSE
  /\ own' = None
  /\ UNCHANGED <<kind, command>>

CheckRunning ==
  /\ At("check") /\ Goto("start")
  /\ \A p \in PIDs : kind[p] \notin League
  /\ UNCHANGED <<system, command, outcome>>

(* A game is running, or ps fails. *)
CheckFails ==
  /\ At("check") /\ FailTo("restore")
  /\ UNCHANGED <<system, command>>

Start(p) ==
  /\ At("start") /\ Goto("ready")
  /\ kind[p] = "none"
  /\ kind' = [kind EXCEPT ![p] = "replay"]
  /\ own' = p /\ target' = p /\ owned' = "launched"
  /\ UNCHANGED outcome

StartFails ==
  /\ At("start") /\ FailTo("restore")
  /\ UNCHANGED <<system, command>>

-----------------------------------------------------------------------------
(***************************************************************************)
(* VerifyOwned, and what it admits to.                                     *)
(***************************************************************************)
Owned == kind[target] \in (IF owned = "verified" THEN League ELSE {"replay"})
Gone  == kind[target] = "none"

(* The Replay API answers, and names the launched PID. *)
WaitReady ==
  /\ At("ready") /\ Goto("verify")
  /\ kind[target] \in League
  /\ UNCHANGED <<system, command, outcome>>

VerifyOwned(from, to) ==
  /\ At(from) /\ Goto(to)
  /\ Owned
  /\ owned' = "verified"
  /\ UNCHANGED <<system, target, outcome>>

Verify            == VerifyOwned("verify", "render")
SelectParticipant == VerifyOwned("render", "press")

(* Two presses of the spectator key, to whatever has the PID. *)
PostKey ==
  /\ At("press") /\ Goto("render")
  /\ UNCHANGED <<system, command, outcome>>

EndRender ==
  /\ At("render") /\ Goto("stop")
  /\ UNCHANGED <<system, command, outcome>>

CaptureFails ==
  /\ pc \in {"ready", "verify", "render", "press"} /\ FailTo("stop")
  /\ UNCHANGED <<system, command>>

-----------------------------------------------------------------------------
(***************************************************************************)
(* StopOwned, in the deferred clean-up.                                    *)
(***************************************************************************)
StopVerify  == VerifyOwned("stop", "term")
VerifyAgain == VerifyOwned("again", "kill")

(* A process that ps does not show has exited; so, to the code, has one    *)
(* for which ps failed.                                                    *)
ProcessGone ==
  /\ pc \in {"stop", "await", "again", "await_kill"} /\ Goto("restore")
  /\ mistaken' = (mistaken \/ ~Gone)
  /\ owned' = "no"
  /\ UNCHANGED <<system, target, patched, error>>

StopRefuses ==
  /\ pc \in {"stop", "again"} /\ ~Gone /\ ~Owned /\ FailTo("restore")
  /\ UNCHANGED <<system, command>>

(* SIGTERM, which the game may ignore. *)
Terminate ==
  /\ At("term") /\ Goto("await")
  /\ UNCHANGED <<system, command, outcome>>

(* Mutant: the PID is not looked at again before the force kill. *)
AwaitTimesOutToKill ==
  /\ At("await") /\ Goto("kill")
  /\ UNCHANGED <<system, command, outcome>>

AwaitTimesOut ==
  /\ At("await") /\ Goto("again")
  /\ UNCHANGED <<system, command, outcome>>

(* SIGKILL; the kernel may take its time. *)
Kill ==
  /\ At("kill") /\ Goto("await_kill")
  /\ \/ kind' = [kind EXCEPT ![target] = "none"] /\ own' = None
     \/ UNCHANGED system
  /\ UNCHANGED <<command, outcome>>

SignalFails ==
  /\ pc \in {"term", "kill"} /\ FailTo("restore")
  /\ UNCHANGED <<system, command>>

(* Mutant: a game that survives SIGKILL is not reported. *)
KillTimesOutSilently ==
  /\ At("await_kill") /\ Goto("restore")
  /\ UNCHANGED <<system, command, outcome>>

KillTimesOut ==
  /\ At("await_kill") /\ FailTo("restore")
  /\ UNCHANGED <<system, command>>

(* lease.Restore: whatever became of the game. *)
RestoreSettings ==
  /\ At("restore") /\ Goto("idle")
  /\ patched' = FALSE
  /\ target' = None /\ owned' = "no"
  /\ UNCHANGED <<system, error, mistaken>>

-----------------------------------------------------------------------------
(***************************************************************************)
(* The processes of the machine.                                           *)
(***************************************************************************)
ProcessEnds(p) ==
  /\ kind[p] # "none"
  /\ kind' = [kind EXCEPT ![p] = "none"]
  /\ own' = IF own = p THEN None ELSE own
  /\ UNCHANGED <<pc, command, outcome>>

(* From a verification to the key or signal: a fraction of a second, too   *)
(* short for the PID to be given away.                                     *)
Instants == {"press", "term", "kill"}

(* A PID that is given away goes to some process, not to another game.     *)
ProcessStarts(p, k) ==
  /\ kind[p] = "none" /\ k # "none"
  /\ p = target => k = "other" /\ pc \notin Instants
  /\ kind' = [kind EXCEPT ![p] = k]
  /\ UNCHANGED <<own, pc, command, outcome>>

(* League rewrites its process title. *)
TitleChanges(p) ==
  /\ kind[p] = "replay"
  /\ kind' = [kind EXCEPT ![p] = "game"]
  /\ UNCHANGED <<own, pc, command, outcome>>

-----------------------------------------------------------------------------
Launch  == Begin \/ CheckRunning \/ CheckFails \/ StartFails \/ \E p \in PIDs : Start(p)
Capture == WaitReady \/ Verify \/ SelectParticipant \/ PostKey \/ EndRender \/ CaptureFails
Stop    == \/ StopVerify \/ Terminate \/ AwaitTimesOut \/ VerifyAgain \/ Kill
           \/ ProcessGone \/ StopRefuses \/ SignalFails \/ KillTimesOut \/ RestoreSettings
Machine == \E p \in PIDs : \/ ProcessEnds(p) \/ TitleChanges(p)
                           \/ \E k \in Kinds : ProcessStarts(p, k)

Next == Launch \/ Capture \/ Stop \/ Machine

Spec == Init /\ [][Next]_vars

-----------------------------------------------------------------------------
(***************************************************************************)
(* Properties.                                                             *)
(***************************************************************************)

(* Keys and signals reach nobody but the game this command launched: not   *)
(* the player's own game, and not the next owner of a PID ("It never       *)
(* targets the League launcher or an unverified game", StopOwned).         *)
SignalsOnlyItsGame == pc \in Instants => Gone \/ target = own

(* "After the owned game exits, it restores the original" settings         *)
(* (README.md): under a running game they are restored only by a command   *)
(* that returns an error, or that ps misled.                               *)
RestoredAfterExit == [][patched /\ ~patched' => own = None \/ error \/ mistaken]_vars
==============================================================================
