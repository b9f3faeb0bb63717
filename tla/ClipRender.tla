------------------------------ MODULE ClipRender -----------------------------
(***************************************************************************)
(* Rendering the death clips of one match: internal/capture Service.render *)
(* with the Replay API client it drives (PrepareRecording, Record and its  *)
(* start hook, PreparePlayerCamera), the clip rows of internal/store and   *)
(* the files under the clip directory.                                     *)
(*                                                                         *)
(* A run is one capture death-clips command, automatic (it launches and    *)
(* owns the game) or manual (the user opened it).  Runs follow one         *)
(* another; each can be interrupted by Ctrl-C or killed anywhere, and its  *)
(* game and encoder go on without it.                                      *)
(*                                                                         *)
(* The League game is external.  Modelled from what the client expects of  *)
(* it: a recording first reconstructs the replay, which loses the camera,  *)
(* and only then reports itself; it is written to path.tmp and moved to    *)
(* path when it is finished; a new request replaces the current one.       *)
(*                                                                         *)
(* Abstractions: a clip's content is whether it is whole and whether the   *)
(* camera followed the player; polling to a deadline is one step that may  *)
(* succeed or fail; validation before the first death (prepare) refuses    *)
(* or changes nothing the properties see, and neither does the lease       *)
(* (CaptureLease).                                                         *)
(***************************************************************************)
EXTENDS Naturals

CONSTANTS
  NDeaths,     \* imported deaths of the match
  ShortClips,  \* TRUE when a recording may end as soon as it has begun
  MaxRuns,     \* bound on commands
  MaxCrashes,  \* bound on killed commands
  None         \* no file

ASSUME ClipAssumption ==
  /\ NDeaths \in Nat \ {0}
  /\ ShortClips \in BOOLEAN
  /\ MaxRuns \in Nat
  /\ MaxCrashes \in Nat
  /\ None \notin {"empty", "unfollowed", "followed"}

Deaths == 1..NDeaths
Whole  == {"unfollowed", "followed"}
Files  == Whole \cup {"empty", None}

VARIABLES
  status,     \* status[d]: the death_clips row of death d
  output,     \* output[d]: death-NN.webm
  staging,    \* staging[d]: death-NN.pending.webm
  partial,    \* deaths with a death-NN.pending.webm.tmp
  game,       \* the Replay API: closed, idle, starting, active
  target,     \* the death of the encoder's current or last request
  follows,    \* whether the camera follows the player
  owned,      \* whether the open game is the one this command launched
  pc,         \* what render does next
  auto,       \* whether the command is automatic
  cur,        \* the death it is at
  deferred,   \* deaths whose staged files are removed when render returns
  seen,       \* Record: seenRecording
  idlePolls,  \* Record: idlePolls
  cancelled,  \* Ctrl-C
  unsaved,    \* history: what kept a command from saving the end of death d
  runs,       \* commands so far
  crashes     \* commands killed so far

store   == <<status, unsaved>>
disk    == <<output, staging, partial>>
league  == <<game, target, follows, owned>>
record  == <<seen, idlePolls>>
command == <<auto, runs, crashes>>
vars    == <<store, disk, league, record, command, pc, cur, deferred, cancelled>>

Steps == {"idle", "clear", "save_recording", "seek", "camera", "record", "hook",
          "follow", "poll", "check", "publish", "save_ready", "save_failed",
          "clean", "stop"}

Causes == {"no", "killed", "refused", "unread", "interrupted"}

TypeOK ==
  /\ status \in [Deaths -> {"none", "recording", "ready", "failed"}]
  /\ output \in [Deaths -> Files]
  /\ staging \in [Deaths -> Files]
  /\ partial \subseteq Deaths
  /\ game \in {"closed", "idle", "starting", "active"}
  /\ target \in Deaths
  /\ follows \in BOOLEAN
  /\ owned \in BOOLEAN
  /\ pc \in Steps
  /\ auto \in BOOLEAN
  /\ cur \in Deaths
  /\ deferred \subseteq Deaths
  /\ seen \in BOOLEAN
  /\ idlePolls \in 0..2
  /\ cancelled \in BOOLEAN
  /\ unsaved \in [Deaths -> Causes]
  /\ runs \in 0..MaxRuns
  /\ crashes \in 0..MaxCrashes

Init ==
  /\ status = [d \in Deaths |-> "none"]
  /\ output = [d \in Deaths |-> None]
  /\ staging = [d \in Deaths |-> None]
  /\ partial = {}
  /\ game = "closed" /\ target = 1 /\ follows = FALSE /\ owned = FALSE
  /\ pc = "idle" /\ auto = FALSE /\ cur = 1 /\ deferred = {}
  /\ seen = FALSE /\ idlePolls = 0
  /\ cancelled = FALSE
  /\ unsaved = [d \in Deaths |-> "no"]
  /\ runs = 0 /\ crashes = 0

At(s)   == pc = s
Goto(s) == pc' = s

-----------------------------------------------------------------------------
(***************************************************************************)
(* A command begins.                                                       *)
(***************************************************************************)
Begin(automatic) ==
  /\ At("idle") /\ Goto("clear")
  /\ runs < MaxRuns /\ runs' = runs + 1
  /\ auto' = automatic
  /\ cur' = 1 /\ deferred' = {} /\ cancelled' = FALSE
  /\ UNCHANGED <<store, disk, record, crashes>>

(* --manual: Check finds a replay open. *)
BeginManual == game # "closed" /\ Begin(FALSE) /\ UNCHANGED league

(* Launch refuses to start next to a running game; WaitReady and           *)
(* VerifyOwned accept only the game that was launched.                     *)
BeginAutomatic ==
  /\ game = "closed" /\ game' = "idle"
  /\ owned' = TRUE /\ follows' = FALSE
  /\ Begin(TRUE)
  /\ UNCHANGED target

-----------------------------------------------------------------------------
(***************************************************************************)
(* render, one death.                                                      *)
(***************************************************************************)

(* Mutant: the published clip is removed with the staged ones. *)
ClearOutputToo ==
  /\ At("clear") /\ Goto("save_recording")
  /\ output' = [output EXCEPT ![cur] = None]
  /\ staging' = [staging EXCEPT ![cur] = None]
  /\ partial' = partial \ {cur}
  /\ deferred' = deferred \cup {cur}
  /\ UNCHANGED <<store, league, record, command, cur, cancelled>>

(* What an earlier run left staged is removed, and removed again when      *)
(* render returns.                                                         *)
Clear ==
  /\ At("clear") /\ Goto("save_recording")
  /\ staging' = [staging EXCEPT ![cur] = None]
  /\ partial' = partial \ {cur}
  /\ deferred' = deferred \cup {cur}
  /\ UNCHANGED <<store, output, league, record, command, cur, cancelled>>

(* The death falls outside the replay, or a stale file cannot be removed.  *)
RefuseDeath ==
  /\ At("clear") /\ Goto("clean")
  /\ UNCHANGED <<store, disk, league, record, command, cur, deferred, cancelled>>

(* SaveDeathClip on the command's own context: the row is committed and    *)
(* then read again.                                                        *)
Save(s, cause, next) ==
  /\ ~cancelled
  /\ status' = [status EXCEPT ![cur] = s]
  /\ unsaved' = [unsaved EXCEPT ![cur] = cause]
  /\ Goto(next)
  /\ UNCHANGED <<disk, league, record, command, deferred, cancelled>>

SaveRecording ==
  /\ At("save_recording")
  /\ Save("recording", "no", "seek")
  /\ UNCHANGED cur

(* The committed row cannot be read, because of Ctrl-C or in the database: *)
(* render returns, and the row stays in recording.                         *)
SaveRecordingUnread ==
  /\ At("save_recording")
  /\ Save("recording", "unread", "clean")
  /\ UNCHANGED cur

(* Nothing is committed, for either reason: render returns.                *)
SaveRecordingFails ==
  /\ At("save_recording") /\ Goto("clean")
  /\ UNCHANGED <<store, disk, league, record, command, cur, deferred, cancelled>>

(* PrepareRecording: paused, at the start of the clip, reconstructed.      *)
Seek ==
  /\ At("seek") /\ ~cancelled /\ game # "closed"
  /\ Goto(IF auto THEN "camera" ELSE "record")
  /\ UNCHANGED <<store, disk, league, record, command, cur, deferred, cancelled>>

(* PreparePlayerCamera: SelectParticipant sends its keys to the game this  *)
(* command launched and to no other.                                       *)
PrepareCamera(s, next) ==
  /\ At(s) /\ ~cancelled /\ game # "closed" /\ owned
  /\ Goto(next)
  /\ follows' = TRUE

FocusCamera ==
  /\ PrepareCamera("camera", "record")
  /\ UNCHANGED <<store, disk, game, target, owned, record, command, cur, deferred,
                 cancelled>>

-----------------------------------------------------------------------------
(***************************************************************************)
(* Client.Record.                                                          *)
(***************************************************************************)
RequestRecording ==
  /\ game # "closed"
  /\ game' = "starting" /\ target' = cur
  /\ UNCHANGED <<follows, owned>>

(* Mutant: the camera set before the recording is trusted. *)
StartRecordingWithoutHook ==
  /\ At("record") /\ ~cancelled
  /\ RequestRecording
  /\ seen' = FALSE /\ idlePolls' = 0
  /\ Goto("poll")
  /\ UNCHANGED <<store, disk, command, cur, deferred, cancelled>>

StartRecording ==
  /\ At("record") /\ ~cancelled
  /\ RequestRecording
  /\ seen' = FALSE /\ idlePolls' = 0
  /\ Goto(IF auto THEN "hook" ELSE "poll")
  /\ UNCHANGED <<store, disk, command, cur, deferred, cancelled>>

(* The request reaches the game and its answer does not reach the client.  *)
StartRecordingUnanswered ==
  /\ At("record") /\ Goto("save_failed")
  /\ RequestRecording
  /\ UNCHANGED <<store, disk, record, command, cur, deferred, cancelled>>

(* runRecordingStartHook: the recording is active; the camera settles ...  *)
HookSeesRecording ==
  /\ At("hook") /\ ~cancelled /\ game = "active"
  /\ Goto("follow")
  /\ UNCHANGED <<store, disk, league, record, command, cur, deferred, cancelled>>

(* ... and is made to follow the player again.                             *)
FollowAgain ==
  /\ PrepareCamera("follow", "poll")
  /\ seen' = TRUE
  /\ UNCHANGED <<store, disk, game, target, owned, idlePolls, command, cur, deferred,
                 cancelled>>

PollRecording ==
  /\ At("poll") /\ game = "active" /\ ~cancelled
  /\ seen' = TRUE /\ idlePolls' = 0
  /\ UNCHANGED <<store, disk, league, command, pc, cur, deferred, cancelled>>

(* Not recording: over if it was, if a file is there, or at the third time. *)
PollIdle ==
  /\ At("poll") /\ game \in {"idle", "starting"} /\ ~cancelled
  /\ IF seen \/ staging[cur] \in Whole \/ idlePolls = 2
       THEN Goto("check") /\ UNCHANGED idlePolls
       ELSE idlePolls' = idlePolls + 1 /\ UNCHANGED pc
  /\ UNCHANGED <<store, disk, league, seen, command, cur, deferred, cancelled>>

(* Any wait may fail: a deadline, a stalled encoder, a refused request, a  *)
(* game that is gone or not ours, or Ctrl-C.                               *)
WaitingSteps == {"seek", "camera", "record", "hook", "follow", "poll"}

(* Mutant: Record polls without a deadline. *)
RenderFailsBeforePolling ==
  /\ pc \in WaitingSteps \ {"poll"} /\ Goto("save_failed")
  /\ UNCHANGED <<store, disk, league, record, command, cur, deferred, cancelled>>

RenderFails ==
  /\ pc \in WaitingSteps /\ Goto("save_failed")
  /\ UNCHANGED <<store, disk, league, record, command, cur, deferred, cancelled>>

-----------------------------------------------------------------------------
(***************************************************************************)
(* render, after the recording.                                            *)
(***************************************************************************)

(* Mutant: whatever Record left is published. *)
CheckNothing ==
  /\ At("check")
  /\ Goto("publish")
  /\ UNCHANGED <<store, disk, league, record, command, cur, deferred, cancelled>>

(* Stat: an absent or an empty clip is a failure. *)
Check ==
  /\ At("check")
  /\ Goto(IF staging[cur] \in Whole THEN "publish" ELSE "save_failed")
  /\ UNCHANGED <<store, disk, league, record, command, cur, deferred, cancelled>>

Publish ==
  /\ At("publish") /\ staging[cur] # None
  /\ Goto("save_ready")
  /\ output' = [output EXCEPT ![cur] = staging[cur]]
  /\ staging' = [staging EXCEPT ![cur] = None]
  /\ UNCHANGED <<store, partial, league, record, command, cur, deferred, cancelled>>

PublishFails ==
  /\ At("publish") /\ Goto("save_failed")
  /\ UNCHANGED <<store, disk, league, record, command, cur, deferred, cancelled>>

SaveReady ==
  /\ At("save_ready")
  /\ IF cur = NDeaths THEN Save("ready", "no", "clean") /\ UNCHANGED cur
                      ELSE Save("ready", "no", "clear") /\ cur' = cur + 1

(* The row is ready but cannot be read: render returns.                    *)
SaveReadyUnread ==
  /\ At("save_ready")
  /\ Save("ready", "no", "clean")
  /\ UNCHANGED cur

(* The database refuses the row of a published clip ...                    *)
SaveReadyFails ==
  /\ At("save_ready") /\ ~cancelled /\ Goto("clean")
  /\ unsaved' = [unsaved EXCEPT ![cur] = "refused"]
  /\ UNCHANGED <<status, disk, league, record, command, cur, deferred, cancelled>>

(* ... or Ctrl-C came: this save, unlike SaveFailed, uses its context.     *)
SaveReadyInterrupted ==
  /\ At("save_ready") /\ cancelled /\ Goto("clean")
  /\ unsaved' = [unsaved EXCEPT ![cur] = "interrupted"]
  /\ UNCHANGED <<status, disk, league, record, command, cur, deferred, cancelled>>

(* Mutant: a failure is saved on the command's own context. *)
SaveFailedUnlessInterrupted ==
  /\ At("save_failed") /\ Goto("clean")
  /\ status' = IF cancelled THEN status ELSE [status EXCEPT ![cur] = "failed"]
  /\ UNCHANGED <<unsaved, disk, league, record, command, cur, deferred, cancelled>>

(* A failure is saved on a context Ctrl-C does not cancel; whether the row *)
(* can be read again changes only the error.                               *)
SaveFailed ==
  /\ At("save_failed") /\ Goto("clean")
  /\ status' = [status EXCEPT ![cur] = "failed"]
  /\ unsaved' = [unsaved EXCEPT ![cur] = "no"]
  /\ UNCHANGED <<disk, league, record, command, cur, deferred, cancelled>>

SaveFailedFails ==
  /\ At("save_failed") /\ Goto("clean")
  /\ unsaved' = [unsaved EXCEPT ![cur] = "refused"]
  /\ UNCHANGED <<status, disk, league, record, command, cur, deferred, cancelled>>

(* render returns: its deferred removals, whose errors are ignored. *)
CleanStaging ==
  /\ At("clean") /\ Goto("stop")
  /\ \E removed \in {{}, deferred} :
       /\ staging' = [d \in Deaths |-> IF d \in removed THEN None ELSE staging[d]]
       /\ partial' = partial \ removed
  /\ UNCHANGED <<store, output, league, record, command, cur, deferred, cancelled>>

(* StopOwned closes the game this command launched, if it can; a manual    *)
(* command leaves the game alone.                                          *)
StopGame ==
  /\ At("stop") /\ Goto("idle")
  /\ owned' = FALSE
  /\ game' \in IF auto /\ owned THEN {"closed", game} ELSE {game}
  /\ UNCHANGED <<store, disk, target, follows, record, command, cur, deferred,
                 cancelled>>

-----------------------------------------------------------------------------
(***************************************************************************)
(* The world.                                                              *)
(***************************************************************************)
Interrupt ==
  /\ ~At("idle") /\ ~cancelled
  /\ cancelled' = TRUE
  /\ UNCHANGED <<store, disk, league, record, command, pc, cur, deferred>>

Crash ==
  /\ ~At("idle") /\ Goto("idle")
  /\ crashes < MaxCrashes /\ crashes' = crashes + 1
  /\ owned' = FALSE
  /\ unsaved' = [unsaved EXCEPT ![cur] = "killed"]
  /\ UNCHANGED <<status, disk, game, target, follows, record, auto, runs, cur,
                 deferred, cancelled>>

(* The user opens a replay, or a game closes, by itself or by its user.    *)
GameOpens ==
  /\ game = "closed" /\ game' = "idle"
  /\ follows' = FALSE /\ owned' = FALSE
  /\ UNCHANGED <<store, disk, target, record, command, pc, cur, deferred, cancelled>>

GameCloses ==
  /\ game # "closed" /\ game' = "closed"
  /\ owned' = FALSE
  /\ UNCHANGED <<store, disk, target, follows, record, command, pc, cur, deferred,
                 cancelled>>

(* The replay is reconstructed and the recording reports itself. *)
EncoderStarts ==
  /\ game = "starting" /\ game' = "active"
  /\ follows' = FALSE
  /\ partial' = partial \cup {target}
  /\ UNCHANGED <<store, output, staging, target, owned, record, command, pc, cur,
                 deferred, cancelled>>

(* While the camera settles, and from the last poll to the rename: less    *)
(* than a second, a recording of a minute does not end in it.              *)
Instants == {"follow", "check", "publish"}

(* The recording ends: a whole or an empty file, or none. *)
EncoderEnds ==
  /\ game = "active" /\ game' = "idle"
  /\ ShortClips \/ pc \notin Instants
  /\ partial' = partial \ {target}
  /\ \/ /\ target \in partial
        /\ \E f \in {"empty", IF follows THEN "followed" ELSE "unfollowed"} :
             staging' = [staging EXCEPT ![target] = f]
     \/ UNCHANGED staging
  /\ UNCHANGED <<store, output, target, follows, owned, record, command, pc, cur,
                 deferred, cancelled>>

(* A request the encoder refuses leaves it idle. *)
EncoderRefuses ==
  /\ game = "starting" /\ game' = "idle"
  /\ UNCHANGED <<store, disk, target, follows, owned, record, command, pc, cur,
                 deferred, cancelled>>

-----------------------------------------------------------------------------
Stage   == Clear \/ RefuseDeath \/ SaveRecording \/ SaveRecordingUnread
           \/ SaveRecordingFails \/ Seek \/ FocusCamera
Record  == \/ StartRecording \/ StartRecordingUnanswered \/ HookSeesRecording
           \/ FollowAgain \/ PollRecording \/ PollIdle \/ RenderFails
Conclude == \/ Check \/ Publish \/ PublishFails \/ SaveReady \/ SaveReadyUnread
            \/ SaveReadyFails \/ SaveReadyInterrupted \/ SaveFailed \/ SaveFailedFails
            \/ CleanStaging \/ StopGame

Step  == Stage \/ Record \/ Conclude
World == \/ Interrupt \/ Crash \/ GameOpens \/ GameCloses
         \/ EncoderStarts \/ EncoderEnds \/ EncoderRefuses

Next == BeginManual \/ BeginAutomatic \/ Step \/ World

Spec == Init /\ [][Next]_vars

(***************************************************************************)
(* A running command goes on, and a wait that lasts reaches its deadline;  *)
(* nothing is assumed of the game.                                         *)
(***************************************************************************)
Fairness == WF_vars(Step) /\ WF_vars(RenderFails)

FairSpec == Spec /\ Fairness

-----------------------------------------------------------------------------
(***************************************************************************)
(* Properties.                                                             *)
(***************************************************************************)

(* A clip that is ready has a whole file, whatever earlier or later runs   *)
(* were killed, interrupted or failed between their file and row writes.   *)
ReadyHasItsClip == \A d \in Deaths : status[d] = "ready" => output[d] \in Whole

(* An automatic command never calls a clip ready in which the camera did   *)
(* not follow the player: not one staged by an earlier run, by another     *)
(* game, or recorded with the camera that was set before the recording     *)
(* reconstructed the replay.                                               *)
ReadyFollowsPlayer ==
  [][\A d \in Deaths :
       auto /\ status[d] # "ready" /\ status'[d] = "ready" =>
         output[d] = "followed"]_vars

(* A published clip is only ever replaced by another whole one: a later    *)
(* run that fails leaves it in place.                                      *)
PublishedClipIsKept ==
  [][\A d \in Deaths : output'[d] # output[d] => output'[d] \in Whole]_vars

(* A row stays in recording only when its command was killed, when the     *)
(* database refused the save that should have ended it, when the row could *)
(* not be read back after it was begun, or when Ctrl-C came between        *)
(* publishing the clip and saving it as ready, and then the clip is there. *)
(* A clip of an earlier command explains nothing.                          *)
RecordingRowsAreExplained ==
  \A d \in Deaths : At("idle") /\ status[d] = "recording" =>
    \/ unsaved[d] \in {"killed", "refused", "unread"}
    \/ unsaved[d] = "interrupted" /\ output[d] \in Whole

(* Every command ends, whatever the game does or fails to do: a deadline   *)
(* bounds every wait.                                                      *)
EveryRunEnds == ~At("idle") ~> At("idle")
==============================================================================
