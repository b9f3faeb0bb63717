-------------------------- MODULE ClipRenderProofs ---------------------------
(***************************************************************************)
(* Theorems about ClipRender, for any number of deaths, commands and       *)
(* kills.                                                                  *)
(*                                                                         *)
(* Inductive says what the command knows at each step of a death: which    *)
(* file is staged, which is published, and for an automatic command that   *)
(* only its own recording can be under way.  That a recording outlasts the *)
(* moments between the last poll and the rename (LongClips) is needed, and *)
(* assumed, wherever a staged file is used after it was looked at.         *)
(***************************************************************************)
EXTENDS ClipRender, TLAPS

LongClips == ShortClips = FALSE

(* Nothing is published or called ready that is not whole. *)
PublishesWhole ==
  /\ ReadyHasItsClip
  /\ At("publish") => staging[cur] \in Whole
  /\ At("save_ready") => output[cur] \in Whole

(* A row in recording belongs to the death at hand or is explained. *)
RecordingSteps == WaitingSteps \cup {"check", "publish", "save_ready", "save_failed"}

RowsAreExplained ==
  \A d \in Deaths : status[d] = "recording" =>
    \/ unsaved[d] \in {"killed", "refused", "unread"}
    \/ unsaved[d] = "interrupted" /\ output[d] \in Whole
    \/ d = cur /\ pc \in RecordingSteps

(* Where an automatic command knows that nothing is being recorded.        *)
QuietSteps == {"clear", "save_recording", "seek", "camera", "record", "check",
               "publish", "save_ready"}

OwnRecording ==
  auto =>
    /\ pc \in QuietSteps => game \in {"idle", "closed"}
    /\ pc \in {"follow", "poll"} => game # "starting"
    /\ At("poll") => seen /\ (game = "active" => follows)
    /\ pc \in {"save_recording", "seek", "camera", "record", "follow", "poll",
               "check", "publish"} => staging[cur] # "unfollowed"
    /\ At("hook") /\ game \in {"starting", "active"} => staging[cur] # "unfollowed"
    /\ At("save_ready") => output[cur] = "followed"

Inductive == TypeOK /\ PublishesWhole /\ RowsAreExplained /\ OwnRecording

-----------------------------------------------------------------------------
LEMMA FirstDeath == 1 \in Deaths
BY ClipAssumption DEF ClipAssumption, Deaths

LEMMA TypeInit == Init => TypeOK
<1> SUFFICES ASSUME Init PROVE TypeOK
  OBVIOUS
<1>1. 0 \in 0..MaxRuns /\ 0 \in 0..MaxCrashes
  BY ClipAssumption DEF ClipAssumption
<1>2. None \in Files
  BY DEF Files
<1>3. /\ follows \in BOOLEAN /\ owned \in BOOLEAN /\ auto \in BOOLEAN
      /\ seen \in BOOLEAN /\ cancelled \in BOOLEAN
  BY DEF Init
<1> QED BY <1>1, <1>2, <1>3, FirstDeath DEF Init, TypeOK, Steps, Causes

LEMMA TypeStage ==
  ASSUME TypeOK, BeginManual \/ BeginAutomatic \/ Stage
  PROVE  TypeOK'
<1> USE ClipAssumption
    DEF ClipAssumption, TypeOK, Steps, At, Goto, store, disk, league, record, command
<1>1. CASE BeginManual \/ BeginAutomatic
  <2>1. runs' \in 0..MaxRuns
    BY <1>1 DEF BeginManual, BeginAutomatic, Begin
  <2> QED BY <1>1, <2>1, FirstDeath DEF BeginManual, BeginAutomatic, Begin
<1>2. CASE Clear
  <2>1. staging' \in [Deaths -> Files]
    BY <1>2 DEF Clear, Files
  <2> QED BY <1>2, <2>1 DEF Clear
<1>3. CASE RefuseDeath \/ SaveRecordingFails \/ Seek \/ FocusCamera
  BY <1>3 DEF RefuseDeath, SaveRecordingFails, Seek, FocusCamera, PrepareCamera
<1>4. CASE SaveRecording \/ SaveRecordingUnread
  <2>1. status' \in [Deaths -> {"none", "recording", "ready", "failed"}]
    BY <1>4 DEF SaveRecording, SaveRecordingUnread, Save, Causes
  <2>2. unsaved' \in [Deaths -> Causes] /\ pc' \in Steps
    BY <1>4 DEF SaveRecording, SaveRecordingUnread, Save, Causes
  <2> QED BY <1>4, <2>1, <2>2 DEF SaveRecording, SaveRecordingUnread, Save
<1> QED BY <1>1, <1>2, <1>3, <1>4 DEF Stage

LEMMA TypeRecord == ASSUME TypeOK, Record PROVE TypeOK'
<1> USE DEF TypeOK, Steps, At, Goto, store, disk, league, record, command
<1>1. CASE StartRecording \/ StartRecordingUnanswered
  <2>1. seen' \in BOOLEAN
    BY <1>1 DEF StartRecording, StartRecordingUnanswered
  <2>2. idlePolls' \in 0..2 /\ pc' \in Steps
    BY <1>1 DEF StartRecording, StartRecordingUnanswered
  <2>3. game' = "starting" /\ target' = cur /\ UNCHANGED <<follows, owned>>
    BY <1>1 DEF StartRecording, StartRecordingUnanswered, RequestRecording
  <2> QED BY <1>1, <2>1, <2>2, <2>3 DEF StartRecording, StartRecordingUnanswered
<1>2. CASE HookSeesRecording \/ RenderFails
  BY <1>2 DEF HookSeesRecording, RenderFails
<1>4. CASE FollowAgain
  <2>1. seen' \in BOOLEAN /\ follows' \in BOOLEAN
    BY <1>4 DEF FollowAgain, PrepareCamera
  <2> QED BY <1>4, <2>1 DEF FollowAgain, PrepareCamera
<1>5. CASE PollRecording
  <2>1. seen' \in BOOLEAN
    BY <1>5 DEF PollRecording
  <2> QED BY <1>5, <2>1 DEF PollRecording
<1>3. CASE PollIdle
  <2>1. idlePolls' \in 0..2
    BY <1>3 DEF PollIdle
  <2>2. pc' \in Steps
    BY <1>3 DEF PollIdle
  <2> QED BY <1>3, <2>1, <2>2 DEF PollIdle
<1> QED BY <1>1, <1>2, <1>3, <1>4, <1>5 DEF Record

LEMMA TypeConclude == ASSUME TypeOK, Conclude PROVE TypeOK'
<1> USE DEF TypeOK, Steps, At, Goto, store, disk, league, record, command
<1>1. CASE Check \/ PublishFails
  BY <1>1 DEF Check, PublishFails
<1>7. CASE SaveReadyFails \/ SaveReadyInterrupted \/ SaveFailedFails
  <2>1. unsaved' \in [Deaths -> Causes]
    BY <1>7 DEF SaveReadyFails, SaveReadyInterrupted, SaveFailedFails, Causes
  <2> QED BY <1>7, <2>1 DEF SaveReadyFails, SaveReadyInterrupted, SaveFailedFails
<1>2. CASE Publish
  <2>1. output' \in [Deaths -> Files] /\ staging' \in [Deaths -> Files]
    BY <1>2 DEF Publish, Files
  <2> QED BY <1>2, <2>1 DEF Publish
<1>3. CASE SaveReady \/ SaveReadyUnread
  <2>1. status' \in [Deaths -> {"none", "recording", "ready", "failed"}]
    BY <1>3 DEF SaveReady, SaveReadyUnread, Save
  <2>2. cur' \in Deaths
    <3>1. cur' = cur \/ (cur # NDeaths /\ cur' = cur + 1)
      BY <1>3 DEF SaveReady, SaveReadyUnread, Save
    <3> QED BY <3>1, ClipAssumption DEF Deaths, ClipAssumption
  <2>3. unsaved' \in [Deaths -> Causes] /\ pc' \in Steps
    BY <1>3 DEF SaveReady, SaveReadyUnread, Save, Causes
  <2>4. UNCHANGED <<output, staging, partial, game, target, follows, owned, auto,
                    deferred, seen, idlePolls, cancelled, runs, crashes>>
    BY <1>3 DEF SaveReady, SaveReadyUnread, Save
  <2> QED BY <2>1, <2>2, <2>3, <2>4
<1>4. CASE SaveFailed
  <2>1. status' \in [Deaths -> {"none", "recording", "ready", "failed"}]
    BY <1>4 DEF SaveFailed
  <2>2. unsaved' \in [Deaths -> Causes]
    BY <1>4 DEF SaveFailed, Causes
  <2> QED BY <1>4, <2>1, <2>2 DEF SaveFailed
<1>5. CASE CleanStaging
  <2>1. PICK removed \in {{}, deferred} :
          /\ staging' = [d \in Deaths |-> IF d \in removed THEN None ELSE staging[d]]
          /\ partial' = partial \ removed
    BY <1>5 DEF CleanStaging
  <2>2. staging' \in [Deaths -> Files]
    BY <2>1 DEF Files
  <2> QED BY <1>5, <2>1, <2>2 DEF CleanStaging
<1>6. CASE StopGame
  BY <1>6 DEF StopGame
<1> QED BY <1>1, <1>2, <1>3, <1>4, <1>5, <1>6, <1>7 DEF Conclude

LEMMA TypeWorld == ASSUME TypeOK, World PROVE TypeOK'
<1> USE DEF TypeOK, Steps, At, Goto, store, disk, league, record, command
<1>1. CASE Interrupt
  BY <1>1 DEF Interrupt
<1>2. CASE Crash
  <2>1. crashes' \in 0..MaxCrashes
    BY <1>2, ClipAssumption DEF Crash, ClipAssumption
  <2>2. owned' \in BOOLEAN
    BY <1>2 DEF Crash
  <2>3. unsaved' \in [Deaths -> Causes]
    BY <1>2 DEF Crash, Causes
  <2> QED BY <1>2, <2>1, <2>2, <2>3 DEF Crash
<1>3. CASE GameOpens \/ GameCloses \/ EncoderStarts \/ EncoderRefuses
  <2>1. owned' \in BOOLEAN /\ follows' \in BOOLEAN
    BY <1>3 DEF GameOpens, GameCloses, EncoderStarts, EncoderRefuses
  <2> QED BY <1>3, <2>1 DEF GameOpens, GameCloses, EncoderStarts, EncoderRefuses
<1>4. CASE EncoderEnds
  <2>1. staging' \in [Deaths -> Files]
    BY <1>4 DEF EncoderEnds, Files, Whole
  <2> QED BY <1>4, <2>1 DEF EncoderEnds
<1> QED BY <1>1, <1>2, <1>3, <1>4 DEF World

LEMMA TypeStep == ASSUME TypeOK, [Next]_vars PROVE TypeOK'
<1>1. CASE UNCHANGED vars
  BY <1>1 DEF vars, TypeOK, store, disk, league, record, command
<1> QED BY <1>1, TypeStage, TypeRecord, TypeConclude, TypeWorld DEF Next, Step

(* Every reachable state of a render is well-formed; in particular it      *)
(* never gets past the last death (service.go, render).                    *)
THEOREM ClipTypeCorrect == Spec => []TypeOK
BY TypeInit, TypeStep, PTL DEF Spec

-----------------------------------------------------------------------------
(***************************************************************************)
(* What is published is whole.                                             *)
(***************************************************************************)
LEMMA PublishesStep ==
  ASSUME TypeOK, LongClips, PublishesWhole, [Next]_vars
  PROVE  PublishesWhole'
<1> USE DEF PublishesWhole, ReadyHasItsClip, At, Goto, store, disk, league, record,
            command, TypeOK
<1>1. CASE BeginManual \/ BeginAutomatic
  BY <1>1 DEF BeginManual, BeginAutomatic, Begin
<1>2. CASE Stage
  <2>1. CASE Clear \/ RefuseDeath \/ SaveRecordingFails \/ Seek \/ FocusCamera
    BY <2>1 DEF Clear, RefuseDeath, SaveRecordingFails, Seek, FocusCamera, PrepareCamera
  <2>2. CASE SaveRecording \/ SaveRecordingUnread
    BY <2>2 DEF SaveRecording, SaveRecordingUnread, Save
  <2> QED BY <1>2, <2>1, <2>2 DEF Stage
<1>3. CASE Record
  <2>1. pc' \notin {"publish", "save_ready"} /\ UNCHANGED <<status, output>>
    BY <1>3 DEF Record, StartRecording, StartRecordingUnanswered, HookSeesRecording,
       FollowAgain, PrepareCamera, PollRecording, PollIdle, RenderFails
  <2> QED BY <2>1
<1>4. CASE Conclude
  <2>1. CASE Check
    BY <2>1 DEF Check
  <2>2. CASE Publish
    BY <2>2 DEF Publish
  <2>3. CASE SaveReady \/ SaveReadyUnread
    BY <2>3 DEF SaveReady, SaveReadyUnread, Save
  <2>4. CASE SaveFailed
    BY <2>4 DEF SaveFailed
  <2>5. CASE \/ PublishFails \/ SaveReadyFails \/ SaveReadyInterrupted
             \/ SaveFailedFails \/ CleanStaging \/ StopGame
    BY <2>5 DEF PublishFails, SaveReadyFails, SaveReadyInterrupted, SaveFailedFails,
       CleanStaging, StopGame
  <2> QED BY <1>4, <2>1, <2>2, <2>3, <2>4, <2>5 DEF Conclude
<1>5. CASE World
  <2>1. CASE EncoderEnds
    BY <2>1 DEF EncoderEnds, LongClips, Instants
  <2>2. CASE Crash
    BY <2>2 DEF Crash
  <2>3. CASE Interrupt \/ GameOpens \/ GameCloses \/ EncoderStarts \/ EncoderRefuses
    BY <2>3 DEF Interrupt, GameOpens, GameCloses, EncoderStarts, EncoderRefuses
  <2> QED BY <1>5, <2>1, <2>2, <2>3 DEF World
<1>6. CASE UNCHANGED vars
  BY <1>6 DEF vars
<1> QED BY <1>1, <1>2, <1>3, <1>4, <1>5, <1>6 DEF Next, Step

-----------------------------------------------------------------------------
(***************************************************************************)
(* A row in recording is explained.                                        *)
(***************************************************************************)
LEMMA ExplainedStep ==
  ASSUME TypeOK, PublishesWhole, RowsAreExplained, [Next]_vars
  PROVE  RowsAreExplained'
<1> USE DEF RowsAreExplained, RecordingSteps, WaitingSteps, At, Goto, store, disk,
            league, record, command, TypeOK
<1>1. CASE BeginManual \/ BeginAutomatic
  BY <1>1 DEF BeginManual, BeginAutomatic, Begin
<1>2. CASE Stage
  <2>1. CASE Clear \/ RefuseDeath \/ SaveRecordingFails \/ Seek \/ FocusCamera
    BY <2>1 DEF Clear, RefuseDeath, SaveRecordingFails, Seek, FocusCamera, PrepareCamera
  <2>2. CASE SaveRecording \/ SaveRecordingUnread
    BY <2>2 DEF SaveRecording, SaveRecordingUnread, Save
  <2> QED BY <1>2, <2>1, <2>2 DEF Stage
<1>3. CASE Record
  <2>1. pc' \in RecordingSteps /\ UNCHANGED <<status, output, unsaved, cur>>
    BY <1>3 DEF Record, StartRecording, StartRecordingUnanswered, HookSeesRecording,
       FollowAgain, PrepareCamera, PollRecording, PollIdle, RenderFails
  <2> QED BY <2>1
<1>4. CASE Conclude
  <2>1. CASE Check \/ PublishFails
    BY <2>1 DEF Check, PublishFails
  <2>2. CASE Publish
    BY <2>2 DEF Publish, PublishesWhole
  <2>3. CASE SaveReady \/ SaveReadyUnread
    BY <2>3 DEF SaveReady, SaveReadyUnread, Save
  <2>4. CASE SaveFailed
    BY <2>4 DEF SaveFailed
  <2>5. CASE SaveReadyFails \/ SaveFailedFails
    BY <2>5 DEF SaveReadyFails, SaveFailedFails
  <2>6. CASE SaveReadyInterrupted
    BY <2>6 DEF SaveReadyInterrupted, PublishesWhole
  <2>7. CASE CleanStaging \/ StopGame
    BY <2>7 DEF CleanStaging, StopGame
  <2> QED BY <1>4, <2>1, <2>2, <2>3, <2>4, <2>5, <2>6, <2>7 DEF Conclude
<1>5. CASE World
  <2>1. CASE Crash
    BY <2>1 DEF Crash
  <2>2. CASE \/ EncoderEnds \/ Interrupt \/ GameOpens \/ GameCloses \/ EncoderStarts
             \/ EncoderRefuses
    BY <2>2 DEF EncoderEnds, Interrupt, GameOpens, GameCloses, EncoderStarts,
       EncoderRefuses
  <2> QED BY <1>5, <2>1, <2>2 DEF World
<1>6. CASE UNCHANGED vars
  BY <1>6 DEF vars
<1> QED BY <1>1, <1>2, <1>3, <1>4, <1>5, <1>6 DEF Next, Step

-----------------------------------------------------------------------------
(***************************************************************************)
(* An automatic command publishes its own recording.                       *)
(***************************************************************************)
LEMMA OwnStep ==
  ASSUME TypeOK, LongClips, PublishesWhole, OwnRecording, [Next]_vars
  PROVE  OwnRecording'
<1> USE DEF OwnRecording, QuietSteps, At, Goto, store, disk, league, record, command,
            TypeOK, Steps
<1>1. CASE BeginManual \/ BeginAutomatic
  BY <1>1 DEF BeginManual, BeginAutomatic, Begin
<1>2. CASE Stage
  <2>1. CASE Clear
    BY <2>1, ClipAssumption DEF Clear, ClipAssumption
  <2>2. CASE RefuseDeath \/ SaveRecordingFails \/ Seek
    BY <2>2 DEF RefuseDeath, SaveRecordingFails, Seek
  <2>3. CASE SaveRecording \/ SaveRecordingUnread
    BY <2>3 DEF SaveRecording, SaveRecordingUnread, Save
  <2>4. CASE FocusCamera
    BY <2>4 DEF FocusCamera, PrepareCamera
  <2> QED BY <1>2, <2>1, <2>2, <2>3, <2>4 DEF Stage
<1>3. CASE Record
  <2>1. CASE StartRecording
    BY <2>1 DEF StartRecording, RequestRecording
  <2>2. CASE StartRecordingUnanswered \/ RenderFails
    BY <2>2 DEF StartRecordingUnanswered, RequestRecording, RenderFails
  <2>3. CASE HookSeesRecording
    BY <2>3 DEF HookSeesRecording
  <2>4. CASE FollowAgain
    BY <2>4 DEF FollowAgain, PrepareCamera
  <2>5. CASE PollRecording
    BY <2>5 DEF PollRecording
  <2>6. CASE PollIdle
    BY <2>6 DEF PollIdle
  <2> QED BY <1>3, <2>1, <2>2, <2>3, <2>4, <2>5, <2>6 DEF Record
<1>4. CASE Conclude
  <2>1. CASE Check
    BY <2>1 DEF Check
  <2>2. CASE Publish
    <3>1. auto => staging[cur] = "followed"
      BY <2>2 DEF Publish, PublishesWhole, Whole
    <3> QED BY <2>2, <3>1 DEF Publish
  <2>3. CASE SaveReady \/ SaveReadyUnread
    BY <2>3 DEF SaveReady, SaveReadyUnread, Save
  <2>4. CASE \/ PublishFails \/ SaveReadyFails \/ SaveReadyInterrupted \/ SaveFailed
             \/ SaveFailedFails \/ CleanStaging \/ StopGame
    BY <2>4 DEF PublishFails, SaveReadyFails, SaveReadyInterrupted, SaveFailed,
       SaveFailedFails, CleanStaging, StopGame
  <2> QED BY <1>4, <2>1, <2>2, <2>3, <2>4 DEF Conclude
<1>5. CASE World
  <2>1. CASE EncoderEnds
    BY <2>1 DEF EncoderEnds, LongClips, Instants
  <2>2. CASE Crash \/ Interrupt
    BY <2>2 DEF Crash, Interrupt
  <2>3. CASE GameOpens \/ GameCloses \/ EncoderRefuses
    BY <2>3 DEF GameOpens, GameCloses, EncoderRefuses
  <2>4. CASE EncoderStarts
    BY <2>4 DEF EncoderStarts
  <2> QED BY <1>5, <2>1, <2>2, <2>3, <2>4 DEF World
<1>6. CASE UNCHANGED vars
  BY <1>6 DEF vars
<1> QED BY <1>1, <1>2, <1>3, <1>4, <1>5, <1>6 DEF Next, Step

-----------------------------------------------------------------------------
LEMMA InductiveInit == Init => Inductive
BY TypeInit DEF Init, Inductive, PublishesWhole, ReadyHasItsClip, RowsAreExplained,
   OwnRecording, QuietSteps, At

LEMMA InductiveStep ==
  ASSUME LongClips, Inductive, [Next]_vars PROVE Inductive'
BY TypeStep, PublishesStep, ExplainedStep, OwnStep DEF Inductive

THEOREM InductiveInvariant == ASSUME LongClips PROVE Spec => []Inductive
BY InductiveInit, InductiveStep, PTL DEF Spec

(* A ready clip has its whole file, in every run and after every failure   *)
(* (service.go, render).                                                   *)
THEOREM ReadyClipsAreWhole ==
  ASSUME LongClips PROVE Spec => []ReadyHasItsClip
<1>1. Inductive => ReadyHasItsClip
  BY DEF Inductive, PublishesWhole
<1> QED BY <1>1, InductiveInvariant, PTL

(* A row left in recording is one whose command was killed, whose save or  *)
(* read-back failed, or whose command was interrupted with its clip        *)
(* published (service.go, render; clips.go, SaveDeathClip).                *)
THEOREM RecordingRows ==
  ASSUME LongClips PROVE Spec => []RecordingRowsAreExplained
<1>1. Inductive => RecordingRowsAreExplained
  BY DEF Inductive, RowsAreExplained, RecordingRowsAreExplained, RecordingSteps,
     WaitingSteps, At
<1> QED BY <1>1, InductiveInvariant, PTL

(* Whatever is published replaces a clip by a whole one (service.go,       *)
(* render: the rename).                                                    *)
THEOREM PublishedClips ==
  ASSUME LongClips PROVE Spec => PublishedClipIsKept
<1>1. ASSUME Inductive, [Next]_vars, NEW d \in Deaths, output'[d] # output[d]
      PROVE  output'[d] \in Whole
  <2>1. Publish
    BY <1>1 DEF Next, vars, Step, Stage, Record, Conclude, World, BeginManual,
       BeginAutomatic, Begin, Clear, RefuseDeath, SaveRecording, Save,
       SaveRecordingUnread, SaveRecordingFails, Seek, FocusCamera, PrepareCamera, StartRecording,
       StartRecordingUnanswered, HookSeesRecording, FollowAgain, PollRecording,
       PollIdle, RenderFails, Check, PublishFails, SaveReady, SaveReadyUnread,
       SaveReadyFails, SaveReadyInterrupted, SaveFailed, SaveFailedFails, CleanStaging, StopGame,
       Interrupt, Crash, GameOpens, GameCloses, EncoderStarts, EncoderEnds,
       EncoderRefuses, store, disk
  <2> QED BY <1>1, <2>1 DEF Publish, At, Inductive, PublishesWhole, TypeOK
<1>2. Inductive /\ [Next]_vars =>
        [\A d \in Deaths : output'[d] # output[d] => output'[d] \in Whole]_vars
  BY <1>1
<1> QED BY <1>2, InductiveInvariant, PTL DEF Spec, PublishedClipIsKept

(* No automatic command calls a clip ready that does not follow the player *)
(* (client.go, runRecordingStartHook; launcher.go, SelectParticipant).     *)
THEOREM ReadyClipsFollow ==
  ASSUME LongClips PROVE Spec => ReadyFollowsPlayer
<1>1. ASSUME Inductive, [Next]_vars, NEW d \in Deaths, auto,
             status[d] # "ready", status'[d] = "ready"
      PROVE  output[d] = "followed"
  <2>1. SaveReady \/ SaveReadyUnread
    <3>1. status' # status
      BY <1>1
    <3>2. CASE SaveRecording \/ SaveRecordingUnread \/ SaveFailed
      BY <1>1, <3>2 DEF SaveRecording, SaveRecordingUnread, Save, SaveFailed, Inductive,
         TypeOK
    <3> QED
      BY <1>1, <3>1, <3>2 DEF Next, vars, Step, Stage, Record, Conclude, World,
         BeginManual, BeginAutomatic, Begin, Clear, RefuseDeath, SaveRecordingFails,
         Seek, FocusCamera, PrepareCamera, StartRecording, StartRecordingUnanswered,
         HookSeesRecording, FollowAgain, PollRecording, PollIdle, RenderFails, Check,
         Publish, PublishFails, SaveReadyFails, SaveReadyInterrupted,
         SaveFailedFails, CleanStaging, StopGame, Interrupt, Crash, GameOpens,
         GameCloses, EncoderStarts, EncoderEnds, EncoderRefuses, store, disk
  <2> QED BY <1>1, <2>1 DEF SaveReady, SaveReadyUnread, Save, At, Inductive,
          OwnRecording, TypeOK
<1>2. Inductive /\ [Next]_vars =>
        [\A d \in Deaths :
           auto /\ status[d] # "ready" /\ status'[d] = "ready" =>
             output[d] = "followed"]_vars
  BY <1>1
<1> QED BY <1>2, InductiveInvariant, PTL DEF Spec, ReadyFollowsPlayer
==============================================================================
