# Journalol in TLA+

Journalol is a local journal of League of Legends games. One Go process
(`journalol serve`) imports the player's matches from the Riot API into SQLite
and serves the journal: training blocks, target results, reviews, a dashboard.
A host command (`journalol capture`) renders clips of deaths from replays and,
while it does, borrows the player's League configuration.

This directory specifies the parts of it whose correctness depends on order:
what is written before what, what a crash leaves behind, what was read before
it is used, and what the next start makes of it. Each module names the source
it stands for at its head; `PROJECT.json` maps every definition to its lines.

## Inventory

| Component | State it keeps | Operations | Talks to | Hard behaviour |
| --- | --- | --- | --- | --- |
| Import pipeline (`importer/service.go`) | the running flag, the job in memory | `Sync`: discover, queue, load a batch, import each job by steps, defer | Riot client, store | crashes between store calls, partial failure, retry windows, a batch that stops early |
| Discovery (`service.go`), sync runs | `sync_runs`; reads known matches | page each queue until a known ID, queue what was found, report the outcome | Riot client, store | games played between pages, failing pages, gaps left by a killed queueing loop, windows and caps |
| Normalizer (`importer/normalize.go`) | none | `NormalizeMatch`, `ApplyTimeline` | import store | what one side accepts and the other refuses; remakes and durations at their bounds |
| Import store (`store/imports.go`) | `sync_runs`, `import_jobs`, `api_payloads`, `matches`, `timeline_events` | queue, update and list jobs, save payloads, upsert a match, mark it partial | training blocks | never losing what is complete |
| Training blocks (`store/training.go`) | `training_blocks`, `training_targets`, `match_training_blocks`, `target_results` | create, create and activate, activate with replacement, recompute | imports, reviews | import and activation in any order; late imports; corrections |
| Reviews (`store/reviews.go`, `web/handlers.go`) | `match_reviews`, `target_checkins`, annotations | read the form's match, save | training blocks | a form read before the transaction that saves it |
| Queries (`store/matches.go`, `dashboard.go`, `metrics`) | none | list, get, average | store | – |
| Process (`cmd/journalol/main.go`) | its goroutines, the running flag | start, serve, background syncs, signal, shutdown | all | several processes on one database, each killed at any step |
| Database opening (`store/store.go`) | `schema_migrations`, the schema | check, apply and record each migration | SQLite | two processes that race for a migration, or die in one |
| Profile, demo data (`store/store.go`, `demo.go`, `service.go`) | `player_profiles` | ensure and save the primary profile, seed | importer | the profile is read before the transaction that saves it; demo and Riot data must not mix |
| League configuration lease (`leagueconfig/gamecfg.go`) | `game.cfg`, its backup and manifest, a file lock | `Apply`, `Restore`, `RestorePending` | automation | a kill or a failing file operation at any point |
| Capture automation (`capture/automation.go`), launcher (`replay/launcher.go`) | the owned game process | lease, launch, render, stop, restore | lease, replay API | clean-up on every path |
| Clip rendering (`capture/service.go`, `store/clips.go`) | clip files, `death_clips` | stage, record, rename, save | replay API, store | cancellation between file and row |
| Replay client, camera, input (`replay/`) | the game's playback state | seek, record, camera, keys | League | polling against deadlines |
| Riot client (`riot/`) | none | requests with retries and `Retry-After` | Riot | which waits are the client's and which the scheduler's |
| Web server, MCP server, configuration | none | pages, read-only tools, parsing | all | – |

How they interact: the importer is the only writer of jobs and payloads and,
through `UpsertImportedMatch`, also joins matches to training blocks and
evaluates targets. The web handlers write blocks and reviews. All of them use
one `Store` with one connection (`SetMaxOpenConns(1)`), so a store operation is
one step and everything between two of them is open to interleaving. `serve`,
`seed-demo`, `mcp` and `capture` are processes of their own on one database
file, kept apart by SQLite's write lock only; captures also meet each other at
the lease's lock and at `game.cfg`.

What makes each part correct:

* **importer** – a job is let go only when everything of its match is stored;
  a resume step never points past durable work; nothing complete becomes
  incomplete; every job gets its turn; retry windows hold;
* **discovery** – no match is passed over but where the code gives up by
  intent or by a visible failure; a run called succeeded did what it says;
* **process** – every migration is applied once and whole; one profile owns
  everything in the database and stays the same; one sync at a time, and a run
  shown as running is; start-up, syncs and shutdown end;
* **Riot client and normalizer** – short pauses are waited out, long ones are
  scheduled; what passes the normalizer and not the store is known exactly;
* **training journal** – a match counts for one block for good and only within
  its dates; results are those of the present statistics; check-ins are of the
  block the match is in; history does not change;
* **lease** – the player's exact settings are recoverable at any instant, come
  back, and are not disturbed by the next capture;
* **launcher** – no key and no signal reaches a process that this command did
  not start; settings come back after the game has gone, or with an error;
* **clips** – a row says ready only of a whole file that shows the player; a
  published clip is never lost to a failed second attempt; no command hangs.

## Modules

### `ImportPipeline`, `MatchImport`

The body of `Service.Sync` as one worker (`beginSync` admits one per process).
`pc` is the store call or the request made next; `cur`, `memResume`, `doc` and
`cause` are what `importJob` holds in memory; `batch`, `notYet`, `deferred` and
`found` are the locals of `Sync`. The other variables are database columns, by
match, and survive `Crash`.

| Code | Actions |
| --- | --- |
| `Sync`, first half | `BeginSync`, `QueueImportJob`, `QueueError`, `EndQueueing`, `LoadBatch` |
| `Sync`, batch | `PickJob`, `EndBatch`, with `ShouldStopBatch` |
| `loadOrFetchDetail` | `UseStoredDetail`, `BeginDetailFetch`, `DetailArrives`, `DetailRequestFails`, `SaveDetail`, `MarkDetailStored` |
| `importJob`, detail | `UpsertDetail`, `RefuseDetail`, `MarkDetailOnly` |
| `loadOrFetchTimeline` | `UseStoredTimeline`, `BeginTimelineFetch`, `TimelineArrives`, `TimelineRequestFails`, `SaveTimeline`, `MarkTimelineStored` |
| `importJob`, timeline | `ApplyTimeline`, `UpsertComplete`, `RefuseComplete`, `MarkComplete` |
| deferrals | `DeferDetail`, `DeferNormalizeDetail`, `MarkTimelinePartial`, `DeferTimeline`, `DeferNormalizeTimeline` |
| any store call, any time | `StoreCallFails`, `Crash` |
| the world | `RetryWindowOpens`, `RiotCorrects` |

`MatchImport` is what all this promises of a match: unknown, queued, usable,
complete, and only then forgotten; never back. `ImplementsImport` states that
the pipeline implements it under the mapping `Status`: a job is queued when it
exists, usable when a match row does, complete when that row says so.

### `TrainingBlocks`

The journal of one player, by store operation. `status`, `startDate`,
`endDate`, `targets` are the blocks; `assigned`, `results`, `reviewed` and
`checkins` are the rows of `match_training_blocks`, `target_results`,
`match_reviews` and `target_checkins`; `reading` and `asked` are what a review
request read before it saves. `playedUnder` is history only.

| Code | Actions |
| --- | --- |
| `CreateTrainingBlock`, `CreateAndActivateTrainingBlockAt`, `ActivateTrainingBlockAt` | the same names; `Activate` is `activateTrainingBlockTx` |
| `UpsertImportedMatch` with `assignImportedMatchTx` | `UpsertImportedMatch`, `AssignImportedMatch` |
| `recomputeBlockTargetResults`, `metricValue`, `compareMetric` | `Recompute`, `Evaluate`, `CompareMetric` |
| `saveReview`, `Store.UpsertReview` | `OpenReview`, then `UpsertReview` |
| the player and the calendar | `PlayGame`, `NextDay` |

### `CaptureLease`

One process per invocation of `journalol capture`; `pc[p]` is its next file
operation. `Apply` is `BeginCapture` … `WriteConfig`, the automation is
`Launch` … `StopOwned`, `Restore` and `RestorePending` are `RestoreRead` …
`DropRestored`, and every path ends in `ReleaseLock`. `FileFails` is the error
return of any of them, with the clean-up the code does there, and a failing
`os.Stat` of `pendingBackup`, which reads as "no backup": `Apply` then goes on
and backs up the patched file over the pending backup of the original. The
history variable `missed` has the directories in which that happened. `Crash`
kills a process: the kernel drops its lock, everything else stays.

### `Discovery`

The first half of `Sync` and its end, where `ImportPipeline` takes the matches
found as given. The n-th game of a queue is the number n; `games` is what Riot
lists, `queued`, `waiting`, `done` and `rows` are jobs and match rows, `run` is
the newest `sync_runs` row, and the rest are the locals of `Sync`,
`discoverMatchIDs` and `discoverQueueMatchIDs`. `listed`, `beyond` and
`dropped` are history: what was listed when the sync began, what paging left
out by intent (the initial history, the cap), and what the queueing loop lost.

| Code | Actions |
| --- | --- |
| `Sync` begins and ends | `Begin`, `ProfileFails`, `Finish`, `FinishFails` |
| `discoverMatchIDs`, `discoverQueueMatchIDs` | `ReadKnown`, `TurnPage`, `EndQueue`, `DiscoveryFails` |
| the queueing loop | `QueueImportJob`, `QueueError`, `StopQueueing`, `EndQueueing` |
| the batch | `LoadBatch`, `LoadFails`, `Import`, `ImportFails`, `StopBatch`, `EndBatch` |
| the world | `Cancel`, `Crash`, `PlayGame`, `RetryWindowOpens` |

An import is one step here; `ImportPipeline` has its many, and its
`AttemptIsReported` is what `Import` and `ImportFails` take from it: without an
error the job is complete, and only a reported rate limit closes its window.
Which ready jobs are
in a full batch is left open, and so is which queue's matches are the newest in
the window of known ones, since games of different queues have no order here.

### `ClipRender`

`Service.render` for the deaths of one match, the part of the Replay API client
it drives, and the files and rows it writes. `pc` is the next step for the
death `cur`; `status` is the `death_clips` row, `output`, `staging` and
`partial` are the published, the staged and the encoder's temporary file;
`game`, `target`, `follows` and `owned` are League and its encoder; `seen` and
`idlePolls` are the locals of `Record`. `unsaved` is history: what kept the
last command that worked on a death from saving its end.

| Code | Actions |
| --- | --- |
| a command begins | `BeginManual`, `BeginAutomatic` |
| `render`, before recording | `Clear`, `RefuseDeath`, `SaveRecording`, `SaveRecordingUnread`, `SaveRecordingFails`, `Seek`, `FocusCamera` |
| `Record` and its start hook | `StartRecording`, `StartRecordingUnanswered`, `HookSeesRecording`, `FollowAgain`, `PollRecording`, `PollIdle`, `RenderFails` |
| `render`, after recording | `Check`, `Publish`, `PublishFails`, `SaveReady`, `SaveReadyUnread`, `SaveReadyFails`, `SaveReadyInterrupted`, `SaveFailed`, `SaveFailedFails` |
| the deferred clean-up | `CleanStaging`, `StopGame` |
| the world | `Interrupt`, `Crash`, `GameOpens`, `GameCloses`, `EncoderStarts`, `EncoderEnds`, `EncoderRefuses` |

The encoder is external and modelled from what the client expects of it: it
reconstructs the replay before it reports a recording, which loses the camera;
it writes a temporary file and moves it into place when it is done; a new
request replaces the current one. `Instants` is an assumption about time: no
recording ends in the fraction of a second in which the camera settles, or
between the last poll and the rename. `ShortClips` turns it off.
Commands follow one another; two at once are kept apart by the lease.

### `Launcher`

The game process of a capture: what `Launcher`, `WaitReady` and the order of
`Automation.GenerateDeathClips` make of PIDs. `kind` is what `ps` shows of a PID
(a League game with the replay in its arguments, one without, another process,
none); `target` is `ownedPID`, `owned` the entry of `Launcher.owned` for it,
`patched` whether the capture settings are in force, `error` whether the
command will return one. `own` (the live process that was started) and
`mistaken` (a failing `ps` was taken for an exit) are history.

| Code | Actions |
| --- | --- |
| `GenerateDeathClips` up to `Launch` | `Begin`, `CheckRunning`, `CheckFails`, `Start`, `StartFails` |
| `WaitReady`, `VerifyOwned`, rendering | `WaitReady`, `Verify`, `EndRender`, `CaptureFails` |
| `SelectParticipant` | `SelectParticipant` (its verification), `PostKey` |
| `StopOwned` | `StopVerify`, `Terminate`, `AwaitTimesOut`, `VerifyAgain`, `Kill`, `KillTimesOut`, `ProcessGone`, `StopRefuses`, `SignalFails` |
| the deferred `Restore` | `RestoreSettings` |
| the machine | `ProcessEnds`, `ProcessStarts`, `TitleChanges` |

Two assumptions about PIDs, both about time: none is given away in the fraction
of a second between a verification and the key or signal it allows (`Instants`),
and one that is given away goes to a process that is no League game. The second
is needed: once verified, any League game at the PID is taken for the launched
one, because League removes the replay from its arguments. The branch of the
clean-up that looks for the replay when there is no PID is never taken, since a
launched game has one.

### `JournalProcess`

Invocations of the binary on one database file. `ledger` and `applied` are the
rows of `schema_migrations` and what of the schema exists; `writer` is who is
between a migration's body and its commit; `profiles` and `games` are the
owners in `player_profiles` and `matches`; `newest` is the newest `sync_runs`
row, by whose sync it records, and `stuck`, which is history, whether the store
call that begins or ends that run failed and left it running. `pc[p]` has a step for `main` and for each of
two goroutines that sync, `running` is `Service.running`, and `mem` what the
process has read: its command, the migration it is at, the account Riot
answered, the profile it saw, and whether there was one to record a failure
for.

| Code | Actions |
| --- | --- |
| `store.Open`, `migrate` | `CheckMigration`, `ApplyBody`, `RecordMigration` |
| `prepareDemoData`, `SeedDemo` | `SeedNotRequested`, `SeedDemo`, `SeedSkipped`, `SeedRefused` |
| `EnsureProfile`, in `main` and in each sync | `AccountByRiotID`, `ReadProfile`, `ProfileConflict`, `SavePrimaryPlayer`, `EnsureFails` |
| `runWithIO`, before serving | `Launch`, `ServeSaved`, `RequirePrimaryPlayer`, `StartFails` |
| `syncRiotData`, `RunPolling`, `Sync`, `recordProfileFailure` | `BeginSync`, `ReadExisting`, `StartSyncRun`, `StartSyncRunUnread`, `NoSyncRun`, `ImportMatch`, `EndImport`, `FinishSyncRun`, `FinishFails` |
| the end of `runWithIO` | `Signal`, `Exit` |
| the machine | `Kill` |

The import of a whole batch is `ImportMatch`, repeated, and `EndImport`:
`Discovery` and `ImportPipeline` have its steps. `mcp` and `capture` only read
the journal here (clips are `ClipRender`'s).

### `RiotRequests`, `MatchDocuments`

Operators, without state. `RiotRequests` is one call of the Riot client over a
given sequence of answers (`EndsWith` says which one it returns) and what the
importer makes of its error: `Cause` is the class of errors that
`ImportPipeline` has, `NextAttempt` the wait it sets. `ParseRetryAfter` has a
header's three forms and the width of its product; `Loop` and `RetryDelay` are
the loop of `retryDelay`, as a recursive function. `MatchDocuments` is
`NormalizeMatch`, `ApplyTimeline` and the store's `prepareImportedMatch`;
`DetailClass` and `TimelineClass` are the classes of documents that
`ImportPipeline` has. So the two modules say what the classes of that module
stand for, and the assumptions at the end of `MCImportPipeline` that each
occurs. They also compare the loop with its closed form, show a header whose
product wraps, and evaluate
remakes, durations and sequence numbers on both sides of their bounds.

`MC…` modules give the constants small values. `…Proofs` modules hold the
theorems. Operators marked "Mutant" are plausible slips of a definition; each
is used to show that a property would notice it.

## Runs

| Run | Instance | States (distinct) | Shows |
| --- | --- | --- | --- |
| `import_safety` | one match, every class of detail and timeline document, every failure, failing store calls, two crashes, corrected documents | 21 000 | durable state is coherent; memory and store agree; attempts are reported as they went; every step of a sync gets nearer to its end, and every sync ends; the pipeline implements `MatchImport` |
| `import_live` | two matches in one batch, recurring request failures, one crash, documents that get corrected | 55 000 | retry windows hold, a batch that has to stop stops, every queued match is complete at last |
| `import_poison` | two matches, one whose request always fails | violation | the newer match is never attempted |
| `lease` | two invocations, one directory, every file operation and check failing, two kills, one edit | 12 000 | settings recoverable and back at last unless a failing check passed over their backup, exact always; the lock is let go |
| `lease_wedge` | one invocation, one kill | violation | a backup that can be neither used nor restored |
| `training` | two blocks with any dates and targets over three days, one match with every outcome and later corrections, one review request | 644 000 | assignments, results, check-ins and history agree |
| `training_late` | the same | violation | a late import changes a match's focus |
| `clips` | two deaths, two commands of either kind, one kill, Ctrl-C and every failure and answer of the game | 193 000 | ready clips are whole and follow the player; failures are recorded; every command ends |
| `launcher` | three PIDs, any processes at them, commands one after another, every error and answer of `ps` | 4 700 | keys and signals reach only the launched game; settings are restored after its exit, or with an error |
| `discovery` | two queues, three games before or during the syncs, pages of one, a cap of two, one known match, batches of two, failing calls, one kill | 2 242 000 | nothing is passed over unexplained; success means what it says; every step of a sync gets nearer to its end |
| `serve` | two processes of any command on a new database, two accounts, two migrations, every failure, signal and kill | 223 000 | migrations are whole and complete past `Open`, one profile owns everything, a running run is live unless a store call left it behind, everything begun ends |
| `discovery_gap` | two queues, four games, no failing store call, one kill | violation | a gap behind a known match |

Why these bounds are enough: the worker has one job in hand at a time, and what
it writes for one match does not depend on another, so one match shows what is
durable (`import_safety`); jobs interact only through their order in a batch,
the decision to stop it, and the rate-limit flag, all of which two jobs reach
(`import_live`); two crashes allow one inside the recovery from another. Blocks interact only by replacement and by preference between two
candidates; three days give a day before, inside and after a block; matches do
not interact at all, and one is imported again as often as it likes. Two
invocations allow one inside and one that comes too early or after a kill.
Deaths interact through the staged file, the encoder's last request and the
camera, all left by the death, or the command, just before. Queues interact
through the order in which they are paged; three games give one behind the
page, one on it and one played meanwhile, and with a cap of two, a page of one
and one known match every limit is reached.
Three PIDs give the launched game, one of the player's own and a stranger. Two
processes give every race for a migration, a profile or the newest run; two
accounts give a renamed Riot ID; two migrations give one applied and one
missing. For the safety properties, the theorems lift all these bounds.
Type correctness is a theorem of every module with state; only `training`
checks it again.
Each bound (`MaxCrashes`, `MaxEdits`, `MaxBlocks`, `MaxDay`, `MaxRuns`,
`MaxGames`) is a constant that only guards the action it bounds; `BatchLimit`,
`Cap`, `KnownLimit` and `HistoryLimit` are limits of the code (200, 1000, 200,
20) made small.

### Fairness

* `import_safety`: the worker's goroutine runs (`WorkerSpec`, weak fairness of
  `WorkerStep`), and nothing else is assumed: `EverySyncEnds` holds although
  Riot fails for ever, corrects nothing and no retry window passes.
* `import_live`: the worker's goroutine runs (weak fairness of `WorkerStep`),
  polling goes on (`Sync`), retry windows pass, and a request made again and
  again is answered sometimes (strong fairness of the two arrivals). Without
  the last, a job that never gets an answer never completes, and nothing in the
  code could help. `CorrectedSpec` adds that Riot corrects refused documents:
  the code promises to recover then, and only then.
* `lease`: a live process goes on, a file operation of `restore-config` that is
  retried succeeds sometimes (its check, read and write), and the user runs `restore-config` when there is a pending backup,
  as the error message asks.
* `clips`: a running command goes on, and a wait that lasts reaches its
  deadline (weak fairness of `Step` and of `RenderFails`: each wait has a
  timeout in the code). Nothing is assumed of the game or of the user.

* `serve`: a process that starts, a sync that runs and a shutdown go on (weak
  fairness of `Start`, of each goroutine's `SyncStep` and of `Exit` after a
  signal): each of their steps has a deadline in the code, from five seconds
  for a busy lock to two minutes for the startup sync. `ImportMatch` is not
  fair and may be repeated for ever only as long as `EndImport` is not taken,
  whose fairness stands for the end of the batch that `import_live` shows.
  Nobody has to start, signal or kill a process, or to ask for a sync.

## Findings

1. **`import_poison`** – `shouldStopBatch` ends a batch at a server error, and
   `ReadyImportJobs` offers the oldest job first: a job that always fails that
   way keeps all newer ones from being attempted.
2. **`lease_wedge`** – backup and manifest are two files; a kill between the
   two leaves a backup that blocks `Apply` and that `restore-config` refuses.
3. **`training_late`** – a match is assigned by the blocks of the moment it is
   imported; the plan asks for the block active at game time.
4. **`discovery_gap`** – one known match on a page ends the paging, and jobs are
   queued newest first in one transaction each: a sync killed in the loop, then
   one whose discovery stops before that queue but which imports the newer job,
   leave an older match that no later sync finds. The plan asks to stop at a
   full known boundary.

Seen while reading, without a run:

* `deferNormalizeTimeline` puts a job into `partial_timeline` and does not mark
  its match, which stays `detail_only`; the other deferral of a timeline marks
  it, as the plan document asks.
* The lease's lock is in the state directory, an option of the command, not
  beside the `game.cfg` it protects.
* The deferred clean-up restores the configuration also when stopping the game
  failed, and a failing `ps` counts as the exit of the game; README.md says
  "after the owned game exits". `RestoredAfterExit` names both exceptions.
* `hadKnownMatches` is about all queues, so a queue without a known match in
  the window is paged to the cap.
* A cancellation between the last `QueueImportJob` and the batch leaves a run
  called succeeded that imported nothing (`SucceededRunIsComplete` leaves
  cancelled runs out for this reason).
* Apply reads `game.cfg`, writes two files and then writes the patched bytes: a
  setting the player changes in between is lost from the file, and restored to
  the backup's. In the same way a pending backup of a capture that never got to
  patch is restored over whatever was changed since. Both are reachable in
  `CaptureLease`; `OriginalRecoverable` and `RestoreIsExact` speak of what was
  patched, and hold.
* `parseRetryAfter` multiplies without a check: above 9.2 * 10^9 seconds
  the product wraps and may be negative or short, and the client then tries
  again at once. `RetryAfterIsExact` has the bound below which it cannot.
* A run whose process dies stays `running` and the dashboard shows it so:
  `RunningRunIsLive` claims nothing of the runs of a process that is gone. The
  same happens in a live process when `StartSyncRun` cannot read back the row
  it has inserted, or when `FinishSyncRun` fails: the row is shown as running
  until the next sync begins one. The property names this exception (`stuck`).
* `SaveDeathClip` also reads its row back after it is committed: when that
  fails, `render` returns and the row stays `recording` although the command
  has ended (`RecordingRowsAreExplained` names this cause as "unread").
* `pendingBackup` takes every error of `os.Stat` for "no backup". A capture
  started while that happens backs up the patched file over the backup of the
  player's settings, which are then gone. `OriginalRecoverable`,
  `BackupOutlivesPatch` and `SettingsComeBack` hold until then (`missed`);
  `RestoreIsExact` holds also afterwards, since `restore-config` then puts back
  the patched file itself.
* Games beyond the newest 200 known matches or the cap of 1000 are passed over;
  the plan document (236-238, 790-791) promises to resume there.
  `PassedOverIsExplained` counts them as explained (`beyond`).

## Proofs

All for any number of matches, blocks, days, processes, requests, crashes and
edits; the assumptions are the named `ASSUME`s of each module.

**`ImportPipelineProofs`.** The safety properties of the pipeline are not
inductive: that a completed job is whole follows from what the worker knew when
it marked it. The invariant is therefore the durable properties together with
`WorkerAgreesWithStore` (what holds of memory and store at each `pc`),
`BatchIsReady` and `RowsHaveJobs`. One lemma per group of actions shows which
variables it can disturb. From it follow the safety properties of
`import_safety`, `RateLimitedJobsWait`, and the refinement: initial states map
to initial states, and each step to a step of `MatchImport` or a stutter.
`AttemptsAreReported` needs one more invariant, `Accounted`: within an attempt
a cause is known exactly on the way to a deferral, and the window of the job in
hand is open until it is deferred; `StoppedBatchesAreLeft` follows from the same,
since only `PickJob` takes another job. `RunningDown` shows that each step of the worker makes `<<Phase, found, batch, StepsAhead>>`
smaller in its lexicographic order, while the world leaves it alone.

**`CaptureLeaseProofs`.** What a lock can do for its own directory holds for any
number of them and whatever fails (`InEachDirectory`): only the holder writes
the two files, and whoever patches or restores `game.cfg` does it with a
matching backup in its own directory (`PatchIsBacked`); a file that is there is
removed and never replaced while no check has failed over it
(`LockGuardsItsDirectory`). Under `OneStateDir` (the lock is of the directory,
so that it is needed) the lock admits one invocation, and the invariant has two
more parts. `Reversible` holds always: what can be restored over patched
settings is those settings, patched or not, which gives `RestoreIsExact`.
`Unmissed` says what the holder knows of the files at each step and, when there
is none, that a patched configuration has an intact backup of the original; it
holds while no failing check has passed over a backup, and gives
`OriginalRecoverable` and `BackupOutlivesPatch`. Without `OneStateDir` these
three fail.

**`TrainingBlocksProofs`.** A block gets matches only once it is active, and
from then on its targets and start do not change. With two strengthenings –
nothing lies in the future (`Past`), so an interval cut short today keeps its
matches; a form with check-ins read a match whose block is final
(`FormIsOfTheBlock`) – the six properties of `training` are proved.

**`ClipRenderProofs`.** The invariant says what a command knows at each step of
a death: which file is staged (`PublishesWhole`), whose row is `recording`
and why it may stay so (`RowsAreExplained`), and that an automatic command, having removed what was
staged before, sees only its own recording (`OwnRecording`). Where a file is
used after it was looked at, `LongClips` (`ShortClips = FALSE`) is assumed.

**`DiscoveryProofs`.** Whatever is on the pages read, found, to be queued or
queued is closed towards older games: of each, all older ones of its queue are
there too, have a job, or were given up (`Closed`). Paging keeps this although
games are played between pages, because they only push older ones towards the
offset (`PagesReachTheOffset`), and a page that meets a known match closes its
queue because what is behind a known match is closed already – the two facts
need each other, which is why `PassedOverIsExplained` alone is not inductive.
`SeesWhatIsListed` and `ImportsWhatIsFound` follow a sync without failures from
its start to its report and give the two properties of succeeded runs.
`RunningDown` is the measure of a whole sync: the phase (`Ahead`), then in
discovery the queues left and the distance to the cap, in queueing the matches
left, in the batch the jobs left. It goes down although games are played
meanwhile, because a sync queues only what was found (`NothingIsMadeUp`) and
what was found is finite (`WorkIsFinite`).

**`LauncherProofs`.** A process is the command's game because nobody else can
have got its PID unnoticed: while the command holds it, the PID is its own
game's, or is free or given to a stranger (`TargetIsOwn`), and what it started
lives as a League process (`OwnLives`). So whatever passes `VerifyOwned` is the
launched game, and a PID that `ps` does not show means that it is gone.

**`JournalProcessProofs`.** That a migration is whole needs to know of whoever
is in its transaction that its body is not in the schema yet, and that nobody
else can commit until it is gone; that a process past `Open` finds every table,
that all versions below the one it is at are in the ledger. That one profile
owns all games follows from what a sync saved before it imports: its account is
in `profiles`, and since no transaction removes or replaces a profile, it stays
the only one, although every process reads it before the transaction that
saves it. For `RunningRunIsLive` the invariant ties `running` to the one
goroutine that is inside `Sync`, and the newest run to its steps between the
two writes or to `stuck`.

**`RiotProofs`.** Theorems about the operators, for all answers and documents.
`EveryCallEnds` and the choice of the player's participant rest on
`LeastElement` (the least-number principle for sets of naturals, from the
well-foundedness of `<`). So does the loop of `retryDelay`: a recursive
function is a CHOOSE until one is known to exist, which the lemmas before
`TheLoop` show by taking the least number of turns without a trace and
deriving a contradiction – an induction without the library's schema.
`BackoffIsBounded` follows: the delay doubles, never goes down and stays within
`MaxRetryWait`, so the only product that can leave 64 bits is that of
`parseRetryAfter`, whose exact range is `RetryAfterIsExact`.
`DurationIsKnown` says for every document where a match's end and duration come
from: two given ones are stored as given, and a missing one is derived from the
other, so that no game of half a second or more has duration zero.
`LongPauseIsScheduled` joins the client to the scheduler: a long `Retry-After`
is never waited for in place and never shortened on its way to the job.
`WhatTheStoreRefuses` and `WhichTimelinesTheStoreRefuses` join the normalizer
to the store: they list exactly the documents that the one accepts and the
other refuses – a missing champion or a negative number in a match, an event
before the start of the game in a timeline. Such a document is stored and
normalizes again at every attempt, so its job never completes; this is the
class "rejected" of `ImportPipeline`.

Only model-checked: liveness (`EverySyncEnds`, `QueuedJobsComplete`,
`LockIsReleased`, `SettingsComeBack`, `EveryRunEnds`, `ProcessSettles`), which
needs fairness and ENABLED, out of the prover's reach – the two `RunningDown`
theorems prove its other half for a sync, that no infinite sequence of steps
stays inside one; the closed form of `Loop`; and the violations, which are
counterexamples.

## Abstractions

* In `ImportPipeline` a Riot document is a class: usable, refused by the
  normalizer, or normalized and refused by the store; `MatchDocuments` says
  which documents are of which class. Formatting, labels and the events'
  JSON are not modelled.
* Integers have the width of the code where they can leave it, in
  `parseRetryAfter`. Elsewhere they have none: game times and waits are far
  from the limits of 64 bits in everything Riot serves.
* Times are what the code compares: a retry window is open or not, a game and
  the dates of a block are days in the configured timezone. Days are assumed to
  go forward; a change of the timezone setting is not modelled.
* A transaction is atomic and one that fails leaves nothing (SQLite). Where a
  store operation reads its row back after the commit, it may fail with the row
  there: `AfterWrite` (jobs, payloads), `SavePrimaryPlayer`,
  `StartSyncRunUnread`, `SaveRecordingUnread` and `SaveReadyUnread`. Saving a
  block or a review does so too, where only the answer to the browser differs.
  Full disks and corruption are not modelled.
* File contents in the lease are a version of the player's settings, patched or
  not; a checksum matches exactly equal contents.
* Of a review, only its existence and its manual check-ins.

## Not modelled

* Pages, templates, style sheets and the browser script; request checks and
  headers; logging and the wording of errors.
* The MCP server, the dashboard and the match lists: they only read the store.
* Parsing of options and environment, the `healthcheck` command.
* The construction of HTTP requests and the decoding of JSON in the Riot and
  replay clients; the key table and key events of the spectator input.
* The values of the profile's columns, of the demo games and of the payload of
  a review: no operation's control depends on them.
* The parts the plan below names as left.

## Plan

1. Import pipeline, its abstract promise and proofs – done.
2. Lease of the League configuration with proofs – done.
3. Training journal with proofs – done.
4. Discovery and sync runs with proofs – done; left: that its matches found
   refine what `ImportPipeline` takes as given (what it takes of an import is
   `AttemptIsReported`).
5. Clip rendering and the game process (`Launcher`) with proofs – done; left:
   lease, launcher and rendering composed in one module; the waits of
   `PrepareRecording` and of the camera step by step.
6. Processes on one database, migrations, profile and demo data with proofs –
   done.
7. The Riot client's retries and the normalizer as operators with proofs –
   done; left: the deaths of a timeline that clips are rendered for, the
   spectator key table, the dashboard's windows and averages.
