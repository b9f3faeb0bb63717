--------------------------- MODULE ImportPipeline ----------------------------
(***************************************************************************)
(* The durable import pipeline: internal/importer/service.go driving the   *)
(* import_jobs, api_payloads and matches tables of internal/store.         *)
(*                                                                         *)
(* One worker runs the body of Service.Sync: beginSync admits one caller   *)
(* per process, and one process owns the database.  Every store call is    *)
(* one transaction and one action here, so a crash, a cancelled context or *)
(* a failing write can fall between any two of them; every Riot request is *)
(* one action with the outcomes the client reports.                        *)
(*                                                                         *)
(* Abstractions:                                                           *)
(*  - a Riot document is one of three classes: "ok"; "invalid", which      *)
(*    normalizeExpectedMatch or ApplyTimeline refuses; "rejected", which   *)
(*    normalizes but prepareImportedMatch refuses (a blank champion name,  *)
(*    a negative event timestamp).  Malformed JSON never reaches the       *)
(*    store: the client reports it as an error.                            *)
(*  - an error is one of "rate_limited" (429), "stop" (any other kind for  *)
(*    which shouldStopBatch is true) and "soft" (404, malformed, database  *)
(*    errors: the batch goes on).                                          *)
(*  - next_attempt_at is the Boolean "is it still ahead": waiting[m].  It  *)
(*    is only ever set together with error code rate_limited.              *)
(*  - which IDs one run's discovery returns is any set of matches          *)
(*    (Discovery's paging is a component of its own).                      *)
(***************************************************************************)
EXTENDS Naturals, FiniteSets

CONSTANTS
  Matches,       \* Riot match IDs of the player's history
  BatchLimit,    \* jobs one ReadyImportJobs call may return (200 in Sync)
  DetailDocs,    \* classes of match documents Riot may serve at first
  TimelineDocs,  \* classes of timeline documents Riot may serve at first
  Failures,      \* errors a Riot request may end with
  Poison,        \* matches whose detail request never succeeds
  StoreFails,    \* TRUE when store calls may fail or be cancelled
  MaxCrashes,    \* bound on process crashes
  None           \* no job being imported

Docs   == {"ok", "invalid", "rejected"}
Causes == {"rate_limited", "stop", "soft"}

ASSUME PipelineAssumption ==
  /\ BatchLimit \in Nat \ {0}
  /\ MaxCrashes \in Nat
  /\ DetailDocs \subseteq Docs
  /\ TimelineDocs \subseteq Docs
  /\ Failures \subseteq Causes
  /\ Poison \subseteq Matches
  /\ StoreFails \in BOOLEAN
  /\ None \notin Matches

VARIABLES
  (* The database: survives a crash. *)
  jobState,   \* import_jobs.state, "none" before the job is queued
  resume,     \* import_jobs.resume_step
  waiting,    \* import_jobs.next_attempt_at is in the future
  rank,       \* place of the job in ORDER BY created_at, id; 0 without a job
  nextRank,   \* the next job's place
  detail,     \* current match payload in api_payloads, "absent" without one
  timeline,   \* current timeline payload
  row,        \* matches.completeness, "absent" without a row
  events,     \* timeline_events and skill order of the match are stored
  (* Riot. *)
  remoteDetail, remoteTimeline,
  (* The worker: lost in a crash. *)
  pc,         \* the store call or request the worker makes next
  found,      \* discovered IDs not yet queued
  notYet,     \* jobs whose retry window was closed when the run took "now"
  deferred,   \* rateLimitDeferred
  batch,      \* ready jobs of this run not yet attempted
  cur,        \* the job being imported
  memResume,  \* its ResumeStep as ReadyImportJobs returned it
  doc,        \* the document in memory
  cause,      \* the error being handled
  crashes     \* crashes so far

db     == <<jobState, resume, waiting, rank, nextRank, detail, timeline, row, events>>
riot   == <<remoteDetail, remoteTimeline>>
run    == <<found, notYet, deferred, batch>>
vars   == <<jobState, resume, waiting, rank, nextRank, detail, timeline, row,
            events, remoteDetail, remoteTimeline, pc, found, notYet, deferred,
            batch, cur, memResume, doc, cause, crashes>>

JobStates == {"none", "pending", "fetching_detail", "detail_stored", "detail_only",
              "fetching_timeline", "retry_wait", "partial_timeline", "complete"}
ResumeSteps == {"detail", "normalize_detail", "timeline", "normalize_timeline", "done"}
Rows  == {"absent", "detail_only", "partial_timeline", "complete"}
Steps == {"idle", "queueing", "ready", "next",
          "lookup_detail", "request_detail", "save_detail", "mark_detail",
          "upsert_detail", "mark_detail_only",
          "lookup_timeline", "request_timeline", "save_timeline", "mark_timeline",
          "apply_timeline", "upsert_complete", "mark_complete", "mark_partial",
          "defer_detail", "defer_normalize_detail",
          "defer_timeline", "defer_normalize_timeline"}

StoreTypeOK ==
  /\ jobState \in [Matches -> JobStates]
  /\ resume \in [Matches -> ResumeSteps]
  /\ waiting \in [Matches -> BOOLEAN]
  /\ rank \in [Matches -> Nat]
  /\ nextRank \in Nat \ {0}
  /\ detail \in [Matches -> Docs \cup {"absent"}]
  /\ timeline \in [Matches -> Docs \cup {"absent"}]
  /\ row \in [Matches -> Rows]
  /\ events \in [Matches -> BOOLEAN]
  /\ remoteDetail \in [Matches -> Docs]
  /\ remoteTimeline \in [Matches -> Docs]

WorkerTypeOK ==
  /\ pc \in Steps
  /\ found \subseteq Matches
  /\ notYet \subseteq Matches
  /\ deferred \in BOOLEAN
  /\ batch \subseteq Matches
  /\ cur \in Matches \cup {None}
  /\ memResume \in ResumeSteps
  /\ doc \in Docs \cup {"absent"}
  /\ cause \in Causes \cup {"none"}
  /\ crashes \in 0..MaxCrashes

TypeOK == StoreTypeOK /\ WorkerTypeOK

Init ==
  /\ jobState = [m \in Matches |-> "none"]
  /\ resume = [m \in Matches |-> "detail"]
  /\ waiting = [m \in Matches |-> FALSE]
  /\ rank = [m \in Matches |-> 0]
  /\ nextRank = 1
  /\ detail = [m \in Matches |-> "absent"]
  /\ timeline = [m \in Matches |-> "absent"]
  /\ row = [m \in Matches |-> "absent"]
  /\ events = [m \in Matches |-> FALSE]
  /\ remoteDetail \in [Matches -> DetailDocs]
  /\ remoteTimeline \in [Matches -> TimelineDocs]
  /\ pc = "idle"
  /\ found = {}
  /\ notYet = {}
  /\ deferred = FALSE
  /\ batch = {}
  /\ cur = None
  /\ memResume = "detail"
  /\ doc = "absent"
  /\ cause = "none"
  /\ crashes = 0

-----------------------------------------------------------------------------
(***************************************************************************)
(* Shared shapes.                                                          *)
(***************************************************************************)

(* Errors a store call can end with: SQLite's own, which do not stop the   *)
(* batch, or a cancelled context, which does.                              *)
StoreErrors == IF StoreFails THEN {"soft", "stop"} ELSE {}

(* Mutant: state and resume step swapped in the UPDATE's arguments. *)
UpdateImportJobSwapped(m, s, r, later) ==
  /\ jobState' = [jobState EXCEPT ![m] = r]
  /\ resume' = [resume EXCEPT ![m] = s]
  /\ waiting' = [waiting EXCEPT ![m] = later]

(* UpdateImportJob: one UPDATE that always rewrites state, resume step and *)
(* next_attempt_at together.                                               *)
UpdateImportJob(m, s, r, later) ==
  /\ jobState' = [jobState EXCEPT ![m] = s]
  /\ resume' = [resume EXCEPT ![m] = r]
  /\ waiting' = [waiting EXCEPT ![m] = later]

JobUnchanged == UNCHANGED <<jobState, resume, waiting>>

(* The worker is at step s of the current job. *)
At(s) == pc = s /\ cur \in Matches

Goto(s) == pc' = s /\ UNCHANGED cause

(* An error sends the worker to the step that handles it. *)
FailTo(s, c) == pc' = s /\ cause' = c

StoreError(s) == \E c \in StoreErrors : FailTo(s, c)

(* UpdateImportJob and SaveAPIPayload read their row back after the write  *)
(* is committed: the caller may see an error although the write happened.  *)
AfterWrite(next, handler) == Goto(next) \/ StoreError(handler)

(* Mutant: the retry window is left out of the query. *)
ReadyIgnoringWindow(m) == jobState[m] \notin {"none", "complete"}

Ready(m) == /\ jobState[m] \notin {"none", "complete"}
            /\ ~waiting[m]

(* ReadyImportJobs: resumable jobs in creation order, cut at the limit. *)
ReadyImportJobs ==
  {m \in Matches : /\ Ready(m)
                   /\ Cardinality({n \in Matches : Ready(n) /\ rank[n] < rank[m]})
                        < BatchLimit}

(* Mutant: any stored payload is trusted. *)
NormalizesAlways(d) == d # "absent"

(* Does the stored match payload normalize for the expected match? *)
Normalizes(d) == d \in {"ok", "rejected"}

-----------------------------------------------------------------------------
(***************************************************************************)
(* Sync: discovery, queueing, batch.                                       *)
(***************************************************************************)

(* A sync starts and its discovery returns the IDs D (a failed or partial  *)
(* discovery returns fewer); "now" is read just before the queue loop.     *)
BeginSync(D) ==
  /\ pc = "idle"
  /\ pc' = "queueing"
  /\ found' = D
  /\ notYet' = {m \in Matches : waiting[m]}
  /\ deferred' = FALSE
  /\ UNCHANGED <<db, riot, batch, cur, memResume, doc, cause, crashes>>

(* QueueImportJob inserts a pending job or finds the existing one; a job   *)
(* whose retry window is closed holds back the whole batch.                *)
QueueImportJob(m) ==
  /\ pc = "queueing"
  /\ m \in found
  /\ found' = found \ {m}
  /\ deferred' = (deferred \/ (jobState[m] # "complete" /\ m \in notYet))
  /\ IF jobState[m] = "none"
       THEN /\ jobState' = [jobState EXCEPT ![m] = "pending"]
            /\ resume' = [resume EXCEPT ![m] = "detail"]
            /\ rank' = [rank EXCEPT ![m] = nextRank]
            /\ nextRank' = nextRank + 1
       ELSE UNCHANGED <<jobState, resume, rank, nextRank>>
  /\ UNCHANGED <<waiting, detail, timeline, row, events, riot, pc, notYet, batch,
                 cur, memResume, doc, cause, crashes>>

(* The insert fails (the loop continues) or the context is done (the run   *)
(* goes straight to its end).                                              *)
QueueError(m) ==
  /\ pc = "queueing"
  /\ m \in found
  /\ \/ "soft" \in StoreErrors /\ found' = found \ {m} /\ pc' = pc
     \/ "stop" \in StoreErrors /\ found' = {} /\ pc' = "idle"
  /\ UNCHANGED <<db, riot, notYet, deferred, batch, cur, memResume, doc, cause, crashes>>

(* After the loop a run with a deferred rate-limited job imports nothing.  *)
EndQueueing ==
  /\ pc = "queueing"
  /\ found = {}
  /\ pc' = IF deferred THEN "idle" ELSE "ready"
  /\ notYet' = {}
  /\ UNCHANGED <<db, riot, found, deferred, batch, cur, memResume, doc, cause, crashes>>

LoadBatch ==
  /\ pc = "ready"
  /\ \/ batch' = ReadyImportJobs /\ pc' = "next"
     \/ StoreErrors # {} /\ batch' = {} /\ pc' = "idle"
  /\ UNCHANGED <<db, riot, found, notYet, deferred, cur, memResume, doc, cause, crashes>>

(* Mutant: the loop over the batch has no break. *)
ShouldStopBatchNever == FALSE

(* Errors that every other job would meet as well. *)
ShouldStopBatch == cause \in {"stop", "rate_limited"}

(* The next job of the batch, oldest first. *)
PickJob(m) ==
  /\ pc = "next"
  /\ ~ShouldStopBatch
  /\ m \in batch
  /\ \A n \in batch : rank[m] <= rank[n]
  /\ batch' = batch \ {m}
  /\ cur' = m
  /\ memResume' = resume[m]
  /\ pc' = "lookup_detail"
  /\ doc' = "absent"
  /\ cause' = "none"
  /\ UNCHANGED <<db, riot, found, notYet, deferred, crashes>>

(* The batch is done, shouldStopBatch said so, or the context is cancelled.*)
EndBatch ==
  /\ pc = "next"
  /\ batch = {} \/ ShouldStopBatch \/ "stop" \in StoreErrors
  /\ pc' = "idle"
  /\ batch' = {}
  /\ cur' = None
  /\ cause' = "none"
  /\ doc' = "absent"
  /\ UNCHANGED <<db, riot, found, notYet, deferred, memResume, crashes>>
-----------------------------------------------------------------------------
(***************************************************************************)
(* loadOrFetchDetail.                                                      *)
(***************************************************************************)

(* The stored payload still normalizes: no request is made. *)
UseStoredDetail ==
  /\ At("lookup_detail")
  /\ Normalizes(detail[cur])
  /\ doc' = detail[cur]
  /\ Goto("upsert_detail")
  /\ UNCHANGED <<db, riot, run, cur, memResume, crashes>>

(* Mutant: every attempt fetches the detail again. *)
BeginDetailFetchAlways ==
  /\ At("lookup_detail")
  /\ UpdateImportJob(cur, "fetching_detail", "detail", FALSE)
  /\ Goto("request_detail")
  /\ UNCHANGED <<rank, nextRank, detail, timeline, row, events, riot, run, cur,
                 memResume, doc, crashes>>

(* No payload, or one that does not normalize: note the attempt and fetch. *)
BeginDetailFetch ==
  /\ At("lookup_detail")
  /\ ~Normalizes(detail[cur])
  /\ UpdateImportJob(cur, "fetching_detail", "detail", FALSE)
  /\ AfterWrite("request_detail", "defer_detail")
  /\ UNCHANGED <<rank, nextRank, detail, timeline, row, events, riot, run, cur,
                 memResume, doc, crashes>>

(* Mutant: the match is normalized from the response without storing it. *)
DetailArrivesUnstored(m) ==
  /\ At("request_detail") /\ cur = m
  /\ m \notin Poison
  /\ doc' = remoteDetail[m]
  /\ Goto("upsert_detail")
  /\ UNCHANGED <<db, riot, run, cur, memResume, crashes>>

DetailArrives(m) ==
  /\ At("request_detail") /\ cur = m
  /\ m \notin Poison
  /\ doc' = remoteDetail[m]
  /\ Goto("save_detail")
  /\ UNCHANGED <<db, riot, run, cur, memResume, crashes>>

(* Mutant: the worker repeats a failed request itself. *)
DetailRequestAgain(c) ==
  /\ At("request_detail")
  /\ c \in Failures
  /\ FailTo("lookup_detail", c)
  /\ UNCHANGED <<db, riot, run, cur, memResume, doc, crashes>>

DetailRequestFails(c) ==
  /\ At("request_detail")
  /\ c \in Failures \cup (IF cur \in Poison THEN {"stop"} ELSE {})
  /\ FailTo("defer_detail", c)
  /\ UNCHANGED <<db, riot, run, cur, memResume, doc, crashes>>

(* SaveAPIPayload: the new body, or the old revision with the same hash,   *)
(* becomes the one current revision.                                       *)
SaveDetail ==
  /\ At("save_detail")
  /\ detail' = [detail EXCEPT ![cur] = doc]
  /\ AfterWrite("mark_detail", "defer_detail")
  /\ UNCHANGED <<jobState, resume, waiting, rank, nextRank, timeline, row, events,
                 riot, run, cur, memResume, doc, crashes>>

(* Mutant: a payload that does not normalize goes on to the upsert. *)
MarkDetailStoredUnchecked ==
  /\ At("mark_detail")
  /\ UpdateImportJob(cur, "detail_stored", "normalize_detail", FALSE)
  /\ Goto("upsert_detail")
  /\ UNCHANGED <<rank, nextRank, detail, timeline, row, events, riot, run, cur,
                 memResume, doc, crashes>>

(* The payload is marked stored, then normalized. *)
MarkDetailStored ==
  /\ At("mark_detail")
  /\ UpdateImportJob(cur, "detail_stored", "normalize_detail", FALSE)
  /\ \/ IF Normalizes(doc) THEN Goto("upsert_detail") ELSE FailTo("defer_detail", "soft")
     \/ StoreError("defer_detail")
  /\ UNCHANGED <<rank, nextRank, detail, timeline, row, events, riot, run, cur,
                 memResume, doc, crashes>>

-----------------------------------------------------------------------------
(***************************************************************************)
(* importJob: the usable match, then its timeline.                         *)
(***************************************************************************)

(* Mutant: the upsert's CASE on completeness is left out. *)
UpsertDetailDowngrades ==
  /\ At("upsert_detail")
  /\ doc = "ok"
  /\ row' = [row EXCEPT ![cur] = "detail_only"]
  /\ Goto("mark_detail_only")
  /\ UNCHANGED <<jobState, resume, waiting, rank, nextRank, detail, timeline, events,
                 riot, run, cur, memResume, doc, crashes>>

(* UpsertImportedMatch(detail_only): never takes completeness back from a  *)
(* complete match, and leaves its events alone.                            *)
UpsertDetail ==
  /\ At("upsert_detail")
  /\ doc = "ok"
  /\ row' = [row EXCEPT ![cur] = IF @ = "complete" THEN @ ELSE "detail_only"]
  /\ Goto("mark_detail_only")
  /\ UNCHANGED <<jobState, resume, waiting, rank, nextRank, detail, timeline, events,
                 riot, run, cur, memResume, doc, crashes>>

(* Mutant: a refused match is fetched again at once. *)
RefuseDetailAndRefetch ==
  /\ At("upsert_detail")
  /\ doc = "rejected"
  /\ Goto("request_detail")
  /\ UNCHANGED <<db, riot, run, cur, memResume, doc, crashes>>

(* prepareImportedMatch refuses the normalized match. *)
RefuseDetail ==
  /\ At("upsert_detail")
  /\ doc = "rejected"
  /\ FailTo("defer_normalize_detail", "soft")
  /\ UNCHANGED <<db, riot, run, cur, memResume, doc, crashes>>

MarkDetailOnly ==
  /\ At("mark_detail_only")
  /\ UpdateImportJob(cur, "detail_only", "timeline", FALSE)
  /\ AfterWrite("lookup_timeline", "next")
  /\ UNCHANGED <<rank, nextRank, detail, timeline, row, events, riot, run, cur,
                 memResume, doc, crashes>>

(* loadOrFetchTimeline reuses a stored timeline only when the job, as it   *)
(* was read at the start of the batch, had reached normalize_timeline.     *)
HasStoredTimeline == memResume = "normalize_timeline" /\ timeline[cur] # "absent"

UseStoredTimeline ==
  /\ At("lookup_timeline")
  /\ HasStoredTimeline
  /\ doc' = timeline[cur]
  /\ Goto("apply_timeline")
  /\ UNCHANGED <<db, riot, run, cur, memResume, crashes>>

(* Mutant: the later resume step is written before the timeline is stored. *)
BeginTimelineFetchEarly ==
  /\ At("lookup_timeline")
  /\ ~HasStoredTimeline
  /\ UpdateImportJob(cur, "fetching_timeline", "normalize_timeline", FALSE)
  /\ Goto("request_timeline")
  /\ UNCHANGED <<rank, nextRank, detail, timeline, row, events, riot, run, cur,
                 memResume, doc, crashes>>

BeginTimelineFetch ==
  /\ At("lookup_timeline")
  /\ ~HasStoredTimeline
  /\ UpdateImportJob(cur, "fetching_timeline", "timeline", FALSE)
  /\ AfterWrite("request_timeline", "mark_partial")
  /\ UNCHANGED <<rank, nextRank, detail, timeline, row, events, riot, run, cur,
                 memResume, doc, crashes>>

TimelineArrives(m) ==
  /\ At("request_timeline") /\ cur = m
  /\ doc' = remoteTimeline[m]
  /\ Goto("save_timeline")
  /\ UNCHANGED <<db, riot, run, cur, memResume, crashes>>

TimelineRequestFails(c) ==
  /\ At("request_timeline")
  /\ c \in Failures
  /\ FailTo("mark_partial", c)
  /\ UNCHANGED <<db, riot, run, cur, memResume, doc, crashes>>

SaveTimeline ==
  /\ At("save_timeline")
  /\ timeline' = [timeline EXCEPT ![cur] = doc]
  /\ AfterWrite("mark_timeline", "mark_partial")
  /\ UNCHANGED <<jobState, resume, waiting, rank, nextRank, detail, row, events,
                 riot, run, cur, memResume, doc, crashes>>

MarkTimelineStored ==
  /\ At("mark_timeline")
  /\ UpdateImportJob(cur, "fetching_timeline", "normalize_timeline", FALSE)
  /\ AfterWrite("apply_timeline", "mark_partial")
  /\ UNCHANGED <<rank, nextRank, detail, timeline, row, events, riot, run, cur,
                 memResume, doc, crashes>>

(* Mutant: the job is finished without the second upsert. *)
ApplyTimelineOnly ==
  /\ At("apply_timeline")
  /\ IF doc = "invalid" THEN FailTo("mark_partial", "soft") ELSE Goto("mark_complete")
  /\ UNCHANGED <<db, riot, run, cur, memResume, doc, crashes>>

(* ApplyTimeline works in memory only. *)
ApplyTimeline ==
  /\ At("apply_timeline")
  /\ IF doc = "invalid" THEN FailTo("mark_partial", "soft") ELSE Goto("upsert_complete")
  /\ UNCHANGED <<db, riot, run, cur, memResume, doc, crashes>>

(* UpsertImportedMatch(complete) replaces the events in the same           *)
(* transaction that raises completeness.                                   *)
UpsertComplete ==
  /\ At("upsert_complete")
  /\ doc = "ok"
  /\ row' = [row EXCEPT ![cur] = "complete"]
  /\ events' = [events EXCEPT ![cur] = TRUE]
  /\ Goto("mark_complete")
  /\ UNCHANGED <<jobState, resume, waiting, rank, nextRank, detail, timeline,
                 riot, run, cur, memResume, doc, crashes>>

RefuseComplete ==
  /\ At("upsert_complete")
  /\ doc = "rejected"
  /\ FailTo("defer_normalize_timeline", "soft")
  /\ UNCHANGED <<db, riot, run, cur, memResume, doc, crashes>>

MarkComplete ==
  /\ At("mark_complete")
  /\ UpdateImportJob(cur, "complete", "done", FALSE)
  /\ AfterWrite("next", "next")
  /\ UNCHANGED <<rank, nextRank, detail, timeline, row, events, riot, run, cur,
                 memResume, doc, crashes>>
-----------------------------------------------------------------------------
(***************************************************************************)
(* Errors.                                                                 *)
(***************************************************************************)

(* A store call of importJob fails without writing: each has its own       *)
(* handler; the two UpdateImportJob calls of importJob itself just return  *)
(* the error.                                                              *)
StoreCallFails ==
  /\ cur \in Matches
  /\ \/ /\ pc \in {"lookup_detail", "save_detail", "mark_detail"}
        /\ StoreError("defer_detail")
     \/ pc = "upsert_detail" /\ StoreError("defer_normalize_detail")
     \/ /\ pc \in {"lookup_timeline", "save_timeline", "mark_timeline"}
        /\ StoreError("mark_partial")
     \/ pc = "upsert_complete" /\ StoreError("defer_normalize_timeline")
     \/ pc \in {"mark_detail_only", "mark_complete"} /\ StoreError("next")
  /\ UNCHANGED <<db, riot, run, cur, memResume, doc, crashes>>

(* Mutant: MarkMatchTimelinePartial without its CASE. *)
MarkTimelinePartialAlways ==
  /\ At("mark_partial")
  /\ row' = [row EXCEPT ![cur] = "partial_timeline"]
  /\ Goto("defer_timeline")
  /\ UNCHANGED <<jobState, resume, waiting, rank, nextRank, detail, timeline, events,
                 riot, run, cur, memResume, doc, crashes>>

(* markTimelinePartial: never touches a complete match; its own failure is *)
(* ignored.                                                                *)
MarkTimelinePartial ==
  /\ At("mark_partial")
  /\ \/ row' = [row EXCEPT ![cur] = IF @ \in {"absent", "complete"} THEN @
                                    ELSE "partial_timeline"]
     \/ StoreErrors # {} /\ UNCHANGED row
  /\ Goto("defer_timeline")
  /\ UNCHANGED <<jobState, resume, waiting, rank, nextRank, detail, timeline, events,
                 riot, run, cur, memResume, doc, crashes>>

(* Mutant: the job is deferred and its error is not returned. *)
DeferAndForget(at, s, r) ==
  /\ At(at)
  /\ \/ UpdateImportJob(cur, s, r, cause = "rate_limited")
     \/ StoreErrors # {} /\ JobUnchanged
  /\ FailTo("next", "none")
  /\ UNCHANGED <<rank, nextRank, detail, timeline, row, events, riot, run, cur,
                 memResume, doc, crashes>>

(* The deferring writes run in their own five-second context; a failing    *)
(* one is ignored and leaves the job where its last update put it.         *)
Defer(at, s, r) ==
  /\ At(at)
  /\ \/ UpdateImportJob(cur, s, r, cause = "rate_limited")
     \/ StoreErrors # {} /\ JobUnchanged
  /\ Goto("next")
  /\ UNCHANGED <<rank, nextRank, detail, timeline, row, events, riot, run, cur,
                 memResume, doc, crashes>>

DeferDetail            == Defer("defer_detail", "retry_wait", "detail")
DeferNormalizeDetail   == Defer("defer_normalize_detail", "retry_wait", "normalize_detail")
DeferTimeline          == Defer("defer_timeline", "partial_timeline", "timeline")
DeferNormalizeTimeline == Defer("defer_normalize_timeline", "partial_timeline",
                                "normalize_timeline")

(* The process dies between two store calls and is started again: only the *)
(* database is left.  A graceful shutdown looks the same, because main     *)
(* does not wait for the sync goroutines.                                  *)
Crash ==
  /\ pc # "idle"
  /\ crashes < MaxCrashes
  /\ crashes' = crashes + 1
  /\ pc' = "idle"
  /\ found' = {} /\ notYet' = {} /\ deferred' = FALSE /\ batch' = {}
  /\ cur' = None /\ memResume' = "detail" /\ doc' = "absent" /\ cause' = "none"
  /\ UNCHANGED <<db, riot>>

-----------------------------------------------------------------------------
(***************************************************************************)
(* The world: time passes a retry window; Riot corrects a document.        *)
(***************************************************************************)

RetryWindowOpens(m) ==
  /\ waiting[m]
  /\ waiting' = [waiting EXCEPT ![m] = FALSE]
  /\ UNCHANGED <<jobState, resume, rank, nextRank, detail, timeline, row, events, riot,
                 pc, run, cur, memResume, doc, cause, crashes>>

RiotCorrects(m) ==
  /\ <<remoteDetail[m], remoteTimeline[m]>> # <<"ok", "ok">>
  /\ remoteDetail' = [remoteDetail EXCEPT ![m] = "ok"]
  /\ remoteTimeline' = [remoteTimeline EXCEPT ![m] = "ok"]
  /\ UNCHANGED <<db, pc, run, cur, memResume, doc, cause, crashes>>

-----------------------------------------------------------------------------
DetailStep ==
  \/ UseStoredDetail \/ BeginDetailFetch
  \/ \E m \in Matches : DetailArrives(m)
  \/ \E c \in Causes : DetailRequestFails(c)
  \/ SaveDetail \/ MarkDetailStored \/ UpsertDetail \/ RefuseDetail \/ MarkDetailOnly

TimelineStep ==
  \/ UseStoredTimeline \/ BeginTimelineFetch
  \/ \E m \in Matches : TimelineArrives(m)
  \/ \E c \in Causes : TimelineRequestFails(c)
  \/ SaveTimeline \/ MarkTimelineStored \/ ApplyTimeline
  \/ UpsertComplete \/ RefuseComplete \/ MarkComplete

ErrorStep ==
  \/ StoreCallFails \/ MarkTimelinePartial
  \/ DeferDetail \/ DeferNormalizeDetail \/ DeferTimeline \/ DeferNormalizeTimeline

BatchStep ==
  \/ \E m \in Matches : QueueImportJob(m) \/ QueueError(m) \/ PickJob(m)
  \/ EndQueueing \/ LoadBatch \/ EndBatch

WorkerStep == BatchStep \/ DetailStep \/ TimelineStep \/ ErrorStep

Sync == \E D \in SUBSET Matches : BeginSync(D)

World == \E m \in Matches : RetryWindowOpens(m) \/ RiotCorrects(m)

Next == Sync \/ WorkerStep \/ Crash \/ World

Spec == Init /\ [][Next]_vars

(***************************************************************************)
(* The goroutine running a sync is scheduled, the poll ticker keeps        *)
(* starting syncs, retry windows pass, and a request that is made again    *)
(* and again is answered at some time.  Nothing makes Riot correct a       *)
(* document; runs that need that say so themselves.                        *)
(***************************************************************************)
Fairness ==
  /\ WF_vars(Sync) /\ WF_vars(WorkerStep)
  /\ \A m \in Matches : /\ WF_vars(RetryWindowOpens(m))
                        /\ SF_vars(DetailArrives(m))
                        /\ SF_vars(TimelineArrives(m))

FairSpec == Spec /\ Fairness

(* Of the worker alone: nothing outside it helps it on. *)
WorkerSpec == Spec /\ WF_vars(WorkerStep)

(* The same with upstream documents that are corrected sooner or later.    *)
CorrectedSpec == FairSpec /\ \A m \in Matches : WF_vars(RiotCorrects(m))

-----------------------------------------------------------------------------
(***************************************************************************)
(* Safety.                                                                 *)
(***************************************************************************)

(* A finished job is never looked at again, so everything must be there:   *)
(* the journal may forget a match (importJob's last update) only when the  *)
(* complete match, its events and both raw documents are stored, whatever  *)
(* crashed or failed on the way.                                           *)
CompleteJobIsWhole ==
  \A m \in Matches :
    jobState[m] = "complete" =>
      /\ row[m] = "complete" /\ events[m]
      /\ Normalizes(detail[m]) /\ timeline[m] # "absent"

(* Timeline data and the completeness that advertises it change together,  *)
(* through every retry that first writes the match back as detail_only.    *)
CompletenessMatchesEvents ==
  \A m \in Matches : events[m] <=> row[m] = "complete"

(* A durable resume step never points past the work that is durable: after *)
(* a crash at any point the saved step finds the payload and the match it  *)
(* builds on.                                                              *)
ResumeStepIsBacked ==
  \A m \in Matches :
    /\ resume[m] = "normalize_detail" => detail[m] # "absent"
    /\ resume[m] = "normalize_timeline" => timeline[m] # "absent"
    /\ resume[m] \in {"timeline", "normalize_timeline", "done"} => row[m] # "absent"

(* Raw documents are stored before anything normalized from them, so every *)
(* match can be normalized again from what the database holds.             *)
RawBeforeNormalized ==
  \A m \in Matches :
    /\ row[m] # "absent" => Normalizes(detail[m])
    /\ row[m] = "complete" => timeline[m] # "absent"

(* What the worker may rely on between two store calls: nothing it holds   *)
(* in memory contradicts the database, whatever else ran in between.  A    *)
(* job it works on is open, a payload about to be replaced is unusable,    *)
(* and each later step finds the earlier steps' rows.                      *)
DetailSteps   == {"lookup_detail", "request_detail", "save_detail", "mark_detail",
                  "upsert_detail", "defer_detail", "defer_normalize_detail"}
HoldsTimeline == {"mark_timeline", "apply_timeline", "upsert_complete",
                  "mark_complete", "defer_normalize_timeline"}
TimelineSteps == HoldsTimeline \cup
                 {"mark_detail_only", "lookup_timeline", "request_timeline",
                  "save_timeline", "mark_partial", "defer_timeline"}

WorkerAgreesWithStore ==
  /\ pc \in {"idle", "queueing", "ready"} => cur = None
  /\ pc \in DetailSteps \cup TimelineSteps =>
       cur \in Matches /\ jobState[cur] \notin {"none", "complete"}
  /\ pc \in {"request_detail", "save_detail"} => ~Normalizes(detail[cur])
  /\ pc \in {"mark_detail", "upsert_detail"} => doc = detail[cur]
  /\ pc \in {"upsert_detail", "defer_normalize_detail"} => Normalizes(detail[cur])
  /\ pc \in {"save_detail", "mark_detail", "save_timeline"} => doc \in Docs
  /\ pc \in TimelineSteps => row[cur] # "absent"
  /\ pc \in HoldsTimeline => timeline[cur] # "absent"
  /\ pc = "mark_complete" => row[cur] = "complete"

(* The jobs a run still holds are open, past their retry window, and not   *)
(* the one being imported: ReadyImportJobs read them once, at the start.   *)
BatchIsReady ==
  \A m \in batch : jobState[m] \notin {"none", "complete"} /\ ~waiting[m] /\ m # cur

(* An attempt at a job ends in what Sync is told of it, and in what        *)
(* Discovery takes for an import: without an error only when the job is    *)
(* complete, and with a closed retry window only after a rate limit.       *)
AttemptIsReported ==
  pc = "next" /\ cur # None =>
    /\ cause = "none" => jobState[cur] = "complete"
    /\ waiting[cur] => cause = "rate_limited"

(* A match row exists only for a job. *)
RowsHaveJobs == \A m \in Matches : jobState[m] = "none" => row[m] = "absent"

(* A job that Riot rate-limited is not attempted before its retry window   *)
(* opens, in this run, in the next one or after a restart.                 *)
RateLimitedJobsWait ==
  [][\A m \in Matches : PickJob(m) => ~waiting[m]]_vars

(* A batch goes from one job to the next only when no error asks to stop   *)
(* it: after a rate limit, a refused key or a server that fails, nothing   *)
(* more is asked of Riot in this run, whatever the deferral of the failed  *)
(* job met itself.  The last job is never one whose window is still closed.*)
StoppedBatchIsLeft ==
  [][cur # None /\ cur' \notin {cur, None} =>
       cause \notin {"stop", "rate_limited"} /\ ~waiting[cur]]_vars

(* A stored match payload is replaced only when it does not normalize: a   *)
(* match that was once usable cannot become unusable through a refetch.    *)
UsablePayloadIsKept ==
  [][\A m \in Matches : Normalizes(detail[m]) => detail'[m] = detail[m]]_vars

(* A sync runs down: whatever fails or is refused, each step of the worker *)
(* goes on to a later phase, queues one more match, takes one more job off *)
(* its batch, or goes on in the order of importJob.  No step is repeated   *)
(* for the same job, and nothing around the worker takes it back.          *)
Phase(s) == CASE s = "queueing" -> 3 [] s = "ready" -> 2 [] s = "idle" -> 0 [] OTHER -> 1

StepsAhead ==
  [lookup_detail |-> 19, request_detail |-> 18, save_detail |-> 17, mark_detail |-> 16,
   upsert_detail |-> 15, mark_detail_only |-> 14,
   lookup_timeline |-> 13, request_timeline |-> 12, save_timeline |-> 11,
   mark_timeline |-> 10, apply_timeline |-> 9, upsert_complete |-> 8, mark_complete |-> 7,
   mark_partial |-> 6, defer_detail |-> 5, defer_normalize_detail |-> 4,
   defer_timeline |-> 3, defer_normalize_timeline |-> 2,
   next |-> 1, queueing |-> 0, ready |-> 0, idle |-> 0]

Fewer(S, T) == S \subseteq T /\ S # T

RunsDown ==
  \/ Phase(pc') < Phase(pc)
  \/ Phase(pc') = Phase(pc) /\ Fewer(found', found)
  \/ Phase(pc') = Phase(pc) /\ found' = found /\ Fewer(batch', batch)
  \/ /\ Phase(pc') = Phase(pc) /\ found' = found /\ batch' = batch
     /\ StepsAhead[pc'] < StepsAhead[pc]

SyncRunsDown ==
  [][pc # "idle" => RunsDown \/ (World /\ UNCHANGED <<pc, found, batch>>)]_vars

(***************************************************************************)
(* The pipeline implements the abstract import.                            *)
(***************************************************************************)
Status(m) == IF jobState[m] = "none" THEN "unknown"
             ELSE IF row[m] = "absent" THEN "queued"
             ELSE IF row[m] = "complete" THEN "complete"
             ELSE "usable"

Abs == INSTANCE MatchImport
         WITH status  <- [m \in Matches |-> Status(m)],
              settled <- {m \in Matches : jobState[m] = "complete"}

ImplementsImport == Abs!AbstractSpec

-----------------------------------------------------------------------------
(***************************************************************************)
(* Liveness.                                                               *)
(***************************************************************************)

(* Every sync ends: no error, refusal or crash leaves the worker inside a  *)
(* run (the process would then refuse every later sync as in progress),    *)
(* though Riot goes on failing or serves the same bad document for ever.   *)
EverySyncEnds == pc # "idle" ~> pc = "idle"

(* Every job that is queued is complete at last.  With CorrectedSpec, also *)
(* when Riot's documents were bad at first: "refetch so a corrected        *)
(* upstream document can recover the job" (loadOrFetchDetail).             *)
QueuedJobsComplete ==
  \A m \in Matches \ Poison : jobState[m] # "none" ~> jobState[m] = "complete"
==============================================================================
