------------------------ MODULE ImportPipelineProofs -------------------------
(***************************************************************************)
(* Theorems about ImportPipeline, for every set of matches, batch limit,   *)
(* mix of documents and failures and any number of crashes.                *)
(*                                                                         *)
(* Everything rests on one inductive invariant, Inductive: what is durable *)
(* (RawBeforeNormalized, ResumeStepIsBacked, CompletenessMatchesEvents,    *)
(* CompleteJobIsWhole) holds after every store call only because the       *)
(* worker's memory agrees with the store between the calls                 *)
(* (WorkerAgreesWithStore) and its batch holds other, open jobs            *)
(* (BatchIsReady).                                                         *)
(***************************************************************************)
EXTENDS ImportPipeline, TLAPS

Durable == /\ CompletenessMatchesEvents
           /\ RawBeforeNormalized
           /\ ResumeStepIsBacked
           /\ CompleteJobIsWhole
           /\ RowsHaveJobs

Memory == WorkerAgreesWithStore /\ BatchIsReady

Inductive == TypeOK /\ Durable /\ Memory

-----------------------------------------------------------------------------
(* Each group of actions keeps the types. *)
LEMMA TypeBatch ==
  ASSUME TypeOK, BatchStep \/ Sync
  PROVE  TypeOK'
<1> USE DEF TypeOK, StoreTypeOK, WorkerTypeOK, JobStates, ResumeSteps, Rows, Steps, Docs, Causes, db, riot, run
<1>1. ASSUME NEW D \in SUBSET Matches, BeginSync(D) PROVE TypeOK'
  BY <1>1 DEF BeginSync
<1>2. ASSUME NEW m \in Matches, QueueImportJob(m) PROVE TypeOK'
  BY <1>2 DEF QueueImportJob
<1>3. ASSUME NEW m \in Matches, QueueError(m) PROVE TypeOK'
  BY <1>3 DEF QueueError
<1>4. ASSUME NEW m \in Matches, PickJob(m) PROVE TypeOK'
  BY <1>4 DEF PickJob
<1>5. CASE EndQueueing
  BY <1>5 DEF EndQueueing
<1>6. CASE LoadBatch
  BY <1>6 DEF LoadBatch, ReadyImportJobs
<1>7. CASE EndBatch
  BY <1>7 DEF EndBatch
<1> QED BY <1>1, <1>2, <1>3, <1>4, <1>5, <1>6, <1>7 DEF BatchStep, Sync

LEMMA TypeDetail ==
  ASSUME TypeOK, DetailStep
  PROVE  TypeOK'
<1> USE PipelineAssumption
    DEF PipelineAssumption, TypeOK, StoreTypeOK, WorkerTypeOK, JobStates,
        ResumeSteps, Rows, Steps, Docs, Causes,
        db, riot, run, At, Goto, FailTo, StoreError, StoreErrors, AfterWrite,
        UpdateImportJob, JobUnchanged
<1>1. CASE UseStoredDetail
  BY <1>1 DEF UseStoredDetail
<1>2. CASE BeginDetailFetch
  BY <1>2 DEF BeginDetailFetch
<1>3. ASSUME NEW m \in Matches, DetailArrives(m) PROVE TypeOK'
  BY <1>3 DEF DetailArrives
<1>4. ASSUME NEW c \in Causes, DetailRequestFails(c) PROVE TypeOK'
  BY <1>4 DEF DetailRequestFails
<1>5. CASE SaveDetail
  BY <1>5 DEF SaveDetail
<1>6. CASE MarkDetailStored
  BY <1>6 DEF MarkDetailStored
<1>7. CASE UpsertDetail
  BY <1>7 DEF UpsertDetail
<1>8. CASE RefuseDetail
  BY <1>8 DEF RefuseDetail
<1>9. CASE MarkDetailOnly
  BY <1>9 DEF MarkDetailOnly
<1> QED BY <1>1, <1>2, <1>3, <1>4, <1>5, <1>6, <1>7, <1>8, <1>9 DEF DetailStep

LEMMA TypeTimeline ==
  ASSUME TypeOK, TimelineStep
  PROVE  TypeOK'
<1> USE PipelineAssumption
    DEF PipelineAssumption, TypeOK, StoreTypeOK, WorkerTypeOK, JobStates,
        ResumeSteps, Rows, Steps, Docs, Causes,
        db, riot, run, At, Goto, FailTo, StoreError, StoreErrors, AfterWrite,
        UpdateImportJob, JobUnchanged
<1>1. CASE UseStoredTimeline
  BY <1>1 DEF UseStoredTimeline
<1>2. CASE BeginTimelineFetch
  BY <1>2 DEF BeginTimelineFetch
<1>3. ASSUME NEW m \in Matches, TimelineArrives(m) PROVE TypeOK'
  BY <1>3 DEF TimelineArrives
<1>4. ASSUME NEW c \in Causes, TimelineRequestFails(c) PROVE TypeOK'
  BY <1>4 DEF TimelineRequestFails
<1>5. CASE SaveTimeline
  BY <1>5 DEF SaveTimeline
<1>6. CASE MarkTimelineStored
  BY <1>6 DEF MarkTimelineStored
<1>7. CASE ApplyTimeline
  BY <1>7 DEF ApplyTimeline
<1>8. CASE UpsertComplete
  BY <1>8 DEF UpsertComplete
<1>9. CASE RefuseComplete
  BY <1>9 DEF RefuseComplete
<1>10. CASE MarkComplete
  BY <1>10 DEF MarkComplete
<1> QED BY <1>1, <1>2, <1>3, <1>4, <1>5, <1>6, <1>7, <1>8, <1>9, <1>10 DEF TimelineStep

LEMMA TypeError ==
  ASSUME TypeOK, ErrorStep
  PROVE  TypeOK'
<1> USE PipelineAssumption
    DEF PipelineAssumption, TypeOK, StoreTypeOK, WorkerTypeOK, JobStates,
        ResumeSteps, Rows, Steps, Docs, Causes,
        db, riot, run, At, Goto, FailTo, StoreError, StoreErrors, AfterWrite,
        UpdateImportJob, JobUnchanged
<1>1. CASE StoreCallFails
  BY <1>1 DEF StoreCallFails
<1>2. CASE MarkTimelinePartial
  <2>1. StoreTypeOK'
    BY <1>2 DEF MarkTimelinePartial
  <2>2. WorkerTypeOK'
    BY <1>2 DEF MarkTimelinePartial
  <2> QED BY <2>1, <2>2
<1>3. ASSUME NEW at \in Steps, NEW s \in JobStates, NEW r \in ResumeSteps,
             Defer(at, s, r)
      PROVE  TypeOK'
  <2>1. CASE JobUnchanged
    BY <1>3, <2>1 DEF Defer
  <2>2. CASE UpdateImportJob(cur, s, r, cause = "rate_limited")
    <3>1. cur \in Matches /\ (cause = "rate_limited") \in BOOLEAN
      BY <1>3 DEF Defer
    <3>2. jobState' \in [Matches -> JobStates] /\ resume' \in [Matches -> ResumeSteps]
      BY <2>2, <3>1
    <3>3. waiting' \in [Matches -> BOOLEAN]
      BY <2>2, <3>1
    <3> QED BY <1>3, <3>2, <3>3 DEF Defer
  <2> QED BY <1>3, <2>1, <2>2 DEF Defer
<1> QED
  BY <1>1, <1>2, <1>3
  DEF ErrorStep, DeferDetail, DeferNormalizeDetail, DeferTimeline, DeferNormalizeTimeline

LEMMA TypeWorld ==
  ASSUME TypeOK, Crash \/ World
  PROVE  TypeOK'
<1> USE PipelineAssumption
    DEF PipelineAssumption, TypeOK, StoreTypeOK, WorkerTypeOK, JobStates,
        ResumeSteps, Rows, Steps, Docs, Causes,
        db, riot, run, At, Goto, FailTo, StoreError, StoreErrors, AfterWrite,
        UpdateImportJob, JobUnchanged
<1>1. CASE Crash
  <2>1. crashes' \in 0..MaxCrashes
    BY <1>1 DEF Crash
  <2> QED BY <1>1, <2>1 DEF Crash
<1>2. ASSUME NEW m \in Matches, RetryWindowOpens(m) PROVE TypeOK'
  BY <1>2 DEF RetryWindowOpens
<1>3. ASSUME NEW m \in Matches, RiotCorrects(m) PROVE TypeOK'
  BY <1>3 DEF RiotCorrects
<1> QED BY <1>1, <1>2, <1>3 DEF World

LEMMA TypeInit == Init => TypeOK
<1>1. MaxCrashes \in Nat /\ 0 \in 0..MaxCrashes
  BY PipelineAssumption DEF PipelineAssumption
<1>2. DetailDocs \subseteq Docs /\ TimelineDocs \subseteq Docs
  BY PipelineAssumption DEF PipelineAssumption
<1>3. Init => StoreTypeOK
  BY <1>2 DEF Init, StoreTypeOK, JobStates, ResumeSteps, Rows
<1>4. Init => WorkerTypeOK
  BY <1>1 DEF Init, WorkerTypeOK, ResumeSteps, Steps
<1> QED BY <1>3, <1>4 DEF TypeOK

LEMMA TypeStep == ASSUME TypeOK, [Next]_vars PROVE TypeOK'
<1>1. CASE BatchStep \/ Sync
  BY <1>1, TypeBatch
<1>2. CASE DetailStep
  BY <1>2, TypeDetail
<1>3. CASE TimelineStep
  BY <1>3, TypeTimeline
<1>4. CASE ErrorStep
  BY <1>4, TypeError
<1>5. CASE Crash \/ World
  BY <1>5, TypeWorld
<1>6. CASE UNCHANGED vars
  BY <1>6 DEF vars, TypeOK, StoreTypeOK, WorkerTypeOK
<1> QED BY <1>1, <1>2, <1>3, <1>4, <1>5, <1>6 DEF Next, WorkerStep

(* Every reachable state is well typed: no handler writes a job state into *)
(* a resume step or a payload class no document has (service.go).          *)
THEOREM TypeCorrect == Spec => []TypeOK
BY TypeInit, TypeStep, PTL DEF Spec

-----------------------------------------------------------------------------
(***************************************************************************)
(* The inductive invariant: one lemma per group of actions, one step per   *)
(* action, with the durable part and the memory part apart.                *)
(***************************************************************************)

(* Durable speaks of the database only. *)
LEMMA DurableStutters == ASSUME Durable, UNCHANGED db PROVE Durable'
BY DEF db, Durable, CompletenessMatchesEvents, RawBeforeNormalized,
       ResumeStepIsBacked, CompleteJobIsWhole, RowsHaveJobs

LEMMA BatchKeeps ==
  ASSUME Inductive, BatchStep \/ Sync
  PROVE  Durable' /\ Memory'
<1> USE DEF Inductive, TypeOK, StoreTypeOK, WorkerTypeOK, Normalizes, At, Goto,
            FailTo, StoreError, AfterWrite, Memory, WorkerAgreesWithStore, BatchIsReady,
            DetailSteps, TimelineSteps, HoldsTimeline
<1>1. ASSUME NEW D \in SUBSET Matches, BeginSync(D) PROVE Durable' /\ Memory'
  <2>1. Durable'
    BY <1>1, DurableStutters DEF BeginSync
  <2>2. Memory'
    BY <1>1 DEF BeginSync, db, run
  <2> QED BY <2>1, <2>2
<1>2. ASSUME NEW m \in Matches, QueueImportJob(m) PROVE Durable' /\ Memory'
  <2>1. Durable'
    BY <1>2 DEF QueueImportJob, UpdateImportJob, Durable, CompletenessMatchesEvents,
           RawBeforeNormalized, ResumeStepIsBacked, CompleteJobIsWhole, RowsHaveJobs
  <2>2. Memory'
    BY <1>2 DEF QueueImportJob, db, run, UpdateImportJob
  <2> QED BY <2>1, <2>2
<1>3. ASSUME NEW m \in Matches, QueueError(m) PROVE Durable' /\ Memory'
  <2>1. Durable'
    BY <1>3, DurableStutters DEF QueueError
  <2>2. Memory'
    BY <1>3 DEF QueueError, db, run
  <2> QED BY <2>1, <2>2
<1>4. ASSUME NEW m \in Matches, PickJob(m) PROVE Durable' /\ Memory'
  <2>1. Durable'
    BY <1>4, DurableStutters DEF PickJob
  <2>2. Memory'
    BY <1>4 DEF PickJob, db, run
  <2> QED BY <2>1, <2>2
<1>5. CASE EndQueueing
  <2>1. Durable'
    BY <1>5, DurableStutters DEF EndQueueing
  <2>2. Memory'
    BY <1>5 DEF EndQueueing, db, run
  <2> QED BY <2>1, <2>2
<1>6. CASE LoadBatch
  <2>1. Durable'
    BY <1>6, DurableStutters DEF LoadBatch
  <2>2. Memory'
    BY <1>6, PipelineAssumption
    DEF PipelineAssumption, LoadBatch, ReadyImportJobs, Ready, db, run
  <2> QED BY <2>1, <2>2
<1>7. CASE EndBatch
  <2>1. Durable'
    BY <1>7, DurableStutters DEF EndBatch
  <2>2. Memory'
    BY <1>7 DEF EndBatch, db, run
  <2> QED BY <2>1, <2>2
<1> QED BY <1>1, <1>2, <1>3, <1>4, <1>5, <1>6, <1>7 DEF BatchStep, Sync

LEMMA DetailKeeps ==
  ASSUME Inductive, DetailStep
  PROVE  Durable' /\ Memory'
<1> USE DEF Inductive, TypeOK, StoreTypeOK, WorkerTypeOK, Normalizes, At, Goto,
            FailTo, StoreError, AfterWrite, Memory, WorkerAgreesWithStore, BatchIsReady,
            DetailSteps, TimelineSteps, HoldsTimeline
<1>1. CASE UseStoredDetail
  <2>1. Durable'
    BY <1>1, DurableStutters DEF UseStoredDetail
  <2>2. Memory'
    BY <1>1 DEF UseStoredDetail, db, run
  <2> QED BY <2>1, <2>2
<1>2. CASE BeginDetailFetch
  <2>1. Durable'
    BY <1>2 DEF BeginDetailFetch, UpdateImportJob, Durable, CompletenessMatchesEvents,
           RawBeforeNormalized, ResumeStepIsBacked, CompleteJobIsWhole, RowsHaveJobs
  <2>2. Memory'
    BY <1>2 DEF BeginDetailFetch, db, run, UpdateImportJob
  <2> QED BY <2>1, <2>2
<1>3. ASSUME NEW m \in Matches, DetailArrives(m) PROVE Durable' /\ Memory'
  <2>1. Durable'
    BY <1>3, DurableStutters DEF DetailArrives
  <2>2. Memory'
    BY <1>3 DEF DetailArrives, db, run
  <2> QED BY <2>1, <2>2
<1>4. ASSUME NEW c \in Causes, DetailRequestFails(c) PROVE Durable' /\ Memory'
  <2>1. Durable'
    BY <1>4, DurableStutters DEF DetailRequestFails
  <2>2. Memory'
    BY <1>4 DEF DetailRequestFails, db, run
  <2> QED BY <2>1, <2>2
<1>5. CASE SaveDetail
  <2>1. Durable'
    BY <1>5 DEF SaveDetail, Docs, UpdateImportJob, Durable, CompletenessMatchesEvents,
           RawBeforeNormalized, ResumeStepIsBacked, CompleteJobIsWhole, RowsHaveJobs
  <2>2. Memory'
    BY <1>5 DEF SaveDetail, Docs, db, run, UpdateImportJob
  <2> QED BY <2>1, <2>2
<1>6. CASE MarkDetailStored
  <2>1. Durable'
    BY <1>6 DEF MarkDetailStored, Docs, UpdateImportJob, Durable, CompletenessMatchesEvents,
           RawBeforeNormalized, ResumeStepIsBacked, CompleteJobIsWhole, RowsHaveJobs
  <2>2. Memory'
    BY <1>6 DEF MarkDetailStored, Docs, db, run, UpdateImportJob
  <2> QED BY <2>1, <2>2
<1>7. CASE UpsertDetail
  <2>1. Durable'
    BY <1>7 DEF UpsertDetail, UpdateImportJob, Durable, CompletenessMatchesEvents,
           RawBeforeNormalized, ResumeStepIsBacked, CompleteJobIsWhole, RowsHaveJobs
  <2>2. Memory'
    BY <1>7 DEF UpsertDetail, db, run, UpdateImportJob
  <2> QED BY <2>1, <2>2
<1>8. CASE RefuseDetail
  <2>1. Durable'
    BY <1>8, DurableStutters DEF RefuseDetail
  <2>2. Memory'
    BY <1>8 DEF RefuseDetail, db, run
  <2> QED BY <2>1, <2>2
<1>9. CASE MarkDetailOnly
  <2>1. Durable'
    BY <1>9 DEF MarkDetailOnly, UpdateImportJob, Durable, CompletenessMatchesEvents,
           RawBeforeNormalized, ResumeStepIsBacked, CompleteJobIsWhole, RowsHaveJobs
  <2>2. Memory'
    BY <1>9 DEF MarkDetailOnly, db, run, UpdateImportJob
  <2> QED BY <2>1, <2>2
<1> QED BY <1>1, <1>2, <1>3, <1>4, <1>5, <1>6, <1>7, <1>8, <1>9 DEF DetailStep

LEMMA TimelineKeeps ==
  ASSUME Inductive, TimelineStep
  PROVE  Durable' /\ Memory'
<1> USE DEF Inductive, TypeOK, StoreTypeOK, WorkerTypeOK, Normalizes, At, Goto,
            FailTo, StoreError, AfterWrite, Memory, WorkerAgreesWithStore, BatchIsReady,
            DetailSteps, TimelineSteps, HoldsTimeline
<1>1. CASE UseStoredTimeline
  <2>1. Durable'
    BY <1>1, DurableStutters DEF UseStoredTimeline
  <2>2. Memory'
    BY <1>1 DEF UseStoredTimeline, HasStoredTimeline, db, run
  <2> QED BY <2>1, <2>2
<1>2. CASE BeginTimelineFetch
  <2>1. Durable'
    BY <1>2 DEF BeginTimelineFetch, UpdateImportJob, Durable, CompletenessMatchesEvents,
           RawBeforeNormalized, ResumeStepIsBacked, CompleteJobIsWhole, RowsHaveJobs
  <2>2. Memory'
    BY <1>2 DEF BeginTimelineFetch, db, run, UpdateImportJob
  <2> QED BY <2>1, <2>2
<1>3. ASSUME NEW m \in Matches, TimelineArrives(m) PROVE Durable' /\ Memory'
  <2>1. Durable'
    BY <1>3, DurableStutters DEF TimelineArrives
  <2>2. Memory'
    BY <1>3 DEF TimelineArrives, db, run
  <2> QED BY <2>1, <2>2
<1>4. ASSUME NEW c \in Causes, TimelineRequestFails(c) PROVE Durable' /\ Memory'
  <2>1. Durable'
    BY <1>4, DurableStutters DEF TimelineRequestFails
  <2>2. Memory'
    BY <1>4 DEF TimelineRequestFails, db, run
  <2> QED BY <2>1, <2>2
<1>5. CASE SaveTimeline
  <2>1. Durable'
    BY <1>5 DEF SaveTimeline, Docs, UpdateImportJob, Durable, CompletenessMatchesEvents,
           RawBeforeNormalized, ResumeStepIsBacked, CompleteJobIsWhole, RowsHaveJobs
  <2>2. Memory'
    BY <1>5 DEF SaveTimeline, Docs, db, run, UpdateImportJob
  <2> QED BY <2>1, <2>2
<1>6. CASE MarkTimelineStored
  <2>1. Durable'
    BY <1>6 DEF MarkTimelineStored, UpdateImportJob, Durable, CompletenessMatchesEvents,
           RawBeforeNormalized, ResumeStepIsBacked, CompleteJobIsWhole, RowsHaveJobs
  <2>2. Memory'
    BY <1>6 DEF MarkTimelineStored, db, run, UpdateImportJob
  <2> QED BY <2>1, <2>2
<1>7. CASE ApplyTimeline
  <2>1. Durable'
    BY <1>7, DurableStutters DEF ApplyTimeline
  <2>2. Memory'
    BY <1>7 DEF ApplyTimeline, db, run
  <2> QED BY <2>1, <2>2
<1>8. CASE UpsertComplete
  <2>1. Durable'
    BY <1>8 DEF UpsertComplete, UpdateImportJob, Durable, CompletenessMatchesEvents,
           RawBeforeNormalized, ResumeStepIsBacked, CompleteJobIsWhole, RowsHaveJobs
  <2>2. Memory'
    BY <1>8 DEF UpsertComplete, db, run, UpdateImportJob
  <2> QED BY <2>1, <2>2
<1>9. CASE RefuseComplete
  <2>1. Durable'
    BY <1>9, DurableStutters DEF RefuseComplete
  <2>2. Memory'
    BY <1>9 DEF RefuseComplete, db, run
  <2> QED BY <2>1, <2>2
<1>10. CASE MarkComplete
  <2>1. Durable'
    BY <1>10 DEF MarkComplete, UpdateImportJob, Durable, CompletenessMatchesEvents,
           RawBeforeNormalized, ResumeStepIsBacked, CompleteJobIsWhole, RowsHaveJobs
  <2>2. Memory'
    BY <1>10 DEF MarkComplete, db, run, UpdateImportJob
  <2> QED BY <2>1, <2>2
<1> QED BY <1>1, <1>2, <1>3, <1>4, <1>5, <1>6, <1>7, <1>8, <1>9, <1>10 DEF TimelineStep

LEMMA ErrorKeeps ==
  ASSUME Inductive, ErrorStep
  PROVE  Durable' /\ Memory'
<1> USE DEF Inductive, TypeOK, StoreTypeOK, WorkerTypeOK, Normalizes, At, Goto,
            FailTo, StoreError, AfterWrite, Memory, WorkerAgreesWithStore, BatchIsReady,
            DetailSteps, TimelineSteps, HoldsTimeline
<1>1. CASE StoreCallFails
  <2>1. Durable'
    BY <1>1, DurableStutters DEF StoreCallFails
  <2>2. Memory'
    BY <1>1 DEF StoreCallFails, StoreError, db, run
  <2> QED BY <2>1, <2>2
<1>2. CASE MarkTimelinePartial
  <2>1. Durable'
    BY <1>2 DEF MarkTimelinePartial, UpdateImportJob, Durable, CompletenessMatchesEvents,
           RawBeforeNormalized, ResumeStepIsBacked, CompleteJobIsWhole, RowsHaveJobs
  <2>2. Memory'
    BY <1>2 DEF MarkTimelinePartial, db, run, UpdateImportJob
  <2> QED BY <2>1, <2>2
<1>3. CASE DeferDetail
  <2>1. Durable'
    BY <1>3 DEF DeferDetail, Defer, JobUnchanged, UpdateImportJob, Durable, CompletenessMatchesEvents,
           RawBeforeNormalized, ResumeStepIsBacked, CompleteJobIsWhole, RowsHaveJobs
  <2>2. Memory'
    BY <1>3 DEF DeferDetail, Defer, JobUnchanged, db, run, UpdateImportJob
  <2> QED BY <2>1, <2>2
<1>4. CASE DeferNormalizeDetail
  <2>1. Durable'
    BY <1>4 DEF DeferNormalizeDetail, Defer, JobUnchanged, UpdateImportJob, Durable, CompletenessMatchesEvents,
           RawBeforeNormalized, ResumeStepIsBacked, CompleteJobIsWhole, RowsHaveJobs
  <2>2. Memory'
    BY <1>4 DEF DeferNormalizeDetail, Defer, JobUnchanged, db, run, UpdateImportJob
  <2> QED BY <2>1, <2>2
<1>5. CASE DeferTimeline
  <2>1. Durable'
    BY <1>5 DEF DeferTimeline, Defer, JobUnchanged, UpdateImportJob, Durable, CompletenessMatchesEvents,
           RawBeforeNormalized, ResumeStepIsBacked, CompleteJobIsWhole, RowsHaveJobs
  <2>2. Memory'
    BY <1>5 DEF DeferTimeline, Defer, JobUnchanged, db, run, UpdateImportJob
  <2> QED BY <2>1, <2>2
<1>6. CASE DeferNormalizeTimeline
  <2>1. Durable'
    BY <1>6 DEF DeferNormalizeTimeline, Defer, JobUnchanged, UpdateImportJob, Durable, CompletenessMatchesEvents,
           RawBeforeNormalized, ResumeStepIsBacked, CompleteJobIsWhole, RowsHaveJobs
  <2>2. Memory'
    BY <1>6 DEF DeferNormalizeTimeline, Defer, JobUnchanged, db, run, UpdateImportJob
  <2> QED BY <2>1, <2>2
<1> QED BY <1>1, <1>2, <1>3, <1>4, <1>5, <1>6 DEF ErrorStep

LEMMA WorldKeeps ==
  ASSUME Inductive, Crash \/ World
  PROVE  Durable' /\ Memory'
<1> USE DEF Inductive, TypeOK, StoreTypeOK, WorkerTypeOK, Normalizes, At, Goto,
            FailTo, StoreError, AfterWrite, Memory, WorkerAgreesWithStore, BatchIsReady,
            DetailSteps, TimelineSteps, HoldsTimeline
<1>1. CASE Crash
  <2>1. Durable'
    BY <1>1, DurableStutters DEF Crash
  <2>2. Memory'
    BY <1>1 DEF Crash, db, run
  <2> QED BY <2>1, <2>2
<1>2. ASSUME NEW m \in Matches, RetryWindowOpens(m) PROVE Durable' /\ Memory'
  <2>1. Durable'
    BY <1>2 DEF RetryWindowOpens, UpdateImportJob, Durable, CompletenessMatchesEvents,
           RawBeforeNormalized, ResumeStepIsBacked, CompleteJobIsWhole, RowsHaveJobs
  <2>2. Memory'
    BY <1>2 DEF RetryWindowOpens, db, run, UpdateImportJob
  <2> QED BY <2>1, <2>2
<1>3. ASSUME NEW m \in Matches, RiotCorrects(m) PROVE Durable' /\ Memory'
  <2>1. Durable'
    BY <1>3, DurableStutters DEF RiotCorrects
  <2>2. Memory'
    BY <1>3 DEF RiotCorrects, db, run
  <2> QED BY <2>1, <2>2
<1> QED BY <1>1, <1>2, <1>3 DEF World

LEMMA InductiveInit == Init => Inductive
<1> SUFFICES ASSUME Init PROVE Inductive
  OBVIOUS
<1>1. TypeOK
  BY TypeInit
<1>2. Durable
  BY DEF Init, Durable, CompletenessMatchesEvents, RawBeforeNormalized,
         ResumeStepIsBacked, CompleteJobIsWhole, RowsHaveJobs, Normalizes
<1>3. Memory
  BY DEF Init, Memory, WorkerAgreesWithStore, BatchIsReady, DetailSteps,
         TimelineSteps, HoldsTimeline
<1> QED BY <1>1, <1>2, <1>3 DEF Inductive

LEMMA InductiveStep == ASSUME Inductive, [Next]_vars PROVE Inductive'
<1>1. TypeOK'
  BY TypeStep DEF Inductive
<1>2. Durable' /\ Memory'
  <2>1. CASE BatchStep \/ Sync
    BY <2>1, BatchKeeps
  <2>2. CASE DetailStep
    BY <2>2, DetailKeeps
  <2>3. CASE TimelineStep
    BY <2>3, TimelineKeeps
  <2>4. CASE ErrorStep
    BY <2>4, ErrorKeeps
  <2>5. CASE Crash \/ World
    BY <2>5, WorldKeeps
  <2>6. CASE UNCHANGED vars
    <3>1. Durable'
      BY <2>6, DurableStutters DEF Inductive, vars, db
    <3>2. Memory'
      BY <2>6 DEF Inductive, vars, Memory, WorkerAgreesWithStore, BatchIsReady,
                  Normalizes
    <3> QED BY <3>1, <3>2
  <2> QED BY <2>1, <2>2, <2>3, <2>4, <2>5, <2>6 DEF Next, WorkerStep
<1> QED BY <1>1, <1>2 DEF Inductive

THEOREM InductiveInvariant == Spec => []Inductive
BY InductiveInit, InductiveStep, PTL DEF Spec

-----------------------------------------------------------------------------
(***************************************************************************)
(* What the pipeline promises.                                             *)
(***************************************************************************)

(* importJob forgets a match only when the complete match, its events and  *)
(* both raw documents are stored.                                          *)
THEOREM CompleteJobsAreWhole == Spec => []CompleteJobIsWhole
BY InductiveInvariant, PTL DEF Inductive, Durable

(* UpsertImportedMatch and MarkMatchTimelinePartial keep the completeness  *)
(* label and the stored events together.                                   *)
THEOREM CompletenessIsTrue == Spec => []CompletenessMatchesEvents
BY InductiveInvariant, PTL DEF Inductive, Durable

(* The resume step UpdateImportJob saves never points past durable work.   *)
THEOREM ResumeStepsAreBacked == Spec => []ResumeStepIsBacked
BY InductiveInvariant, PTL DEF Inductive, Durable

(* SaveAPIPayload precedes every UpsertImportedMatch that relies on it.    *)
THEOREM RawIsStoredFirst == Spec => []RawBeforeNormalized
BY InductiveInvariant, PTL DEF Inductive, Durable

(* Between two store calls importJob's memory agrees with the database.    *)
THEOREM WorkerAgrees == Spec => []WorkerAgreesWithStore
BY InductiveInvariant, PTL DEF Inductive, Memory

(* A job is imported only after its next_attempt_at, although the batch    *)
(* was read long before: nothing but the job itself moves it forward.      *)
THEOREM RateLimitHolds == Spec => RateLimitedJobsWait
<1>1. Inductive /\ [Next]_vars => [\A m \in Matches : PickJob(m) => ~waiting[m]]_vars
  BY DEF Inductive, Memory, BatchIsReady, PickJob
<1> QED BY <1>1, InductiveInvariant, PTL DEF Spec, RateLimitedJobsWait

(* SaveDetail is the only writer of match payloads, and loadOrFetchDetail  *)
(* gets there only when the stored one does not normalize.                 *)
THEOREM UsablePayloadsAreKept == Spec => UsablePayloadIsKept
<1> DEFINE Kept == \A m \in Matches : Normalizes(detail[m]) => detail'[m] = detail[m]
<1>1. ASSUME Inductive, [Next]_vars PROVE [Kept]_vars
  <2>1. CASE SaveDetail
    BY <1>1, <2>1 DEF SaveDetail, At, Inductive, Memory, WorkerAgreesWithStore,
                      TypeOK, StoreTypeOK
  <2>2. CASE ~SaveDetail
    <3>1. UNCHANGED detail
      BY <1>1, <2>2
      DEF Next, Sync, WorkerStep, World, BatchStep, DetailStep, TimelineStep, ErrorStep,
          vars, db, BeginSync, QueueImportJob, QueueError, EndQueueing, LoadBatch,
          PickJob, EndBatch, UseStoredDetail, BeginDetailFetch, DetailArrives,
          DetailRequestFails, MarkDetailStored, UpsertDetail, RefuseDetail,
          MarkDetailOnly, UseStoredTimeline, BeginTimelineFetch, TimelineArrives,
          TimelineRequestFails, SaveTimeline, MarkTimelineStored, ApplyTimeline,
          UpsertComplete, RefuseComplete, MarkComplete, StoreCallFails,
          MarkTimelinePartial, DeferDetail, DeferNormalizeDetail, DeferTimeline,
          DeferNormalizeTimeline, Defer, Crash, RetryWindowOpens, RiotCorrects
    <3> QED BY <3>1
  <2> QED BY <2>1, <2>2
<1> QED BY <1>1, InductiveInvariant, PTL DEF Spec, UsablePayloadIsKept

-----------------------------------------------------------------------------
(***************************************************************************)
(* The pipeline implements MatchImport.  Only five kinds of step are       *)
(* visible through the refinement mapping; every other one stutters.       *)
(***************************************************************************)
Stutters == /\ \A m \in Matches : Status(m)' = Status(m)
            /\ \A m \in Matches : jobState'[m] = "complete" <=> jobState[m] = "complete"

LEMMA StutterIsAbstract == ASSUME Stutters PROVE UNCHANGED Abs!avars
BY DEF Stutters, Abs!avars

LEMMA AbstractStep ==
  ASSUME NEW m \in Matches,
         Abs!Enqueue(m) \/ Abs!MakeUsable(m) \/ Abs!MakeWhole(m) \/ Abs!Settle(m)
  PROVE  Abs!AbstractNext
BY DEF Abs!AbstractNext

(* A step that moves one match by one level, and settles none, is the      *)
(* abstract step.                                                          *)
LEMMA AdvanceIsAbstract ==
  ASSUME NEW m \in Matches, NEW from, NEW to,
         Status(m) = from, Status(m)' = to,
         \A n \in Matches : n # m => Status(n)' = Status(n),
         \A n \in Matches : jobState'[n] = "complete" <=> jobState[n] = "complete"
  PROVE  Abs!Advance(m, from, to)
<1>1. [n \in Matches |-> Status(n)]' = [[n \in Matches |-> Status(n)] EXCEPT ![m] = to]
  OBVIOUS
<1>2. UNCHANGED {n \in Matches : jobState[n] = "complete"}
  OBVIOUS
<1> QED BY <1>1, <1>2 DEF Abs!Advance

LEMMA QueueRefines ==
  ASSUME Inductive, NEW m \in Matches, QueueImportJob(m)
  PROVE  Abs!AbstractNext \/ Stutters
<1>1. CASE jobState[m] = "none"
  <2> USE DEF Inductive, TypeOK, StoreTypeOK, QueueImportJob
  <2>1. /\ jobState' = [jobState EXCEPT ![m] = "pending"]
        /\ row' = row
    BY <1>1
  <2>2. row[m] = "absent"
    BY <1>1 DEF Durable, RowsHaveJobs
  <2>3. Status(m) = "unknown" /\ Status(m)' = "queued"
    BY <1>1, <2>1, <2>2 DEF Status
  <2>4. \A n \in Matches : n # m => Status(n)' = Status(n)
    BY <2>1 DEF Status
  <2>5. \A n \in Matches : jobState'[n] = "complete" <=> jobState[n] = "complete"
    BY <1>1, <2>1
  <2>6. Abs!Enqueue(m)
    BY <2>3, <2>4, <2>5, AdvanceIsAbstract DEF Abs!Enqueue
  <2> QED BY <2>6, AbstractStep
<1>2. CASE jobState[m] # "none"
  BY <1>2 DEF Stutters, QueueImportJob, Status
<1> QED BY <1>1, <1>2

LEMMA UpsertDetailRefines ==
  ASSUME Inductive, UpsertDetail
  PROVE  Abs!AbstractNext \/ Stutters
<1> USE DEF Inductive, Memory, WorkerAgreesWithStore, DetailSteps, TypeOK, StoreTypeOK,
            Rows, UpsertDetail, At
<1>1. CASE row[cur] = "absent"
  <2>1. PICK m \in Matches : m = cur
    OBVIOUS
  <2>2. jobState' = jobState /\ row' = [row EXCEPT ![m] = "detail_only"]
    BY <1>1, <2>1
  <2>3. Status(m) = "queued" /\ Status(m)' = "usable"
    BY <1>1, <2>1, <2>2 DEF Status
  <2>4. \A n \in Matches : n # m => Status(n)' = Status(n)
    BY <2>2 DEF Status
  <2>5. Abs!MakeUsable(m)
    BY <2>2, <2>3, <2>4, AdvanceIsAbstract DEF Abs!MakeUsable
  <2> QED BY <2>5, AbstractStep
<1>2. CASE row[cur] # "absent"
  BY <1>2 DEF Stutters, Status
<1> QED BY <1>1, <1>2

LEMMA UpsertCompleteRefines ==
  ASSUME Inductive, UpsertComplete
  PROVE  Abs!AbstractNext \/ Stutters
<1> USE DEF Inductive, Memory, WorkerAgreesWithStore, HoldsTimeline, TimelineSteps,
            TypeOK, StoreTypeOK, UpsertComplete, At
<1>1. CASE row[cur] # "complete"
  <2>1. PICK m \in Matches : m = cur
    OBVIOUS
  <2>2. jobState' = jobState /\ row' = [row EXCEPT ![m] = "complete"]
    BY <2>1
  <2>3. Status(m) = "usable" /\ Status(m)' = "complete"
    BY <1>1, <2>1, <2>2 DEF Status, Rows
  <2>4. \A n \in Matches : n # m => Status(n)' = Status(n)
    BY <2>2 DEF Status
  <2>5. Abs!MakeWhole(m)
    BY <2>2, <2>3, <2>4, AdvanceIsAbstract DEF Abs!MakeWhole
  <2> QED BY <2>5, AbstractStep
<1>2. CASE row[cur] = "complete"
  BY <1>2 DEF Stutters, Status
<1> QED BY <1>1, <1>2

LEMMA MarkCompleteRefines ==
  ASSUME Inductive, MarkComplete
  PROVE  Abs!AbstractNext
<1> USE DEF Inductive, Memory, WorkerAgreesWithStore, HoldsTimeline, TimelineSteps,
            TypeOK, StoreTypeOK, MarkComplete, At, UpdateImportJob, Status
<1>1. PICK m \in Matches : m = cur
  OBVIOUS
<1>2. Abs!Settle(m)
  BY <1>1 DEF Abs!Settle
<1> QED BY <1>2, AbstractStep

(* The job's bookkeeping and a partial timeline are invisible. *)
HiddenWrite ==
  \/ BeginDetailFetch \/ SaveDetail \/ MarkDetailStored \/ MarkDetailOnly
  \/ BeginTimelineFetch \/ SaveTimeline \/ MarkTimelineStored
  \/ ErrorStep /\ ~StoreCallFails
  \/ \E m \in Matches : RetryWindowOpens(m)

LEMMA OtherWritesRefine ==
  ASSUME Inductive, HiddenWrite
  PROVE  Stutters
<1> USE DEF Inductive, Memory, WorkerAgreesWithStore, DetailSteps, HoldsTimeline,
            TimelineSteps, TypeOK, StoreTypeOK, At, UpdateImportJob, JobUnchanged,
            Status, Stutters
<1>1. CASE BeginDetailFetch
  BY <1>1 DEF BeginDetailFetch
<1>2. CASE SaveDetail
  BY <1>2 DEF SaveDetail
<1>3. CASE MarkDetailStored
  BY <1>3 DEF MarkDetailStored
<1>4. CASE MarkDetailOnly
  BY <1>4 DEF MarkDetailOnly
<1>5. CASE BeginTimelineFetch
  BY <1>5 DEF BeginTimelineFetch
<1>6. CASE SaveTimeline
  BY <1>6 DEF SaveTimeline
<1>7. CASE MarkTimelineStored
  BY <1>7 DEF MarkTimelineStored
<1>8. CASE MarkTimelinePartial
  BY <1>8 DEF MarkTimelinePartial, Rows
<1>9. CASE DeferDetail
  BY <1>9 DEF DeferDetail, Defer
<1>10. CASE DeferNormalizeDetail
  BY <1>10 DEF DeferNormalizeDetail, Defer
<1>11. CASE DeferTimeline
  BY <1>11 DEF DeferTimeline, Defer
<1>12. CASE DeferNormalizeTimeline
  BY <1>12 DEF DeferNormalizeTimeline, Defer
<1>13. CASE \E m \in Matches : RetryWindowOpens(m)
  BY <1>13 DEF RetryWindowOpens
<1> QED
  BY <1>1, <1>2, <1>3, <1>4, <1>5, <1>6, <1>7, <1>8, <1>9, <1>10, <1>11, <1>12,
     <1>13
  DEF HiddenWrite, ErrorStep

(* Steps that write nothing durable. *)
LEMMA MemoryStepsRefine ==
  ASSUME UNCHANGED db
  PROVE  Stutters
BY DEF db, Stutters, Status

(* Whatever fails, crashes or is retried, the journal's knowledge of each  *)
(* match moves only forward, one level at a time, and is let go only when  *)
(* it is complete: MatchImport.                                            *)
THEOREM PipelineImplementsImport == Spec => ImplementsImport
<1>1. Init => Abs!AbstractInit
  BY DEF Init, Status, Abs!AbstractInit
<1>2. ASSUME Inductive, [Next]_vars PROVE [Abs!AbstractNext]_(Abs!avars)
  <2>1. CASE UNCHANGED db
    BY <2>1, MemoryStepsRefine, StutterIsAbstract
  <2>2. CASE \E m \in Matches : QueueImportJob(m)
    BY <1>2, <2>2, QueueRefines, StutterIsAbstract
  <2>3. CASE UpsertDetail
    BY <1>2, <2>3, UpsertDetailRefines, StutterIsAbstract
  <2>4. CASE UpsertComplete
    BY <1>2, <2>4, UpsertCompleteRefines, StutterIsAbstract
  <2>5. CASE MarkComplete
    BY <1>2, <2>5, MarkCompleteRefines
  <2>6. CASE HiddenWrite
    BY <1>2, <2>6, OtherWritesRefine, StutterIsAbstract
  <2>7. CASE /\ ~\E m \in Matches : QueueImportJob(m)
             /\ ~UpsertDetail /\ ~UpsertComplete /\ ~MarkComplete /\ ~HiddenWrite
    <3>1. UNCHANGED db
      BY <1>2, <2>7
      DEF HiddenWrite, Next, Sync, WorkerStep, World, BatchStep, DetailStep, TimelineStep,
          ErrorStep, vars, db, BeginSync, QueueError, EndQueueing, LoadBatch, PickJob, EndBatch,
          UseStoredDetail, DetailArrives, DetailRequestFails, RefuseDetail,
          UseStoredTimeline, TimelineArrives, TimelineRequestFails, ApplyTimeline,
          RefuseComplete, StoreCallFails, Crash, RiotCorrects
    <3> QED BY <3>1, <2>1
  <2> QED BY <2>1, <2>2, <2>3, <2>4, <2>5, <2>6, <2>7
<1> QED BY <1>1, <1>2, InductiveInvariant, PTL DEF Spec, ImplementsImport, Abs!AbstractSpec

-----------------------------------------------------------------------------
(***************************************************************************)
(* What an attempt reports.  Until it fails an attempt holds no error, the *)
(* steps that defer a job hold one, and the retry window stays open until  *)
(* one of them closes it.                                                  *)
(***************************************************************************)
Handlers == {"mark_partial", "defer_detail", "defer_normalize_detail", "defer_timeline",
             "defer_normalize_timeline"}

Accounted ==
  /\ AttemptIsReported
  /\ pc \in Handlers => cause # "none"
  /\ pc \in (DetailSteps \cup TimelineSteps) \ Handlers => cause = "none"
  /\ pc \in DetailSteps \cup TimelineSteps => ~waiting[cur]

Reports == Inductive /\ Accounted

LEMMA BatchAccounts == ASSUME Reports, BatchStep \/ Sync PROVE Accounted'
<1> USE DEF Reports, Inductive, TypeOK, StoreTypeOK, WorkerTypeOK, Accounted,
            AttemptIsReported, Handlers, DetailSteps, TimelineSteps, HoldsTimeline
<1>1. ASSUME NEW D \in SUBSET Matches, BeginSync(D) PROVE Accounted'
  BY <1>1 DEF BeginSync
<1>2. ASSUME NEW m \in Matches, QueueImportJob(m) \/ QueueError(m) PROVE Accounted'
  BY <1>2 DEF QueueImportJob, QueueError
<1>3. ASSUME NEW m \in Matches, PickJob(m) PROVE Accounted'
  BY <1>3 DEF PickJob, db, Memory, BatchIsReady
<1>4. CASE EndQueueing \/ LoadBatch \/ EndBatch
  BY <1>4, PipelineAssumption
  DEF PipelineAssumption, EndQueueing, LoadBatch, EndBatch, Memory, WorkerAgreesWithStore
<1> QED BY <1>1, <1>2, <1>3, <1>4 DEF BatchStep, Sync

LEMMA DetailAccounts == ASSUME Reports, DetailStep PROVE Accounted'
<1> USE PipelineAssumption
    DEF PipelineAssumption, Causes, Reports, Inductive, TypeOK, StoreTypeOK, WorkerTypeOK,
        Accounted, AttemptIsReported, Handlers, DetailSteps, TimelineSteps, HoldsTimeline,
        At, Goto, FailTo, StoreError, StoreErrors, AfterWrite, UpdateImportJob, db
<1>1. CASE UseStoredDetail \/ BeginDetailFetch
  BY <1>1 DEF UseStoredDetail, BeginDetailFetch
<1>2. ASSUME NEW m \in Matches, DetailArrives(m) PROVE Accounted'
  BY <1>2 DEF DetailArrives
<1>3. ASSUME NEW c \in Causes, DetailRequestFails(c) PROVE Accounted'
  BY <1>3 DEF DetailRequestFails
<1>4. CASE SaveDetail \/ MarkDetailStored
  BY <1>4 DEF SaveDetail, MarkDetailStored
<1>5. CASE UpsertDetail \/ RefuseDetail
  BY <1>5 DEF UpsertDetail, RefuseDetail
<1>6. CASE MarkDetailOnly
  BY <1>6 DEF MarkDetailOnly
<1> QED BY <1>1, <1>2, <1>3, <1>4, <1>5, <1>6 DEF DetailStep

LEMMA TimelineAccounts == ASSUME Reports, TimelineStep PROVE Accounted'
<1> USE PipelineAssumption
    DEF PipelineAssumption, Causes, Reports, Inductive, TypeOK, StoreTypeOK, WorkerTypeOK,
        Accounted, AttemptIsReported, Handlers, DetailSteps, TimelineSteps, HoldsTimeline,
        At, Goto, FailTo, StoreError, StoreErrors, AfterWrite, UpdateImportJob, db
<1>1. CASE UseStoredTimeline \/ BeginTimelineFetch
  BY <1>1 DEF UseStoredTimeline, BeginTimelineFetch
<1>2. ASSUME NEW m \in Matches, TimelineArrives(m) PROVE Accounted'
  BY <1>2 DEF TimelineArrives
<1>3. ASSUME NEW c \in Causes, TimelineRequestFails(c) PROVE Accounted'
  BY <1>3 DEF TimelineRequestFails
<1>4. CASE SaveTimeline \/ MarkTimelineStored \/ ApplyTimeline
  BY <1>4 DEF SaveTimeline, MarkTimelineStored, ApplyTimeline
<1>5. CASE UpsertComplete \/ RefuseComplete
  BY <1>5 DEF UpsertComplete, RefuseComplete
<1>6. CASE MarkComplete
  BY <1>6 DEF MarkComplete
<1> QED BY <1>1, <1>2, <1>3, <1>4, <1>5, <1>6 DEF TimelineStep

LEMMA ErrorAccounts == ASSUME Reports, ErrorStep PROVE Accounted'
<1> USE PipelineAssumption
    DEF PipelineAssumption, Causes, Reports, Inductive, TypeOK, StoreTypeOK, WorkerTypeOK,
        Accounted, AttemptIsReported, Handlers, DetailSteps, TimelineSteps, HoldsTimeline
<1>1. CASE StoreCallFails
  BY <1>1 DEF StoreCallFails, FailTo, StoreError, StoreErrors, db
<1>2. CASE MarkTimelinePartial
  BY <1>2 DEF MarkTimelinePartial, At, Goto
<1>3. ASSUME NEW at \in Handlers, NEW s, NEW r, Defer(at, s, r) PROVE Accounted'
  <2>1. pc' = "next" /\ cur' = cur /\ cause' = cause /\ cause # "none"
    BY <1>3 DEF Defer, At, Goto
  <2>2. waiting'[cur] => cause = "rate_limited"
    BY <1>3 DEF Defer, At, UpdateImportJob, JobUnchanged
  <2> QED BY <2>1, <2>2
<1> QED
  BY <1>1, <1>2, <1>3
  DEF ErrorStep, DeferDetail, DeferNormalizeDetail, DeferTimeline, DeferNormalizeTimeline

LEMMA WorldAccounts == ASSUME Reports, Crash \/ World PROVE Accounted'
<1> USE DEF Reports, Inductive, TypeOK, StoreTypeOK, WorkerTypeOK, Accounted,
            AttemptIsReported, Handlers, DetailSteps, TimelineSteps, HoldsTimeline
<1>1. CASE Crash
  BY <1>1 DEF Crash
<1>2. ASSUME NEW m \in Matches, RetryWindowOpens(m) PROVE Accounted'
  <2>1. UNCHANGED <<pc, cur, cause, jobState>> /\ \A n \in Matches : waiting'[n] => waiting[n]
    BY <1>2 DEF RetryWindowOpens
  <2> QED BY <2>1, PipelineAssumption DEF PipelineAssumption, Memory, WorkerAgreesWithStore
<1>3. ASSUME NEW m \in Matches, RiotCorrects(m) PROVE Accounted'
  BY <1>3 DEF RiotCorrects, db
<1> QED BY <1>1, <1>2, <1>3 DEF World

LEMMA ReportsInit == Init => Reports
BY InductiveInit
DEF Init, Reports, Accounted, AttemptIsReported, Handlers, DetailSteps, TimelineSteps,
    HoldsTimeline

LEMMA ReportsStep == ASSUME Reports, [Next]_vars PROVE Reports'
<1>1. CASE UNCHANGED vars
  BY <1>1, InductiveStep DEF Reports, Accounted, AttemptIsReported, vars
<1>2. CASE Next
  BY <1>2, InductiveStep, BatchAccounts, DetailAccounts, TimelineAccounts, ErrorAccounts,
     WorldAccounts
  DEF Reports, Next, WorkerStep
<1> QED BY <1>1, <1>2

(* importJob returns without an error only when the job is complete, and   *)
(* closes the retry window only when it returns a rate limit: Discovery    *)
(* and Sync's counts rely on it.                                           *)
THEOREM AttemptsAreReported == Spec => []AttemptIsReported
<1>1. Reports => AttemptIsReported
  BY DEF Reports, Accounted
<1> QED BY <1>1, ReportsInit, ReportsStep, PTL DEF Spec

(* shouldStopBatch ends the loop of Sync: only PickJob takes another job,  *)
(* and what it knows of the last one is what that attempt reported.        *)
THEOREM StoppedBatchesAreLeft == Spec => StoppedBatchIsLeft
<1> DEFINE Left == cur # None /\ cur' \notin {cur, None} =>
                     cause \notin {"stop", "rate_limited"} /\ ~waiting[cur]
<1>1. ASSUME Reports, [Next]_vars PROVE [Left]_vars
  <2>1. ASSUME NEW m \in Matches, PickJob(m) PROVE Left
    BY <1>1, <2>1 DEF PickJob, ShouldStopBatch, Reports, Accounted, AttemptIsReported
  <2>2. CASE \A m \in Matches : ~PickJob(m)
    <3>1. cur' \in {cur, None}
      BY <1>1, <2>2
      DEF Next, Sync, WorkerStep, World, BatchStep, DetailStep, TimelineStep, ErrorStep,
          vars, run, BeginSync, QueueImportJob, QueueError, EndQueueing, LoadBatch,
          EndBatch, UseStoredDetail, BeginDetailFetch, DetailArrives, DetailRequestFails,
          SaveDetail, MarkDetailStored, UpsertDetail, RefuseDetail, MarkDetailOnly,
          UseStoredTimeline, BeginTimelineFetch, TimelineArrives, TimelineRequestFails,
          SaveTimeline, MarkTimelineStored, ApplyTimeline, UpsertComplete, RefuseComplete,
          MarkComplete, StoreCallFails, MarkTimelinePartial, DeferDetail,
          DeferNormalizeDetail, DeferTimeline, DeferNormalizeTimeline, Defer, Crash,
          RetryWindowOpens, RiotCorrects
    <3> QED BY <3>1
  <2> QED BY <2>1, <2>2
<1> QED BY <1>1, ReportsInit, ReportsStep, PTL DEF Spec, StoppedBatchIsLeft

-----------------------------------------------------------------------------
(***************************************************************************)
(* A sync runs down: <<Phase(pc), found, batch, StepsAhead[pc]>> becomes   *)
(* less in the order of tuples with every step of the worker.              *)
(***************************************************************************)
LEMMA BatchRunsDown == ASSUME Inductive, BatchStep PROVE RunsDown
<1> USE DEF RunsDown, Phase, Fewer
<1>1. ASSUME NEW m \in Matches, QueueImportJob(m) \/ QueueError(m) PROVE RunsDown
  BY <1>1 DEF QueueImportJob, QueueError
<1>2. ASSUME NEW m \in Matches, PickJob(m) PROVE RunsDown
  BY <1>2 DEF PickJob
<1>3. CASE EndQueueing \/ LoadBatch \/ EndBatch
  BY <1>3 DEF EndQueueing, LoadBatch, EndBatch
<1> QED BY <1>1, <1>2, <1>3 DEF BatchStep

LEMMA OneStepLess ==
  ASSUME UNCHANGED run, NEW s \in Steps \ {"idle", "queueing", "ready"},
         NEW t \in Steps \ {"idle", "queueing", "ready"},
         pc = s, pc' = t, StepsAhead[t] < StepsAhead[s]
  PROVE  RunsDown
BY DEF RunsDown, Phase, Steps, run

LEMMA DetailRunsDown == ASSUME DetailStep PROVE RunsDown
<1> USE OneStepLess DEF StepsAhead, Steps, At, Goto, FailTo, StoreError, AfterWrite
<1>1. CASE UseStoredDetail
  BY <1>1 DEF UseStoredDetail
<1>2. CASE BeginDetailFetch
  BY <1>2 DEF BeginDetailFetch
<1>3. ASSUME NEW m \in Matches, DetailArrives(m) PROVE RunsDown
  BY <1>3 DEF DetailArrives
<1>4. ASSUME NEW c \in Causes, DetailRequestFails(c) PROVE RunsDown
  BY <1>4 DEF DetailRequestFails
<1>5. CASE SaveDetail
  BY <1>5 DEF SaveDetail
<1>6. CASE MarkDetailStored
  BY <1>6 DEF MarkDetailStored
<1>7. CASE UpsertDetail
  BY <1>7 DEF UpsertDetail
<1>8. CASE RefuseDetail
  BY <1>8 DEF RefuseDetail
<1>9. CASE MarkDetailOnly
  BY <1>9 DEF MarkDetailOnly
<1> QED BY <1>1, <1>2, <1>3, <1>4, <1>5, <1>6, <1>7, <1>8, <1>9 DEF DetailStep

LEMMA TimelineRunsDown == ASSUME TimelineStep PROVE RunsDown
<1> USE OneStepLess DEF StepsAhead, Steps, At, Goto, FailTo, StoreError, AfterWrite
<1>1. CASE UseStoredTimeline
  BY <1>1 DEF UseStoredTimeline
<1>2. CASE BeginTimelineFetch
  BY <1>2 DEF BeginTimelineFetch
<1>3. ASSUME NEW m \in Matches, TimelineArrives(m) PROVE RunsDown
  BY <1>3 DEF TimelineArrives
<1>4. ASSUME NEW c \in Causes, TimelineRequestFails(c) PROVE RunsDown
  BY <1>4 DEF TimelineRequestFails
<1>5. CASE SaveTimeline
  BY <1>5 DEF SaveTimeline
<1>6. CASE MarkTimelineStored
  BY <1>6 DEF MarkTimelineStored
<1>7. CASE ApplyTimeline
  BY <1>7 DEF ApplyTimeline
<1>8. CASE UpsertComplete
  BY <1>8 DEF UpsertComplete
<1>9. CASE RefuseComplete
  BY <1>9 DEF RefuseComplete
<1>10. CASE MarkComplete
  BY <1>10 DEF MarkComplete
<1> QED BY <1>1, <1>2, <1>3, <1>4, <1>5, <1>6, <1>7, <1>8, <1>9, <1>10 DEF TimelineStep

LEMMA ErrorRunsDown == ASSUME ErrorStep PROVE RunsDown
<1> USE OneStepLess DEF StepsAhead, Steps, At, Goto, FailTo, StoreError
<1>1. CASE StoreCallFails
  BY <1>1 DEF StoreCallFails
<1>2. CASE MarkTimelinePartial
  BY <1>2 DEF MarkTimelinePartial
<1>3. CASE DeferDetail \/ DeferNormalizeDetail \/ DeferTimeline \/ DeferNormalizeTimeline
  BY <1>3 DEF DeferDetail, DeferNormalizeDetail, DeferTimeline, DeferNormalizeTimeline, Defer
<1> QED BY <1>1, <1>2, <1>3 DEF ErrorStep

(* No document, error or failing write makes a sync go round: each of its  *)
(* steps makes the measure less, and time, Riot and crashes do not make it *)
(* more.                                                                   *)
THEOREM RunningDown == Spec => SyncRunsDown
<1>1. Inductive /\ [Next]_vars =>
        [pc # "idle" => RunsDown \/ (World /\ UNCHANGED <<pc, found, batch>>)]_vars
  <2> SUFFICES ASSUME Inductive, Next, pc # "idle"
               PROVE  RunsDown \/ (World /\ UNCHANGED <<pc, found, batch>>)
    OBVIOUS
  <2>1. CASE Sync
    BY <2>1 DEF Sync, BeginSync
  <2>2. CASE WorkerStep
    BY <2>2, BatchRunsDown, DetailRunsDown, TimelineRunsDown, ErrorRunsDown DEF WorkerStep
  <2>3. CASE Crash
    BY <2>3 DEF Crash, RunsDown, Phase
  <2>4. CASE World
    BY <2>4 DEF World, RetryWindowOpens, RiotCorrects, run
  <2> QED BY <2>1, <2>2, <2>3, <2>4 DEF Next
<1> QED BY <1>1, InductiveInvariant, PTL DEF Spec, SyncRunsDown
=============================================================================
