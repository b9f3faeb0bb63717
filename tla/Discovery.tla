------------------------------ MODULE Discovery ------------------------------
(***************************************************************************)
(* Finding the matches to import: the first half of internal/importer      *)
(* Service.Sync, discoverMatchIDs and discoverQueueMatchIDs, the queueing  *)
(* loop, and the sync run row that reports the outcome.                    *)
(*                                                                         *)
(* Riot lists each queue's matches newest first, by offset.  A sync reads  *)
(* the matches it knows, then pages each queue until a page holds a known  *)
(* one, queues a job for every match found, and imports a batch.  Games    *)
(* are played meanwhile; pages, store calls and imports fail; the sync is  *)
(* cancelled or its process dies, and a later sync takes over.             *)
(*                                                                         *)
(* Abstractions: the n-th game of a queue is the number n; games of        *)
(* different queues have no order, so which ones are the newest KnownLimit *)
(* is left open between queues; one import is one step (ImportPipeline has *)
(* its own), and so is the choice of the jobs in a batch.                  *)
(***************************************************************************)
EXTENDS Naturals, FiniteSets

CONSTANTS
  NQueues,       \* training queues, paged in the order 1..NQueues
  MaxGames,      \* bound on the games played, in all queues
  HistoryLimit,  \* page size, and the initial history of a queue
  Cap,           \* maxOverlappingDiscovery
  KnownLimit,    \* matches RecentMatches returns
  BatchLimit,    \* jobs ReadyImportJobs returns
  StoreFails,    \* whether a store call may fail
  MaxCrashes     \* bound on kills

Queues == 1..NQueues

ASSUME DiscoveryAssumption ==
  /\ NQueues \in Nat \ {0}
  /\ MaxGames \in Nat
  /\ HistoryLimit \in Nat \ {0} /\ Cap \in Nat \ {0}
  /\ KnownLimit \in Nat \ {0} /\ BatchLimit \in Nat \ {0}
  /\ StoreFails \in BOOLEAN
  /\ MaxCrashes \in Nat

VARIABLES
  games,      \* games[q]: games of queue q that Riot lists
  queued,     \* queued[q]: games with an import job
  waiting,    \* those whose retry window is closed
  done,       \* those whose job is complete
  rows,       \* rows[q]: games with a match row
  run,        \* the newest sync_runs row
  pc,         \* what Sync does next
  cancelled,  \* its context
  known,      \* discoverMatchIDs: known
  hadKnown,   \* discoverMatchIDs: hadKnownMatches
  queue,      \* the queue it pages
  fetched,    \* len(discovered) of this queue, and the next offset
  pages,      \* the games on this queue's pages so far
  found,      \* found[q]: games discovered in the queues before
  todo,       \* todo[q]: games found and not queued yet
  batch,      \* batch[q]: jobs loaded and not yet tried
  cut,        \* whether the batch left ready jobs out: a history
  failed, imported, skipped, deferred,  \* whether Sync's counts are positive
  listed,     \* listed[q]: games when the sync began: a history
  beyond,     \* beyond[q]: games older than where paging stopped by intent: a history
  dropped,    \* dropped[q]: games found that the queueing loop lost: a history
  crashes     \* kills so far

jobs    == <<queued, waiting, done, rows>>
paging  == <<known, hadKnown, queue, fetched, pages>>
work    == <<found, todo, batch, cut>>
counts  == <<failed, imported, skipped, deferred>>
history == <<listed, beyond, dropped, crashes>>
vars    == <<games, jobs, run, pc, cancelled, paging, work, counts, history>>

NoListing == [q \in Queues |-> 0]
NoGames   == [q \in Queues |-> {}]
SomeGames == [Queues -> SUBSET Nat]
InAll(S)  == UNION {{q} \X S[q] : q \in Queues}

TypeOK ==
  /\ games \in [Queues -> Nat]
  /\ queued \in SomeGames /\ waiting \in SomeGames /\ done \in SomeGames
  /\ rows \in SomeGames
  /\ run \in {"none", "running", "succeeded", "partial", "failed"}
  /\ pc \in {"idle", "known", "page", "queue", "load", "batch", "finish"}
  /\ cancelled \in BOOLEAN
  /\ known \in SomeGames /\ hadKnown \in BOOLEAN
  /\ queue \in Queues /\ fetched \in Nat /\ pages \subseteq Nat
  /\ found \in SomeGames /\ todo \in SomeGames /\ batch \in SomeGames
  /\ cut \in BOOLEAN
  /\ failed \in BOOLEAN /\ imported \in BOOLEAN
  /\ skipped \in BOOLEAN /\ deferred \in BOOLEAN
  /\ listed \in [Queues -> Nat] /\ beyond \in SomeGames /\ dropped \in SomeGames
  /\ crashes \in 0..MaxCrashes

Total(g) == Cardinality(InAll([q \in Queues |-> 1..g[q]]))

Init ==
  /\ games \in {g \in [Queues -> 0..MaxGames] : Total(g) <= MaxGames}
  /\ queued = NoGames /\ waiting = NoGames /\ done = NoGames /\ rows = NoGames
  /\ run = "none" /\ pc = "idle" /\ cancelled = FALSE
  /\ known = NoGames /\ hadKnown = FALSE
  /\ queue = 1 /\ fetched = 0 /\ pages = {}
  /\ found = NoGames /\ todo = NoGames /\ batch = NoGames /\ cut = FALSE
  /\ failed = FALSE /\ imported = FALSE /\ skipped = FALSE /\ deferred = FALSE
  /\ listed = NoListing /\ beyond = NoGames /\ dropped = NoGames /\ crashes = 0

At(s)      == pc = s
Goto(s)    == pc' = s
Empty(S)   == \A q \in Queues : S[q] = {}
Add(S, q, n)    == [S EXCEPT ![q] = @ \cup {n}]
Remove(S, q, n) == [S EXCEPT ![q] = @ \ {n}]
Both(S, T) == [q \in Queues |-> S[q] \cup T[q]]
Running    == ~At("idle")

(* discoverMatchIDs, and Sync, return: their locals are gone. *)
LeaveDiscovery ==
  known' = NoGames /\ hadKnown' = FALSE /\ queue' = 1 /\ fetched' = 0 /\ pages' = {}

LeaveSync ==
  /\ Goto("idle")
  /\ cancelled' = FALSE
  /\ found' = NoGames /\ todo' = NoGames /\ batch' = NoGames /\ cut' = FALSE
  /\ failed' = FALSE /\ imported' = FALSE /\ skipped' = FALSE /\ deferred' = FALSE
  /\ listed' = NoListing

-----------------------------------------------------------------------------
(***************************************************************************)
(* A sync begins; beginSync admits one at a time.                          *)
(***************************************************************************)
Begin ==
  /\ At("idle") /\ Goto("known")
  /\ run' = "running"
  /\ listed' = games
  /\ UNCHANGED <<games, jobs, cancelled, paging, work, counts, beyond, dropped, crashes>>

(* EnsureProfile fails: a failed run is recorded for a known profile. *)
ProfileFails ==
  /\ At("idle") /\ run # "none"
  /\ run' = "failed"
  /\ UNCHANGED <<games, jobs, pc, cancelled, paging, work, counts, history>>

-----------------------------------------------------------------------------
(***************************************************************************)
(* discoverMatchIDs.                                                       *)
(***************************************************************************)
(* RecentMatches: the newest rows, by when the games were played. *)
Newest(K) ==
  /\ \A q \in Queues : /\ K[q] \subseteq rows[q]
                       /\ \A i \in rows[q] \ K[q], j \in K[q] : i < j
  /\ K = rows \/ Cardinality(InAll(K)) = KnownLimit

ReadKnown ==
  /\ At("known") /\ ~cancelled /\ Goto("page")
  /\ known' \in {K \in [Queues -> SUBSET UNION {rows[q] : q \in Queues}] : Newest(K)}
  /\ Cardinality(InAll(known')) <= KnownLimit
  /\ hadKnown' = ~Empty(known')
  /\ UNCHANGED <<games, jobs, run, cancelled, queue, fetched, pages, work, counts,
                 history>>

(* The page at the offset: Riot lists the newest game first. *)
Count    == IF HistoryLimit <= Cap - fetched THEN HistoryLimit ELSE Cap - fetched
Page     == {n \in 1..games[queue] : n + fetched <= games[queue]
                                     /\ games[queue] < n + fetched + Count}
Overlaps == Page \cap known[queue] # {}
Full     == games[queue] >= fetched + Count

(* Mutant: the cap is only on the size of a page. *)
GoesOnPastTheCap == hadKnown /\ ~Overlaps /\ Full

GoesOn == hadKnown /\ ~Overlaps /\ Full /\ fetched + Count < Cap

(* The games older than the page. *)
Older == {n \in 1..games[queue] : n + fetched + Count <= games[queue]}

(* Mutant: the offset skips one more than the page held. *)
TurnPageTooFar ==
  /\ At("page") /\ ~cancelled /\ GoesOn
  /\ pages' = pages \cup Page
  /\ fetched' = fetched + Count + 1
  /\ UNCHANGED <<games, jobs, run, pc, cancelled, known, hadKnown, queue, work,
                 counts, history>>

TurnPage ==
  /\ At("page") /\ ~cancelled /\ GoesOn
  /\ pages' = pages \cup Page
  /\ fetched' = fetched + Count
  /\ UNCHANGED <<games, jobs, run, pc, cancelled, known, hadKnown, queue, work,
                 counts, history>>

(* Mutant: there is always one more queue. *)
EndQueueAndNext ==
  /\ At("page") /\ ~cancelled /\ ~GoesOn
  /\ found' = [found EXCEPT ![queue] = pages \cup Page]
  /\ queue' = queue + 1 /\ fetched' = 0 /\ pages' = {}
  /\ UNCHANGED <<games, jobs, run, pc, cancelled, known, hadKnown, todo, batch, cut,
                 counts, history>>

(* The last page of a queue: at a known match, at the end of the list, on  *)
(* the initial import, or at the cap; the last two give older games up.    *)
EndQueue ==
  /\ At("page") /\ ~cancelled /\ ~GoesOn
  /\ found' = [found EXCEPT ![queue] = pages \cup Page]
  /\ beyond' = IF Overlaps THEN beyond ELSE [beyond EXCEPT ![queue] = @ \cup Older]
  /\ IF queue = NQueues
       THEN Goto("queue") /\ LeaveDiscovery /\ todo' = found'
       ELSE /\ queue' = queue + 1 /\ fetched' = 0 /\ pages' = {}
            /\ UNCHANGED <<pc, known, hadKnown, todo>>
  /\ UNCHANGED <<games, jobs, run, cancelled, batch, cut, counts, listed, dropped, crashes>>

(* Mutant: a queue that fails is passed by without a trace. *)
DiscoveryFailsSilently ==
  /\ \/ At("known") /\ (StoreFails \/ cancelled)
     \/ At("page")
  /\ LeaveDiscovery
  /\ IF Empty(found)
       THEN LeaveSync /\ run' = "failed"
       ELSE /\ Goto("queue") /\ todo' = found
            /\ UNCHANGED <<run, cancelled, found, batch, cut, counts, listed>>
  /\ UNCHANGED <<games, jobs, beyond, dropped, crashes>>

(* A failing page loses this queue's pages; without any game of a queue    *)
(* before it the run has failed (failDiscovery).                           *)
DiscoveryFails ==
  /\ \/ At("known") /\ (StoreFails \/ cancelled)
     \/ At("page")
  /\ LeaveDiscovery
  /\ IF Empty(found)
       THEN LeaveSync /\ (run' = "failed" \/ (StoreFails /\ UNCHANGED run))
       ELSE /\ Goto("queue") /\ todo' = found /\ failed' = TRUE
            /\ UNCHANGED <<run, cancelled, found, batch, cut, imported, skipped,
                           deferred, listed>>
  /\ UNCHANGED <<games, jobs, beyond, dropped, crashes>>

-----------------------------------------------------------------------------
(***************************************************************************)
(* The queueing loop: by queue, newest first.                              *)
(***************************************************************************)
First(q, n) ==
  /\ n \in todo[q] /\ \A m \in todo[q] : m <= n
  /\ \A p \in Queues : p < q => todo[p] = {}

QueueImportJob(q, n) ==
  /\ At("queue") /\ ~cancelled /\ First(q, n)
  /\ todo' = Remove(todo, q, n)
  /\ queued' = Add(queued, q, n)
  /\ skipped' = (skipped \/ n \in done[q])
  /\ deferred' = (deferred \/ n \in waiting[q])
  /\ UNCHANGED <<games, waiting, done, rows, run, pc, cancelled, paging, found, batch,
                 cut, failed, imported, history>>

QueueError(q, n) ==
  /\ StoreFails
  /\ At("queue") /\ First(q, n)
  /\ todo' = Remove(todo, q, n)
  /\ dropped' = Add(dropped, q, n)
  /\ failed' = TRUE
  /\ UNCHANGED <<games, jobs, run, pc, cancelled, paging, found, batch, cut, imported,
                 skipped, deferred, listed, beyond, crashes>>

(* ctx.Err at the head of the loop. *)
StopQueueing ==
  /\ At("queue") /\ cancelled /\ ~Empty(todo) /\ Goto("finish")
  /\ todo' = NoGames /\ dropped' = Both(dropped, todo)
  /\ failed' = TRUE
  /\ UNCHANGED <<games, jobs, run, cancelled, paging, found, batch, cut, imported,
                 skipped, deferred, listed, beyond, crashes>>

(* No batch after a cancellation, or when a job found waits for its rate   *)
(* limit.                                                                  *)
EndQueueing ==
  /\ At("queue") /\ Empty(todo)
  /\ Goto(IF cancelled \/ deferred THEN "finish" ELSE "load")
  /\ UNCHANGED <<games, jobs, run, cancelled, paging, work, counts, history>>

-----------------------------------------------------------------------------
(***************************************************************************)
(* The batch.                                                              *)
(***************************************************************************)
Ready == [q \in Queues |-> queued[q] \ (done[q] \cup waiting[q])]

(* ReadyImportJobs: BatchLimit of the ready jobs, or all of them. *)
LoadBatch ==
  /\ At("load") /\ ~cancelled /\ Goto("batch")
  /\ \E B \in [Queues -> SUBSET UNION {Ready[q] : q \in Queues}] :
       /\ \A q \in Queues : B[q] \subseteq Ready[q]
       /\ Cardinality(InAll(B)) <= BatchLimit
       /\ B = Ready \/ Cardinality(InAll(B)) = BatchLimit
       /\ batch' = B
       /\ cut' = (B # Ready)
  /\ UNCHANGED <<games, jobs, run, cancelled, paging, found, todo, counts, history>>

LoadFails ==
  /\ At("load") /\ (StoreFails \/ cancelled) /\ Goto("finish")
  /\ failed' = TRUE
  /\ UNCHANGED <<games, jobs, run, cancelled, paging, work, imported, skipped, deferred,
                 history>>

Import(q, n) ==
  /\ At("batch") /\ ~cancelled /\ n \in batch[q]
  /\ batch' = Remove(batch, q, n)
  /\ done' = Add(done, q, n) /\ rows' = Add(rows, q, n)
  /\ imported' = TRUE
  /\ UNCHANGED <<games, queued, waiting, run, pc, cancelled, paging, found, todo, cut,
                 failed, skipped, deferred, history>>

(* Mutant: an import that failed after the match was stored counts only as *)
(* imported.                                                               *)
ImportFailsSilently(q, n) ==
  /\ At("batch") /\ n \in batch[q]
  /\ \/ rows' = Add(rows, q, n) /\ imported' = TRUE /\ UNCHANGED failed
     \/ UNCHANGED <<rows, imported>> /\ failed' = TRUE
  /\ \/ waiting' = Add(waiting, q, n) /\ batch' = NoGames
     \/ UNCHANGED waiting /\ batch' \in {NoGames, Remove(batch, q, n)}
  /\ UNCHANGED <<games, queued, done, run, pc, cancelled, paging, found, todo, cut,
                 skipped, deferred, history>>

(* An import fails, before or after the match is stored; it may have to    *)
(* wait for a rate limit, and may stop the batch.  The last update of the  *)
(* job reads the row back after it wrote it: when that fails the import    *)
(* has failed and its job is complete.                                     *)
ImportFails(q, n) ==
  /\ At("batch") /\ n \in batch[q]
  /\ \/ /\ UNCHANGED done
        /\ \/ rows' = Add(rows, q, n) /\ imported' = TRUE
           \/ UNCHANGED <<rows, imported>>
        /\ \/ waiting' = Add(waiting, q, n) /\ batch' = NoGames
           \/ UNCHANGED waiting /\ batch' \in {NoGames, Remove(batch, q, n)}
     \/ /\ StoreFails \/ cancelled
        /\ done' = Add(done, q, n) /\ rows' = Add(rows, q, n) /\ imported' = TRUE
        /\ UNCHANGED waiting /\ batch' \in {NoGames, Remove(batch, q, n)}
  /\ failed' = TRUE
  /\ UNCHANGED <<games, queued, run, pc, cancelled, paging, found, todo, cut,
                 skipped, deferred, history>>

(* ctx.Err at the head of the loop. *)
StopBatch ==
  /\ At("batch") /\ cancelled /\ ~Empty(batch) /\ Goto("finish")
  /\ failed' = TRUE
  /\ UNCHANGED <<games, jobs, run, cancelled, paging, work, imported, skipped, deferred,
                 history>>

EndBatch ==
  /\ At("batch") /\ Empty(batch) /\ Goto("finish")
  /\ UNCHANGED <<games, jobs, run, cancelled, paging, work, counts, history>>

-----------------------------------------------------------------------------
(***************************************************************************)
(* finishRun, on a context that is not cancelled.                          *)
(***************************************************************************)
Outcome ==
  IF ~failed /\ ~deferred THEN "succeeded"
  ELSE IF imported \/ skipped \/ deferred THEN "partial" ELSE "failed"

Finish ==
  /\ At("finish") /\ LeaveSync
  /\ run' = Outcome
  /\ UNCHANGED <<games, jobs, paging, beyond, dropped, crashes>>

(* The row stays running. *)
FinishFails ==
  /\ At("finish") /\ LeaveSync /\ StoreFails
  /\ UNCHANGED <<games, jobs, run, paging, beyond, dropped, crashes>>

-----------------------------------------------------------------------------
(***************************************************************************)
(* The world.                                                              *)
(***************************************************************************)
Cancel ==
  /\ Running /\ ~cancelled
  /\ cancelled' = TRUE
  /\ UNCHANGED <<games, jobs, run, pc, paging, work, counts, history>>

Crash ==
  /\ Running /\ LeaveSync /\ LeaveDiscovery
  /\ crashes < MaxCrashes /\ crashes' = crashes + 1
  /\ dropped' = Both(dropped, todo)
  /\ UNCHANGED <<games, jobs, run, beyond>>

PlayGame(q) ==
  /\ Total(games) < MaxGames
  /\ games' = [games EXCEPT ![q] = @ + 1]
  /\ UNCHANGED <<jobs, run, pc, cancelled, paging, work, counts, history>>

RetryWindowOpens(q, n) ==
  /\ n \in waiting[q]
  /\ waiting' = Remove(waiting, q, n)
  /\ UNCHANGED <<games, queued, done, rows, run, pc, cancelled, paging, work, counts,
                 history>>

-----------------------------------------------------------------------------
Discover  == ReadKnown \/ TurnPage \/ EndQueue \/ DiscoveryFails
Enqueue   == \/ \E q \in Queues : \E n \in todo[q] : QueueImportJob(q, n) \/ QueueError(q, n)
             \/ StopQueueing \/ EndQueueing
TryBatch  == \/ LoadBatch \/ LoadFails \/ StopBatch \/ EndBatch
             \/ \E q \in Queues : \E n \in batch[q] : Import(q, n) \/ ImportFails(q, n)
SyncStep  == Discover \/ Enqueue \/ TryBatch \/ Finish \/ FinishFails
World     == \/ ProfileFails \/ Cancel \/ Crash
             \/ \E q \in Queues : PlayGame(q)
             \/ \E q \in Queues : \E n \in waiting[q] : RetryWindowOpens(q, n)

Next == Begin \/ SyncStep \/ World

Spec == Init /\ [][Next]_vars

-----------------------------------------------------------------------------
(***************************************************************************)
(* Properties.                                                             *)
(***************************************************************************)

GivenUp(q) == beyond[q] \cup dropped[q]

(* Nothing is lost silently: behind an imported match every older game of  *)
(* the queue has a job, or was given up where the code does so: by the     *)
(* initial history, the cap, a failed or an interrupted queueing loop.     *)
(* Games played while pages are read, queues that fail in the middle and   *)
(* known matches outside the window are no reason.                         *)
PassedOverIsExplained ==
  \A q \in Queues : \A j \in rows[q] : \A i \in 1..j :
    i \in queued[q] \cup GivenUp(q)

(* A sync reported as succeeded has queued every game Riot listed when it  *)
(* began, but for those given up.                                          *)
SucceededRunMissesNothing ==
  [][At("finish") /\ run' = "succeeded" =>
       \A q \in Queues : 1..listed[q] \subseteq queued[q] \cup GivenUp(q)]_vars

(* A sync reported as succeeded that was not cancelled has imported every  *)
(* game it found, unless the batch was full.                               *)
SucceededRunIsComplete ==
  [][At("finish") /\ run' = "succeeded" /\ ~cancelled /\ ~cut =>
       \A q \in Queues : found[q] \subseteq done[q]]_vars

(* A sync runs down, whatever is played, fails or waits meanwhile: each of *)
(* its own steps goes on to a later phase, to the next queue, to a farther *)
(* offset below the cap, or has fewer games left to queue or to import;    *)
(* nothing else takes it back.                                             *)
Ahead == [idle |-> 0, finish |-> 1, batch |-> 2, load |-> 3, queue |-> 4, page |-> 5,
          known |-> 6]

Fewer(S, T) == S # T /\ \A q \in Queues : S[q] \subseteq T[q]

RunsDown ==
  \/ Ahead[pc'] < Ahead[pc]
  \/ /\ pc' = pc
     /\ \/ At("page") /\ queue < queue' /\ queue' <= NQueues
        \/ At("page") /\ queue' = queue /\ fetched < fetched' /\ fetched' < Cap
        \/ At("queue") /\ Fewer(todo', todo)
        \/ At("batch") /\ Fewer(batch', batch)

SyncRunsDown ==
  [][Running => RunsDown \/ (World /\ UNCHANGED <<pc, queue, fetched, todo, batch>>)]_vars

(* TECHNICAL_PLAN.md: paging stops "only after reaching a full known       *)
(* boundary": between syncs no game newer than where paging stopped by     *)
(* intent is missing behind an imported one.                               *)
FullKnownBoundary ==
  At("idle") => \A q \in Queues : \A j \in rows[q] : \A i \in 1..j :
                  i \in queued[q] \cup beyond[q]
==============================================================================
