--------------------------- MODULE DiscoveryProofs ---------------------------
(***************************************************************************)
(* Theorems about Discovery, for any number of queues, games, kills and    *)
(* any limits.                                                             *)
(*                                                                         *)
(* The argument: whatever is read or queued is closed downwards.  Of every *)
(* game on the pages so far, found, to be queued or queued, each older     *)
(* game of its queue is there too, is queued already, or was given up.     *)
(* Paging keeps this although games are played between two pages, because  *)
(* they only push older games towards the offset; a page that overlaps a   *)
(* known match closes the queue because known matches are closed already.  *)
(***************************************************************************)
EXTENDS Discovery, FiniteSetTheorems, TLAPS

Settled(q) == queued[q] \cup GivenUp(q)

(* What is read of a queue reaches up to its newest listed game and, below *)
(* that, down to the offset.                                               *)
PagesReachTheOffset ==
  /\ \A j \in pages : \A i \in 1..j : i \in pages \/ i + fetched <= games[queue]
  /\ At("page") => \A i \in 1..listed[queue] :
                     i \in pages \/ i + fetched <= games[queue]

FoundIsClosed ==
  \A q \in Queues : \A j \in found[q] : \A i \in 1..j : i \in found[q] \cup Settled(q)

TodoIsClosed ==
  \A q \in Queues : \A j \in todo[q] : \A i \in 1..j : i \in todo[q] \cup Settled(q)

QueuedIsClosed ==
  \A q \in Queues : \A j \in queued[q] : \A i \in 1..j : i \in todo[q] \cup Settled(q)

(* Only jobs are imported, and only when every game found has its job.     *)
OnlyJobsAreImported ==
  /\ \A q \in Queues : batch[q] \subseteq queued[q]
  /\ \A q \in Queues : rows[q] \subseteq queued[q]
  /\ \A q \in Queues : known[q] \subseteq rows[q]
  /\ ~At("queue") => Empty(todo)

Closed == /\ PagesReachTheOffset /\ FoundIsClosed /\ TodoIsClosed
          /\ QueuedIsClosed /\ OnlyJobsAreImported /\ PassedOverIsExplained

(* A sync without a failure has seen all that was listed when it began.    *)
SeesWhatIsListed ==
  /\ \A q \in Queues : listed[q] <= games[q]
  /\ ~At("page") => pages = {} /\ fetched = 0 /\ queue = 1
  /\ At("page") => \A q \in Queues :
       q < queue => \A i \in 1..listed[q] : i \in found[q] \cup Settled(q)
  /\ pc \in {"queue", "load", "batch", "finish"} /\ ~failed =>
       \A q \in Queues : \A i \in 1..listed[q] : i \in todo[q] \cup Settled(q)

(* What a sync without a failure, a deferral or a cancellation has done.   *)
ImportsWhatIsFound ==
  /\ At("load") => ~deferred
  /\ pc \in {"queue", "load"} /\ ~failed /\ ~deferred =>
       \A q \in Queues : \A n \in found[q] :
         n \in todo[q] \/ (n \in queued[q] /\ n \notin waiting[q])
  /\ At("batch") /\ ~failed /\ ~cut =>
       \A q \in Queues : found[q] \subseteq done[q] \cup batch[q]
  /\ At("finish") /\ ~failed /\ ~deferred /\ ~cancelled /\ ~cut =>
       \A q \in Queues : found[q] \subseteq done[q]

(* A run is not reported before its sync is at its end.                    *)
RunIsOpen == Running => run = "running"

Inductive == TypeOK /\ Closed /\ SeesWhatIsListed /\ ImportsWhatIsFound /\ RunIsOpen

-----------------------------------------------------------------------------
LEMMA FirstQueue == 1 \in Queues /\ \A q \in Queues : q \in Nat /\ 1 <= q /\ q <= NQueues
BY DiscoveryAssumption DEF DiscoveryAssumption, Queues

LEMMA NothingIsSome == NoGames \in SomeGames /\ NoListing \in [Queues -> Nat]
BY DEF NoGames, SomeGames, NoListing

LEMMA OneMoreOrLess ==
  ASSUME NEW S \in SomeGames, NEW q \in Queues, NEW n \in Nat
  PROVE  /\ Add(S, q, n) \in SomeGames /\ Remove(S, q, n) \in SomeGames
         /\ Add(S, q, n)[q] = S[q] \cup {n} /\ Remove(S, q, n)[q] = S[q] \ {n}
         /\ \A p \in Queues : p # q => Add(S, q, n)[p] = S[p] /\ Remove(S, q, n)[p] = S[p]
BY DEF SomeGames, Add, Remove

LEMMA OneMoves ==
  ASSUME NEW S \in SomeGames, NEW T \in SomeGames, NEW p \in Queues, NEW n \in Nat
  PROVE  \A q \in Queues :
           /\ T[q] \subseteq Add(T, p, n)[q] /\ Remove(S, p, n)[q] \subseteq S[q]
           /\ \A m \in S[q] : \/ m \in Remove(S, p, n)[q]
                              \/ q = p /\ m = n /\ m \in Add(T, p, n)[q]
BY DEF SomeGames, Add, Remove

LEMMA BothAreSome ==
  ASSUME NEW S \in SomeGames, NEW T \in SomeGames
  PROVE  Both(S, T) \in SomeGames /\ \A q \in Queues : Both(S, T)[q] = S[q] \cup T[q]
BY DEF SomeGames, Both

-----------------------------------------------------------------------------
LEMMA TypeInit == Init => TypeOK
<1> SUFFICES ASSUME Init PROVE TypeOK
  OBVIOUS
<1>1. games \in [Queues -> Nat]
  BY DEF Init
<1>2. 0 \in 0..MaxCrashes
  BY DiscoveryAssumption DEF DiscoveryAssumption
<1>3. /\ cancelled \in BOOLEAN /\ hadKnown \in BOOLEAN /\ cut \in BOOLEAN
      /\ failed \in BOOLEAN /\ imported \in BOOLEAN
      /\ skipped \in BOOLEAN /\ deferred \in BOOLEAN
  BY DEF Init
<1>4. /\ queued \in SomeGames /\ waiting \in SomeGames /\ done \in SomeGames
      /\ rows \in SomeGames /\ known \in SomeGames /\ found \in SomeGames
      /\ todo \in SomeGames /\ batch \in SomeGames /\ beyond \in SomeGames
      /\ dropped \in SomeGames /\ listed \in [Queues -> Nat]
  BY NothingIsSome DEF Init
<1>5. /\ run \in {"none", "running", "succeeded", "partial", "failed"}
      /\ pc \in {"idle", "known", "page", "queue", "load", "batch", "finish"}
      /\ queue \in Queues /\ fetched \in Nat /\ pages \subseteq Nat
      /\ crashes \in 0..MaxCrashes
  BY <1>2, FirstQueue DEF Init
<1> QED BY <1>1, <1>3, <1>4, <1>5 DEF TypeOK

LEMMA TypeLeaveSync ==
  ASSUME TypeOK, LeaveSync
  PROVE  /\ pc' = "idle"
         /\ cancelled' \in BOOLEAN /\ cut' \in BOOLEAN
         /\ failed' \in BOOLEAN /\ imported' \in BOOLEAN
         /\ skipped' \in BOOLEAN /\ deferred' \in BOOLEAN
         /\ found' \in SomeGames /\ todo' \in SomeGames /\ batch' \in SomeGames
         /\ listed' \in [Queues -> Nat]
<1>1. /\ cancelled' \in BOOLEAN /\ cut' \in BOOLEAN
      /\ failed' \in BOOLEAN /\ imported' \in BOOLEAN
      /\ skipped' \in BOOLEAN /\ deferred' \in BOOLEAN
  BY DEF LeaveSync
<1> QED BY <1>1, NothingIsSome DEF LeaveSync, Goto

LEMMA TypeLeaveDiscovery ==
  ASSUME LeaveDiscovery
  PROVE  /\ known' \in SomeGames /\ hadKnown' \in BOOLEAN /\ queue' \in Queues
         /\ fetched' \in Nat /\ pages' \subseteq Nat
<1>1. hadKnown' \in BOOLEAN
  BY DEF LeaveDiscovery
<1> QED BY <1>1, NothingIsSome, FirstQueue DEF LeaveDiscovery

LEMMA TypeDiscover == ASSUME TypeOK, Begin \/ Discover PROVE TypeOK'
<1> USE DEF At, Goto
<1>1. CASE Begin
  BY <1>1 DEF Begin, TypeOK, jobs, paging, work, counts
<1>2. CASE ReadKnown
  <2>1. known' \in SomeGames
    BY <1>2 DEF ReadKnown, TypeOK, SomeGames
  <2>2. hadKnown' \in BOOLEAN
    BY <1>2 DEF ReadKnown
  <2> QED BY <1>2, <2>1, <2>2 DEF ReadKnown, TypeOK, jobs, work, counts, history
<1>3. CASE TurnPage
  <2>1. fetched' \in Nat
    BY <1>3, DiscoveryAssumption DEF DiscoveryAssumption, TurnPage, GoesOn, Count, TypeOK
  <2>2. Page \subseteq Nat
    BY DEF Page
  <2>3. pages' \subseteq Nat
    BY <1>3, <2>2 DEF TurnPage, TypeOK
  <2> QED BY <1>3, <2>1, <2>3 DEF TurnPage, TypeOK, jobs, work, counts, history
<1>4. CASE EndQueue
  <2>1. Page \subseteq Nat /\ Older \subseteq Nat
    BY DEF Page, Older
  <2>2. found' \in SomeGames /\ beyond' \in SomeGames
    BY <1>4, <2>1 DEF EndQueue, SomeGames, TypeOK
  <2>3. CASE queue = NQueues
    BY <1>4, <2>2, <2>3, TypeLeaveDiscovery DEF EndQueue, TypeOK, jobs, counts
  <2>4. CASE queue # NQueues
    <3>1. queue' \in Queues /\ fetched' \in Nat /\ pages' \subseteq Nat
      BY <1>4, <2>4, DiscoveryAssumption DEF DiscoveryAssumption, EndQueue, TypeOK, Queues
    <3> QED BY <1>4, <2>2, <2>4, <3>1 DEF EndQueue, TypeOK, jobs, counts
  <2> QED BY <2>3, <2>4
<1>5. CASE DiscoveryFails
  <2>1. CASE Empty(found)
    <3>1. LeaveSync /\ run' \in {"none", "running", "succeeded", "partial", "failed"}
      BY <1>5, <2>1 DEF DiscoveryFails, TypeOK
    <3> QED BY <1>5, <3>1, TypeLeaveSync, TypeLeaveDiscovery DEF DiscoveryFails, TypeOK, jobs
  <2>2. CASE ~Empty(found)
    <3>1. failed' \in BOOLEAN
      BY <1>5, <2>2 DEF DiscoveryFails
    <3> QED BY <1>5, <2>2, <3>1, TypeLeaveDiscovery DEF DiscoveryFails, TypeOK, jobs
  <2> QED BY <2>1, <2>2
<1> QED BY <1>1, <1>2, <1>3, <1>4, <1>5 DEF Discover

LEMMA TypeEnqueue == ASSUME TypeOK, Enqueue PROVE TypeOK'
<1> USE DEF At, Goto
<1>1. CASE StopQueueing
  <2>1. failed' \in BOOLEAN
    BY <1>1 DEF StopQueueing
  <2>2. todo' \in SomeGames /\ dropped' \in SomeGames
    BY <1>1, NothingIsSome, BothAreSome DEF StopQueueing, TypeOK
  <2> QED BY <1>1, <2>1, <2>2 DEF StopQueueing, TypeOK, jobs, paging
<1>2. CASE EndQueueing
  BY <1>2 DEF EndQueueing, TypeOK, jobs, paging, work, counts, history
<1>3. ASSUME NEW q \in Queues, NEW n \in todo[q], QueueImportJob(q, n) PROVE TypeOK'
  <2>1. n \in Nat
    BY DEF TypeOK, SomeGames
  <2>2. skipped' \in BOOLEAN /\ deferred' \in BOOLEAN
    BY <1>3 DEF QueueImportJob
  <2>3. todo' \in SomeGames /\ queued' \in SomeGames
    BY <1>3, <2>1, OneMoreOrLess DEF QueueImportJob, TypeOK
  <2> QED BY <1>3, <2>2, <2>3 DEF QueueImportJob, TypeOK, paging, history
<1>4. ASSUME NEW q \in Queues, NEW n \in todo[q], QueueError(q, n) PROVE TypeOK'
  <2>1. n \in Nat
    BY DEF TypeOK, SomeGames
  <2>2. failed' \in BOOLEAN
    BY <1>4 DEF QueueError
  <2>3. todo' \in SomeGames /\ dropped' \in SomeGames
    BY <1>4, <2>1, OneMoreOrLess DEF QueueError, TypeOK
  <2> QED BY <1>4, <2>2, <2>3 DEF QueueError, TypeOK, jobs, paging
<1> QED BY <1>1, <1>2, <1>3, <1>4 DEF Enqueue

LEMMA TypeTryBatch == ASSUME TypeOK, TryBatch PROVE TypeOK'
<1> USE DEF At, Goto
<1>1. CASE LoadBatch
  <2>1. Ready \in SomeGames
    BY DEF Ready, TypeOK, SomeGames
  <2>2. batch' \in SomeGames
    BY <1>1, <2>1 DEF LoadBatch, SomeGames
  <2>3. cut' \in BOOLEAN
    BY <1>1 DEF LoadBatch
  <2> QED BY <1>1, <2>2, <2>3 DEF LoadBatch, TypeOK, jobs, paging, counts, history
<1>2. CASE LoadFails \/ StopBatch
  <2>1. failed' \in BOOLEAN
    BY <1>2 DEF LoadFails, StopBatch
  <2> QED BY <1>2, <2>1 DEF LoadFails, StopBatch, TypeOK, jobs, paging, work, history
<1>3. CASE EndBatch
  BY <1>3 DEF EndBatch, TypeOK, jobs, paging, work, counts, history
<1>4. ASSUME NEW q \in Queues, NEW n \in batch[q], Import(q, n) PROVE TypeOK'
  <2>1. n \in Nat
    BY DEF TypeOK, SomeGames
  <2>2. imported' \in BOOLEAN
    BY <1>4 DEF Import
  <2>3. batch' \in SomeGames /\ done' \in SomeGames /\ rows' \in SomeGames
    BY <1>4, <2>1, OneMoreOrLess DEF Import, TypeOK
  <2> QED BY <1>4, <2>2, <2>3 DEF Import, TypeOK, paging, history
<1>5. ASSUME NEW q \in Queues, NEW n \in batch[q], ImportFails(q, n) PROVE TypeOK'
  <2>1. n \in Nat
    BY DEF TypeOK, SomeGames
  <2>2. imported' \in BOOLEAN /\ failed' \in BOOLEAN
    <3>1. imported \in BOOLEAN
      BY DEF TypeOK
    <3>2. CASE imported' = TRUE
      BY <1>5, <3>2 DEF ImportFails
    <3>3. CASE UNCHANGED imported
      BY <1>5, <3>1, <3>3, Zenon DEF ImportFails
    <3> QED BY <1>5, <3>2, <3>3, Zenon DEF ImportFails
  <2>3. batch' \in SomeGames /\ waiting' \in SomeGames
    <3>1. Remove(batch, q, n) \in SomeGames /\ Add(waiting, q, n) \in SomeGames
      BY <2>1, OneMoreOrLess DEF TypeOK
    <3>2. batch \in SomeGames /\ waiting \in SomeGames
      BY DEF TypeOK
    <3> QED BY <1>5, <3>1, <3>2, NothingIsSome DEF ImportFails
  <2>4. rows' \in SomeGames /\ done' \in SomeGames
    <3>1. /\ Add(rows, q, n) \in SomeGames /\ rows \in SomeGames
          /\ Add(done, q, n) \in SomeGames /\ done \in SomeGames
      BY <2>1, OneMoreOrLess DEF TypeOK
    <3> QED BY <1>5, <3>1 DEF ImportFails
  <2> QED BY <1>5, <2>2, <2>3, <2>4 DEF ImportFails, TypeOK, paging, history
<1> QED BY <1>1, <1>2, <1>3, <1>4, <1>5 DEF TryBatch

LEMMA TypeRest == ASSUME TypeOK, Finish \/ FinishFails \/ World PROVE TypeOK'
<1>1. CASE Finish \/ FinishFails
  <2>1. run' \in {"none", "running", "succeeded", "partial", "failed"}
    BY <1>1 DEF Finish, FinishFails, Outcome, TypeOK
  <2>2. LeaveSync
    BY <1>1 DEF Finish, FinishFails
  <2> QED BY <1>1, <2>1, <2>2, TypeLeaveSync DEF Finish, FinishFails, TypeOK, jobs, paging
<1>2. CASE ProfileFails
  BY <1>2 DEF ProfileFails, TypeOK, jobs, paging, work, counts, history
<1>3. CASE Cancel
  <2>1. cancelled' \in BOOLEAN
    BY <1>3 DEF Cancel
  <2> QED BY <1>3, <2>1 DEF Cancel, TypeOK, jobs, paging, work, counts, history
<1>4. CASE Crash
  <2>1. crashes' \in 0..MaxCrashes
    BY <1>4, DiscoveryAssumption DEF DiscoveryAssumption, Crash, TypeOK
  <2>2. dropped' \in SomeGames
    BY <1>4, BothAreSome DEF Crash, TypeOK
  <2>3. LeaveSync /\ LeaveDiscovery
    BY <1>4 DEF Crash
  <2> QED BY <1>4, <2>1, <2>2, <2>3, TypeLeaveSync, TypeLeaveDiscovery DEF Crash, TypeOK, jobs
<1>5. ASSUME NEW q \in Queues, PlayGame(q) PROVE TypeOK'
  <2>1. games' \in [Queues -> Nat]
    BY <1>5 DEF PlayGame, TypeOK
  <2> QED BY <1>5, <2>1 DEF PlayGame, TypeOK, jobs, paging, work, counts, history
<1>6. ASSUME NEW q \in Queues, NEW n \in waiting[q], RetryWindowOpens(q, n) PROVE TypeOK'
  <2>1. n \in Nat
    BY DEF TypeOK, SomeGames
  <2>2. waiting' \in SomeGames
    BY <1>6, <2>1, OneMoreOrLess DEF RetryWindowOpens, TypeOK
  <2> QED BY <1>6, <2>2 DEF RetryWindowOpens, TypeOK, paging, work, counts, history
<1> QED BY <1>1, <1>2, <1>3, <1>4, <1>5, <1>6 DEF World

LEMMA TypeStep == ASSUME TypeOK, [Next]_vars PROVE TypeOK'
<1>1. CASE UNCHANGED vars
  BY <1>1 DEF TypeOK, vars, jobs, paging, work, counts, history
<1> QED BY <1>1, TypeDiscover, TypeEnqueue, TypeTryBatch, TypeRest DEF Next, SyncStep

(* TypeOK, for any number of queues, games and kills. *)
THEOREM DiscoveryTypeCorrect == Spec => []TypeOK
BY TypeInit, TypeStep, PTL DEF Spec

-----------------------------------------------------------------------------
(***************************************************************************)
(* Closed.                                                                 *)
(***************************************************************************)
LEMMA LeftEmpty ==
  /\ \A q \in Queues : NoGames[q] = {} /\ NoListing[q] = 0
BY DEF NoGames, NoListing

LEMMA ClosedUnlessDiscovering ==
  ASSUME Closed,
         UNCHANGED <<queue, fetched, pages, listed, found, beyond, dropped, games>>,
         UNCHANGED <<queued, rows, todo, batch, known>>,
         pc' = pc \/ (pc' # "page" /\ Empty(todo))
  PROVE  Closed'
BY DEF Closed, PagesReachTheOffset, FoundIsClosed, TodoIsClosed, QueuedIsClosed,
       OnlyJobsAreImported, PassedOverIsExplained, Settled, GivenUp, At, Empty

LEMMA ClosedOnLeaving ==
  ASSUME Inductive, LeaveSync,
         pages' = {}, UNCHANGED <<games, jobs, beyond>>,
         known' \in {known, NoGames},
         \A q \in Queues : dropped[q] \cup todo[q] \subseteq dropped'[q]
  PROVE  Closed'
<1> USE LeftEmpty DEF Inductive, Closed, LeaveSync, Goto, At, jobs
<1>1. PagesReachTheOffset'
  BY DEF PagesReachTheOffset
<1>2. FoundIsClosed' /\ TodoIsClosed'
  BY DEF FoundIsClosed, TodoIsClosed
<1>3. QueuedIsClosed'
  BY DEF QueuedIsClosed, Settled, GivenUp
<1>4. OnlyJobsAreImported'
  BY DEF OnlyJobsAreImported, Empty
<1>5. PassedOverIsExplained'
  BY DEF PassedOverIsExplained, GivenUp
<1> QED BY <1>1, <1>2, <1>3, <1>4, <1>5

(* A page that does not end the queue moves the offset to its end. *)
LEMMA PageReachesFurther ==
  ASSUME Inductive, At("page"), NEW i \in Nat, i > 0,
         i \in pages \/ i + fetched <= games[queue]
  PROVE  i \in pages \cup Page \/ (i \in Older /\ i + (fetched + Count) <= games[queue])
BY DiscoveryAssumption
   DEF DiscoveryAssumption, Inductive, TypeOK, Page, Older, Count

LEMMA ClosedTurnPage == ASSUME Inductive, TurnPage PROVE Closed'
<1> USE DEF Inductive, Closed, TurnPage, At
<1>1. PagesReachTheOffset'
  <2>1. ASSUME NEW j \in pages', NEW i \in 1..j
        PROVE  i \in pages' \/ i + fetched' <= games'[queue']
    <3>1. j \in pages \/ (j \in Page /\ j + fetched <= games[queue])
      BY <2>1 DEF Page
    <3>2. i \in pages \/ i + fetched <= games[queue]
      BY <3>1 DEF PagesReachTheOffset, TypeOK, Page
    <3> QED BY <3>2, PageReachesFurther
  <2>2. ASSUME NEW i \in 1..listed'[queue']
        PROVE  i \in pages' \/ i + fetched' <= games'[queue']
    <3>1. i \in pages \/ i + fetched <= games[queue]
      BY <2>2 DEF PagesReachTheOffset, history
    <3> QED BY <3>1, PageReachesFurther
  <2> QED BY <2>1, <2>2 DEF PagesReachTheOffset
<1>2. FoundIsClosed' /\ TodoIsClosed' /\ QueuedIsClosed'
  BY DEF FoundIsClosed, TodoIsClosed, QueuedIsClosed, Settled, GivenUp, jobs, work, history
<1>3. OnlyJobsAreImported' /\ PassedOverIsExplained'
  BY DEF OnlyJobsAreImported, PassedOverIsExplained, GivenUp, jobs, work, history
<1> QED BY <1>1, <1>2, <1>3

LEMMA WholeQueueIsRead ==
  ASSUME Inductive, EndQueue, NEW q \in Queues, q = queue, NEW i \in Nat, i > 0,
         i \in pages \/ i + fetched <= games[queue]
  PROVE  i \in pages \cup Page \cup (Settled(q))'
<1> USE DEF Inductive, EndQueue, At
<1>1. beyond \in SomeGames
  BY DEF TypeOK
<1>2. CASE i \in pages \cup Page
  BY <1>2
<1>3. CASE i \in Older /\ i + (fetched + Count) <= games[queue] /\ ~Overlaps
  <2>1. i \in beyond'[q]
    BY <1>1, <1>3 DEF SomeGames
  <2> QED BY <2>1 DEF Settled, GivenUp
<1>4. CASE i \in Older /\ i + (fetched + Count) <= games[queue] /\ Overlaps
  <2>1. PICK k \in Page : k \in known[queue]
    BY <1>4 DEF Overlaps
  <2>2. k \in rows[queue] /\ k \in Nat /\ i \in 1..k
    BY <1>1, <1>4, <2>1, DiscoveryAssumption
    DEF DiscoveryAssumption, Closed, OnlyJobsAreImported, Page, Count, TypeOK
  <2>3. i \in queued[q] \cup GivenUp(q)
    BY <2>2 DEF Closed, PassedOverIsExplained
  <2> QED BY <1>4, <2>3 DEF Settled, GivenUp, jobs
<1> QED BY <1>2, <1>3, <1>4, PageReachesFurther

LEMMA EndQueueSettles ==
  ASSUME Inductive, EndQueue
  PROVE  /\ \A q \in Queues : Settled(q) \subseteq (Settled(q))'
         /\ \A q \in Queues : found'[q] = IF q = queue THEN pages \cup Page ELSE found[q]
<1>1. \A q \in Queues : beyond[q] \subseteq beyond'[q]
  BY DEF Inductive, TypeOK, EndQueue, SomeGames
<1>2. UNCHANGED <<queued, dropped>>
  BY DEF EndQueue, jobs
<1>3. \A q \in Queues : found'[q] = IF q = queue THEN pages \cup Page ELSE found[q]
  BY DEF Inductive, TypeOK, EndQueue, SomeGames
<1> QED BY <1>1, <1>2, <1>3 DEF Settled, GivenUp

LEMMA ClosedEndQueue == ASSUME Inductive, EndQueue PROVE Closed'
<1> USE DEF Inductive, Closed, At
<1>1. FoundIsClosed'
  <2> SUFFICES ASSUME NEW q \in Queues, NEW j \in found'[q], NEW i \in 1..j
               PROVE  i \in found'[q] \cup (Settled(q))'
    BY DEF FoundIsClosed
  <2>1. CASE q # queue
    BY <2>1, EndQueueSettles DEF FoundIsClosed
  <2>2. CASE q = queue
    <3>1. j \in pages \/ j \in Page
      BY <2>2, EndQueueSettles
    <3>2. j \in Nat /\ (j \in pages \/ j + fetched <= games[queue])
      <4>1. CASE j \in pages
        BY <4>1 DEF TypeOK
      <4>2. CASE j \in Page
        BY <4>2 DEF Page
      <4> QED BY <3>1, <4>1, <4>2
    <3>3. i \in Nat /\ i > 0 /\ (i \in pages \/ i + fetched <= games[queue])
      BY <3>2 DEF PagesReachTheOffset, TypeOK
    <3> QED BY <2>2, <3>3, WholeQueueIsRead, EndQueueSettles
  <2> QED BY <2>1, <2>2
<1>2. TodoIsClosed'
  <2>1. Empty(todo)
    BY DEF EndQueue, OnlyJobsAreImported
  <2>2. todo' = found' \/ todo' = todo
    BY DEF EndQueue
  <2> QED BY <1>1, <2>1, <2>2 DEF TodoIsClosed, FoundIsClosed, Empty
<1>3. QueuedIsClosed'
  <2>1. Empty(todo) /\ queued' = queued
    BY DEF EndQueue, OnlyJobsAreImported, jobs
  <2> QED BY <2>1, EndQueueSettles DEF QueuedIsClosed, Empty
<1>4. OnlyJobsAreImported'
  <2>1. known' = known \/ known' = NoGames
    BY DEF EndQueue, LeaveDiscovery
  <2>2. pc' = "queue" \/ UNCHANGED <<pc, todo>>
    BY DEF EndQueue, Goto
  <2> QED BY <2>1, <2>2, LeftEmpty DEF EndQueue, OnlyJobsAreImported, jobs, Empty
<1>5. PassedOverIsExplained'
  <2>1. \A q \in Queues : queued[q] \cup GivenUp(q) \subseteq queued'[q] \cup (GivenUp(q))'
    BY EndQueueSettles DEF Settled
  <2> QED BY <2>1 DEF PassedOverIsExplained, EndQueue, jobs
<1>6. PagesReachTheOffset'
  <2>1. pages' = {} /\ fetched' = 0 /\ UNCHANGED <<games, listed>>
    BY DEF EndQueue, LeaveDiscovery
  <2>2. At("page")' => queue' \in Queues
    <3>1. queue = NQueues => pc' = "queue"
      BY DEF EndQueue, Goto
    <3>2. queue # NQueues => queue' = queue + 1
      BY DEF EndQueue
    <3> QED BY <3>1, <3>2, DiscoveryAssumption DEF DiscoveryAssumption, TypeOK, Queues
  <2> QED BY <2>1, <2>2 DEF PagesReachTheOffset, SeesWhatIsListed, TypeOK
<1> QED BY <1>1, <1>2, <1>3, <1>4, <1>5, <1>6


LEMMA ClosedDiscover == ASSUME Inductive, Begin \/ Discover PROVE Closed'
<1>1. CASE Begin
  <2> USE <1>1 DEF Inductive, Closed, Begin, At, Goto
  <2>1. PagesReachTheOffset'
    BY DEF PagesReachTheOffset, SeesWhatIsListed, paging
  <2>2. FoundIsClosed' /\ TodoIsClosed' /\ QueuedIsClosed'
    BY DEF FoundIsClosed, TodoIsClosed, QueuedIsClosed, Settled, GivenUp, jobs, work
  <2>3. OnlyJobsAreImported' /\ PassedOverIsExplained'
    BY DEF OnlyJobsAreImported, PassedOverIsExplained, GivenUp, jobs, work, paging, Empty
  <2> QED BY <2>1, <2>2, <2>3
<1>2. CASE ReadKnown
  <2> USE <1>2 DEF Inductive, Closed, ReadKnown, At, Goto
  <2>1. PagesReachTheOffset'
    <3>1. pages = {} /\ fetched = 0 /\ queue \in Queues
      BY DEF SeesWhatIsListed, TypeOK
    <3>2. \A q \in Queues : listed[q] \in Nat /\ games[q] \in Nat /\ listed[q] <= games[q]
      BY DEF SeesWhatIsListed, TypeOK
    <3> QED BY <3>1, <3>2 DEF PagesReachTheOffset, history
  <2>2. FoundIsClosed' /\ TodoIsClosed' /\ QueuedIsClosed'
    BY DEF FoundIsClosed, TodoIsClosed, QueuedIsClosed, Settled, GivenUp, jobs, work, history
  <2>3. \A q \in Queues : known'[q] \subseteq rows[q]
    BY DEF Newest
  <2>4. OnlyJobsAreImported' /\ PassedOverIsExplained'
    BY <2>3 DEF OnlyJobsAreImported, PassedOverIsExplained, GivenUp, jobs, work, history, Empty
  <2> QED BY <2>1, <2>2, <2>4
<1>3. CASE DiscoveryFails
  <2>1. UNCHANGED <<games, jobs, beyond, dropped>> /\ LeaveDiscovery /\ Empty(todo)
    BY <1>3 DEF DiscoveryFails, Inductive, Closed, OnlyJobsAreImported, At
  <2>2. CASE Empty(found)
    <3>1. LeaveSync
      BY <1>3, <2>2 DEF DiscoveryFails
    <3> QED BY <2>1, <3>1, ClosedOnLeaving DEF LeaveDiscovery, Empty
  <2>3. CASE ~Empty(found)
    <3>1. pc' = "queue" /\ UNCHANGED <<found, batch, listed>> /\ todo' = found
      BY <1>3, <2>3 DEF DiscoveryFails, Goto
    <3> USE <2>1, <3>1 DEF Inductive, Closed
    <3>2. PagesReachTheOffset'
      BY DEF PagesReachTheOffset, LeaveDiscovery, At
    <3>3. FoundIsClosed' /\ TodoIsClosed' /\ QueuedIsClosed'
      BY DEF FoundIsClosed, TodoIsClosed, QueuedIsClosed, Settled, GivenUp, jobs, Empty
    <3>4. OnlyJobsAreImported' /\ PassedOverIsExplained'
      BY LeftEmpty DEF OnlyJobsAreImported, PassedOverIsExplained, GivenUp, jobs,
                       LeaveDiscovery, At
    <3> QED BY <3>2, <3>3, <3>4
  <2> QED BY <2>2, <2>3
<1> QED BY <1>1, <1>2, <1>3, ClosedTurnPage, ClosedEndQueue DEF Discover

(* The queueing loop takes the newest game of a queue out of todo, which   *)
(* settles it.                                                             *)
LEMMA ClosedQueueOne ==
  ASSUME Inductive, At("queue"), NEW p \in Queues, NEW n \in todo[p],
         UNCHANGED <<games, rows, pc, paging, found, batch, listed, beyond>>,
         todo' = Remove(todo, p, n),
         \/ queued' = Add(queued, p, n) /\ dropped' = dropped
         \/ dropped' = Add(dropped, p, n) /\ queued' = queued
  PROVE  Closed'
<1> USE DEF Inductive, Closed
<1>1. n \in Nat /\ todo \in SomeGames /\ queued \in SomeGames /\ dropped \in SomeGames
  BY DEF TypeOK, SomeGames
<1>2. \A q \in Queues : Settled(q) \subseteq (Settled(q))'
  BY <1>1, OneMoreOrLess DEF Settled, GivenUp
<1>3. \A q \in Queues : todo[q] \cup Settled(q) \subseteq todo'[q] \cup (Settled(q))'
  BY <1>1, OneMoreOrLess DEF Settled, GivenUp
<1>4. \A q \in Queues : todo'[q] \subseteq todo[q]
  BY <1>1, OneMoreOrLess
<1>5. \A q \in Queues : queued'[q] \subseteq queued[q] \cup todo[q] /\ queued[q] \subseteq queued'[q]
  BY <1>1, OneMoreOrLess
<1>6. PagesReachTheOffset'
  BY DEF PagesReachTheOffset, paging, At
<1>7. FoundIsClosed'
  BY <1>2 DEF FoundIsClosed
<1>8. TodoIsClosed'
  BY <1>3, <1>4 DEF TodoIsClosed
<1>9. QueuedIsClosed'
  BY <1>3, <1>5 DEF QueuedIsClosed, TodoIsClosed
<1>10. OnlyJobsAreImported'
  BY <1>5 DEF OnlyJobsAreImported, At, paging
<1>11. PassedOverIsExplained'
  BY <1>2 DEF PassedOverIsExplained, Settled
<1> QED BY <1>6, <1>7, <1>8, <1>9, <1>10, <1>11

LEMMA ClosedEnqueue == ASSUME Inductive, Enqueue PROVE Closed'
<1>1. CASE EndQueueing
  <2>1. pc' # "page" /\ Empty(todo)
    BY <1>1 DEF EndQueueing, Goto
  <2> QED BY <1>1, <2>1, ClosedUnlessDiscovering
      DEF EndQueueing, Inductive, jobs, paging, work, history
<1>2. CASE StopQueueing
  <2> USE <1>2 DEF Inductive, Closed, StopQueueing, At, Goto
  <2>1. \A q \in Queues : dropped'[q] = dropped[q] \cup todo[q] /\ todo'[q] = {}
    BY BothAreSome, LeftEmpty DEF TypeOK
  <2>2. PagesReachTheOffset'
    BY DEF PagesReachTheOffset, paging
  <2>3. FoundIsClosed' /\ TodoIsClosed' /\ QueuedIsClosed'
    BY <2>1 DEF FoundIsClosed, TodoIsClosed, QueuedIsClosed, Settled, GivenUp, jobs
  <2>4. OnlyJobsAreImported' /\ PassedOverIsExplained'
    BY <2>1 DEF OnlyJobsAreImported, PassedOverIsExplained, GivenUp, jobs, paging, Empty
  <2> QED BY <2>2, <2>3, <2>4
<1>3. ASSUME NEW q \in Queues, NEW n \in todo[q], QueueImportJob(q, n) PROVE Closed'
  BY <1>3, ClosedQueueOne DEF QueueImportJob, history
<1>4. ASSUME NEW q \in Queues, NEW n \in todo[q], QueueError(q, n) PROVE Closed'
  BY <1>4, ClosedQueueOne DEF QueueError, jobs
<1> QED BY <1>1, <1>2, <1>3, <1>4 DEF Enqueue

(* What is imported is queued, and by then nothing is left to be queued.   *)
LEMMA ClosedImport ==
  ASSUME Inductive, At("batch"), UNCHANGED <<games, pc, paging, found, todo, queued>>,
         UNCHANGED <<listed, beyond, dropped>>,
         NEW p \in Queues, NEW n \in batch[p], rows' \in {rows, Add(rows, p, n)},
         batch' \in {NoGames, Remove(batch, p, n)}
  PROVE  Closed'
<1> USE DEF Inductive, Closed
<1>1. n \in Nat /\ rows \in SomeGames /\ batch \in SomeGames
  BY DEF TypeOK, SomeGames
<1>2. n \in queued[p] /\ Empty(todo)
  BY DEF OnlyJobsAreImported, At
<1>3. \A q \in Queues : rows[q] \subseteq rows'[q] /\ rows'[q] \subseteq rows[q] \cup queued[q]
  BY <1>1, <1>2, OneMoreOrLess
<1>4. \A q \in Queues : batch'[q] \subseteq batch[q]
  BY <1>1, OneMoreOrLess, LeftEmpty
<1>5. PagesReachTheOffset'
  BY DEF PagesReachTheOffset, paging, At
<1>6. FoundIsClosed' /\ TodoIsClosed' /\ QueuedIsClosed'
  BY DEF FoundIsClosed, TodoIsClosed, QueuedIsClosed, Settled, GivenUp
<1>7. OnlyJobsAreImported'
  BY <1>2, <1>3, <1>4 DEF OnlyJobsAreImported, paging, Empty
<1>8. \A q \in Queues : \A j \in queued[q] : \A i \in 1..j : i \in queued[q] \cup GivenUp(q)
  BY <1>2 DEF QueuedIsClosed, Settled, Empty
<1>9. PassedOverIsExplained'
  BY <1>3, <1>8 DEF PassedOverIsExplained, GivenUp
<1> QED BY <1>5, <1>6, <1>7, <1>9

LEMMA ClosedTryBatch == ASSUME Inductive, TryBatch PROVE Closed'
<1>1. CASE LoadBatch
  <2> USE <1>1 DEF Inductive, Closed, LoadBatch, At, Goto
  <2>1. \A q \in Queues : batch'[q] \subseteq queued[q]
    BY DEF Ready
  <2>2. PagesReachTheOffset'
    BY DEF PagesReachTheOffset, paging
  <2>3. FoundIsClosed' /\ TodoIsClosed' /\ QueuedIsClosed'
    BY DEF FoundIsClosed, TodoIsClosed, QueuedIsClosed, Settled, GivenUp, jobs, history
  <2>4. OnlyJobsAreImported' /\ PassedOverIsExplained'
    BY <2>1 DEF OnlyJobsAreImported, PassedOverIsExplained, GivenUp, jobs, paging, history, Empty
  <2> QED BY <2>2, <2>3, <2>4
<1>2. CASE LoadFails \/ StopBatch \/ EndBatch
  <2>1. pc' # "page" /\ Empty(todo)
    BY <1>2 DEF LoadFails, StopBatch, EndBatch, Inductive, Closed, OnlyJobsAreImported, At, Goto
  <2> QED BY <1>2, <2>1, ClosedUnlessDiscovering
      DEF LoadFails, StopBatch, EndBatch, Inductive, jobs, paging, work, history
<1>3. ASSUME NEW q \in Queues, NEW n \in batch[q], Import(q, n) PROVE Closed'
  BY <1>3, ClosedImport DEF Import, history
<1>4. ASSUME NEW q \in Queues, NEW n \in batch[q], ImportFails(q, n) PROVE Closed'
  BY <1>4, ClosedImport DEF ImportFails, history
<1> QED BY <1>1, <1>2, <1>3, <1>4 DEF TryBatch

LEMMA ClosedRest == ASSUME Inductive, Finish \/ FinishFails \/ World PROVE Closed'
<1>1. CASE Finish \/ FinishFails
  <2>1. LeaveSync /\ UNCHANGED <<games, jobs, paging, beyond, dropped>>
    BY <1>1 DEF Finish, FinishFails
  <2>2. pages = {} /\ Empty(todo)
    BY <1>1 DEF Finish, FinishFails, Inductive, Closed, SeesWhatIsListed, OnlyJobsAreImported, At
  <2> QED BY <2>1, <2>2, ClosedOnLeaving DEF paging, Empty
<1>2. CASE Crash
  <2>1. \A q \in Queues : dropped'[q] = dropped[q] \cup todo[q]
    BY <1>2, BothAreSome DEF Crash, Inductive, TypeOK
  <2> QED BY <1>2, <2>1, ClosedOnLeaving DEF Crash, LeaveDiscovery
<1>3. CASE ProfileFails \/ Cancel
  <2>1. UNCHANGED <<games, jobs, pc, paging, work, history>>
    BY <1>3 DEF ProfileFails, Cancel
  <2> QED BY <2>1, ClosedUnlessDiscovering DEF Inductive, jobs, paging, work, history
<1>4. ASSUME NEW q \in Queues, PlayGame(q) PROVE Closed'
  <2> USE <1>4 DEF Inductive, Closed, PlayGame
  <2>1. \A p \in Queues : games[p] \in Nat /\ games'[p] \in Nat /\ games[p] <= games'[p]
    BY DEF TypeOK
  <2>2. PagesReachTheOffset'
    <3>1. queue \in Queues /\ fetched \in Nat /\ pages \subseteq Nat /\ listed[queue] \in Nat
      BY DEF TypeOK
    <3> QED BY <2>1, <3>1 DEF PagesReachTheOffset, paging, history, At
  <2>3. FoundIsClosed' /\ TodoIsClosed' /\ QueuedIsClosed'
    BY DEF FoundIsClosed, TodoIsClosed, QueuedIsClosed, Settled, GivenUp, jobs, work, history
  <2>4. OnlyJobsAreImported' /\ PassedOverIsExplained'
    BY DEF OnlyJobsAreImported, PassedOverIsExplained, GivenUp, jobs, work, paging, history,
           Empty, At
  <2> QED BY <2>2, <2>3, <2>4
<1>5. ASSUME NEW q \in Queues, NEW n \in waiting[q], RetryWindowOpens(q, n) PROVE Closed'
  BY <1>5, ClosedUnlessDiscovering DEF RetryWindowOpens, Inductive, paging, work, history
<1> QED BY <1>1, <1>2, <1>3, <1>4, <1>5 DEF World

-----------------------------------------------------------------------------
(***************************************************************************)
(* SeesWhatIsListed.                                                       *)
(***************************************************************************)
LEMMA SeesOnLeaving ==
  ASSUME TypeOK, LeaveSync, games' = games, pages' = {}, fetched' = 0, queue' = 1
  PROVE  SeesWhatIsListed'
BY LeftEmpty DEF SeesWhatIsListed, LeaveSync, Goto, At, TypeOK

LEMMA SeesUnlessDiscovering ==
  ASSUME SeesWhatIsListed, ~At("page"),
         UNCHANGED <<games, paging, listed>>,
         \/ UNCHANGED <<pc, found, todo, queued, beyond, dropped, failed>>
         \/ pc' \notin {"page", "queue", "load", "batch", "finish"}
         \/ /\ pc \in {"queue", "load", "batch", "finish"} /\ pc' # "page"
            /\ failed' = FALSE => failed = FALSE
            /\ \A q \in Queues : todo[q] \cup Settled(q) \subseteq todo'[q] \cup (Settled(q))'
         \/ pc' # "page" /\ failed' = TRUE
  PROVE  SeesWhatIsListed'
BY DEF SeesWhatIsListed, At, paging, Settled, GivenUp

LEMMA SeesDiscover == ASSUME Inductive, Begin \/ Discover PROVE SeesWhatIsListed'
<1> USE DEF Inductive
<1>1. CASE Begin
  BY <1>1 DEF Begin, SeesWhatIsListed, At, Goto, paging, TypeOK
<1>2. CASE ReadKnown
  <2>1. queue' = 1 /\ UNCHANGED <<games, listed>> /\ pc' = "page"
    BY <1>2 DEF ReadKnown, SeesWhatIsListed, At, Goto, history
  <2> QED BY <2>1, FirstQueue DEF SeesWhatIsListed, At
<1>3. CASE TurnPage
  BY <1>3 DEF TurnPage, SeesWhatIsListed, At, jobs, work, history, Settled, GivenUp
<1>4. CASE EndQueue
  <2> USE <1>4
  <2>1. UNCHANGED <<games, listed>> /\ queue \in Queues /\ found \in SomeGames
    BY DEF EndQueue, TypeOK
  <2>2. ASSUME NEW q \in Queues, q <= queue, NEW i \in 1..listed[q]
        PROVE  i \in found'[q] \cup (Settled(q))'
    <3>1. CASE q = queue
      <4>1. i \in Nat /\ i > 0 /\ (i \in pages \/ i + fetched <= games[queue])
        BY <2>2, <3>1 DEF Closed, PagesReachTheOffset, EndQueue, At, TypeOK
      <4> QED BY <3>1, <4>1, WholeQueueIsRead, EndQueueSettles
    <3>2. CASE q # queue
      <4>1. q < queue
        BY <2>1, <2>2, <3>2, FirstQueue
      <4>2. i \in found[q] \cup Settled(q)
        BY <4>1 DEF EndQueue, SeesWhatIsListed, At
      <4> QED BY <3>2, <4>2, EndQueueSettles
    <3> QED BY <3>1, <3>2
  <2>3. CASE queue = NQueues
    <3>1. pc' = "queue" /\ LeaveDiscovery /\ todo' = found'
      BY <2>3 DEF EndQueue, Goto
    <3>2. \A q \in Queues : q <= queue
      BY <2>3, FirstQueue
    <3> QED BY <2>1, <2>2, <3>1, <3>2 DEF SeesWhatIsListed, LeaveDiscovery, At
  <2>4. CASE queue # NQueues
    <3>1. pc' = "page" /\ queue' = queue + 1
      BY <2>4 DEF EndQueue, At
    <3>2. \A q \in Queues : q < queue' => q <= queue
      BY <2>1, <3>1, FirstQueue
    <3> QED BY <2>1, <2>2, <3>1, <3>2 DEF SeesWhatIsListed, At
  <2> QED BY <2>3, <2>4
<1>5. CASE DiscoveryFails
  <2>1. LeaveDiscovery /\ games' = games
    BY <1>5 DEF DiscoveryFails
  <2>2. CASE Empty(found)
    BY <1>5, <2>1, <2>2, SeesOnLeaving DEF DiscoveryFails, LeaveDiscovery
  <2>3. CASE ~Empty(found)
    BY <1>5, <2>1, <2>3 DEF DiscoveryFails, SeesWhatIsListed, LeaveDiscovery, At, Goto
  <2> QED BY <2>2, <2>3
<1> QED BY <1>1, <1>2, <1>3, <1>4, <1>5 DEF Discover

LEMMA SeesEnqueue == ASSUME Inductive, Enqueue PROVE SeesWhatIsListed'
<1> USE DEF Inductive, At, Goto
<1>1. CASE EndQueueing
  BY <1>1, SeesUnlessDiscovering DEF EndQueueing, jobs, work, counts, history, Settled, GivenUp
<1>2. CASE StopQueueing
  BY <1>2, SeesUnlessDiscovering DEF StopQueueing
<1>3. ASSUME NEW p \in Queues, NEW n \in todo[p], QueueImportJob(p, n)
      PROVE  SeesWhatIsListed'
  <2>1. n \in Nat /\ todo \in SomeGames /\ queued \in SomeGames
    BY DEF TypeOK, SomeGames
  <2>2. \A q \in Queues : todo[q] \cup queued[q] \subseteq todo'[q] \cup queued'[q]
    BY <1>3, <2>1, OneMoves DEF QueueImportJob
  <2>3. \A q \in Queues : todo[q] \cup Settled(q) \subseteq todo'[q] \cup (Settled(q))'
    BY <1>3, <2>2 DEF QueueImportJob, history, Settled, GivenUp
  <2> QED BY <1>3, <2>3, SeesUnlessDiscovering DEF QueueImportJob, history
<1>4. ASSUME NEW p \in Queues, NEW n \in todo[p], QueueError(p, n)
      PROVE  SeesWhatIsListed'
  BY <1>4, SeesUnlessDiscovering DEF QueueError
<1> QED BY <1>1, <1>2, <1>3, <1>4 DEF Enqueue

LEMMA SeesTryBatch == ASSUME Inductive, TryBatch PROVE SeesWhatIsListed'
<1> USE DEF Inductive, At, Goto
<1>1. CASE LoadBatch \/ EndBatch
  BY <1>1, SeesUnlessDiscovering
  DEF LoadBatch, EndBatch, jobs, work, counts, history, Settled, GivenUp
<1>2. CASE LoadFails \/ StopBatch
  BY <1>2, SeesUnlessDiscovering DEF LoadFails, StopBatch, history
<1>3. ASSUME NEW q \in Queues, NEW n \in batch[q], Import(q, n) PROVE SeesWhatIsListed'
  BY <1>3, SeesUnlessDiscovering DEF Import, history
<1>4. ASSUME NEW q \in Queues, NEW n \in batch[q], ImportFails(q, n) PROVE SeesWhatIsListed'
  BY <1>4, SeesUnlessDiscovering DEF ImportFails, history
<1> QED BY <1>1, <1>2, <1>3, <1>4 DEF TryBatch

LEMMA SeesRest == ASSUME Inductive, Finish \/ FinishFails \/ World PROVE SeesWhatIsListed'
<1> USE DEF Inductive
<1>1. CASE Finish \/ FinishFails
  <2>1. LeaveSync /\ UNCHANGED <<games, paging>> /\ ~At("page")
    BY <1>1 DEF Finish, FinishFails, At
  <2>2. pages' = {} /\ fetched' = 0 /\ queue' = 1
    BY <2>1 DEF SeesWhatIsListed, paging
  <2> QED BY <2>1, <2>2, SeesOnLeaving
<1>2. CASE Crash
  BY <1>2, SeesOnLeaving DEF Crash, LeaveDiscovery
<1>3. CASE ProfileFails \/ Cancel
  BY <1>3 DEF ProfileFails, Cancel, SeesWhatIsListed, jobs, paging, work, counts, history,
              Settled, GivenUp, At
<1>4. ASSUME NEW q \in Queues, PlayGame(q) PROVE SeesWhatIsListed'
  <2>1. \A p \in Queues : games[p] \in Nat /\ games'[p] \in Nat /\ games[p] <= games'[p]
    BY <1>4 DEF PlayGame, TypeOK
  <2>2. \A p \in Queues : listed'[p] \in Nat /\ listed'[p] <= games'[p]
    BY <1>4, <2>1 DEF PlayGame, history, SeesWhatIsListed, TypeOK
  <2> QED BY <1>4, <2>2 DEF PlayGame, SeesWhatIsListed, jobs, paging, work, counts, history,
                             Settled, GivenUp, At
<1>5. ASSUME NEW q \in Queues, NEW n \in waiting[q], RetryWindowOpens(q, n)
      PROVE  SeesWhatIsListed'
  BY <1>5 DEF RetryWindowOpens, SeesWhatIsListed, paging, work, counts, history,
              Settled, GivenUp, At
<1> QED BY <1>1, <1>2, <1>3, <1>4, <1>5 DEF World

-----------------------------------------------------------------------------
(***************************************************************************)
(* ImportsWhatIsFound.                                                     *)
(***************************************************************************)
LEMMA ImportsElsewhere ==
  ASSUME pc' \notin {"queue", "load", "batch", "finish"}
  PROVE  ImportsWhatIsFound'
BY DEF ImportsWhatIsFound, At

LEMMA ImportsOnFailure ==
  ASSUME failed' = TRUE, pc' # "load" \/ (At("load") /\ deferred' = deferred),
         ImportsWhatIsFound
  PROVE  ImportsWhatIsFound'
BY DEF ImportsWhatIsFound, At

LEMMA ImportsDiscover == ASSUME Inductive, Begin \/ Discover PROVE ImportsWhatIsFound'
<1> USE DEF Inductive, At, Goto
<1>1. CASE Begin \/ ReadKnown \/ TurnPage
  BY <1>1, ImportsElsewhere DEF Begin, ReadKnown, TurnPage
<1>2. CASE EndQueue
  <2>1. CASE pc' = "page"
    BY <2>1, ImportsElsewhere
  <2>2. CASE pc' = "queue" /\ todo' = found'
    BY <2>2 DEF ImportsWhatIsFound
  <2> QED BY <1>2, <2>1, <2>2 DEF EndQueue
<1>3. CASE DiscoveryFails
  BY <1>3, ImportsElsewhere, ImportsOnFailure DEF DiscoveryFails, LeaveSync
<1> QED BY <1>1, <1>2, <1>3 DEF Discover

LEMMA ImportsEnqueue == ASSUME Inductive, Enqueue PROVE ImportsWhatIsFound'
<1> USE DEF Inductive, At, Goto
<1>1. CASE EndQueueing
  <2>1. UNCHANGED <<queued, waiting, done, found, todo, failed, deferred, cancelled, cut>>
    BY <1>1 DEF EndQueueing, jobs, work, counts
  <2>2. \/ pc' = "load" /\ ~deferred
        \/ pc' = "finish" /\ (cancelled \/ deferred)
    BY <1>1 DEF EndQueueing
  <2>3. pc = "queue"
    BY <1>1 DEF EndQueueing
  <2> QED BY <2>1, <2>2, <2>3 DEF ImportsWhatIsFound
<1>2. CASE StopQueueing
  BY <1>2, ImportsOnFailure DEF StopQueueing
<1>3. ASSUME NEW p \in Queues, NEW n \in todo[p], QueueImportJob(p, n)
      PROVE  ImportsWhatIsFound'
  <2> USE <1>3 DEF QueueImportJob
  <2>1. n \in Nat /\ todo \in SomeGames /\ queued \in SomeGames
    BY DEF TypeOK, SomeGames
  <2>2. \A q \in Queues :
          /\ queued[q] \subseteq queued'[q]
          /\ \A m \in todo[q] : m \in todo'[q] \/ (q = p /\ m = n /\ m \in queued'[q])
    BY <2>1, OneMoves
  <2>3. ~deferred' => ~deferred /\ n \notin waiting[p]
    OBVIOUS
  <2> QED BY <2>2, <2>3 DEF ImportsWhatIsFound
<1>4. ASSUME NEW p \in Queues, NEW n \in todo[p], QueueError(p, n)
      PROVE  ImportsWhatIsFound'
  BY <1>4, ImportsOnFailure DEF QueueError
<1> QED BY <1>1, <1>2, <1>3, <1>4 DEF Enqueue

LEMMA ImportsTryBatch == ASSUME Inductive, TryBatch PROVE ImportsWhatIsFound'
<1> USE DEF Inductive, At, Goto
<1>1. CASE LoadBatch
  <2>1. Empty(todo) /\ ~deferred /\ pc = "load"
    BY <1>1 DEF LoadBatch, Closed, OnlyJobsAreImported, ImportsWhatIsFound
  <2>2. ASSUME ~failed, ~cut', NEW q \in Queues PROVE found[q] \subseteq done[q] \cup batch'[q]
    <3>1. batch' = Ready
      BY <1>1, <2>2 DEF LoadBatch
    <3>2. found[q] \subseteq queued[q] \ waiting[q]
      BY <2>1, <2>2 DEF ImportsWhatIsFound, Empty
    <3> QED BY <3>1, <3>2 DEF Ready
  <2> QED BY <1>1, <2>2 DEF LoadBatch, ImportsWhatIsFound, jobs, counts
<1>2. CASE LoadFails \/ StopBatch
  BY <1>2, ImportsOnFailure DEF LoadFails, StopBatch
<1>3. CASE EndBatch
  BY <1>3 DEF EndBatch, ImportsWhatIsFound, Empty, jobs, work, counts
<1>4. ASSUME NEW p \in Queues, NEW n \in batch[p], Import(p, n) PROVE ImportsWhatIsFound'
  <2> USE <1>4 DEF Import
  <2>1. n \in Nat /\ done \in SomeGames /\ batch \in SomeGames
    BY DEF TypeOK, SomeGames
  <2>2. \A q \in Queues : done[q] \cup batch[q] \subseteq done'[q] \cup batch'[q]
    BY <2>1, OneMoves
  <2> QED BY <2>2 DEF ImportsWhatIsFound
<1>5. ASSUME NEW p \in Queues, NEW n \in batch[p], ImportFails(p, n)
      PROVE  ImportsWhatIsFound'
  BY <1>5, ImportsOnFailure DEF ImportFails
<1> QED BY <1>1, <1>2, <1>3, <1>4, <1>5 DEF TryBatch

LEMMA ImportsRest ==
  ASSUME Inductive, Finish \/ FinishFails \/ World PROVE ImportsWhatIsFound'
<1> USE DEF Inductive
<1>1. CASE Finish \/ FinishFails \/ Crash
  BY <1>1, ImportsElsewhere DEF Finish, FinishFails, Crash, LeaveSync, Goto
<1>2. CASE ProfileFails \/ Cancel
  <2>1. UNCHANGED <<jobs, pc, work, counts>> /\ (cancelled' = cancelled \/ cancelled' = TRUE)
    BY <1>2 DEF ProfileFails, Cancel
  <2> QED BY <2>1 DEF ImportsWhatIsFound, jobs, work, counts, At
<1>3. ASSUME NEW q \in Queues, PlayGame(q) PROVE ImportsWhatIsFound'
  BY <1>3 DEF PlayGame, ImportsWhatIsFound, jobs, work, counts, At
<1>4. ASSUME NEW p \in Queues, NEW n \in waiting[p], RetryWindowOpens(p, n)
      PROVE  ImportsWhatIsFound'
  <2>1. n \in Nat /\ waiting \in SomeGames
    BY DEF TypeOK, SomeGames
  <2>2. \A q \in Queues : waiting'[q] \subseteq waiting[q]
    BY <1>4, <2>1, OneMoreOrLess DEF RetryWindowOpens
  <2> QED BY <1>4, <2>2 DEF RetryWindowOpens, ImportsWhatIsFound, work, counts, At
<1> QED BY <1>1, <1>2, <1>3, <1>4 DEF World

-----------------------------------------------------------------------------
(***************************************************************************)
(* The theorems.                                                           *)
(***************************************************************************)
LEMMA InductiveInit == Init => Inductive
<1> SUFFICES ASSUME Init PROVE Inductive
  OBVIOUS
<1>1. TypeOK
  BY TypeInit
<1>2. Closed
  BY LeftEmpty DEF Init, Closed, PagesReachTheOffset, FoundIsClosed, TodoIsClosed,
     QueuedIsClosed, OnlyJobsAreImported, PassedOverIsExplained, At, Empty
<1>3. SeesWhatIsListed
  BY <1>1, LeftEmpty DEF Init, SeesWhatIsListed, TypeOK, At
<1>4. ImportsWhatIsFound
  BY DEF Init, ImportsWhatIsFound, At
<1>5. RunIsOpen
  BY DEF Init, RunIsOpen, Running, At
<1> QED BY <1>1, <1>2, <1>3, <1>4, <1>5 DEF Inductive

LEMMA RunStaysOpen == ASSUME Inductive, [Next]_vars PROVE RunIsOpen'
<1> USE DEF Inductive, RunIsOpen, Running, At, Goto
<1>1. CASE UNCHANGED vars
  BY <1>1 DEF vars
<1>2. CASE Begin \/ Discover
  BY <1>2 DEF Begin, Discover, ReadKnown, TurnPage, EndQueue, DiscoveryFails, LeaveSync
<1>3. CASE Enqueue
  BY <1>3 DEF Enqueue, QueueImportJob, QueueError, StopQueueing, EndQueueing
<1>4. CASE TryBatch
  BY <1>4 DEF TryBatch, LoadBatch, LoadFails, StopBatch, EndBatch, Import, ImportFails
<1>5. CASE Finish \/ FinishFails \/ World
  BY <1>5 DEF Finish, FinishFails, World, ProfileFails, Cancel, Crash, PlayGame,
              RetryWindowOpens, LeaveSync
<1> QED BY <1>1, <1>2, <1>3, <1>4, <1>5 DEF Next, SyncStep

LEMMA InductiveStep == ASSUME Inductive, [Next]_vars PROVE Inductive'
<1>1. TypeOK' /\ RunIsOpen'
  BY TypeStep, RunStaysOpen DEF Inductive
<1>2. CASE UNCHANGED vars
  <2> USE <1>2 DEF vars, jobs, paging, work, counts, history, Inductive
  <2>1. Closed'
    BY ClosedUnlessDiscovering
  <2>2. SeesWhatIsListed'
    BY DEF SeesWhatIsListed, At, Settled, GivenUp
  <2>3. ImportsWhatIsFound'
    BY DEF ImportsWhatIsFound, At
  <2> QED BY <1>1, <2>1, <2>2, <2>3
<1>3. CASE Begin \/ Discover
  BY <1>1, <1>3, ClosedDiscover, SeesDiscover, ImportsDiscover DEF Inductive
<1>4. CASE Enqueue
  BY <1>1, <1>4, ClosedEnqueue, SeesEnqueue, ImportsEnqueue DEF Inductive
<1>5. CASE TryBatch
  BY <1>1, <1>5, ClosedTryBatch, SeesTryBatch, ImportsTryBatch DEF Inductive
<1>6. CASE Finish \/ FinishFails \/ World
  BY <1>1, <1>6, ClosedRest, SeesRest, ImportsRest DEF Inductive
<1> QED BY <1>2, <1>3, <1>4, <1>5, <1>6 DEF Next, SyncStep

(* The inductive invariant: what is read, to be queued or queued is closed *)
(* downwards, and a sync without failures has seen and tried all it found. *)
THEOREM InductiveInvariant == Spec => []Inductive
BY InductiveInit, InductiveStep, PTL DEF Spec

(* Behind an imported match every older game has a job or was given up.    *)
THEOREM PassedOver == Spec => []PassedOverIsExplained
<1>1. Inductive => PassedOverIsExplained
  BY DEF Inductive, Closed
<1> QED BY <1>1, InductiveInvariant, PTL

(* The only step that reports success is the last one of a sync.           *)
LEMMA SuccessIsReportedAtTheEnd ==
  ASSUME Inductive, [Next]_vars, At("finish"), run' = "succeeded"
  PROVE  ~failed /\ ~deferred
<1>1. run = "running"
  BY DEF Inductive, RunIsOpen, Running, At
<1>2. run' = run \/ run' = Outcome
  <2> USE DEF At
  <2>1. CASE Begin \/ Discover
    BY <2>1 DEF Begin, Discover, ReadKnown, TurnPage, EndQueue, DiscoveryFails
  <2>2. CASE Enqueue
    BY <2>2 DEF Enqueue, QueueImportJob, QueueError, StopQueueing, EndQueueing
  <2>3. CASE TryBatch
    BY <2>3 DEF TryBatch, LoadBatch, LoadFails, StopBatch, EndBatch, Import, ImportFails
  <2>4. CASE Finish \/ FinishFails \/ World
    BY <2>4 DEF Finish, FinishFails, World, ProfileFails, Cancel, Crash, PlayGame,
                RetryWindowOpens
  <2>5. CASE UNCHANGED vars
    BY <2>5 DEF vars
  <2> QED BY <2>1, <2>2, <2>3, <2>4, <2>5 DEF Next, SyncStep
<1> QED BY <1>1, <1>2 DEF Outcome

(* A sync reported as succeeded has queued all that Riot listed when it    *)
(* began, but for what was given up.                                       *)
THEOREM SucceededMissesNothing == Spec => SucceededRunMissesNothing
<1>1. Inductive /\ [Next]_vars =>
        [At("finish") /\ run' = "succeeded" =>
           \A q \in Queues : 1..listed[q] \subseteq queued[q] \cup GivenUp(q)]_vars
  <2> SUFFICES ASSUME Inductive, [Next]_vars, At("finish"), run' = "succeeded",
                      NEW q \in Queues, NEW i \in 1..listed[q]
               PROVE  i \in queued[q] \cup GivenUp(q)
    OBVIOUS
  <2>1. ~failed /\ todo[q] = {}
    BY SuccessIsReportedAtTheEnd DEF Inductive, Closed, OnlyJobsAreImported, Empty, At
  <2>2. i \in todo[q] \cup Settled(q)
    BY <2>1 DEF Inductive, SeesWhatIsListed, At
  <2> QED BY <2>1, <2>2 DEF Settled
<1> QED BY <1>1, InductiveInvariant, PTL DEF Spec, SucceededRunMissesNothing

(* A sync reported as succeeded, not cancelled and with room in its batch, *)
(* has imported every game it found.                                       *)
THEOREM SucceededComplete == Spec => SucceededRunIsComplete
<1>1. Inductive /\ [Next]_vars =>
        [At("finish") /\ run' = "succeeded" /\ ~cancelled /\ ~cut =>
           \A q \in Queues : found[q] \subseteq done[q]]_vars
  <2> SUFFICES ASSUME Inductive, [Next]_vars, At("finish"), run' = "succeeded",
                      ~cancelled, ~cut
               PROVE  \A q \in Queues : found[q] \subseteq done[q]
    OBVIOUS
  <2>1. ~failed /\ ~deferred
    BY SuccessIsReportedAtTheEnd
  <2> QED BY <2>1 DEF Inductive, ImportsWhatIsFound
<1> QED BY <1>1, InductiveInvariant, PTL DEF Spec, SucceededRunIsComplete

-----------------------------------------------------------------------------
(***************************************************************************)
(* A sync runs down.  Its measure is <<Ahead[pc], queues left, distance to *)
(* the cap, games to queue, games to import>>: every step of the sync      *)
(* makes it less in the order of tuples, and every part is finite, because *)
(* nothing is worked on that Riot did not list.                            *)
(***************************************************************************)
OnlyListed ==
  /\ pages \subseteq 1..games[queue]
  /\ \A q \in Queues : found[q] \cup todo[q] \cup queued[q] \subseteq 1..games[q]

Measured == Inductive /\ OnlyListed /\ fetched < Cap

LEMMA PageIsListed == Page \subseteq 1..games[queue]
BY DEF Page

LEMMA ListedOnLeaving ==
  ASSUME OnlyListed, LeaveSync, pages' = {}, UNCHANGED <<games, jobs>>
  PROVE  OnlyListed'
BY LeftEmpty DEF OnlyListed, LeaveSync, jobs

LEMMA ListedDiscover == ASSUME Inductive, OnlyListed, Begin \/ Discover PROVE OnlyListed'
<1> USE DEF Inductive, At, Goto
<1>1. CASE Begin \/ ReadKnown
  BY <1>1 DEF Begin, ReadKnown, OnlyListed, jobs, paging, work
<1>2. CASE TurnPage
  BY <1>2, PageIsListed DEF TurnPage, OnlyListed, jobs, work
<1>3. CASE EndQueue
  <2>1. \A q \in Queues : found'[q] \subseteq 1..games[q]
    BY <1>3, PageIsListed DEF EndQueue, OnlyListed, TypeOK, SomeGames
  <2>2. pages' = {} /\ UNCHANGED <<games, jobs>> /\ (todo' = todo \/ todo' = found')
    BY <1>3 DEF EndQueue, LeaveDiscovery
  <2> QED BY <2>1, <2>2 DEF OnlyListed, jobs
<1>4. CASE DiscoveryFails
  <2>1. pages' = {} /\ UNCHANGED <<games, jobs>>
    BY <1>4 DEF DiscoveryFails, LeaveDiscovery
  <2>2. CASE Empty(found)
    BY <1>4, <2>1, <2>2, ListedOnLeaving DEF DiscoveryFails
  <2>3. CASE ~Empty(found)
    BY <1>4, <2>1, <2>3 DEF DiscoveryFails, OnlyListed, jobs
  <2> QED BY <2>2, <2>3
<1> QED BY <1>1, <1>2, <1>3, <1>4 DEF Discover

LEMMA ListedEnqueue == ASSUME Inductive, OnlyListed, Enqueue PROVE OnlyListed'
<1> USE DEF Inductive, OnlyListed
<1>1. CASE StopQueueing \/ EndQueueing
  BY <1>1, LeftEmpty DEF StopQueueing, EndQueueing, jobs, paging, work
<1>2. ASSUME NEW p \in Queues, NEW n \in todo[p], QueueImportJob(p, n) \/ QueueError(p, n)
      PROVE  OnlyListed'
  <2>1. n \in Nat /\ todo \in SomeGames /\ queued \in SomeGames
    BY DEF TypeOK, SomeGames
  <2>2. todo' = Remove(todo, p, n) /\ (queued' = queued \/ queued' = Add(queued, p, n))
    BY <1>2 DEF QueueImportJob, QueueError, jobs
  <2>3. \A q \in Queues : /\ todo'[q] \subseteq todo[q]
                         /\ queued'[q] \subseteq queued[q] \cup todo[q]
    <3>1. \A q \in Queues : Remove(todo, p, n)[q] \subseteq todo[q]
      BY <2>1 DEF SomeGames, Remove
    <3>2. \A q \in Queues : Add(queued, p, n)[q] \subseteq queued[q] \cup todo[q]
      BY <2>1 DEF SomeGames, Add
    <3> QED BY <2>2, <3>1, <3>2
  <2>4. UNCHANGED <<games, found, pages, queue>>
    BY <1>2 DEF QueueImportJob, QueueError, paging
  <2> QED BY <2>3, <2>4
<1> QED BY <1>1, <1>2 DEF Enqueue

LEMMA ListedElsewhere ==
  ASSUME Inductive, OnlyListed, TryBatch \/ Finish \/ FinishFails \/ World
  PROVE  OnlyListed'
<1>1. CASE TryBatch
  <2>1. UNCHANGED <<games, queued, paging, found, todo>>
    BY <1>1 DEF TryBatch, LoadBatch, LoadFails, StopBatch, EndBatch, Import, ImportFails,
                jobs, work
  <2> QED BY <2>1 DEF OnlyListed, paging
<1>2. CASE Finish \/ FinishFails
  <2>1. pages = {}
    BY <1>2 DEF Finish, FinishFails, At, Inductive, SeesWhatIsListed
  <2> QED BY <1>2, <2>1, ListedOnLeaving DEF Finish, FinishFails, paging
<1>3. CASE Crash
  BY <1>3, ListedOnLeaving DEF Crash, LeaveDiscovery
<1>4. CASE ProfileFails \/ Cancel
  BY <1>4 DEF ProfileFails, Cancel, OnlyListed, jobs, paging, work
<1>5. ASSUME NEW q \in Queues, PlayGame(q) PROVE OnlyListed'
  <2>1. \A p \in Queues : games[p] \in Nat /\ games'[p] \in Nat /\ games[p] <= games'[p]
    BY <1>5 DEF PlayGame, Inductive, TypeOK
  <2>2. \A p \in Queues : 1..games[p] \subseteq 1..games'[p]
    BY <2>1
  <2> QED BY <1>5, <2>2 DEF PlayGame, OnlyListed, jobs, paging, work, Inductive, TypeOK
<1>6. ASSUME NEW q \in Queues, NEW n \in waiting[q], RetryWindowOpens(q, n)
      PROVE  OnlyListed'
  BY <1>6 DEF RetryWindowOpens, OnlyListed, paging, work
<1> QED BY <1>1, <1>2, <1>3, <1>4, <1>5, <1>6 DEF World

LEMMA BelowTheCap == ASSUME Measured, [Next]_vars PROVE fetched' < Cap
<1> USE DEF Measured
<1>1. 0 < Cap
  BY DiscoveryAssumption DEF DiscoveryAssumption
<1>2. fetched' = fetched \/ fetched' = 0 \/ fetched' < Cap
  <2>1. CASE Begin \/ Discover
    BY <2>1 DEF Begin, Discover, ReadKnown, TurnPage, GoesOn, EndQueue, DiscoveryFails,
                LeaveDiscovery, paging
  <2>2. CASE Enqueue
    BY <2>2 DEF Enqueue, QueueImportJob, QueueError, StopQueueing, EndQueueing, paging
  <2>3. CASE TryBatch
    BY <2>3 DEF TryBatch, LoadBatch, LoadFails, StopBatch, EndBatch, Import, ImportFails,
                paging
  <2>4. CASE Finish \/ FinishFails \/ World
    BY <2>4 DEF Finish, FinishFails, World, ProfileFails, Cancel, Crash, PlayGame,
                RetryWindowOpens, LeaveDiscovery, paging
  <2>5. CASE UNCHANGED vars
    BY <2>5 DEF vars, paging
  <2> QED BY <2>1, <2>2, <2>3, <2>4, <2>5 DEF Next, SyncStep
<1> QED BY <1>1, <1>2

LEMMA MeasuredInit == Init => Measured
BY InductiveInit, LeftEmpty, DiscoveryAssumption
DEF DiscoveryAssumption, Init, Measured, OnlyListed

LEMMA MeasuredStep == ASSUME Measured, [Next]_vars PROVE Measured'
<1>1. CASE UNCHANGED vars
  BY <1>1, InductiveStep DEF Measured, OnlyListed, vars, jobs, paging, work
<1> QED BY <1>1, InductiveStep, BelowTheCap, ListedDiscover, ListedEnqueue, ListedElsewhere
        DEF Measured, Next, SyncStep

(* Nothing is found, to be queued, queued or stored that Riot never listed. *)
THEOREM NothingIsMadeUp ==
  Spec => [](\A q \in Queues : rows[q] \cup queued[q] \cup found[q] \cup todo[q]
                                 \subseteq 1..games[q])
<1>1. Measured => \A q \in Queues : rows[q] \cup queued[q] \cup found[q] \cup todo[q]
                                   \subseteq 1..games[q]
  BY DEF Measured, OnlyListed, Inductive, Closed, OnlyJobsAreImported
<1> QED BY <1>1, MeasuredInit, MeasuredStep, PTL DEF Spec

(* The work of a sync is finite at any time.                               *)
THEOREM WorkIsFinite ==
  Spec => [](\A q \in Queues : IsFiniteSet(todo[q]) /\ IsFiniteSet(batch[q]))
<1>1. Measured => \A q \in Queues : IsFiniteSet(todo[q]) /\ IsFiniteSet(batch[q])
  <2> SUFFICES ASSUME Measured, NEW q \in Queues
               PROVE  IsFiniteSet(todo[q]) /\ IsFiniteSet(batch[q])
    OBVIOUS
  <2>1. games[q] \in Int /\ 1 \in Int
    BY DEF Measured, Inductive, TypeOK
  <2>2. IsFiniteSet(1..games[q])
    BY <2>1, FS_Interval
  <2>3. todo[q] \subseteq 1..games[q] /\ batch[q] \subseteq 1..games[q]
    BY DEF Measured, OnlyListed, Inductive, Closed, OnlyJobsAreImported
  <2> QED BY <2>2, <2>3, FS_Subset
<1> QED BY <1>1, MeasuredInit, MeasuredStep, PTL DEF Spec

LEMMA OneFewer ==
  ASSUME NEW S \in SomeGames, NEW q \in Queues, NEW n \in S[q]
  PROVE  /\ Fewer(Remove(S, q, n), S)
         /\ Fewer(NoGames, S)
<1>1. n \in Nat
  BY DEF SomeGames
<1>2. Remove(S, q, n)[q] # S[q] /\ NoGames[q] # S[q]
  BY <1>1, OneMoreOrLess, LeftEmpty
<1> QED BY <1>1, <1>2, OneMoves, LeftEmpty DEF Fewer

LEMMA DiscoverRunsDown == ASSUME Measured, Discover PROVE RunsDown
<1> USE DEF Measured, Inductive, At, Goto, RunsDown, Ahead
<1>1. CASE ReadKnown
  BY <1>1 DEF ReadKnown
<1>2. CASE TurnPage
  <2>1. fetched \in Nat /\ Count \in Nat /\ 0 < Count
    BY DiscoveryAssumption DEF DiscoveryAssumption, Count, TypeOK
  <2> QED BY <1>2, <2>1 DEF TurnPage, GoesOn
<1>3. CASE EndQueue
  <2>1. CASE queue = NQueues
    BY <1>3, <2>1 DEF EndQueue
  <2>2. CASE queue # NQueues
    <3>1. queue < queue' /\ queue' <= NQueues
      BY <1>3, <2>2, DiscoveryAssumption DEF DiscoveryAssumption, EndQueue, TypeOK, Queues
    <3> QED BY <1>3, <2>2, <3>1 DEF EndQueue
  <2> QED BY <2>1, <2>2
<1>4. CASE DiscoveryFails
  BY <1>4 DEF DiscoveryFails, LeaveSync
<1> QED BY <1>1, <1>2, <1>3, <1>4 DEF Discover

LEMMA EnqueueRunsDown == ASSUME Measured, Enqueue PROVE RunsDown
<1> USE DEF At, Goto, RunsDown, Ahead
<1>1. CASE StopQueueing \/ EndQueueing
  BY <1>1 DEF StopQueueing, EndQueueing
<1>2. ASSUME NEW p \in Queues, NEW n \in todo[p], QueueImportJob(p, n) \/ QueueError(p, n)
      PROVE  RunsDown
  <2>1. todo \in SomeGames
    BY DEF Measured, Inductive, TypeOK
  <2> QED BY <1>2, <2>1, OneFewer DEF QueueImportJob, QueueError
<1> QED BY <1>1, <1>2 DEF Enqueue

LEMMA TryBatchRunsDown == ASSUME Measured, TryBatch PROVE RunsDown
<1> USE DEF At, Goto, RunsDown, Ahead
<1>1. CASE LoadBatch \/ LoadFails \/ StopBatch \/ EndBatch
  BY <1>1 DEF LoadBatch, LoadFails, StopBatch, EndBatch
<1>2. ASSUME NEW p \in Queues, NEW n \in batch[p], Import(p, n) \/ ImportFails(p, n)
      PROVE  RunsDown
  <2>1. batch \in SomeGames
    BY DEF Measured, Inductive, TypeOK
  <2>2. batch' = Remove(batch, p, n) \/ batch' = NoGames
    BY <1>2 DEF Import, ImportFails
  <2>3. pc' = pc /\ pc = "batch"
    BY <1>2 DEF Import, ImportFails
  <2> QED BY <2>1, <2>2, <2>3, OneFewer
<1> QED BY <1>1, <1>2 DEF TryBatch

(* Every step of a sync makes its measure less, and nothing that happens   *)
(* around it makes it more: paging, queueing and the batch come to an end  *)
(* however many games are played meanwhile.                                *)
THEOREM RunningDown == Spec => SyncRunsDown
<1>1. Measured /\ [Next]_vars =>
        [Running => RunsDown \/ (World /\ UNCHANGED <<pc, queue, fetched, todo, batch>>)]_vars
  <2> SUFFICES ASSUME Measured, Next, Running
               PROVE  RunsDown \/ (World /\ UNCHANGED <<pc, queue, fetched, todo, batch>>)
    OBVIOUS
  <2>1. CASE Begin
    BY <2>1 DEF Begin, Running, At
  <2>2. CASE Discover \/ Enqueue \/ TryBatch
    BY <2>2, DiscoverRunsDown, EnqueueRunsDown, TryBatchRunsDown
  <2>3. CASE Finish \/ FinishFails
    BY <2>3 DEF Finish, FinishFails, LeaveSync, At, Goto, RunsDown, Ahead
  <2>4. CASE Crash
    BY <2>4 DEF Crash, LeaveSync, Running, At, Goto, RunsDown, Ahead, Measured, Inductive,
                TypeOK
  <2>5. CASE World /\ ~Crash
    BY <2>5 DEF World, ProfileFails, Cancel, PlayGame, RetryWindowOpens, Running, At,
                paging, work
  <2> QED BY <2>1, <2>2, <2>3, <2>4, <2>5 DEF Next, SyncStep
<1> QED BY <1>1, MeasuredInit, MeasuredStep, PTL DEF Spec, SyncRunsDown
==============================================================================
