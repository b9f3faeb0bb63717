--------------------------- MODULE TrainingBlocks ----------------------------
(***************************************************************************)
(* The training journal of one player: training blocks and their targets   *)
(* (store/training.go), the association of a match with a block and its    *)
(* target results (store/imports.go), and post-game reviews with check-ins *)
(* (store/reviews.go, web/handlers.go).                                    *)
(*                                                                         *)
(* Every store operation is one SQLite transaction on the only connection, *)
(* so one action each; one that returns an error changes nothing and is no *)
(* action.  Saving a review is two: the handler reads the match, and saves *)
(* what the form answered in a transaction of its own; blocks are created  *)
(* and activated and matches imported in between.                          *)
(*                                                                         *)
(* Abstractions:                                                           *)
(*  - a calendar day in the configured timezone is a number;               *)
(*  - a target is a member of AutoTargets (per-game automatic) or of       *)
(*    ManualTargets, and a row is identified by its block and its target;  *)
(*    rolling and success-rate targets are never evaluated by the code;    *)
(*  - a match is of a training queue: discovery asks Riot for no other;    *)
(*  - of a match's statistics only what targets read is kept: remake or    *)
(*    not, and the value of each metric.                                   *)
(***************************************************************************)
EXTENDS Integers

CONSTANTS
  Matches,        \* matches the player plays
  AutoTargets,    \* automatic target definitions
  ManualTargets,  \* manual target definitions
  Comparator,     \* Comparator[t]: how an automatic target compares
  Threshold,      \* Threshold[t]: with what
  Stats,          \* the statistics a match may be imported with
  Unavailable,    \* the value of a metric that cannot be computed
  NotImported,    \* the statistics of a match that is not in the store
  Handlers,       \* concurrent requests to save a review
  NoMatch,        \* what an idle handler saves a review of
  MaxBlocks,      \* bound on the blocks ever created
  MaxDay          \* bound on the days that pass

Comparators == {"<", "<=", ">", ">=", "="}

ASSUME TrainingAssumption ==
  /\ MaxBlocks \in Nat
  /\ MaxDay \in Nat \ {0}
  /\ AutoTargets \cap ManualTargets = {}
  /\ Comparator \in [AutoTargets -> Comparators]
  /\ Threshold \in [AutoTargets -> Int]
  /\ \A s \in Stats : /\ s.remake \in BOOLEAN
                      /\ s.metric \in [AutoTargets -> Int \cup {Unavailable}]
  /\ NotImported \notin Stats
  /\ NoMatch \notin Matches

Blocks  == 1..MaxBlocks
NoBlock == 0
Days    == 1..MaxDay
NoEnd   == 0              \* an open end, and the day of a match not yet played
Targets == AutoTargets \cup ManualTargets

Statuses     == {"none", "planned", "active", "completed"}
ResultStates == {"met", "missed", "unknown", "not_applicable"}
NoResult     == "none"

VARIABLES
  today,
  status, startDate, endDate, targets,  \* the blocks, by id
  gameDay,     \* gameDay[m]: the day m was played
  playedUnder, \* playedUnder[m]: the block in force when m was played (history)
  stats,       \* stats[m]: matches and player_match_stats
  assigned,    \* assigned[m]: match_training_blocks
  results,     \* results[b][m][t]: the current row of target_results
  reviewed,    \* matches with a finished review
  checkins,    \* checkins[m]: target_checkins rows of m
  reading,     \* reading[h]: the match whose review request h saves
  asked        \* asked[h]: the manual targets its form answered

blocks  == <<status, startDate, endDate, targets>>
journal == <<reviewed, checkins, reading, asked>>
vars    == <<today, status, startDate, endDate, targets, gameDay, playedUnder, stats,
             assigned, results, reviewed, checkins, reading, asked>>

Imported(m) == stats[m] # NotImported

Within(day, first, last) == first <= day /\ (last = NoEnd \/ day <= last)
Covers(b, day) == Within(day, startDate[b], endDate[b])

Active == {b \in Blocks : status[b] = "active"}

(* The check-in rows of a match of block b: its manual targets. *)
ManualRows(b) == IF b = NoBlock THEN {} ELSE {b} \X (targets[b] \cap ManualTargets)

(* What the schema enforces: one active block (a unique index), and no
   block that ends before it starts. *)
SchemaHolds ==
  /\ \A b, c \in Active : b = c
  /\ \A b \in Blocks : status[b] # "none" =>
       endDate[b] = NoEnd \/ startDate[b] <= endDate[b]

(* Types, and the constraints of migrations/001_initial.sql: no operation
   leans on the database to refuse what it computed. *)
TypeOK ==
  /\ today \in Days
  /\ status \in [Blocks -> Statuses]
  /\ startDate \in [Blocks -> Days]
  /\ endDate \in [Blocks -> Days \cup {NoEnd}]
  /\ targets \in [Blocks -> SUBSET Targets]
  /\ gameDay \in [Matches -> Days \cup {NoEnd}]
  /\ playedUnder \in [Matches -> Blocks \cup {NoBlock}]
  /\ stats \in [Matches -> Stats \cup {NotImported}]
  /\ assigned \in [Matches -> Blocks \cup {NoBlock}]
  /\ results \in [Blocks -> [Matches -> [AutoTargets -> ResultStates \cup {NoResult}]]]
  /\ reviewed \in SUBSET Matches
  /\ checkins \in [Matches -> SUBSET (Blocks \X ManualTargets)]
  /\ reading \in [Handlers -> Matches \cup {NoMatch}]
  /\ asked \in [Handlers -> SUBSET (Blocks \X ManualTargets)]
  /\ SchemaHolds

Init ==
  /\ today = 1
  /\ status = [b \in Blocks |-> "none"]
  /\ startDate = [b \in Blocks |-> 1]
  /\ endDate = [b \in Blocks |-> NoEnd]
  /\ targets = [b \in Blocks |-> {}]
  /\ gameDay = [m \in Matches |-> NoEnd]
  /\ playedUnder = [m \in Matches |-> NoBlock]
  /\ stats = [m \in Matches |-> NotImported]
  /\ assigned = [m \in Matches |-> NoBlock]
  /\ results = [b \in Blocks |-> [m \in Matches |-> [t \in AutoTargets |-> NoResult]]]
  /\ reviewed = {}
  /\ checkins = [m \in Matches |-> {}]
  /\ reading = [h \in Handlers |-> NoMatch]
  /\ asked = [h \in Handlers |-> {}]

-----------------------------------------------------------------------------
(* Target results. *)

CompareMetric(actual, comparator, threshold) ==
  \/ comparator = "<"  /\ actual < threshold
  \/ comparator = "<=" /\ actual <= threshold
  \/ comparator = ">"  /\ actual > threshold
  \/ comparator = ">=" /\ actual >= threshold
  \/ comparator = "="  /\ actual = threshold

Evaluate(t, s) ==
  CASE s.remake -> "not_applicable"
    [] ~s.remake /\ s.metric[t] = Unavailable -> "unknown"
    [] OTHER -> IF CompareMetric(s.metric[t], Comparator[t], Threshold[t])
                THEN "met" ELSE "missed"

(* recomputeBlockTargetResults: upserts the rows of one block, given its
   targets, the assignments and the statistics of the transaction. *)
Recompute(b, aims, assignment, statistics) ==
  [c \in Blocks |-> [m \in Matches |-> [t \in AutoTargets |->
     IF c = b /\ assignment[m] = b /\ t \in aims
     THEN Evaluate(t, statistics[m])
     ELSE results[c][m][t]]]]

-----------------------------------------------------------------------------
(* Blocks. *)

NextId(b) == status[b] = "none" /\ \A c \in Blocks : c < b => status[c] # "none"

ValidDates(first, last) == last = NoEnd \/ first <= last

(* POST /training without "activate": a planned block. *)
CreateTrainingBlock(b, first, last, aims) ==
  /\ NextId(b)
  /\ ValidDates(first, last)
  /\ status' = [status EXCEPT ![b] = "planned"]
  /\ startDate' = [startDate EXCEPT ![b] = first]
  /\ endDate' = [endDate EXCEPT ![b] = last]
  /\ targets' = [targets EXCEPT ![b] = aims]
  /\ UNCHANGED <<today, gameDay, playedUnder, stats, assigned, results, journal>>

(* Mutant: the active block is not completed. *)
ActivateBesides(b, replace, first, last, aims) ==
  /\ Within(today, first, last)
  /\ aims # {}
  /\ Active = {} \/ replace
  /\ status' = [status EXCEPT ![b] = "active"]
  /\ startDate' = [startDate EXCEPT ![b] = first]
  /\ endDate' = [endDate EXCEPT ![b] = last]
  /\ targets' = [targets EXCEPT ![b] = aims]
  /\ UNCHANGED <<assigned, results>>

(* activateTrainingBlockTx, for a planned block with these dates and
   targets: needs a target, a day within its dates, and no other active
   block or the wish to replace it.  The replaced block is completed as of
   today, and every imported match of the period that has no block is
   assigned. *)
Activate(b, replace, first, last, aims) ==
  /\ Within(today, first, last)
  /\ aims # {}
  /\ Active = {} \/ replace
  /\ status' = [c \in Blocks |-> IF c = b THEN "active"
                                 ELSE IF c \in Active THEN "completed" ELSE status[c]]
  /\ startDate' = [startDate EXCEPT ![b] = first]
  /\ endDate' = [c \in Blocks |-> IF c = b THEN last
                                  ELSE IF c \in Active THEN today ELSE endDate[c]]
  /\ targets' = [targets EXCEPT ![b] = aims]
  /\ assigned' = [m \in Matches |->
                    IF assigned[m] = NoBlock /\ Imported(m) /\ Within(gameDay[m], first, last)
                    THEN b ELSE assigned[m]]
  /\ results' = Recompute(b, aims, assigned', stats)

(* Mutant: a completed block can be activated again. *)
ReactivateTrainingBlock(b, replace) ==
  /\ status[b] \in {"planned", "completed"}
  /\ Activate(b, replace, startDate[b], endDate[b], targets[b])
  /\ UNCHANGED <<today, gameDay, playedUnder, stats, journal>>

(* POST /training/{id}/activate *)
ActivateTrainingBlock(b, replace) ==
  /\ status[b] = "planned"
  /\ Activate(b, replace, startDate[b], endDate[b], targets[b])
  /\ UNCHANGED <<today, gameDay, playedUnder, stats, journal>>

(* POST /training with "activate": both in one transaction. *)
CreateAndActivateTrainingBlock(b, first, last, aims, replace) ==
  /\ NextId(b)
  /\ ValidDates(first, last)
  /\ Activate(b, replace, first, last, aims)
  /\ UNCHANGED <<today, gameDay, playedUnder, stats, journal>>

-----------------------------------------------------------------------------
(* Matches. *)

(* The player plays m; history notes the active block if m is within it. *)
PlayGame(m) ==
  /\ gameDay[m] = NoEnd
  /\ gameDay' = [gameDay EXCEPT ![m] = today]
  /\ \E b \in {c \in Active : Covers(c, today)} \cup {NoBlock} :
       /\ b = NoBlock => ~\E c \in Active : Covers(c, today)
       /\ playedUnder' = [playedUnder EXCEPT ![m] = b]
  /\ UNCHANGED <<today, blocks, stats, assigned, results, journal>>

(* Mutant: the end date of a block is left out of the query. *)
CandidatesUnbounded(m) ==
  {b \in Blocks : status[b] \in {"active", "completed"} /\ startDate[b] <= gameDay[m]}

(* Mutant: the day a block ends no longer belongs to it. *)
CandidatesExclusive(m) ==
  {b \in Blocks : /\ status[b] \in {"active", "completed"}
                  /\ startDate[b] <= gameDay[m]
                  /\ endDate[b] = NoEnd \/ gameDay[m] < endDate[b]}

(* The blocks an imported match may join: active or completed ones whose
   dates contain the day of the game. *)
Candidates(m) ==
  {b \in Blocks : status[b] \in {"active", "completed"} /\ Covers(b, gameDay[m])}

(* The order the query sorts them in: the active one, the one that started
   last, the one created last. *)
Precedes(b, c) ==
  \/ status[b] = "active" /\ status[c] # "active"
  \/ /\ status[b] = "active" <=> status[c] = "active"
     /\ \/ startDate[b] > startDate[c]
        \/ startDate[b] = startDate[c] /\ b > c

First(m, b) == b \in Candidates(m) /\ \A c \in Candidates(m) \ {b} : Precedes(b, c)

(* Mutant: ON CONFLICT DO UPDATE, a later import moves the match. *)
ReassignImportedMatch(m) ==
  \/ /\ Candidates(m) = {}
     /\ UNCHANGED assigned
  \/ \E b \in Blocks : First(m, b) /\ assigned' = [assigned EXCEPT ![m] = b]

(* assignImportedMatchTx: the first candidate, unless m has a block. *)
AssignImportedMatch(m) ==
  \/ /\ assigned[m] # NoBlock \/ Candidates(m) = {}
     /\ UNCHANGED assigned
  \/ /\ assigned[m] = NoBlock
     /\ \E b \in Blocks : First(m, b) /\ assigned' = [assigned EXCEPT ![m] = b]

(* Mutant: results are computed only when the match joins a block. *)
ImportOnceEvaluated(m, s) ==
  /\ gameDay[m] # NoEnd
  /\ stats' = [stats EXCEPT ![m] = s]
  /\ AssignImportedMatch(m)
  /\ results' = IF assigned' = assigned THEN results
                ELSE Recompute(assigned'[m], targets[assigned'[m]], assigned', stats')
  /\ UNCHANGED <<today, blocks, gameDay, playedUnder, journal>>

(* UpsertImportedMatch, first or repeated, with the same or with corrected
   statistics: the match joins a block and the block's results are
   evaluated again. *)
UpsertImportedMatch(m, s) ==
  /\ gameDay[m] # NoEnd
  /\ stats' = [stats EXCEPT ![m] = s]
  /\ AssignImportedMatch(m)
  /\ results' = IF assigned'[m] = NoBlock THEN results
                ELSE Recompute(assigned'[m], targets[assigned'[m]], assigned', stats')
  /\ UNCHANGED <<today, blocks, gameDay, playedUnder, journal>>

-----------------------------------------------------------------------------
(* Reviews. *)

(* saveReview reads the match with its block's manual targets, refuses a
   remake, and refuses a form that leaves one of them unanswered.  (The
   match row and the targets are two queries; the targets of a block with
   a match are locked, so the first decides the outcome of both.) *)
OpenReview(h, m) ==
  /\ reading[h] = NoMatch
  /\ Imported(m) /\ ~stats[m].remake
  /\ reading' = [reading EXCEPT ![h] = m]
  /\ asked' = [asked EXCEPT ![h] = ManualRows(assigned[m])]
  /\ UNCHANGED <<today, blocks, gameDay, playedUnder, stats, assigned, results, reviewed,
                 checkins>>

(* UpsertReview: every check-in must be of a manual target of the block the
   match has now, or nothing is saved. *)
UpsertReview(h) ==
  /\ reading[h] # NoMatch
  /\ IF asked[h] \subseteq ManualRows(assigned[reading[h]])
     THEN /\ reviewed' = reviewed \cup {reading[h]}
          /\ checkins' = [checkins EXCEPT ![reading[h]] = @ \cup asked[h]]
     ELSE UNCHANGED <<reviewed, checkins>>
  /\ reading' = [reading EXCEPT ![h] = NoMatch]
  /\ asked' = [asked EXCEPT ![h] = {}]
  /\ UNCHANGED <<today, blocks, gameDay, playedUnder, stats, assigned, results>>

NextDay ==
  /\ today < MaxDay
  /\ today' = today + 1
  /\ UNCHANGED <<blocks, gameDay, playedUnder, stats, assigned, results, journal>>

Next ==
  \/ \E b \in Blocks, first \in Days, last \in Days \cup {NoEnd}, aims \in SUBSET Targets :
       \/ CreateTrainingBlock(b, first, last, aims)
       \/ \E replace \in BOOLEAN :
            CreateAndActivateTrainingBlock(b, first, last, aims, replace)
  \/ \E b \in Blocks, replace \in BOOLEAN : ActivateTrainingBlock(b, replace)
  \/ \E m \in Matches : PlayGame(m)
  \/ \E m \in Matches, s \in Stats : UpsertImportedMatch(m, s)
  \/ \E h \in Handlers, m \in Matches : OpenReview(h, m)
  \/ \E h \in Handlers : UpsertReview(h)
  \/ NextDay

Spec == Init /\ [][Next]_vars

-----------------------------------------------------------------------------
(* Every match of a block has the result of each of its automatic targets
   as its present statistics give it, and there is no other result: however
   assignments, corrections and activations interleave
   (recomputeBlockTargetResults runs in every transaction that needs it). *)
ResultsAreCurrent ==
  \A b \in Blocks, m \in Matches, t \in AutoTargets :
    results[b][m][t] =
      IF assigned[m] = b /\ t \in targets[b] THEN Evaluate(t, stats[m]) ELSE NoResult

(* A match counts only for a block whose dates contain the day it was
   played, also after the block was cut short (or its end moved) when
   another replaced it: activateTrainingBlockTx, assignImportedMatchTx. *)
AssignedInsideBlock ==
  \A m \in Matches : assigned[m] # NoBlock =>
    /\ status[assigned[m]] \in {"active", "completed"}
    /\ Covers(assigned[m], gameDay[m])

(* The active block misses no game of its period: whichever came first, the
   import of the match or the activation, the match has a block. *)
ActiveBlockHasItsMatches ==
  \A b \in Active, m \in Matches :
    Imported(m) /\ Covers(b, gameDay[m]) => assigned[m] # NoBlock

(* A review answers all the manual targets of the block of its match or,
   when the form was read before the match had a block, none: the targets
   the form asked for are still those of the block when it is saved. *)
CheckinsAreWhole ==
  \A m \in Matches : checkins[m] # {} => checkins[m] = ManualRows(assigned[m])

KeepsHistory ==
  /\ \A m \in Matches : assigned[m] # NoBlock => assigned'[m] = assigned[m]
  /\ \A b \in Blocks :
       /\ status[b] = "completed" => status'[b] = "completed" /\ endDate'[b] = endDate[b]
       /\ status[b] \in {"active", "completed"} =>
            startDate'[b] = startDate[b] /\ targets'[b] = targets[b]

(* History is final: a match never moves to another block, a completed
   block never changes again, and the targets of a block are those it was
   activated with: activateTrainingBlockTx, assignImportedMatchTx. *)
HistoryIsFinal == [][KeepsHistory]_vars

(* TECHNICAL_PLAN.md: "Associate the match to the training block active at
   game time".  The code does not: a match imported after a new block with
   an overlapping period replaced that one goes to the new block. *)
MatchKeepsItsFocus ==
  \A m \in Matches : assigned[m] # NoBlock /\ playedUnder[m] # NoBlock =>
                       assigned[m] = playedUnder[m]
=============================================================================
