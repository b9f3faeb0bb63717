------------------------ MODULE TrainingBlocksProofs -------------------------
(***************************************************************************)
(* Theorems about TrainingBlocks for any matches, targets and statistics,  *)
(* any number of blocks, days and concurrent review requests.              *)
(*                                                                         *)
(* The argument: a block gets matches only once it is active, and from     *)
(* then on neither its targets nor its start change (HistoryIsFinal), so   *)
(* what a transaction computes of it stays true; a match of a block is     *)
(* imported and was played by now (Past), so it stays inside a block that  *)
(* is cut short today; and the form of a review that asked for check-ins   *)
(* read a match that already had its block for good (FormIsOfTheBlock).    *)
(***************************************************************************)
EXTENDS TrainingBlocks, TLAPS

(* Nothing is of the future, and only imported matches have a block. *)
Past ==
  /\ \A m \in Matches : /\ gameDay[m] <= today
                        /\ Imported(m) => gameDay[m] # NoEnd
                        /\ assigned[m] # NoBlock => Imported(m)
  /\ \A b \in Blocks : status[b] \in {"active", "completed"} => startDate[b] <= today

(* A form that asked for check-ins asked for those of the match's block. *)
FormIsOfTheBlock ==
  \A h \in Handlers : asked[h] # {} =>
    /\ reading[h] # NoMatch
    /\ asked[h] = ManualRows(assigned[reading[h]])

Inductive ==
  /\ TypeOK
  /\ Past
  /\ AssignedInsideBlock
  /\ ActiveBlockHasItsMatches
  /\ ResultsAreCurrent
  /\ FormIsOfTheBlock
  /\ CheckinsAreWhole

-----------------------------------------------------------------------------
(* What an action may assume and need not repeat. *)

LEMMA EvaluateType ==
  ASSUME NEW t \in AutoTargets, NEW s \in Stats
  PROVE  Evaluate(t, s) \in ResultStates
<1>1. s.remake \in BOOLEAN
  BY TrainingAssumption DEF TrainingAssumption
<1> QED BY <1>1 DEF Evaluate, ResultStates

(* What activating b does, whoever calls it. *)
LEMMA ActivateStep ==
  ASSUME Inductive, NEW b \in Blocks, NEW replace \in BOOLEAN,
         NEW first \in Days, NEW last \in Days \cup {NoEnd}, NEW aims \in SUBSET Targets,
         status[b] \in {"none", "planned"}, ValidDates(first, last),
         Activate(b, replace, first, last, aims),
         UNCHANGED <<today, gameDay, playedUnder, stats, journal>>
  PROVE  Inductive' /\ KeepsHistory
<1> USE DEF Inductive, Activate, journal
<1>1. /\ Blocks \subseteq Int /\ Days \subseteq Int /\ NoBlock \notin Blocks
      /\ NoEnd = 0 /\ today \in Days
  BY TrainingAssumption DEF TrainingAssumption, Blocks, Days, NoBlock, NoEnd, TypeOK
<1>2. \A m \in Matches : assigned[m] # b
  BY <1>1 DEF AssignedInsideBlock
<1>3. \A m \in Matches : assigned'[m] = assigned[m] \/
        (/\ assigned[m] = NoBlock /\ assigned'[m] = b
         /\ Imported(m) /\ Within(gameDay[m], first, last))
  OBVIOUS
<1>4. \A c \in Blocks, m \in Matches, t \in AutoTargets :
        results'[c][m][t] = IF c = b /\ assigned'[m] = b /\ t \in aims
                            THEN Evaluate(t, stats[m]) ELSE results[c][m][t]
  BY DEF Recompute
<1>5. TypeOK'
  <2>1. status' \in [Blocks -> Statuses]
    BY DEF TypeOK, Statuses, Active
  <2>2. endDate' \in [Blocks -> Days \cup {NoEnd}]
    BY DEF TypeOK
  <2>3. /\ startDate' \in [Blocks -> Days]
        /\ targets' \in [Blocks -> SUBSET Targets]
        /\ assigned' \in [Matches -> Blocks \cup {NoBlock}]
    BY DEF TypeOK
  <2>4. results' \in [Blocks -> [Matches -> [AutoTargets -> ResultStates \cup {NoResult}]]]
    <3>1. ASSUME NEW c \in Blocks, NEW m \in Matches, NEW t \in AutoTargets
          PROVE  results'[c][m][t] \in ResultStates \cup {NoResult}
      <4>1. CASE c = b /\ assigned'[m] = b /\ t \in aims
        <5>1. stats[m] \in Stats
          BY <1>2, <1>3, <4>1 DEF TypeOK, Imported
        <5>2. Evaluate(t, stats[m]) \in ResultStates
          BY <5>1, EvaluateType
        <5>3. results'[c][m][t] = Evaluate(t, stats[m])
          BY <1>4, <4>1
        <5> QED BY <5>2, <5>3
      <4>2. CASE ~(c = b /\ assigned'[m] = b /\ t \in aims)
        <5>1. results'[c][m][t] = results[c][m][t]
          BY <1>4, <4>2
        <5>2. results[c][m][t] \in ResultStates \cup {NoResult}
          BY DEF TypeOK
        <5> QED BY <5>1, <5>2
      <4> QED BY <4>1, <4>2
    <3> QED BY <3>1 DEF Recompute
  <2>5. SchemaHolds'
    <3>1. \A c \in Blocks : status'[c] = "active" <=> c = b
      BY DEF TypeOK, Active
    <3>2. ASSUME NEW c \in Blocks, status'[c] # "none"
          PROVE  endDate'[c] = NoEnd \/ startDate'[c] <= endDate'[c]
      BY <1>1, <3>2 DEF TypeOK, SchemaHolds, Active, ValidDates, Past
    <3> QED BY <3>1, <3>2 DEF SchemaHolds, Active
  <2> QED BY <2>1, <2>2, <2>3, <2>4, <2>5 DEF TypeOK
<1>6. Past'
  BY <1>1, <1>3 DEF Past, TypeOK, Imported, Within, Active
<1>7. AssignedInsideBlock'
  <2> SUFFICES ASSUME NEW m \in Matches, assigned'[m] # NoBlock
               PROVE  /\ status'[assigned'[m]] \in {"active", "completed"}
                      /\ Within(gameDay[m], startDate'[assigned'[m]], endDate'[assigned'[m]])
    BY DEF AssignedInsideBlock, Covers
  <2>1. CASE assigned'[m] = b
    BY <1>2, <1>3, <2>1 DEF TypeOK
  <2>2. CASE assigned'[m] # b
    <3>1. assigned'[m] = assigned[m] /\ assigned[m] \in Blocks /\ assigned[m] # b
      BY <1>3, <2>2 DEF TypeOK
    <3>2. status[assigned[m]] \in {"active", "completed"} /\ Covers(assigned[m], gameDay[m])
      BY <3>1 DEF AssignedInsideBlock
    <3> QED BY <1>1, <3>1, <3>2 DEF TypeOK, Covers, Within, Past, Active
  <2> QED BY <2>1, <2>2
<1>8. ActiveBlockHasItsMatches'
  BY <1>1 DEF ActiveBlockHasItsMatches, Active, Covers, TypeOK, Imported
<1>9. ResultsAreCurrent'
  <2> SUFFICES ASSUME NEW c \in Blocks, NEW m \in Matches, NEW t \in AutoTargets
               PROVE  results'[c][m][t] =
                        IF assigned'[m] = c /\ t \in targets'[c]
                        THEN Evaluate(t, stats[m]) ELSE NoResult
    BY DEF ResultsAreCurrent, Evaluate
  <2>1. results'[c][m][t] = IF c = b /\ assigned'[m] = b /\ t \in aims
                            THEN Evaluate(t, stats[m]) ELSE results[c][m][t]
    BY <1>4
  <2>2. results[c][m][t] = IF assigned[m] = c /\ t \in targets[c]
                           THEN Evaluate(t, stats[m]) ELSE NoResult
    BY DEF ResultsAreCurrent
  <2>3. targets'[c] = IF c = b THEN aims ELSE targets[c]
    BY DEF TypeOK
  <2>4. CASE c = b
    BY <1>2, <2>1, <2>2, <2>3, <2>4
  <2>5. CASE c # b
    <3>1. assigned'[m] = c <=> assigned[m] = c
      BY <1>1, <1>3, <2>5
    <3> QED BY <2>1, <2>2, <2>3, <2>5, <3>1
  <2> QED BY <2>4, <2>5
<1>10. \A m \in Matches : assigned[m] # NoBlock =>
         assigned'[m] = assigned[m] /\ ManualRows(assigned[m])' = ManualRows(assigned[m])
  BY <1>2, <1>3 DEF ManualRows, TypeOK
<1>11. ManualRows(NoBlock) = {}
  BY DEF ManualRows
<1>12. FormIsOfTheBlock' /\ CheckinsAreWhole'
  BY <1>10, <1>11 DEF FormIsOfTheBlock, CheckinsAreWhole, TypeOK
<1>13. KeepsHistory
  BY <1>3 DEF KeepsHistory, TypeOK, Active
<1> QED BY <1>5, <1>6, <1>7, <1>8, <1>9, <1>12, <1>13

LEMMA CreateStep ==
  ASSUME Inductive, NEW b \in Blocks, NEW first \in Days, NEW last \in Days \cup {NoEnd},
         NEW aims \in SUBSET Targets, CreateTrainingBlock(b, first, last, aims)
  PROVE  Inductive' /\ KeepsHistory
<1> USE DEF Inductive, CreateTrainingBlock, NextId, journal
<1>1. Blocks \subseteq Int /\ Days \subseteq Int /\ NoBlock \notin Blocks
  BY TrainingAssumption DEF TrainingAssumption, Blocks, Days, NoBlock
<1>2. \A m \in Matches : assigned[m] # b
  BY <1>1 DEF AssignedInsideBlock
<1>3. \A c \in Blocks : c # b =>
        /\ status'[c] = status[c] /\ startDate'[c] = startDate[c]
        /\ endDate'[c] = endDate[c] /\ targets'[c] = targets[c]
  BY DEF TypeOK
<1>4. /\ status'[b] = "planned" /\ startDate'[b] = first
      /\ endDate'[b] = last /\ targets'[b] = aims
  BY DEF TypeOK
<1>5. TypeOK'
  <2>1. SchemaHolds'
    BY <1>1, <1>3, <1>4 DEF TypeOK, SchemaHolds, Active, ValidDates
  <2> QED BY <2>1 DEF TypeOK, Statuses
<1>6. Past' /\ AssignedInsideBlock' /\ ActiveBlockHasItsMatches'
  BY <1>1, <1>2, <1>3, <1>4
  DEF TypeOK, Past, AssignedInsideBlock, ActiveBlockHasItsMatches, Active, Covers, Imported
<1>7. ResultsAreCurrent'
  BY <1>2, <1>3 DEF ResultsAreCurrent, Evaluate
<1>8. \A m \in Matches : assigned'[m] = assigned[m] /\
        ManualRows(assigned[m])' = ManualRows(assigned[m])
  BY <1>2, <1>3 DEF ManualRows, TypeOK
<1>9. FormIsOfTheBlock' /\ CheckinsAreWhole'
  BY <1>8 DEF FormIsOfTheBlock, CheckinsAreWhole, TypeOK
<1>10. KeepsHistory
  BY <1>3 DEF KeepsHistory
<1> QED BY <1>5, <1>6, <1>7, <1>9, <1>10

LEMMA ImportStep ==
  ASSUME Inductive, NEW m \in Matches, NEW s \in Stats, UpsertImportedMatch(m, s)
  PROVE  Inductive' /\ KeepsHistory
<1> USE DEF Inductive, UpsertImportedMatch, blocks, journal
<1>1. Blocks \subseteq Int /\ Days \subseteq Int /\ NoBlock \notin Blocks
  BY TrainingAssumption DEF TrainingAssumption, Blocks, Days, NoBlock
<1>2. /\ assigned' \in [Matches -> Blocks \cup {NoBlock}]
      /\ \A n \in Matches \ {m} : assigned'[n] = assigned[n]
      /\ assigned[m] # NoBlock => assigned'[m] = assigned[m]
      /\ assigned'[m] # assigned[m] => assigned'[m] \in Candidates(m)
      /\ Candidates(m) # {} => assigned'[m] # NoBlock
  <2>1. CASE assigned' = assigned /\ (assigned[m] # NoBlock \/ Candidates(m) = {})
    BY <2>1 DEF TypeOK
  <2>2. CASE assigned[m] = NoBlock /\ \E b \in Blocks :
               First(m, b) /\ assigned' = [assigned EXCEPT ![m] = b]
    <3>1. PICK b \in Blocks : First(m, b) /\ assigned' = [assigned EXCEPT ![m] = b]
      BY <2>2
    <3>2. b \in Candidates(m)
      BY <3>1 DEF First
    <3>3. b # NoBlock
      BY <1>1
    <3>4. assigned'[m] = b /\ \A n \in Matches \ {m} : assigned'[n] = assigned[n]
      BY <3>1 DEF TypeOK
    <3>5. assigned' \in [Matches -> Blocks \cup {NoBlock}]
      BY <3>1 DEF TypeOK
    <3> QED BY <2>2, <3>2, <3>3, <3>4, <3>5
  <2> QED BY <2>1, <2>2 DEF AssignImportedMatch
<1>3. /\ stats' \in [Matches -> Stats \cup {NotImported}]
      /\ stats'[m] = s /\ s # NotImported
      /\ \A n \in Matches \ {m} : stats'[n] = stats[n]
  BY TrainingAssumption DEF TrainingAssumption, TypeOK
<1>4. \A c \in Blocks, n \in Matches, t \in AutoTargets :
        results'[c][n][t] = IF /\ assigned'[m] # NoBlock
                               /\ c = assigned'[m] /\ assigned'[n] = assigned'[m]
                               /\ t \in targets[assigned'[m]]
                            THEN Evaluate(t, stats'[n]) ELSE results[c][n][t]
  BY DEF Recompute
<1>5. Past'
  BY <1>2, <1>3 DEF Past, Imported, Candidates
<1>6. AssignedInsideBlock'
  BY <1>1, <1>2 DEF AssignedInsideBlock, Covers, Candidates
<1>7. TypeOK'
  <2>1. ASSUME NEW c \in Blocks, NEW n \in Matches, NEW t \in AutoTargets
        PROVE  results'[c][n][t] \in ResultStates \cup {NoResult}
    <3>1. assigned'[n] # NoBlock => stats'[n] \in Stats
      BY <1>3, <1>5 DEF Past, Imported
    <3>2. assigned'[n] # NoBlock => Evaluate(t, stats'[n]) \in ResultStates
      BY <3>1, EvaluateType
    <3>3. results[c][n][t] \in ResultStates \cup {NoResult}
      BY DEF TypeOK
    <3> QED BY <1>4, <3>2, <3>3
  <2>2. results' \in [Blocks -> [Matches -> [AutoTargets -> ResultStates \cup {NoResult}]]]
    BY <2>1 DEF Recompute, TypeOK
  <2> QED BY <1>2, <1>3, <2>2 DEF TypeOK, SchemaHolds, Active
<1>8. ActiveBlockHasItsMatches'
  <2> SUFFICES ASSUME NEW b \in Blocks, NEW n \in Matches, status[b] = "active",
                      Imported(n)', Covers(b, gameDay[n])
               PROVE  assigned'[n] # NoBlock
    BY DEF ActiveBlockHasItsMatches, Active, Covers
  <2>1. CASE n = m
    BY <1>2, <2>1 DEF Candidates
  <2>2. CASE n # m
    BY <1>2, <1>3, <2>2 DEF ActiveBlockHasItsMatches, Active, Imported
  <2> QED BY <2>1, <2>2
<1>9. ResultsAreCurrent'
  <2> SUFFICES ASSUME NEW c \in Blocks, NEW n \in Matches, NEW t \in AutoTargets
               PROVE  results'[c][n][t] =
                        IF assigned'[n] = c /\ t \in targets[c]
                        THEN Evaluate(t, stats'[n]) ELSE NoResult
    BY DEF ResultsAreCurrent, Evaluate
  <2>1. results'[c][n][t] =
          IF /\ assigned'[m] # NoBlock /\ c = assigned'[m] /\ assigned'[n] = assigned'[m]
             /\ t \in targets[assigned'[m]]
          THEN Evaluate(t, stats'[n]) ELSE results[c][n][t]
    BY <1>4
  <2>2. results[c][n][t] = IF assigned[n] = c /\ t \in targets[c]
                           THEN Evaluate(t, stats[n]) ELSE NoResult
    BY DEF ResultsAreCurrent
  <2>3. CASE n = m
    BY <1>1, <1>2, <2>1, <2>2, <2>3
  <2>4. CASE n # m
    BY <1>1, <1>2, <1>3, <2>1, <2>2, <2>4
  <2> QED BY <2>3, <2>4
<1>10. \A n \in Matches : assigned[n] # NoBlock => assigned'[n] = assigned[n]
  BY <1>2
<1>11. ManualRows(NoBlock) = {} /\ \A c : ManualRows(c)' = ManualRows(c)
  BY DEF ManualRows
<1>12. FormIsOfTheBlock' /\ CheckinsAreWhole'
  BY <1>10, <1>11 DEF FormIsOfTheBlock, CheckinsAreWhole, TypeOK, ManualRows
<1>13. KeepsHistory
  BY <1>10 DEF KeepsHistory
<1> QED BY <1>5, <1>6, <1>7, <1>8, <1>9, <1>12, <1>13

(* Steps that touch neither blocks nor matches keep what is said of them. *)
LEMMA SameResults ==
  ASSUME ResultsAreCurrent, UNCHANGED <<blocks, assigned, stats, results>>
  PROVE  ResultsAreCurrent'
<1> SUFFICES ASSUME NEW c \in Blocks, NEW m \in Matches, NEW t \in AutoTargets
             PROVE  results'[c][m][t] =
                      IF assigned'[m] = c /\ t \in targets'[c]
                      THEN Evaluate(t, stats'[m]) ELSE NoResult
  BY DEF ResultsAreCurrent, Evaluate
<1> QED BY DEF ResultsAreCurrent, blocks

LEMMA SameHistory ==
  ASSUME UNCHANGED <<blocks, assigned>>
  PROVE  KeepsHistory
BY DEF KeepsHistory, blocks

LEMMA SameForms ==
  ASSUME CheckinsAreWhole, FormIsOfTheBlock, UNCHANGED <<blocks, assigned, journal>>
  PROVE  CheckinsAreWhole' /\ FormIsOfTheBlock'
<1>1. \A c : ManualRows(c)' = ManualRows(c)
  BY DEF ManualRows, blocks
<1> QED BY <1>1 DEF CheckinsAreWhole, FormIsOfTheBlock, blocks, journal, ManualRows

LEMMA SameAssignments ==
  ASSUME AssignedInsideBlock, ActiveBlockHasItsMatches,
         UNCHANGED <<blocks, assigned, stats, gameDay>>
  PROVE  AssignedInsideBlock' /\ ActiveBlockHasItsMatches'
BY DEF AssignedInsideBlock, ActiveBlockHasItsMatches, Active, Covers, Imported, blocks

(* Reviews, games and days leave blocks, assignments and results alone. *)
LEMMA OtherStep ==
  ASSUME Inductive,
         \/ \E m \in Matches : PlayGame(m)
         \/ \E h \in Handlers, m \in Matches : OpenReview(h, m)
         \/ \E h \in Handlers : UpsertReview(h)
         \/ NextDay
         \/ UNCHANGED vars
  PROVE  Inductive' /\ KeepsHistory
<1> USE DEF Inductive, blocks, journal
<1>1. Blocks \subseteq Int /\ Days \subseteq Int /\ NoBlock \notin Blocks
  BY TrainingAssumption DEF TrainingAssumption, Blocks, Days, NoBlock
<1>2. ASSUME NEW m \in Matches, PlayGame(m) PROVE Inductive' /\ KeepsHistory
  <2> USE <1>2 DEF PlayGame
  <2>1. \A n \in Matches : n # m => gameDay'[n] = gameDay[n]
    BY DEF TypeOK
  <2>2. gameDay'[m] = today /\ assigned[m] = NoBlock /\ ~Imported(m)
    BY DEF TypeOK, Past
  <2>3. TypeOK'
    BY DEF TypeOK, SchemaHolds, Active
  <2>4. Past' /\ AssignedInsideBlock' /\ ActiveBlockHasItsMatches'
    BY <1>1, <2>1, <2>2
    DEF TypeOK, Past, AssignedInsideBlock, ActiveBlockHasItsMatches, Active, Covers, Imported
  <2> QED BY <2>3, <2>4, SameResults, SameForms, SameHistory
<1>3. ASSUME NEW h \in Handlers, NEW m \in Matches, OpenReview(h, m)
      PROVE  Inductive' /\ KeepsHistory
  <2> USE <1>3 DEF OpenReview
  <2>1. ManualRows(assigned[m]) \subseteq Blocks \X ManualTargets
    BY DEF ManualRows, TypeOK
  <2>2. TypeOK'
    BY <2>1 DEF TypeOK, SchemaHolds, Active
  <2>3. FormIsOfTheBlock'
    BY TrainingAssumption DEF TrainingAssumption, FormIsOfTheBlock, ManualRows, TypeOK
  <2>4. Past' /\ CheckinsAreWhole'
    BY DEF Past, CheckinsAreWhole, Imported, ManualRows
  <2> QED BY <2>2, <2>3, <2>4, SameResults, SameAssignments, SameHistory
<1>4. ASSUME NEW h \in Handlers, UpsertReview(h) PROVE Inductive' /\ KeepsHistory
  <2> USE <1>4 DEF UpsertReview
  <2> DEFINE n == reading[h]
  <2>1. n \in Matches
    BY DEF TypeOK
  <2>2. \/ UNCHANGED <<reviewed, checkins>>
        \/ /\ asked[h] \subseteq ManualRows(assigned[n])
           /\ reviewed' = reviewed \cup {n}
           /\ checkins' = [checkins EXCEPT ![n] = @ \cup asked[h]]
    OBVIOUS
  <2>3. /\ reviewed' \in SUBSET Matches
        /\ checkins' \in [Matches -> SUBSET (Blocks \X ManualTargets)]
    <3>1. asked[h] \in SUBSET (Blocks \X ManualTargets)
      BY DEF TypeOK
    <3>2. checkins[n] \cup asked[h] \in SUBSET (Blocks \X ManualTargets)
      BY <2>1, <3>1 DEF TypeOK
    <3>3. reviewed \in SUBSET Matches /\ checkins \in [Matches -> SUBSET (Blocks \X ManualTargets)]
      BY DEF TypeOK
    <3>4. CASE UNCHANGED <<reviewed, checkins>>
      BY <3>3, <3>4
    <3>5. CASE /\ reviewed' = reviewed \cup {n}
               /\ checkins' = [checkins EXCEPT ![n] = @ \cup asked[h]]
      BY <2>1, <3>2, <3>3, <3>5
    <3> QED BY <2>2, <3>4, <3>5
  <2>4. TypeOK'
    BY <2>3 DEF TypeOK, SchemaHolds, Active
  <2>5. FormIsOfTheBlock'
    BY DEF FormIsOfTheBlock, ManualRows, TypeOK
  <2>6. \A m \in Matches : \/ checkins'[m] = checkins[m]
                           \/ m = n /\ checkins'[m] = checkins[m] \cup asked[h]
    BY <2>1, <2>2 DEF TypeOK
  <2>7. asked[h] # {} => asked[h] = ManualRows(assigned[n])
    BY DEF FormIsOfTheBlock
  <2>8. \A m \in Matches : checkins'[m] # {} => checkins'[m] = ManualRows(assigned[m])
    BY <2>6, <2>7 DEF CheckinsAreWhole
  <2>9. CheckinsAreWhole'
    BY <2>8 DEF CheckinsAreWhole, ManualRows
  <2>10. Past'
    BY DEF Past, Imported
  <2> QED BY <2>4, <2>5, <2>9, <2>10, SameResults, SameAssignments, SameHistory
<1>5. ASSUME NextDay PROVE Inductive' /\ KeepsHistory
  <2> USE <1>5 DEF NextDay
  <2>1. today \in Int /\ today' \in Int /\ today' \in Days /\ today <= today'
    BY TrainingAssumption DEF TrainingAssumption, TypeOK, Days
  <2>2. TypeOK'
    BY <2>1 DEF TypeOK, SchemaHolds, Active
  <2>3. Past'
    <3>1. ASSUME NEW m \in Matches PROVE gameDay[m] <= today'
      <4>1. gameDay[m] \in Days \cup {NoEnd} /\ gameDay[m] <= today
        BY DEF Past, TypeOK
      <4>2. CASE gameDay[m] \in Days
        <5>1. gameDay[m] \in Int
          BY <1>1, <4>2
        <5> QED BY <2>1, <4>1, <5>1
      <4>3. CASE gameDay[m] = 0
        BY <2>1, <4>1, <4>3
      <4> QED BY <4>1, <4>2, <4>3 DEF NoEnd
    <3>2. ASSUME NEW b \in Blocks, status[b] \in {"active", "completed"}
          PROVE  startDate[b] <= today'
      <4>1. startDate[b] \in Int /\ startDate[b] <= today
        BY <1>1, <3>2 DEF Past, TypeOK
      <4> QED BY <1>1, <2>1, <4>1
    <3> QED BY <3>1, <3>2 DEF Past, Imported
  <2> QED BY <2>2, <2>3, SameResults, SameAssignments, SameForms, SameHistory
<1>6. ASSUME UNCHANGED vars PROVE Inductive' /\ KeepsHistory
  <2> USE <1>6 DEF vars
  <2>1. TypeOK' /\ Past'
    BY DEF TypeOK, SchemaHolds, Past, Active, Imported
  <2> QED BY <2>1, SameResults, SameAssignments, SameForms, SameHistory
<1> QED BY <1>2, <1>3, <1>4, <1>5, <1>6

LEMMA InductiveStep == ASSUME Inductive, [Next]_vars PROVE Inductive' /\ KeepsHistory
<1>1. ASSUME NEW b \in Blocks, NEW first \in Days, NEW last \in Days \cup {NoEnd},
             NEW aims \in SUBSET Targets, NEW replace \in BOOLEAN,
             CreateAndActivateTrainingBlock(b, first, last, aims, replace)
      PROVE  Inductive' /\ KeepsHistory
  BY <1>1, ActivateStep DEF CreateAndActivateTrainingBlock, NextId
<1>2. ASSUME NEW b \in Blocks, NEW replace \in BOOLEAN, ActivateTrainingBlock(b, replace)
      PROVE  Inductive' /\ KeepsHistory
  <2>1. /\ startDate[b] \in Days /\ endDate[b] \in Days \cup {NoEnd}
        /\ targets[b] \in SUBSET Targets /\ ValidDates(startDate[b], endDate[b])
    BY <1>2 DEF ActivateTrainingBlock, Inductive, TypeOK, SchemaHolds, ValidDates
  <2> QED BY <1>2, <2>1, ActivateStep DEF ActivateTrainingBlock
<1> QED BY <1>1, <1>2, CreateStep, ImportStep, OtherStep DEF Next

(* The inductive invariant. *)
THEOREM InductiveInvariant == Spec => []Inductive
<1>1. Init => Inductive
  <2> SUFFICES ASSUME Init PROVE Inductive
    OBVIOUS
  <2>1. TypeOK
    BY TrainingAssumption
    DEF TrainingAssumption, Init, TypeOK, SchemaHolds, Active, Days, Statuses, NoEnd, NoBlock
  <2> QED
    BY <2>1, TrainingAssumption
    DEF TrainingAssumption, Init, Inductive, Past, AssignedInsideBlock,
        ActiveBlockHasItsMatches, ResultsAreCurrent, FormIsOfTheBlock, CheckinsAreWhole,
        Active, Imported, NoEnd, NoBlock
<1>2. Inductive /\ [Next]_vars => Inductive'
  BY InductiveStep
<1> QED BY <1>1, <1>2, PTL DEF Spec

(* Types, and the constraints the schema states: one active block, and no
   block that ends before it starts. *)
THEOREM TypeCorrect == Spec => []TypeOK
<1>1. Inductive => TypeOK
  BY DEF Inductive
<1> QED BY <1>1, InductiveInvariant, PTL

(* Target results are what the present statistics give, no more and no less. *)
THEOREM ResultsStayCurrent == Spec => []ResultsAreCurrent
<1>1. Inductive => ResultsAreCurrent
  BY DEF Inductive
<1> QED BY <1>1, InductiveInvariant, PTL

(* A match counts only for a block whose dates contain it. *)
THEOREM AssignmentsAreInside == Spec => []AssignedInsideBlock
<1>1. Inductive => AssignedInsideBlock
  BY DEF Inductive
<1> QED BY <1>1, InductiveInvariant, PTL

(* The active block misses no imported game of its period. *)
THEOREM ActiveBlockIsServed == Spec => []ActiveBlockHasItsMatches
<1>1. Inductive => ActiveBlockHasItsMatches
  BY DEF Inductive
<1> QED BY <1>1, InductiveInvariant, PTL

(* The check-ins of a review are all of its block's, or none. *)
THEOREM ReviewsAreWhole == Spec => []CheckinsAreWhole
<1>1. Inductive => CheckinsAreWhole
  BY DEF Inductive
<1> QED BY <1>1, InductiveInvariant, PTL

(* No step rewrites what a completed block or an assignment says. *)
THEOREM HistoryStays == Spec => HistoryIsFinal
<1>1. Inductive /\ [Next]_vars => [KeepsHistory]_vars
  BY InductiveStep
<1> QED BY <1>1, InductiveInvariant, PTL DEF Spec, HistoryIsFinal
=============================================================================
