-------------------------- MODULE MCImportPipeline ---------------------------
(* Small instances of ImportPipeline for TLC. *)
EXTENDS ImportPipeline, Integers, TLC

CONSTANTS m1, m2

TwoMatches == {m1, m2}
OneMatch   == {m1}
Nobody     == {}
AllFailures == {"rate_limited", "stop", "soft"}
NoFailures  == {}
OkOnly      == {"ok"}
OkInvalid   == {"ok", "invalid"}
AllDocs     == {"ok", "invalid", "rejected"}

-----------------------------------------------------------------------------
(***************************************************************************)
(* The operators behind the classes of errors and documents, evaluated on  *)
(* bounded inputs before the first state.                                  *)
(***************************************************************************)
(* Durations in milliseconds, and up to less than two minutes. *)
Requests(base, longest) ==
  INSTANCE RiotRequests WITH Second <- 1000, MaxDuration <- 99999, MaxAttempts <- 3,
                             RetryBaseDelay <- base, MaxRetryWait <- longest,
                             PollInterval <- 90000

Documents == INSTANCE MatchDocuments WITH Texts <- {"m", "me", "her", "Nami", "UTILITY"},
                                          Blank <- "", None <- "none"

Headers == [form : {"seconds", "date"}, value : {-1, 0, 9, 100, 200}]
             \cup [form : {"none"}, value : {0}]
Answers == [status : {0, 200, 302, 400, 401, 404, 429, 503, 600}, cancelled : BOOLEAN,
            header : Headers, body : {"whole", "malformed", "cut", "large"}]
Failing == {a \in Answers : Requests(200, 5000)!Kind(a) # "none"}
Few     == {a \in Answers : a.cancelled = FALSE /\ a.body = "cut" /\ a.status \in {200, 404, 429}}

(* The loop of retryDelay doubles the base for every attempt so far, up to *)
(* the longest wait.                                                       *)
ASSUME RetryDelays ==
  \A base, longest \in 1..12, attempt \in 1..5 :
    LET doubled == base * 2^(attempt - 1) IN
    Requests(base, longest)!RetryDelay(attempt) =
      IF /\ attempt > 1 => base * 2^(attempt - 2) < longest \div 2
         /\ doubled <= longest
        THEN doubled ELSE longest

(* Seconds that fit a duration are taken as they are; 100 seconds wrap to  *)
(* a delay in the past here, and 200 to none.                              *)
ASSUME RetryAfterWraps ==
  \A seconds \in 0..400 :
    LET delay == Requests(200, 5000)!ParseRetryAfter([form |-> "seconds", value |-> seconds])
    IN /\ delay \in -100000..99999 /\ (delay - 1000 * seconds) % 200000 = 0
       /\ seconds \in 0..99 => delay = 1000 * seconds

(* A call ends with one answer, and every cause of ImportPipeline is the   *)
(* cause of some answer.                                                   *)
ASSUME CallsEndOnce ==
  \A answers \in [1..3 -> Few] : \E n \in 1..3 :
    {i \in 1..3 : Requests(200, 5000)!EndsWith(answers, i)} = {n}

ASSUME CausesOccur == {Requests(200, 5000)!Cause(a) : a \in Failing} = Causes

-----------------------------------------------------------------------------
Player(fields) ==
  fields @@ [puuid |-> "me", id |-> 1, team |-> 100, championId |-> 267, champion |-> "Nami",
             teamPosition |-> "UTILITY", individualPosition |-> "INVALID",
             timePlayed |-> 0, earlySurrender |-> FALSE, surrender |-> FALSE,
             counts |-> {0, 7}, ids |-> {0, 3340}]

Match(fields, player) ==
  fields @@ [id |-> "m", participants |-> <<Player([puuid |-> "her", team |-> 200]), player>>,
             gameDuration |-> 1800, start |-> 5000, creation |-> 1, end |-> 0,
             endsEarly |-> FALSE, map |-> 11, queue |-> 420]

Nothing == [x \in {} |-> x]
Good    == Match(Nothing, Player(Nothing))

Normal(m)    == Documents!NormalizeMatch(m, "me")
ClassOf(m)   == Documents!DetailClass(m, "me", "m")
Skill(t)     == [type |-> "SKILL_LEVEL_UP", participant |-> 1, skill |-> 2, timestamp |-> t,
                 killer |-> 0, victim |-> 0, creator |-> 0, team |-> 0, killerTeam |-> 0]
Timeline(list)   == [id |-> "m", participants |-> {1, 2}, events |-> list]

(* Time rounds to the nearest second, half a second away from zero. *)
ASSUME SecondsAreRounded ==
  \A ms \in -2600..2600 :
    LET s == Documents!RoundedSeconds(ms) IN
    IF ms >= 0 THEN 2 * ms >= 2000 * s - 1000 /\ 2 * ms < 2000 * s + 1000
               ELSE 2 * ms <= 2000 * s + 1000 /\ 2 * ms > 2000 * s - 1000

(* Remakes and surrenders as normalize_test.go expects them, on both sides *)
(* of ten and of five minutes.                                             *)
ASSUME RemakesAndSurrenders ==
  LET Game(duration, map, early) ==
        LET n == Normal(Match([gameDuration |-> duration, map |-> map],
                              Player([earlySurrender |-> early])))
        IN <<n.isRemake, n.surrendered>>
  IN /\ Game(599, 12, TRUE) = <<TRUE, FALSE>> /\ Game(600, 12, TRUE) = <<FALSE, TRUE>>
     /\ Game(299, 11, FALSE) = <<TRUE, FALSE>> /\ Game(300, 11, FALSE) = <<FALSE, FALSE>>
     /\ Game(299, 12, FALSE) = <<FALSE, FALSE>> /\ Game(0, 11, FALSE) = <<FALSE, FALSE>>
     /\ Game(1800000, 11, FALSE) = <<FALSE, FALSE>>
     /\ Normal(Match([gameDuration |-> 1800000], Player(Nothing))).duration = 1800

ASSUME EventsKeepTheirPlaces ==
  LET t == Timeline(<<Skill(1), [Skill(2) EXCEPT !.type = "OTHER"],
                      [Skill(3) EXCEPT !.participant = 2], Skill(4)>>)
      n == Documents!ApplyTimeline(Normal(Good), t)
  IN DOMAIN n.events = {1, 3, 4} /\ DOMAIN n.skillOrder = {1, 4}

(* Every class of documents of ImportPipeline occurs. *)
ASSUME DocumentsOccur ==
  /\ ClassOf(Good) = "ok"
  /\ ClassOf(Match([id |-> "her"], Player(Nothing))) = "invalid"
  /\ ClassOf(Match([end |-> 4000], Player(Nothing))) = "invalid"
  /\ ClassOf(Match(Nothing, Player([champion |-> ""]))) = "rejected"
  /\ {Documents!TimelineClass(Normal(Good), t) :
       t \in {Timeline(<<Skill(1)>>), Timeline(<<Skill(-1)>>), [Timeline(<<>>) EXCEPT !.participants = {2}]}} = Docs
==============================================================================
