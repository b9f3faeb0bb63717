---------------------------- MODULE MatchDocuments ----------------------------
(***************************************************************************)
(* What becomes of a match document and of a timeline document:            *)
(* internal/importer/normalize.go, the conversion for the store in         *)
(* service.go, and what internal/store/imports.go accepts of it.  Pure.    *)
(*                                                                         *)
(* Abstractions:                                                           *)
(*  - text is a model value, trimmed; Blank is the empty one;              *)
(*  - a timeline is the sequence of the events of all its frames, and a    *)
(*    list selected from a sequence is a function on the places it was     *)
(*    taken from: the source's sequence numbers, for events;               *)
(*  - the eleven statistics that only have to be counts are one set;       *)
(*  - items, runes and spells are one set of IDs; labels and the events'   *)
(*    positions and JSON are left out.                                     *)
(***************************************************************************)
EXTENDS Integers, Sequences

CONSTANTS
  Texts,  \* match IDs, PUUIDs, champions and roles
  Blank,  \* the empty text
  None    \* no document, no participant

Words == Texts \cup {Blank}
Kills == {"CHAMPION_KILL", "WARD_KILL"}
Purchases == {"ITEM_PURCHASED", "ITEM_SOLD", "ITEM_UNDO", "SKILL_LEVEL_UP"}
Selected  == Kills \cup Purchases \cup {"WARD_PLACED", "ELITE_MONSTER_KILL", "BUILDING_KILL"}

Participant ==
  [puuid : Words, id : Int, team : Int, championId : Int, champion : Words,
   teamPosition : Words \cup {"INVALID"}, individualPosition : Words \cup {"INVALID"},
   timePlayed : Int, earlySurrender : BOOLEAN, surrender : BOOLEAN,
   counts : SUBSET Int, ids : SUBSET Int]

MatchDocument ==
  [id : Words, participants : Seq(Participant), gameDuration : Int,
   start : Int, creation : Int, end : Int, endsEarly : BOOLEAN, map : Int, queue : Int]

Event ==
  [type : Selected \cup {"OTHER"}, participant : Int, skill : Int, timestamp : Int,
   killer : Int, victim : Int, creator : Int, team : Int, killerTeam : Int]

TimelineDocument ==
  [id : Words, participants : SUBSET Int, events : Seq(Event)]

-----------------------------------------------------------------------------
(***************************************************************************)
(* NormalizeMatch.  Times of a document are in milliseconds, durations in  *)
(* seconds.                                                                *)
(***************************************************************************)
PlacesOf(m, puuid) == {i \in DOMAIN m.participants : m.participants[i].puuid = puuid}

(* The first participant with this PUUID. *)
ParticipantByPUUID(m, puuid) ==
  m.participants[CHOOSE i \in PlacesOf(m, puuid) : \A j \in PlacesOf(m, puuid) : i <= j]

Day == 24 * 60 * 60

(* "Very old Match-V5 payloads occasionally represented duration in        *)
(* milliseconds."                                                          *)
NormalizedDuration(gameDuration, timePlayed) ==
  LET seconds == IF gameDuration > Day THEN gameDuration \div 1000 ELSE gameDuration IN
  IF seconds = 0 /\ timePlayed > 0 THEN timePlayed ELSE seconds

(* Duration.Round(time.Second): half a second goes away from zero. *)
RoundedSeconds(ms) == IF ms >= 0 THEN (ms + 500) \div 1000 ELSE -((500 - ms) \div 1000)

StartedAt(m) == IF m.start = 0 THEN m.creation ELSE m.start
GivenDuration(m, p) == NormalizedDuration(m.gameDuration, p.timePlayed)
EndedAt(m, p) == IF m.end > 0 THEN m.end ELSE StartedAt(m) + GivenDuration(m, p) * 1000

Duration(m, p) ==
  IF GivenDuration(m, p) = 0 THEN RoundedSeconds(EndedAt(m, p) - StartedAt(m))
                             ELSE GivenDuration(m, p)

ParticipantRole(p) ==
  LET Known(role) == role \notin {Blank, "INVALID"} IN
  CASE Known(p.teamPosition)       -> p.teamPosition
    [] Known(p.individualPosition) -> p.individualPosition
    [] OTHER                       -> "UNKNOWN"

(* The one named champion of another team in the same role. *)
OpponentChampion(m, p) ==
  LET others == {i \in DOMAIN m.participants :
                   /\ m.participants[i].team # p.team
                   /\ ParticipantRole(m.participants[i]) = ParticipantRole(p)
                   /\ m.participants[i].champion # Blank}
  IN IF ParticipantRole(p) # "UNKNOWN" /\ \E i \in others : others = {i}
       THEN m.participants[CHOOSE i \in others : TRUE].champion
       ELSE Blank

CompactPositive(values) == {v \in values : v > 0}

ExplicitRemake(m, p) == p.earlySurrender \/ m.endsEarly

IsRemake(m, p) ==
  \/ ExplicitRemake(m, p) /\ Duration(m, p) < 10 * 60
  \/ m.map = 11 /\ Duration(m, p) > 0 /\ Duration(m, p) < 5 * 60

Normalizes(m, puuid) ==
  /\ m.id # Blank /\ puuid # Blank
  /\ PlacesOf(m, puuid) # {}
  /\ LET p == ParticipantByPUUID(m, puuid) IN
     /\ p.id >= 1
     /\ GivenDuration(m, p) >= 0
     /\ StartedAt(m) > 0
     /\ Duration(m, p) >= 0 /\ EndedAt(m, p) >= StartedAt(m)
     /\ \A c \in p.counts : c >= 0

NormalizeMatch(m, puuid) ==
  LET p == ParticipantByPUUID(m, puuid) IN
  [id |-> m.id, queue |-> m.queue, map |-> m.map,
   startedAt |-> StartedAt(m), endedAt |-> EndedAt(m, p), duration |-> Duration(m, p),
   isRemake |-> IsRemake(m, p),
   surrendered |-> (p.surrender \/ ExplicitRemake(m, p)) /\ ~IsRemake(m, p),
   completeness |-> "detail_only",
   participant |-> p.id, team |-> p.team, championId |-> p.championId,
   champion |-> p.champion, role |-> ParticipantRole(p),
   opponent |-> OpponentChampion(m, p), counts |-> p.counts,
   ids |-> CompactPositive(p.ids), skillOrder |-> << >>, events |-> << >>]

-----------------------------------------------------------------------------
(***************************************************************************)
(* ApplyTimeline.                                                          *)
(***************************************************************************)
TimelineFits(n, t) ==
  /\ t.id \in {Blank, n.id}
  /\ t.participants # {} => n.participant \in t.participants

PositiveOrNone(v) == IF v < 1 THEN None ELSE v

Actor(e) == PositiveOrNone(CASE e.type = "WARD_PLACED" -> e.creator
                             [] e.type \in Purchases   -> e.participant
                             [] OTHER                  -> e.killer)

Victim(e) == IF e.type = "CHAMPION_KILL" THEN PositiveOrNone(e.victim) ELSE None

Team(e) ==
  CASE e.type = "ELITE_MONSTER_KILL" ->
         PositiveOrNone(IF e.killerTeam < 1 THEN e.team ELSE e.killerTeam)
    [] e.type = "BUILDING_KILL" -> PositiveOrNone(e.team)
    [] OTHER -> None

NormalizeTimelineEvent(e) ==
  [type |-> e.type, timestamp |-> e.timestamp,
   actor |-> Actor(e), victim |-> Victim(e), team |-> Team(e)]

(* "Sequence numbers count every source event, including ignored types, so *)
(* a future change to the selected set does not silently renumber old      *)
(* events."                                                                *)
EventsOf(t) ==
  [i \in {i \in DOMAIN t.events : t.events[i].type \in Selected} |->
     NormalizeTimelineEvent(t.events[i])]

SkillUps(n, t) ==
  {i \in DOMAIN t.events : /\ t.events[i].type = "SKILL_LEVEL_UP"
                           /\ t.events[i].participant = n.participant
                           /\ t.events[i].skill > 0}

ApplyTimeline(n, t) ==
  [n EXCEPT !.events = EventsOf(t),
            !.skillOrder = [i \in SkillUps(n, t) |-> t.events[i].skill],
            !.completeness = "complete"]

-----------------------------------------------------------------------------
(***************************************************************************)
(* normalizeExpectedMatch, and prepareImportedMatch of what toStoreMatch   *)
(* hands to the store.                                                     *)
(***************************************************************************)
NormalizesAs(m, puuid, id) == Normalizes(m, puuid) /\ m.id = id

AcceptsStats(n) ==
  /\ n.participant >= 0 /\ n.team >= 0 /\ n.championId >= 0
  /\ \A v \in n.counts \cup n.ids : v >= 0
  /\ \A i \in DOMAIN n.skillOrder : n.skillOrder[i] >= 0

AcceptsEvents(n) ==
  \A i \in DOMAIN n.events : i >= 0 /\ n.events[i].timestamp >= 0

StoreAccepts(n) ==
  /\ n.id # Blank /\ n.champion # Blank
  /\ n.queue >= 0 /\ n.map >= 0 /\ n.duration >= 0
  /\ n.endedAt >= n.startedAt
  /\ n.completeness \in {"detail_only", "partial_timeline", "complete"}
  /\ AcceptsStats(n) /\ AcceptsEvents(n)

(* The classes of documents that ImportPipeline distinguishes. *)
DetailClass(m, puuid, id) ==
  CASE ~NormalizesAs(m, puuid, id)             -> "invalid"
    [] StoreAccepts(NormalizeMatch(m, puuid))  -> "ok"
    [] OTHER                                   -> "rejected"

TimelineClass(n, t) ==
  CASE ~TimelineFits(n, t)                -> "invalid"
    [] StoreAccepts(ApplyTimeline(n, t))  -> "ok"
    [] OTHER                              -> "rejected"
==============================================================================
