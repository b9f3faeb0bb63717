----------------------------- MODULE MatchImport -----------------------------
(***************************************************************************)
(* What the durable importer promises about each Riot match, without jobs, *)
(* payloads, retries or crashes: a match is discovered, becomes usable     *)
(* (its detail row can be read and reviewed), then complete (its timeline  *)
(* events are stored too), and only then may the importer forget it.       *)
(* Progress is never undone.  ImportPipeline implements this module.       *)
(***************************************************************************)
CONSTANT Matches        \* Riot match IDs

VARIABLES
  status,   \* status[m]: how much of match m the journal holds
  settled   \* matches the importer will never touch again

avars == <<status, settled>>

Statuses == {"unknown", "queued", "usable", "complete"}

AbstractTypeOK == /\ status \in [Matches -> Statuses]
                  /\ settled \subseteq Matches

AbstractInit == /\ status = [m \in Matches |-> "unknown"]
                /\ settled = {}

(* One match advances by one level; nothing else moves. *)
Advance(m, from, to) == /\ status[m] = from
                        /\ status' = [status EXCEPT ![m] = to]
                        /\ UNCHANGED settled

Enqueue(m)     == Advance(m, "unknown", "queued")
MakeUsable(m)  == Advance(m, "queued", "usable")
MakeWhole(m)   == Advance(m, "usable", "complete")

(* The importer lets go of a match only once the journal has all of it. *)
Settle(m) == /\ status[m] = "complete"
             /\ m \notin settled
             /\ settled' = settled \cup {m}
             /\ UNCHANGED status

AbstractNext == \E m \in Matches :
                  Enqueue(m) \/ MakeUsable(m) \/ MakeWhole(m) \/ Settle(m)

AbstractSpec == AbstractInit /\ [][AbstractNext]_avars
==============================================================================
