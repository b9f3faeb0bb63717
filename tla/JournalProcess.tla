---------------------------- MODULE JournalProcess ----------------------------
(***************************************************************************)
(* Processes of the journalol binary on one database file: cmd/journalol   *)
(* main.go from opening the store to the end of the process, the           *)
(* migrations of store.Open, the primary profile and the demo data, and    *)
(* the frame of Service.Sync around the import: which syncs may run, and   *)
(* what they leave in sync_runs.                                           *)
(*                                                                         *)
(* A process is main plus, in serve, the goroutines that call Sync.  A     *)
(* transaction is one action, except for a migration: between its body     *)
(* and its commit the process holds SQLite's write lock and can die.       *)
(*                                                                         *)
(* Abstractions:                                                           *)
(*  - mcp and capture differ from each other after their start only, and   *)
(*    here are "mcp": a process that reads until it ends;                  *)
(*  - a Riot ID resolves to any account at any time (IDs are renamed);     *)
(*  - the startup sync and the polls are one thread, "background": both    *)
(*    stop with the signal context;                                        *)
(*  - games are the owners whose matches are in the database, and of       *)
(*    sync_runs only the newest row is kept, the one the dashboard shows.  *)
(***************************************************************************)
EXTENDS Naturals

CONSTANTS
  Procs,     \* invocations of the binary
  Accounts,  \* PUUIDs that Riot may answer with
  Demo,      \* the reserved demo PUUID
  N,         \* migrations embedded in the binary
  None       \* no process, no account

Owners == Accounts \cup {Demo}

ASSUME ProcessAssumption ==
  /\ N \in Nat
  /\ Demo \notin Accounts
  /\ None \notin Procs \cup Owners
  /\ {"none", "finished", "orphan"} \cap Procs = {}

VARIABLES
  ledger,    \* versions in schema_migrations
  applied,   \* how often the body of a migration has been committed
  writer,    \* the process in a migration's transaction
  profiles,  \* rows of player_profiles
  games,     \* owners of the stored matches
  newest,    \* newest sync run: "none", "finished", the process whose sync
             \* it records, or "orphan": running, of a process that is gone
  stuck,     \* history: whether the store call that begins or ends the newest
             \* run failed and left it running
  pc,        \* pc[p][t]: the next step of thread t
  running,   \* Service.running
  mem        \* what a process holds in memory

schema   == <<ledger, applied, writer>>
database == <<ledger, applied, profiles, games>>
vars     == <<schema, profiles, games, newest, stuck, pc, running, mem>>

Versions == 1..N
Syncers  == {"background", "manual"}
Threads  == Syncers \cup {"main"}

(* The command, and what its environment asks for, as far as the command   *)
(* looks at it: a Riot account, else demo data, or neither.                *)
Commands == {"serve", "seed-demo", "mcp"}
Sources  == {"riot", "demo", "saved"}
Invocations == {<<"serve", "riot">>, <<"serve", "demo">>, <<"serve", "saved">>,
                <<"seed-demo", "saved">>, <<"mcp", "demo">>, <<"mcp", "saved">>}

Opening   == {"check", "apply", "record"}
Ensuring  == {"lookup", "read", "save"}
Starting  == Opening \cup Ensuring \cup {"seed", "fallback", "require"}
Serving   == {"serving", "draining"}
Recording == {"work", "finish"}
Syncing   == Ensuring \cup Recording \cup {"existing", "start", "failed"}

Steps == Starting \cup Serving \cup Syncing \cup {"off", "reading", "idle"}

Memory == [command : Commands, source : Sources, version : 1..(N + 1),
           account : Accounts \cup {None}, seen : Owners \cup {None}, had : BOOLEAN]

Blank == [command |-> "serve", source |-> "saved", version |-> 1,
          account |-> None, seen |-> None, had |-> FALSE]
Off   == [t \in Threads |-> IF t = "main" THEN "off" ELSE "idle"]

TypeOK ==
  /\ ledger \subseteq Versions
  /\ applied \in [Versions -> Nat]
  /\ writer \in Procs \cup {None}
  /\ profiles \subseteq Owners
  /\ games \subseteq Owners
  /\ newest \in Procs \cup {"none", "finished", "orphan"}
  /\ stuck \in BOOLEAN
  /\ pc \in [Procs -> [Threads -> Steps]]
  /\ running \in [Procs -> BOOLEAN]
  /\ mem \in [Procs -> Memory]

Init ==
  /\ ledger = {}
  /\ applied = [v \in Versions |-> 0]
  /\ writer = None
  /\ profiles = {} /\ games = {}
  /\ newest = "none" /\ stuck = FALSE
  /\ pc = [p \in Procs |-> Off]
  /\ running = [p \in Procs |-> FALSE]
  /\ mem = [p \in Procs |-> Blank]

At(p, t, s)   == pc[p][t] = s
Goto(p, t, s) == pc' = [pc EXCEPT ![p][t] = s]
Keep(p, f, v) == mem' = [mem EXCEPT ![p][f] = v]

(* The process is gone, with its goroutines, its open transaction and its  *)
(* memory; the rows it committed stay.                                     *)
Ends(p) ==
  /\ pc' = [pc EXCEPT ![p] = Off]
  /\ running' = [running EXCEPT ![p] = FALSE]
  /\ mem' = [mem EXCEPT ![p] = Blank]
  /\ writer' = IF writer = p THEN None ELSE writer
  /\ newest' = IF newest = p THEN "orphan" ELSE newest
  /\ stuck' = (stuck /\ newest # p)
  /\ UNCHANGED database

(* Somebody else's migration does not keep the write lock. *)
Writable(p) == writer \in {p, None}

-----------------------------------------------------------------------------
(***************************************************************************)
(* Open: the ledger, then every migration that is not in it.               *)
(***************************************************************************)
Launch(p, command, source) ==
  /\ <<command, source>> \in Invocations
  /\ At(p, "main", "off") /\ Goto(p, "main", "check")
  /\ mem' = [mem EXCEPT ![p] = [Blank EXCEPT !.command = command, !.source = source]]
  /\ UNCHANGED <<schema, profiles, games, newest, stuck, running>>

(* Mutant: a ledger that is not empty is taken for a complete one. *)
CheckLedgerIsEmpty(p) ==
  /\ At(p, "main", "check")
  /\ Goto(p, "main", IF ledger = {} THEN "apply" ELSE "seed")
  /\ UNCHANGED <<schema, profiles, games, newest, stuck, running, mem>>

(* SELECT EXISTS, outside any transaction. *)
CheckMigration(p) ==
  LET v == mem[p].version IN
  /\ At(p, "main", "check")
  /\ IF v \in Versions \ ledger
       THEN Goto(p, "main", "apply") /\ UNCHANGED mem
       ELSE IF v \in Versions
         THEN Keep(p, "version", v + 1) /\ UNCHANGED pc
         ELSE Goto(p, "main", "seed") /\ UNCHANGED mem
  /\ UNCHANGED <<schema, profiles, games, newest, stuck, running>>

(* Mutant: the body is executed and committed outside the transaction. *)
ApplyBodyAtOnce(p) ==
  LET v == mem[p].version IN
  /\ At(p, "main", "apply") /\ writer = None
  /\ applied[v] = 0
  /\ applied' = [applied EXCEPT ![v] = @ + 1]
  /\ Goto(p, "main", "record") /\ writer' = p
  /\ UNCHANGED <<ledger, profiles, games, newest, stuck, running, mem>>

(* BeginTx and the body.  What another process has committed since the     *)
(* check is found by its CREATE TABLE statements.                          *)
ApplyBody(p) ==
  /\ At(p, "main", "apply") /\ writer = None
  /\ applied[mem[p].version] = 0
  /\ Goto(p, "main", "record") /\ writer' = p
  /\ UNCHANGED <<database, newest, stuck, running, mem>>

(* The ledger row and the commit. *)
RecordMigration(p) ==
  LET v == mem[p].version IN
  /\ At(p, "main", "record")
  /\ v \notin ledger
  /\ ledger' = ledger \cup {v}
  /\ applied' = [applied EXCEPT ![v] = @ + 1]
  /\ writer' = None
  /\ Goto(p, "main", "check") /\ Keep(p, "version", v + 1)
  /\ UNCHANGED <<profiles, games, newest, stuck, running>>

-----------------------------------------------------------------------------
(***************************************************************************)
(* prepareDemoData and SeedDemo: one transaction.                          *)
(***************************************************************************)
Real == profiles \ {Demo}

(* Where main goes once the demo data are settled; seed-demo only has to   *)
(* end.                                                                    *)
AfterSeed(p) ==
  CASE mem[p].command = "seed-demo" -> "reading"
    [] mem[p].source = "riot"       -> "lookup"
    [] OTHER                     -> "require"

Requested(p) == mem[p].command = "seed-demo" \/ mem[p].source = "demo"

SeedNotRequested(p) ==
  /\ At(p, "main", "seed") /\ ~Requested(p)
  /\ Goto(p, "main", AfterSeed(p))
  /\ UNCHANGED <<schema, profiles, games, newest, stuck, running, mem>>

SeedDemo(p) ==
  /\ At(p, "main", "seed") /\ Requested(p) /\ Writable(p)
  /\ Real = {}
  /\ profiles' = {Demo} /\ games' = games \cup {Demo}
  /\ Goto(p, "main", AfterSeed(p))
  /\ UNCHANGED <<schema, newest, stuck, running, mem>>

(* ErrDemoProfileConflict: only serve goes on without the demo data. *)
SeedSkipped(p) ==
  /\ At(p, "main", "seed") /\ Requested(p) /\ Real # {}
  /\ mem[p].command = "serve"
  /\ Goto(p, "main", AfterSeed(p))
  /\ UNCHANGED <<schema, profiles, games, newest, stuck, running, mem>>

SeedRefused(p) ==
  /\ At(p, "main", "seed") /\ Requested(p) /\ Real # {}
  /\ mem[p].command # "serve"
  /\ Ends(p)

-----------------------------------------------------------------------------
(***************************************************************************)
(* EnsureProfile, in main before serving and in every sync.                *)
(***************************************************************************)

(* The signal cancels the context of the background syncs. *)
Live(p, t) == t # "background" \/ ~At(p, "main", "draining")

AfterEnsure(t)   == IF t = "main" THEN "require" ELSE "start"
EnsureFailed(t)  == IF t = "main" THEN "fallback" ELSE "failed"

(* What is known on return: a sync goes on with the account it has saved. *)
Drop(p, t) ==
  mem' = [mem EXCEPT ![p].seen = None,
                     ![p].account = IF t # "main" /\ pc'[p][t] = "start" THEN @ ELSE None]

AccountByRiotID(p, t, a) ==
  /\ At(p, t, "lookup") /\ Live(p, t)
  /\ Goto(p, t, "read") /\ Keep(p, "account", a)
  /\ UNCHANGED <<schema, profiles, games, newest, stuck, running>>

Conflicting(p) == profiles \ {mem[p].account} # {}

(* Mutant: the stored PUUID is not compared with the one Riot answered. *)
ReadProfileUncompared(p, t) ==
  /\ At(p, t, "read") /\ Live(p, t)
  /\ Goto(p, t, "save")
  /\ \E o \in (IF profiles = {} THEN {None} ELSE profiles) : Keep(p, "seen", o)
  /\ UNCHANGED <<schema, profiles, games, newest, stuck, running>>

(* The stored profile, if any, is not demo data and has the same PUUID. *)
ReadProfile(p, t) ==
  /\ At(p, t, "read") /\ Live(p, t)
  /\ ~Conflicting(p)
  /\ Goto(p, t, "save")
  /\ Keep(p, "seen", IF profiles = {} THEN None ELSE mem[p].account)
  /\ UNCHANGED <<schema, profiles, games, newest, stuck, running>>

(* ErrProfileConflict: the process refuses to start, a sync fails. *)
ProfileConflict(p, t) ==
  /\ At(p, t, "read") /\ Conflicting(p)
  /\ IF t = "main" THEN Ends(p)
     ELSE /\ Goto(p, t, "failed") /\ Drop(p, t)
          /\ UNCHANGED <<schema, profiles, games, newest, stuck, running>>

(* Mutant: SavePrimaryPlayer does not count the other profiles. *)
SaveUnchecked(p, t) ==
  /\ At(p, t, "save") /\ Live(p, t) /\ Writable(p)
  /\ profiles' = (profiles \ {mem[p].seen}) \cup {mem[p].account}
  /\ Goto(p, t, AfterEnsure(t)) /\ Drop(p, t)
  /\ UNCHANGED <<schema, games, newest, stuck, running>>

(* One transaction: no other profile than the one with this ID, and no     *)
(* demo profile; then the row is inserted, or rewritten with the PUUID.    *)
(* It is read back afterwards, which may fail.                             *)
SavePrimaryPlayer(p, t) ==
  /\ At(p, t, "save") /\ Live(p, t) /\ Writable(p)
  /\ profiles \ {mem[p].seen} = {}
  /\ profiles' = (profiles \ {mem[p].seen}) \cup {mem[p].account}
  /\ \E next \in {AfterEnsure(t), EnsureFailed(t)} : Goto(p, t, next)
  /\ Drop(p, t)
  /\ UNCHANGED <<schema, games, newest, stuck, running>>

(* Riot or the store fails, or another process has saved a profile since. *)
EnsureFails(p, t) ==
  /\ pc[p][t] \in Ensuring
  /\ Goto(p, t, EnsureFailed(t)) /\ Drop(p, t)
  /\ UNCHANGED <<schema, profiles, games, newest, stuck, running>>

(* "An expired development key must not make an existing local journal     *)
(* unavailable": saved data are served.                                    *)
ServeSaved(p) ==
  /\ At(p, "main", "fallback") /\ Real # {}
  /\ Goto(p, "main", "require")
  /\ UNCHANGED <<schema, profiles, games, newest, stuck, running, mem>>

RequirePrimaryPlayer(p) ==
  /\ At(p, "main", "require") /\ profiles # {}
  /\ Goto(p, "main", IF mem[p].command = "serve" THEN "serving" ELSE "reading")
  /\ UNCHANGED <<schema, profiles, games, newest, stuck, running, mem>>

(* No profile, or any failure of the store while starting. *)
StartFails(p) == pc[p]["main"] \in Starting /\ Ends(p)

-----------------------------------------------------------------------------
(***************************************************************************)
(* Sync: from the handler, at start-up or from RunPolling.                 *)
(***************************************************************************)
HasSyncer(p) == mem[p].source = "riot"

(* Mutant: beginSync does not look at running. *)
BeginSyncAnyway(p, t) ==
  /\ pc[p]["main"] \in Serving /\ HasSyncer(p) /\ At(p, t, "idle")
  /\ running' = [running EXCEPT ![p] = TRUE]
  /\ Goto(p, t, "existing")
  /\ UNCHANGED <<schema, profiles, games, newest, stuck, mem>>

(* A call while a sync runs is ErrSyncInProgress and changes nothing; the  *)
(* handler refuses a demo profile.  A tick, or a request already accepted, *)
(* may still be taken after the signal.                                    *)
BeginSync(p, t) ==
  /\ pc[p]["main"] \in Serving /\ HasSyncer(p) /\ At(p, t, "idle")
  /\ t = "manual" => Demo \notin profiles
  /\ ~running[p]
  /\ running' = [running EXCEPT ![p] = TRUE]
  /\ Goto(p, t, "existing")
  /\ UNCHANGED <<schema, profiles, games, newest, stuck, mem>>

(* PrimaryPlayer before EnsureProfile: a failure can be recorded only for  *)
(* a profile that it returned.                                             *)
ReadExisting(p, t, had) ==
  /\ At(p, t, "existing")
  /\ had => Real # {} /\ Live(p, t)
  /\ Goto(p, t, "lookup") /\ Keep(p, "had", had)
  /\ UNCHANGED <<schema, profiles, games, newest, stuck, running>>

EndSync(p, t) ==
  /\ Goto(p, t, "idle")
  /\ mem' = [mem EXCEPT ![p].account = None, ![p].had = FALSE]
  /\ running' = [running EXCEPT ![p] = FALSE]

(* StartSyncRun, for the import or to record a failed EnsureProfile: the   *)
(* row is inserted, and then read ...                                      *)
StartSyncRun(p, t) ==
  /\ \/ At(p, t, "start") /\ Live(p, t) /\ Goto(p, t, "work")
     \/ At(p, t, "failed") /\ mem[p].had /\ Goto(p, t, "finish")
  /\ Writable(p)
  /\ newest' = p /\ stuck' = FALSE
  /\ UNCHANGED <<schema, profiles, games, running, mem>>

(* ... and when it cannot be read the sync ends, and the row stays running. *)
StartSyncRunUnread(p, t) ==
  /\ \/ At(p, t, "start") /\ Live(p, t)
     \/ At(p, t, "failed") /\ mem[p].had
  /\ Writable(p)
  /\ newest' = p /\ stuck' = TRUE
  /\ EndSync(p, t)
  /\ UNCHANGED <<schema, profiles, games>>

(* Mutant: an early return that does not let the next sync begin. *)
NoSyncRunStillRunning(p, t) ==
  /\ pc[p][t] \in {"start", "failed"}
  /\ Goto(p, t, "idle")
  /\ UNCHANGED <<schema, profiles, games, newest, stuck, running, mem>>

(* No row is inserted: the store fails, or there is no profile to record it for. *)
NoSyncRun(p, t) ==
  /\ pc[p][t] \in {"start", "failed"}
  /\ EndSync(p, t)
  /\ UNCHANGED <<schema, profiles, games, newest, stuck>>

(* The import stores a match of the account. *)
ImportMatch(p, t) ==
  /\ At(p, t, "work") /\ Live(p, t) /\ Writable(p)
  /\ games' = games \cup {mem[p].account}
  /\ UNCHANGED <<schema, profiles, newest, stuck, pc, running, mem>>

(* Every job done, a batch that stopped, or a cancelled context. *)
EndImport(p, t) ==
  /\ At(p, t, "work") /\ Goto(p, t, "finish")
  /\ UNCHANGED <<schema, profiles, games, newest, stuck, running, mem>>

(* Mutant: the outcome is written on the context that the signal cancels.  *)
FinishSyncRunUnlessCancelled(p, t) ==
  /\ At(p, t, "finish") /\ Writable(p)
  /\ newest' = IF newest = p /\ Live(p, t) THEN "finished" ELSE newest
  /\ EndSync(p, t)
  /\ UNCHANGED <<schema, profiles, games, stuck>>

(* FinishSyncRun, also when the context is cancelled. *)
FinishSyncRun(p, t) ==
  /\ At(p, t, "finish") /\ Writable(p)
  /\ newest' = IF newest = p THEN "finished" ELSE newest
  /\ EndSync(p, t)
  /\ UNCHANGED <<schema, profiles, games, stuck>>

(* That store call fails: the row stays running. *)
FinishFails(p, t) ==
  /\ At(p, t, "finish")
  /\ stuck' = (stuck \/ newest = p)
  /\ EndSync(p, t)
  /\ UNCHANGED <<schema, profiles, games, newest>>

-----------------------------------------------------------------------------
(***************************************************************************)
(* The end of a process.                                                   *)
(***************************************************************************)

(* SIGINT or SIGTERM. *)
Signal(p) ==
  /\ At(p, "main", "serving") /\ Goto(p, "main", "draining")
  /\ UNCHANGED <<schema, profiles, games, newest, stuck, running, mem>>

(* Shutdown waits for the handlers, or for its timeout; the goroutines of  *)
(* the background sync are not waited for.  ListenAndServe may fail, and   *)
(* the input of mcp ends.                                                  *)
Exit(p) == pc[p]["main"] \in Serving \cup {"reading"} /\ Ends(p)

(* SIGKILL, a power cut. *)
Kill(p) == ~At(p, "main", "off") /\ Ends(p)

-----------------------------------------------------------------------------
Open(p)    == CheckMigration(p) \/ ApplyBody(p) \/ RecordMigration(p)
Prepare(p) == SeedNotRequested(p) \/ SeedDemo(p) \/ SeedSkipped(p) \/ SeedRefused(p)

Ensure(p, t) ==
  \/ \E a \in Accounts : AccountByRiotID(p, t, a)
  \/ ReadProfile(p, t) \/ ProfileConflict(p, t)
  \/ SavePrimaryPlayer(p, t) \/ EnsureFails(p, t)

Start(p) == \/ Open(p) \/ Prepare(p) \/ Ensure(p, "main")
            \/ ServeSaved(p) \/ RequirePrimaryPlayer(p) \/ StartFails(p)

SyncStep(p, t) ==
  \/ \E had \in BOOLEAN : ReadExisting(p, t, had)
  \/ Ensure(p, t) \/ StartSyncRun(p, t) \/ StartSyncRunUnread(p, t)
  \/ NoSyncRun(p, t)
  \/ EndImport(p, t) \/ FinishSyncRun(p, t) \/ FinishFails(p, t)

Next ==
  \E p \in Procs :
    \/ \E command \in Commands, source \in Sources : Launch(p, command, source)
    \/ Start(p)
    \/ \E t \in Syncers : BeginSync(p, t) \/ SyncStep(p, t) \/ ImportMatch(p, t)
    \/ Signal(p) \/ Exit(p) \/ Kill(p)

Spec == Init /\ [][Next]_vars

(***************************************************************************)
(* Every step has a deadline or runs on: fifteen seconds for the           *)
(* migrations, thirty for the start-up profile, ten for a Riot request,    *)
(* two minutes for the startup sync, five for busy locks and final writes, *)
(* ten for the shutdown.                                                   *)
(***************************************************************************)
Fairness ==
  \A p \in Procs :
    /\ WF_vars(Start(p))
    /\ \A t \in Syncers : WF_vars(SyncStep(p, t))
    /\ WF_vars(At(p, "main", "draining") /\ Exit(p))

FairSpec == Spec /\ Fairness

-----------------------------------------------------------------------------
(***************************************************************************)
(* Properties.                                                             *)
(***************************************************************************)

(* A migration is in the ledger exactly when its body is in the schema,    *)
(* once, whoever raced for it or died in it: no later start applies it     *)
(* again or takes half of it for done, and a process that has got past     *)
(* Open finds every table it knows of.                                     *)
MigrationsAreWhole ==
  /\ \A v \in Versions : applied[v] = IF v \in ledger THEN 1 ELSE 0
  /\ \A p \in Procs : pc[p]["main"] \notin Opening \cup {"off"} => ledger = Versions

(* Demo and Riot data, or the data of two accounts, never meet in one      *)
(* database, whichever processes start at once: every game belongs to the  *)
(* only profile ("never mixes silently with a real profile", plan).        *)
OneOwner ==
  /\ \A o1, o2 \in profiles : o1 = o2
  /\ games \subseteq profiles

(* "It never silently changes an existing profile to a different PUUID"    *)
(* (EnsureProfile), and nothing removes a profile.                         *)
ProfileIsFixed == [][profiles \subseteq profiles']_vars

(* A newest run that is shown as going on, and whose process has not       *)
(* stopped meanwhile, is going on: one sync of that process is between     *)
(* its first and its last write, and it is the only one.  The exception is *)
(* a run whose first or last store call failed after the row was there: it *)
(* is shown as running until the next one starts.                          *)
RunningRunIsLive ==
  \A p \in Procs :
    /\ newest = p => stuck \/ \E t \in Syncers : pc[p][t] \in Recording
    /\ \A s, t \in Syncers : pc[p][s] \in Syncing /\ pc[p][t] \in Syncing => s = t

(* What a process has begun it brings to an end, whatever Riot, the store, *)
(* another process's migration or a signal do to it: it starts or gives    *)
(* up, its sync ends and lets the next one begin, and asked to stop it     *)
(* stops.                                                                  *)
Busy(p) == running[p] \/ pc[p]["main"] \in Starting \cup {"draining"}

ProcessSettles == \A p \in Procs : Busy(p) ~> ~Busy(p)
==============================================================================
