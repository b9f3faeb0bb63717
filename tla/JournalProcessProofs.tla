------------------------ MODULE JournalProcessProofs -------------------------
(***************************************************************************)
(* Theorems about JournalProcess, for any number of processes, accounts    *)
(* and migrations.                                                         *)
(*                                                                         *)
(* Inductive says of every process what it may rely on while another one   *)
(* works on the same database: the migrations it has passed are in the     *)
(* ledger, the account it goes on with is the only profile there can be,   *)
(* and one of its threads at most is in a sync.  A step of one process     *)
(* keeps these facts of the others because the ledger and the profiles     *)
(* only grow (lemma Preserved).                                            *)
(***************************************************************************)
EXTENDS JournalProcess, TLAPS

USE DEF Versions, Owners

(* The first half of MigrationsAreWhole; Opened has the second. *)
AppliedOnce == \A v \in Versions : applied[v] = IF v \in ledger THEN 1 ELSE 0

Opened(p) ==
  /\ pc[p]["main"] \in {"apply", "record"} => mem[p].version \in Versions
  /\ pc[p]["main"] \in Opening => \A v \in Versions : v < mem[p].version => v \in ledger
  /\ pc[p]["main"] \notin Opening \cup {"off"} => ledger = Versions

OneSync(p) ==
  /\ pc[p]["main"] \in Starting \cup Serving \cup {"off", "reading"}
  /\ \A t \in Syncers : pc[p][t] \in Syncing \cup {"idle"}
  /\ \A t \in Syncers : pc[p][t] \in Syncing => running[p] /\ pc[p]["main"] \in Serving
  /\ \A s, t \in Syncers : pc[p][s] \in Syncing /\ pc[p][t] \in Syncing => s = t

Recorded(p) == newest = p => stuck \/ \E t \in Syncers : pc[p][t] \in Recording

Known(p) ==
  \A t \in Threads :
    /\ pc[p][t] \in {"read", "save"} => mem[p].account \in Accounts
    /\ pc[p][t] = "save" => mem[p].seen \in {None, mem[p].account}
    /\ pc[p][t] \in {"start", "work"} => mem[p].account \in profiles

Inductive ==
  /\ TypeOK /\ AppliedOnce /\ OneOwner
  /\ \A p \in Procs : Opened(p) /\ OneSync(p) /\ Recorded(p) /\ Known(p)

-----------------------------------------------------------------------------
LEMMA InductiveInit == Init => Inductive
<1> SUFFICES ASSUME Init PROVE Inductive
  OBVIOUS
<1> USE ProcessAssumption DEF ProcessAssumption
<1>1. Blank \in Memory
  BY DEF Blank, Memory, Commands, Sources
<1>2. Off \in [Threads -> Steps]
  BY DEF Off, Threads, Steps, Starting, Opening, Ensuring
<1>3. TypeOK
  BY <1>1, <1>2 DEF Init, TypeOK
<1>4. AppliedOnce /\ OneOwner
  BY DEF Init, AppliedOnce, OneOwner
<1>5. ASSUME NEW p \in Procs PROVE Opened(p) /\ OneSync(p) /\ Recorded(p) /\ Known(p)
  <2>1. pc[p] = Off /\ newest # p
    BY DEF Init
  <2> QED BY <2>1 DEF Off, Threads, Syncers, Opened, OneSync, Recorded, Known, Opening,
                      Starting, Ensuring, Syncing, Recording
<1> QED BY <1>3, <1>4, <1>5 DEF Inductive

(* What a step of p has to establish; the other processes lose nothing by  *)
(* a ledger and a set of profiles that grow.                               *)
LEMMA Preserved ==
  ASSUME Inductive, NEW p \in Procs, TypeOK', AppliedOnce', OneOwner',
         ledger \subseteq ledger', profiles \subseteq profiles',
         \A q \in Procs \ {p} :
           /\ pc'[q] = pc[q] /\ mem'[q] = mem[q] /\ running'[q] = running[q]
           /\ newest' = q => newest = q /\ (stuck => stuck'),
         Opened(p)', OneSync(p)', Recorded(p)', Known(p)'
  PROVE  Inductive'
<1>1. ASSUME NEW q \in Procs \ {p} PROVE Opened(q)'
  <2>1. Opened(q) /\ ledger' \subseteq Versions
    BY DEF Inductive, TypeOK
  <2> QED BY <1>1, <2>1 DEF Opened
<1>2. ASSUME NEW q \in Procs \ {p} PROVE OneSync(q)' /\ Recorded(q)'
  BY <1>2 DEF Inductive, OneSync, Recorded
<1>3. ASSUME NEW q \in Procs \ {p} PROVE Known(q)'
  BY <1>3 DEF Inductive, Known
<1> QED BY <1>1, <1>2, <1>3 DEF Inductive

(* A thread goes on; the other threads and processes stay where they are.  *)
LEMMA Gone ==
  ASSUME TypeOK, NEW p \in Procs, NEW t \in Threads, NEW s \in Steps, Goto(p, t, s)
  PROVE  /\ pc' \in [Procs -> [Threads -> Steps]]
         /\ pc'[p][t] = s
         /\ \A u \in Threads \ {t} : pc'[p][u] = pc[p][u]
         /\ \A q \in Procs \ {p} : pc'[q] = pc[q]
BY DEF TypeOK, Goto

(* One field of the memory of a process changes. *)
LEMMA Kept ==
  ASSUME TypeOK, NEW p \in Procs, NEW f \in {"version", "account", "seen", "had"}, NEW x,
         Keep(p, f, x)
  PROVE  /\ mem'[p] = [mem[p] EXCEPT ![f] = x]
         /\ \A q \in Procs \ {p} : mem'[q] = mem[q]
         /\ mem'[p] \in Memory => mem' \in [Procs -> Memory]
BY DEF TypeOK, Keep

(* A thread on its way: main past Open and before it serves, or the one    *)
(* sync of a process that serves.                                          *)
OnItsWay(p, t, s) ==
  \/ /\ t = "main" /\ pc[p][t] \in Starting \ Opening
     /\ s \in (Starting \ Opening) \cup {"serving", "reading"}
  \/ /\ t \in Syncers /\ pc[p][t] \in Syncing /\ s \in Syncing
     /\ pc[p][t] \in Recording => s \in Recording

(* Its memory is nobody else's: only what the thread itself has to know    *)
(* remains to be shown.                                                    *)
LEMMA Along ==
  ASSUME Inductive, NEW p \in Procs, NEW t \in Threads, NEW s, OnItsWay(p, t, s),
         Goto(p, t, s), UNCHANGED <<ledger, running>>,
         UNCHANGED <<newest, stuck>> \/ s \in Recording,
         s \in {"read", "save"} => mem'[p].account \in Accounts,
         s = "save" => mem'[p].seen \in {None, mem'[p].account},
         s \in {"start", "work"} => mem'[p].account \in profiles'
  PROVE  /\ Opened(p)' /\ OneSync(p)' /\ Recorded(p)' /\ Known(p)'
         /\ pc' \in [Procs -> [Threads -> Steps]]
         /\ \A q \in Procs \ {p} : pc'[q] = pc[q]
<1> USE DEF Syncers
<1>1. s \in Steps
  BY DEF OnItsWay, Steps, Starting, Serving, Syncing, Ensuring, Recording, Opening
<1>2. TypeOK /\ Opened(p) /\ OneSync(p) /\ Recorded(p) /\ Known(p)
  BY DEF Inductive
<1>3. /\ pc' \in [Procs -> [Threads -> Steps]]
      /\ pc'[p][t] = s
      /\ \A u \in Threads \ {t} : pc'[p][u] = pc[p][u]
      /\ \A q \in Procs \ {p} : pc'[q] = pc[q]
  BY <1>1, <1>2, Gone
<1>4. CASE t = "main"
  <2>1. /\ pc[p]["main"] \in Starting \ Opening
        /\ pc'[p]["main"] \in (Starting \ Opening) \cup {"serving", "reading"}
    BY <1>3, <1>4 DEF OnItsWay
  <2>2. \A u \in Syncers : pc'[p][u] = "idle" /\ pc[p][u] = "idle"
    BY <1>2, <1>3, <1>4, <2>1 DEF OneSync, Starting, Serving, Opening, Ensuring, Threads
  <2>3. Opened(p)'
    BY <1>2, <2>1 DEF Opened, Opening, Starting, Ensuring
  <2>4. OneSync(p)'
    BY <2>1, <2>2 DEF OneSync, Serving, Syncing, Ensuring, Recording
  <2>5. newest' = p => stuck'
    BY <1>2, <1>3, <1>4, <2>1, <2>2 DEF Recorded, Recording, Starting, Opening, Ensuring
  <2>6. Known(p)'
    BY <1>3, <1>4, <2>2 DEF Known, Threads
  <2> QED BY <1>3, <2>3, <2>4, <2>5, <2>6 DEF Recorded
<1>5. CASE t \in Syncers
  <2>1. /\ pc[p][t] \in Syncing /\ s \in Syncing
        /\ pc[p][t] \in Recording => s \in Recording
    BY <1>5 DEF OnItsWay
  <2>2. /\ pc[p]["main"] \in Serving /\ pc'[p]["main"] = pc[p]["main"]
        /\ running'[p]
        /\ \A u \in Syncers \ {t} : pc[p][u] = "idle" /\ pc'[p][u] = "idle"
    BY <1>2, <1>3, <1>5, <2>1 DEF OneSync, Threads
  <2>3. Opened(p)'
    BY <1>2, <2>2 DEF Opened, Opening, Serving
  <2>4. OneSync(p)'
    BY <1>2, <1>3, <2>1, <2>2 DEF OneSync, Serving, Syncing, Ensuring, Recording
  <2>5. Recorded(p)'
    BY <1>2, <1>3, <1>5, <2>1, <2>2 DEF Recorded, Recording
  <2>6. Known(p)'
    BY <1>3, <1>5, <2>2 DEF Known, Threads, Serving
  <2> QED BY <1>3, <2>3, <2>4, <2>5, <2>6
<1> QED BY <1>4, <1>5 DEF Threads

-----------------------------------------------------------------------------
(* The end of a process frees the write lock and leaves its run behind. *)
LEMMA InductiveEnds == ASSUME Inductive, NEW p \in Procs, Ends(p) PROVE Inductive'
<1> USE ProcessAssumption DEF ProcessAssumption
<1>1. Blank \in Memory
  BY DEF Blank, Memory, Commands, Sources
<1>2. Off \in [Threads -> Steps]
  BY DEF Off, Threads, Steps, Starting, Opening, Ensuring
<1>3. pc' = [pc EXCEPT ![p] = Off] /\ TypeOK /\ UNCHANGED database
  BY DEF Ends, Inductive
<1>4. pc'[p] = Off /\ \A q \in Procs \ {p} : pc'[q] = pc[q]
  BY <1>3 DEF TypeOK
<1>5. TypeOK'
  <2>1. pc' \in [Procs -> [Threads -> Steps]]
    BY <1>2, <1>3 DEF TypeOK
  <2>2. running' \in [Procs -> BOOLEAN]
    BY DEF Ends, Inductive, TypeOK
  <2>3. mem' \in [Procs -> Memory]
    BY <1>1 DEF Ends, Inductive, TypeOK
  <2>4. writer' \in Procs \cup {None}
    BY DEF Ends, Inductive, TypeOK
  <2>5. newest' \in Procs \cup {"none", "finished", "orphan"}
    BY DEF Ends, Inductive, TypeOK
  <2>6. stuck' \in BOOLEAN
    BY DEF Ends, Inductive, TypeOK
  <2> QED BY <1>3, <2>1, <2>2, <2>3, <2>4, <2>5, <2>6 DEF TypeOK, database
<1>6. AppliedOnce' /\ OneOwner'
  BY <1>3 DEF database, Inductive, AppliedOnce, OneOwner
<1>7. newest' # p /\ \A q \in Procs \ {p} : newest' = q => newest = q /\ (stuck => stuck')
  BY DEF Ends
<1>8. Opened(p)' /\ OneSync(p)' /\ Recorded(p)' /\ Known(p)'
  BY <1>4, <1>7 DEF Off, Threads, Syncers, Opened, OneSync, Recorded, Known, Opening,
                    Starting, Serving, Ensuring, Syncing, Recording
<1>9. \A q \in Procs \ {p} : mem'[q] = mem[q] /\ running'[q] = running[q]
  BY DEF Ends, Inductive, TypeOK
<1> QED BY <1>3, <1>4, <1>5, <1>6, <1>7, <1>8, <1>9, Preserved DEF database

LEMMA InductiveLaunch ==
  ASSUME Inductive, NEW p \in Procs, NEW command \in Commands, NEW source \in Sources,
         Launch(p, command, source)
  PROVE  Inductive'
<1> USE ProcessAssumption DEF ProcessAssumption
<1>1. TypeOK /\ OneSync(p) /\ Known(p) /\ Recorded(p) /\ At(p, "main", "off")
  BY DEF Inductive, Launch
<1> DEFINE fresh == [Blank EXCEPT !.command = command, !.source = source]
<1>2. fresh \in Memory /\ fresh.version = 1
  <2>1. Blank \in Memory /\ Blank.version = 1
    BY DEF Blank, Memory, Commands, Sources
  <2>2. fresh \in Memory
    BY <2>1 DEF Memory
  <2>3. fresh.version = Blank.version
    BY <2>1 DEF Memory
  <2> QED BY <2>1, <2>2, <2>3
<1>3. mem' \in [Procs -> Memory] /\ mem'[p] = fresh /\ \A q \in Procs \ {p} : mem'[q] = mem[q]
  <2>1. mem' = [mem EXCEPT ![p] = fresh]
    BY DEF Launch
  <2> HIDE DEF fresh
  <2> QED BY <1>1, <1>2, <2>1 DEF TypeOK
<1>4. /\ pc' \in [Procs -> [Threads -> Steps]]
      /\ pc'[p]["main"] = "check"
      /\ \A u \in Threads \ {"main"} : pc'[p][u] = pc[p][u]
      /\ \A q \in Procs \ {p} : pc'[q] = pc[q]
  BY <1>1, Gone DEF Launch, Threads, Steps, Starting, Opening
<1>5. UNCHANGED <<schema, profiles, games, newest, stuck, running>>
  BY DEF Launch
<1>6. TypeOK'
  BY <1>1, <1>3, <1>4, <1>5 DEF TypeOK, schema
<1>7. \A t \in Syncers : pc[p][t] = "idle" /\ pc'[p][t] = "idle"
  BY <1>1, <1>4 DEF OneSync, At, Serving, Threads, Syncers
<1>8. Opened(p)' /\ OneSync(p)' /\ Recorded(p)' /\ Known(p)'
  <2>1. Opened(p)'
    BY <1>2, <1>3, <1>4 DEF Opened, Opening
  <2>2. OneSync(p)'
    BY <1>4, <1>7 DEF OneSync, Starting, Opening, Syncing, Ensuring, Recording
  <2>3. Recorded(p)'
    BY <1>1, <1>5, <1>7 DEF Recorded, Recording
  <2>4. Known(p)'
    BY <1>4, <1>7 DEF Known, Threads, Syncers
  <2> QED BY <2>1, <2>2, <2>3, <2>4
<1>9. AppliedOnce' /\ OneOwner'
  BY <1>5 DEF schema, Inductive, AppliedOnce, OneOwner
<1> QED BY <1>3, <1>4, <1>5, <1>6, <1>8, <1>9, Preserved DEF schema

-----------------------------------------------------------------------------
LEMMA InductiveOpen == ASSUME Inductive, NEW p \in Procs, Open(p) PROVE Inductive'
<1> USE ProcessAssumption DEF ProcessAssumption
<1> DEFINE v == mem[p].version
<1>1. /\ TypeOK /\ AppliedOnce /\ OneOwner
      /\ Opened(p) /\ OneSync(p) /\ Recorded(p) /\ Known(p)
  BY DEF Inductive
<1>2. PICK s \in (Opening \cup {"seed"}) : Goto(p, "main", s) \/ (UNCHANGED pc /\ s = pc[p]["main"])
  BY DEF Open, CheckMigration, ApplyBody, RecordMigration, Opening, At
<1>3. /\ pc' \in [Procs -> [Threads -> Steps]]
      /\ pc'[p]["main"] = s
      /\ \A u \in Threads \ {"main"} : pc'[p][u] = pc[p][u]
      /\ \A q \in Procs \ {p} : pc'[q] = pc[q]
  <2>1. s \in Steps /\ "main" \in Threads
    BY DEF Steps, Starting, Threads
  <2>2. CASE Goto(p, "main", s)
    BY <1>1, <2>1, <2>2, Gone
  <2>3. CASE UNCHANGED pc /\ s = pc[p]["main"]
    BY <1>1, <2>3 DEF TypeOK
  <2> QED BY <1>2, <2>2, <2>3
<1>4. UNCHANGED <<profiles, games, newest, stuck, running>>
  BY DEF Open, CheckMigration, ApplyBody, RecordMigration, database
<1>5. pc[p]["main"] \in Opening
  BY DEF Open, CheckMigration, ApplyBody, RecordMigration, At, Opening
<1>6. \A t \in Syncers : pc[p][t] = "idle" /\ pc'[p][t] = "idle"
  BY <1>1, <1>3, <1>5 DEF OneSync, Opening, Serving, Threads, Syncers
<1>7. OneSync(p)' /\ Recorded(p)' /\ Known(p)'
  <2>1. OneSync(p)'
    BY <1>2, <1>3, <1>6 DEF OneSync, Starting, Opening, Syncing, Ensuring, Recording
  <2>2. Recorded(p)'
    BY <1>1, <1>4, <1>6 DEF Recorded, Recording
  <2>3. Known(p)'
    BY <1>2, <1>3, <1>6 DEF Known, Threads, Syncers, Opening
  <2> QED BY <2>1, <2>2, <2>3
<1>8. mem[p] \in Memory /\ v \in 1..(N + 1)
  BY <1>1 DEF TypeOK, Memory
<1>9. ASSUME v \in Versions, Keep(p, "version", v + 1)
      PROVE  /\ mem' \in [Procs -> Memory] /\ mem'[p].version = v + 1
             /\ \A q \in Procs \ {p} : mem'[q] = mem[q]
  <2>1. v + 1 \in 1..(N + 1)
    BY <1>9
  <2>2. [mem[p] EXCEPT !["version"] = v + 1] \in Memory
    BY <1>8, <2>1 DEF Memory
  <2>3. [mem[p] EXCEPT !["version"] = v + 1].version = v + 1
    BY <1>8 DEF Memory
  <2> QED BY <1>1, <1>9, <2>2, <2>3, Kept
<1>10. CASE CheckMigration(p)
  <2>1. UNCHANGED schema /\ pc[p]["main"] = "check"
    BY <1>10 DEF CheckMigration, At
  <2>2. AppliedOnce' /\ OneOwner'
    BY <1>1, <1>4, <2>1 DEF schema, AppliedOnce, OneOwner
  <2>3. CASE v \in Versions /\ v \in ledger
    <3>1. Keep(p, "version", v + 1) /\ UNCHANGED pc
      BY <1>10, <2>3 DEF CheckMigration
    <3>2. TypeOK'
      BY <1>1, <1>3, <1>4, <1>9, <2>1, <2>3, <3>1 DEF TypeOK, schema
    <3>3. Opened(p)'
      BY <1>1, <1>5, <1>9, <2>1, <2>3, <3>1 DEF Opened, schema, Opening
    <3> QED BY <1>3, <1>4, <1>7, <1>9, <2>1, <2>2, <2>3, <3>1, <3>2, <3>3, Preserved DEF schema
  <2>4. CASE v \notin Versions \/ v \notin ledger
    <3>1. UNCHANGED mem
      BY <1>10, <2>4 DEF CheckMigration
    <3>2. TypeOK'
      BY <1>1, <1>3, <1>4, <2>1, <3>1 DEF TypeOK, schema
    <3>3. Opened(p)'
      <4>1. \A w \in Versions : w < v => w \in ledger
        BY <1>1, <1>5 DEF Opened
      <4>2. CASE v \in Versions
        <5>1. Goto(p, "main", "apply")
          BY <1>10, <2>4, <4>2 DEF CheckMigration
        <5>2. pc'[p]["main"] = "apply"
          BY <1>1, <5>1, Gone DEF Steps, Starting, Opening, Threads
        <5> QED BY <2>1, <3>1, <4>1, <4>2, <5>2 DEF Opened, Opening, schema
      <4>3. CASE v \notin Versions
        <5>1. Goto(p, "main", "seed")
          BY <1>10, <4>3 DEF CheckMigration
        <5>2. pc'[p]["main"] = "seed"
          BY <1>1, <5>1, Gone DEF Steps, Starting, Threads
        <5>3. v = N + 1
          BY <1>8, <4>3
        <5>4. \A w \in Versions : w < v
          BY <5>3
        <5>5. ledger = Versions
          BY <1>1, <4>1, <5>4 DEF TypeOK
        <5> QED BY <2>1, <3>1, <5>2, <5>5 DEF Opened, Opening, schema
      <4> QED BY <4>2, <4>3
    <3> QED BY <1>3, <1>4, <1>7, <2>1, <2>2, <3>1, <3>2, <3>3, Preserved DEF schema
  <2> QED BY <2>3, <2>4
<1>11. CASE ApplyBody(p)
  <2>1. UNCHANGED <<database, mem>> /\ pc[p]["main"] = "apply" /\ Goto(p, "main", "record") /\ writer' = p
    BY <1>11 DEF ApplyBody, At
  <2>2. AppliedOnce' /\ OneOwner'
    BY <1>1, <2>1 DEF database, AppliedOnce, OneOwner
  <2>3. TypeOK'
    BY <1>1, <1>3, <1>4, <2>1 DEF TypeOK, database
  <2>4. pc'[p]["main"] = "record"
    BY <1>1, <2>1, Gone DEF Steps, Starting, Opening, Threads
  <2>5. Opened(p)'
    BY <1>1, <2>1, <2>4 DEF Opened, Opening, database
  <2> QED BY <1>3, <1>4, <1>7, <2>1, <2>2, <2>3, <2>5, Preserved DEF database
<1>12. CASE RecordMigration(p)
  <2>1. /\ pc[p]["main"] = "record" /\ Goto(p, "main", "check") /\ Keep(p, "version", v + 1)
        /\ v \notin ledger /\ ledger' = ledger \cup {v}
        /\ applied' = [applied EXCEPT ![v] = @ + 1] /\ writer' = None
    BY <1>12 DEF RecordMigration, At
  <2>2. v \in Versions /\ \A w \in Versions : w < v => w \in ledger
    BY <1>1, <2>1 DEF Opened, Opening
  <2>3. applied[v] = 0
    BY <1>1, <2>1, <2>2 DEF AppliedOnce
  <2>4. applied' \in [Versions -> Nat] /\ applied'[v] = 1
        /\ \A w \in Versions \ {v} : applied'[w] = applied[w]
    BY <1>1, <2>1, <2>2, <2>3 DEF TypeOK
  <2>5. AppliedOnce'
    BY <1>1, <2>1, <2>4 DEF AppliedOnce
  <2>6. OneOwner'
    BY <1>1, <1>4 DEF OneOwner
  <2>7. TypeOK'
    BY <1>1, <1>3, <1>4, <1>9, <2>1, <2>2, <2>4 DEF TypeOK
  <2>8. pc'[p]["main"] = "check"
    BY <1>1, <2>1, Gone DEF Steps, Starting, Opening, Threads
  <2>9. \A w \in Versions : w < v + 1 => w \in ledger'
    BY <1>8, <2>1, <2>2
  <2>10. Opened(p)'
    BY <1>9, <2>1, <2>2, <2>8, <2>9 DEF Opened, Opening
  <2> QED BY <1>3, <1>4, <1>7, <1>9, <2>1, <2>2, <2>5, <2>6, <2>7, <2>10, Preserved
<1> QED BY <1>10, <1>11, <1>12 DEF Open

-----------------------------------------------------------------------------
(* A step of a thread on its way, of which the rest is left to show. *)
LEMMA Advances ==
  ASSUME Inductive, NEW p \in Procs, NEW t \in Threads, NEW s, OnItsWay(p, t, s),
         Goto(p, t, s), UNCHANGED <<schema, running>>,
         UNCHANGED <<newest, stuck>> \/ (newest' = p /\ stuck' = FALSE /\ s \in Recording),
         mem' \in [Procs -> Memory], \A q \in Procs \ {p} : mem'[q] = mem[q],
         profiles \subseteq profiles', profiles' \subseteq Owners, OneOwner',
         s \in {"read", "save"} => mem'[p].account \in Accounts,
         s = "save" => mem'[p].seen \in {None, mem'[p].account},
         s \in {"start", "work"} => mem'[p].account \in profiles'
  PROVE  Inductive'
<1>1. ledger' = ledger /\ running' = running /\ writer' = writer /\ applied' = applied
  BY DEF schema
<1>2. /\ Opened(p)' /\ OneSync(p)' /\ Recorded(p)' /\ Known(p)'
      /\ pc' \in [Procs -> [Threads -> Steps]]
      /\ \A q \in Procs \ {p} : pc'[q] = pc[q]
  BY <1>1, Along
<1>3. TypeOK'
  BY <1>1, <1>2 DEF Inductive, TypeOK, OneOwner
<1>4. AppliedOnce'
  BY <1>1 DEF Inductive, AppliedOnce
<1> QED BY <1>1, <1>2, <1>3, <1>4, Preserved

LEMMA InductivePrepare ==
  ASSUME Inductive, NEW p \in Procs,
         Prepare(p) \/ ServeSaved(p) \/ RequirePrimaryPlayer(p) \/ StartFails(p)
  PROVE  Inductive'
<1> USE ProcessAssumption DEF ProcessAssumption
<1>1. CASE SeedRefused(p) \/ StartFails(p)
  BY <1>1, InductiveEnds DEF SeedRefused, StartFails
<1>2. CASE SeedNotRequested(p) \/ SeedDemo(p) \/ SeedSkipped(p)
           \/ ServeSaved(p) \/ RequirePrimaryPlayer(p)
  <2>1. PICK s \in {"reading", "lookup", "require", "serving"} :
             Goto(p, "main", s) /\ OnItsWay(p, "main", s)
    BY <1>2 DEF SeedNotRequested, SeedDemo, SeedSkipped, ServeSaved, RequirePrimaryPlayer,
                AfterSeed, OnItsWay, At, Starting, Ensuring, Opening
  <2>2. UNCHANGED <<schema, newest, stuck, running, mem>>
    BY <1>2 DEF SeedNotRequested, SeedDemo, SeedSkipped, ServeSaved, RequirePrimaryPlayer
  <2>3. profiles \subseteq profiles' /\ profiles' \subseteq Owners /\ OneOwner'
    <3>1. CASE SeedDemo(p)
      BY <3>1 DEF SeedDemo, Real, Inductive, TypeOK, OneOwner
    <3>2. CASE UNCHANGED <<profiles, games>>
      BY <3>2 DEF Inductive, TypeOK, OneOwner
    <3> QED BY <1>2, <3>1, <3>2 DEF SeedNotRequested, SeedSkipped, ServeSaved, RequirePrimaryPlayer
  <2>4. mem' \in [Procs -> Memory]
    BY <2>2 DEF Inductive, TypeOK
  <2> QED BY <2>1, <2>2, <2>3, <2>4, Advances DEF Threads
<1> QED BY <1>1, <1>2 DEF Prepare

LEMMA InductiveEnsure ==
  ASSUME Inductive, NEW p \in Procs, NEW t \in Threads, Ensure(p, t) PROVE Inductive'
<1> USE ProcessAssumption DEF ProcessAssumption
<1>1. /\ TypeOK /\ OneOwner /\ OneSync(p) /\ Known(p)
      /\ t = "main" \/ t \in Syncers
      /\ mem[p] \in Memory
  BY DEF Inductive, TypeOK, Threads, Syncers
<1>2. ASSUME NEW s \in Ensuring \cup {AfterEnsure(t), EnsureFailed(t)}, pc[p][t] \in Ensuring
      PROVE  OnItsWay(p, t, s)
  BY <1>1, <1>2 DEF OnItsWay, AfterEnsure, EnsureFailed, Ensuring, Starting, Opening, Syncing,
                    Recording, Syncers
<1>3. ASSUME NEW s \in Steps, Goto(p, t, s), Drop(p, t)
      PROVE  /\ mem' \in [Procs -> Memory] /\ \A q \in Procs \ {p} : mem'[q] = mem[q]
             /\ t # "main" /\ s = "start" => mem'[p].account = mem[p].account
  <2>1. pc'[p][t] = s
    BY <1>1, <1>3, Gone
  <2> DEFINE a == IF t # "main" /\ s = "start" THEN mem[p].account ELSE None
             m == [mem[p] EXCEPT !.seen = None, !.account = a]
  <2>2. mem' = [mem EXCEPT ![p] = m]
    BY <1>3, <2>1 DEF Drop
  <2>3. m \in Memory /\ m.account = a
    BY <1>1 DEF Memory
  <2> HIDE DEF m
  <2> QED BY <1>1, <2>2, <2>3 DEF TypeOK
<1>4. ASSUME NEW a \in Accounts, AccountByRiotID(p, t, a) PROVE Inductive'
  <2>1. /\ pc[p][t] = "lookup" /\ Goto(p, t, "read") /\ Keep(p, "account", a)
        /\ UNCHANGED <<schema, profiles, games, newest, stuck, running>>
    BY <1>4 DEF AccountByRiotID, At
  <2>2. [mem[p] EXCEPT !["account"] = a] \in Memory
        /\ [mem[p] EXCEPT !["account"] = a].account = a
    BY <1>1 DEF Memory
  <2>3. /\ mem' \in [Procs -> Memory] /\ mem'[p].account = a
        /\ \A q \in Procs \ {p} : mem'[q] = mem[q]
    BY <1>1, <2>1, <2>2, Kept
  <2>4. OnItsWay(p, t, "read")
    BY <1>2, <2>1 DEF Ensuring
  <2>5. profiles' \subseteq Owners /\ OneOwner'
    BY <1>1, <2>1 DEF TypeOK, OneOwner
  <2> QED BY <2>1, <2>3, <2>4, <2>5, Advances
<1>5. CASE ReadProfile(p, t)
  <2> DEFINE o == IF profiles = {} THEN None ELSE mem[p].account
  <2>1. /\ pc[p][t] = "read" /\ Goto(p, t, "save") /\ Keep(p, "seen", o)
        /\ UNCHANGED <<schema, profiles, games, newest, stuck, running>>
    BY <1>5 DEF ReadProfile, At
  <2>2. mem[p].account \in Accounts
    BY <1>1, <2>1 DEF Known
  <2>3. o \in Owners \cup {None} /\ o \in {None, mem[p].account}
    BY <2>2
  <2> HIDE DEF o
  <2>4. /\ [mem[p] EXCEPT !["seen"] = o] \in Memory
        /\ [mem[p] EXCEPT !["seen"] = o].account = mem[p].account
        /\ [mem[p] EXCEPT !["seen"] = o].seen = o
    BY <1>1, <2>3 DEF Memory
  <2>5. /\ mem' \in [Procs -> Memory]
        /\ mem'[p].account = mem[p].account /\ mem'[p].seen = o
        /\ \A q \in Procs \ {p} : mem'[q] = mem[q]
    BY <1>1, <2>1, <2>4, Kept
  <2>6. OnItsWay(p, t, "save")
    BY <1>2, <2>1 DEF Ensuring
  <2>7. profiles' \subseteq Owners /\ OneOwner'
    BY <1>1, <2>1 DEF TypeOK, OneOwner
  <2> QED BY <2>1, <2>2, <2>3, <2>5, <2>6, <2>7, Advances
<1>6. CASE ProfileConflict(p, t) /\ t = "main"
  BY <1>6, InductiveEnds DEF ProfileConflict
<1>7. CASE EnsureFails(p, t) \/ (ProfileConflict(p, t) /\ t # "main")
  <2> DEFINE s == EnsureFailed(t)
  <2>1. /\ pc[p][t] \in Ensuring /\ Goto(p, t, s) /\ Drop(p, t)
        /\ UNCHANGED <<schema, profiles, games, newest, stuck, running>>
    BY <1>7 DEF ProfileConflict, EnsureFails, EnsureFailed, At, Ensuring
  <2>2. s \in Steps /\ s \notin {"read", "save", "start", "work"}
    BY DEF EnsureFailed, Steps, Starting, Syncing
  <2>3. OnItsWay(p, t, s)
    BY <1>2, <2>1
  <2> HIDE DEF s
  <2>4. mem' \in [Procs -> Memory] /\ \A q \in Procs \ {p} : mem'[q] = mem[q]
    BY <1>3, <2>1, <2>2
  <2>5. profiles' \subseteq Owners /\ OneOwner'
    BY <1>1, <2>1 DEF TypeOK, OneOwner
  <2> QED BY <2>1, <2>2, <2>3, <2>4, <2>5, Advances
<1>8. CASE SavePrimaryPlayer(p, t)
  <2>1. /\ pc[p][t] = "save" /\ Drop(p, t)
        /\ profiles \ {mem[p].seen} = {}
        /\ profiles' = (profiles \ {mem[p].seen}) \cup {mem[p].account}
        /\ UNCHANGED <<schema, games, newest, stuck, running>>
    BY <1>8 DEF SavePrimaryPlayer, At
  <2>2. PICK s \in {AfterEnsure(t), EnsureFailed(t)} : Goto(p, t, s)
    BY <1>8 DEF SavePrimaryPlayer
  <2>3. s \in Steps /\ s \notin {"read", "save", "work"} /\ (s = "start" => t # "main")
    BY <2>2 DEF AfterEnsure, EnsureFailed, Steps, Starting, Syncing
  <2>4. OnItsWay(p, t, s)
    BY <1>2, <2>1, <2>2 DEF Ensuring
  <2>5. /\ mem' \in [Procs -> Memory] /\ \A q \in Procs \ {p} : mem'[q] = mem[q]
        /\ s = "start" => mem'[p].account = mem[p].account
    BY <1>3, <2>1, <2>2, <2>3
  <2>6. mem[p].account \in Accounts /\ mem[p].seen \in {None, mem[p].account}
    BY <1>1, <2>1 DEF Known
  <2>7. profiles \subseteq profiles' /\ profiles' = {mem[p].account}
    BY <1>1, <2>1, <2>6 DEF TypeOK
  <2>8. OneOwner' /\ profiles' \subseteq Owners
    BY <1>1, <2>1, <2>6, <2>7 DEF OneOwner
  <2>9. s = "start" => mem'[p].account \in profiles'
    BY <2>5, <2>7
  <2> QED BY <2>1, <2>2, <2>3, <2>4, <2>5, <2>7, <2>8, <2>9, Advances
<1> QED BY <1>4, <1>5, <1>6, <1>7, <1>8 DEF Ensure

-----------------------------------------------------------------------------
LEMMA InductiveBeginSync ==
  ASSUME Inductive, NEW p \in Procs, NEW t \in Syncers, BeginSync(p, t) PROVE Inductive'
<1> USE DEF Syncers
<1>1. TypeOK /\ Opened(p) /\ OneSync(p) /\ Recorded(p) /\ Known(p)
  BY DEF Inductive
<1>2. /\ pc[p]["main"] \in Serving /\ ~running[p] /\ Goto(p, t, "existing")
      /\ running' = [running EXCEPT ![p] = TRUE]
      /\ UNCHANGED <<schema, profiles, games, newest, stuck, mem>>
  BY DEF BeginSync
<1>3. /\ pc' \in [Procs -> [Threads -> Steps]]
      /\ pc'[p][t] = "existing"
      /\ \A u \in Threads \ {t} : pc'[p][u] = pc[p][u]
      /\ \A q \in Procs \ {p} : pc'[q] = pc[q]
  BY <1>1, <1>2, Gone DEF Threads, Steps, Syncing
<1>4. \A u \in Syncers : pc[p][u] = "idle"
  BY <1>1, <1>2 DEF OneSync
<1>5. running'[p] /\ \A q \in Procs \ {p} : running'[q] = running[q]
  BY <1>1, <1>2 DEF TypeOK
<1>6. running' \in [Procs -> BOOLEAN]
  BY <1>1, <1>2 DEF TypeOK
<1>7. TypeOK'
  BY <1>1, <1>2, <1>3, <1>6 DEF TypeOK, schema
<1>8. Opened(p)' /\ Known(p)'
  BY <1>1, <1>2, <1>3 DEF Opened, Known, schema, Threads, Opening
<1>9. OneSync(p)'
  BY <1>1, <1>2, <1>3, <1>4, <1>5 DEF OneSync, Threads, Syncing, Serving, Ensuring, Recording
<1>10. Recorded(p)'
  BY <1>1, <1>2, <1>4 DEF Recorded, Recording
<1>11. AppliedOnce' /\ OneOwner'
  BY <1>2 DEF schema, Inductive, AppliedOnce, OneOwner
<1> QED BY <1>2, <1>3, <1>5, <1>7, <1>8, <1>9, <1>10, <1>11, Preserved DEF schema

(* A sync lets the next one begin, and a run it leaves behind is stuck. *)
LEMMA InductiveEndSync ==
  ASSUME Inductive, NEW p \in Procs, NEW t \in Syncers, EndSync(p, t),
         pc[p][t] \in Syncing, UNCHANGED <<schema, profiles, games>>, stuck' \in BOOLEAN,
         newest' = p => stuck', newest' \in {newest, "finished", p},
         \A q \in Procs \ {p} : newest' = q => (stuck => stuck')
  PROVE  Inductive'
<1> USE ProcessAssumption DEF ProcessAssumption, Syncers
<1>1. TypeOK /\ Opened(p) /\ OneSync(p) /\ Recorded(p) /\ Known(p)
  BY DEF Inductive
<1>2. /\ pc' \in [Procs -> [Threads -> Steps]]
      /\ pc'[p][t] = "idle"
      /\ \A u \in Threads \ {t} : pc'[p][u] = pc[p][u]
      /\ \A q \in Procs \ {p} : pc'[q] = pc[q]
  BY <1>1, Gone DEF EndSync, Threads, Steps
<1>3. pc[p]["main"] \in Serving /\ \A u \in Syncers : pc'[p][u] = "idle"
  BY <1>1, <1>2 DEF OneSync, Threads
<1>4. mem' \in [Procs -> Memory] /\ \A q \in Procs \ {p} : mem'[q] = mem[q]
  <2> DEFINE m == [mem[p] EXCEPT !.account = None, !.had = FALSE]
  <2>1. m \in Memory
    <3>1. mem[p] \in Memory
      BY <1>1 DEF TypeOK
    <3> QED BY <3>1 DEF Memory
  <2>2. mem' = [mem EXCEPT ![p] = m]
    BY DEF EndSync
  <2> HIDE DEF m
  <2> QED BY <1>1, <2>1, <2>2 DEF TypeOK
<1>5. running' \in [Procs -> BOOLEAN] /\ \A q \in Procs \ {p} : running'[q] = running[q]
  BY <1>1 DEF EndSync, TypeOK
<1>6. TypeOK'
  BY <1>1, <1>2, <1>4, <1>5 DEF TypeOK, schema
<1>7. Opened(p)' /\ Known(p)'
  BY <1>1, <1>2, <1>3 DEF Opened, Known, schema, Threads, Opening, Serving
<1>8. OneSync(p)' /\ Recorded(p)'
  BY <1>1, <1>2, <1>3 DEF OneSync, Recorded, Threads, Syncing, Ensuring, Recording
<1>9. AppliedOnce' /\ OneOwner'
  BY DEF schema, Inductive, AppliedOnce, OneOwner
<1> QED BY <1>2, <1>4, <1>5, <1>6, <1>7, <1>8, <1>9, Preserved DEF schema

LEMMA InductiveSync ==
  ASSUME Inductive, NEW p \in Procs, NEW t \in Syncers, SyncStep(p, t) \/ ImportMatch(p, t)
  PROVE  Inductive'
<1> USE ProcessAssumption DEF ProcessAssumption
<1>1. /\ TypeOK /\ OneOwner /\ OneSync(p) /\ Recorded(p) /\ Known(p)
      /\ t \in Threads /\ mem[p] \in Memory
  BY DEF Inductive, TypeOK, Threads
<1>2. ASSUME NEW had \in BOOLEAN, ReadExisting(p, t, had) PROVE Inductive'
  <2>1. /\ pc[p][t] = "existing" /\ Goto(p, t, "lookup") /\ Keep(p, "had", had)
        /\ UNCHANGED <<schema, profiles, games, newest, stuck, running>>
    BY <1>2 DEF ReadExisting, At
  <2>2. [mem[p] EXCEPT !["had"] = had] \in Memory
    BY <1>1 DEF Memory
  <2>3. mem' \in [Procs -> Memory] /\ \A q \in Procs \ {p} : mem'[q] = mem[q]
    BY <1>1, <2>1, <2>2, Kept
  <2>4. OnItsWay(p, t, "lookup")
    BY <2>1 DEF OnItsWay, Syncing, Ensuring, Recording
  <2>5. profiles' \subseteq Owners /\ OneOwner'
    BY <1>1, <2>1 DEF TypeOK, OneOwner
  <2> QED BY <1>1, <2>1, <2>3, <2>4, <2>5, Advances
<1>3. CASE StartSyncRun(p, t)
  <2>1. PICK s \in {"work", "finish"} :
             /\ Goto(p, t, s)
             /\ pc[p][t] \in {"start", "failed"} /\ (s = "work" => pc[p][t] = "start")
    BY <1>3 DEF StartSyncRun, At
  <2>2. newest' = p /\ stuck' = FALSE /\ UNCHANGED <<schema, profiles, games, running, mem>>
    BY <1>3 DEF StartSyncRun
  <2>3. OnItsWay(p, t, s)
    BY <2>1 DEF OnItsWay, Syncing, Ensuring, Recording
  <2>4. s = "work" => mem[p].account \in profiles
    BY <1>1, <2>1 DEF Known
  <2>5. profiles' \subseteq Owners /\ OneOwner' /\ mem' \in [Procs -> Memory] /\ s \in Recording
    BY <1>1, <2>1, <2>2 DEF TypeOK, OneOwner, Recording
  <2> QED BY <1>1, <2>1, <2>2, <2>3, <2>4, <2>5, Advances
<1>4. CASE \/ StartSyncRunUnread(p, t) \/ NoSyncRun(p, t)
           \/ FinishSyncRun(p, t) \/ FinishFails(p, t)
  <2>1. EndSync(p, t) /\ pc[p][t] \in Syncing /\ UNCHANGED <<schema, profiles, games>>
    BY <1>4 DEF StartSyncRunUnread, NoSyncRun, FinishSyncRun, FinishFails, At, Syncing,
       Recording
  <2>2. newest' \in {newest, "finished", p} /\ stuck' \in BOOLEAN
    BY <1>1, <1>4 DEF StartSyncRunUnread, NoSyncRun, FinishSyncRun, FinishFails, TypeOK
  <2>3. newest' = p => stuck'
    <3>1. CASE NoSyncRun(p, t)
      <4>1. pc[p][t] \in {"start", "failed"} /\ newest' = newest /\ stuck' = stuck
        BY <3>1 DEF NoSyncRun
      <4>2. \A u \in Syncers : pc[p][u] \notin Recording
        BY <1>1, <2>1, <4>1 DEF OneSync, Recording, Syncing
      <4> QED BY <1>1, <4>1, <4>2 DEF Recorded
    <3>2. CASE StartSyncRunUnread(p, t) \/ FinishSyncRun(p, t) \/ FinishFails(p, t)
      BY <3>2 DEF StartSyncRunUnread, FinishSyncRun, FinishFails
    <3> QED BY <1>4, <3>1, <3>2
  <2>4. \A q \in Procs \ {p} : newest' = q => (stuck => stuck')
    BY <1>4 DEF StartSyncRunUnread, NoSyncRun, FinishSyncRun, FinishFails
  <2> QED BY <2>1, <2>2, <2>3, <2>4, InductiveEndSync
<1>5. CASE EndImport(p, t)
  <2>1. /\ pc[p][t] = "work" /\ Goto(p, t, "finish")
        /\ UNCHANGED <<schema, profiles, games, newest, stuck, running, mem>>
    BY <1>5 DEF EndImport, At
  <2>2. OnItsWay(p, t, "finish")
    BY <2>1 DEF OnItsWay, Syncing, Recording
  <2>3. profiles' \subseteq Owners /\ OneOwner' /\ mem' \in [Procs -> Memory]
    BY <1>1, <2>1 DEF TypeOK, OneOwner
  <2> QED BY <1>1, <2>1, <2>2, <2>3, Advances
<1>6. CASE ImportMatch(p, t)
  <2>1. /\ pc[p][t] = "work" /\ games' = games \cup {mem[p].account}
        /\ UNCHANGED <<schema, profiles, newest, stuck, pc, running, mem>>
    BY <1>6 DEF ImportMatch, At
  <2>2. mem[p].account \in profiles
    BY <1>1, <2>1 DEF Known
  <2>3. OneOwner'
    BY <1>1, <2>1, <2>2 DEF OneOwner
  <2>4. TypeOK'
    BY <1>1, <2>1, <2>2 DEF TypeOK, schema
  <2>5. Opened(p)' /\ OneSync(p)' /\ Recorded(p)' /\ Known(p)' /\ AppliedOnce'
    BY <2>1 DEF Inductive, Opened, OneSync, Recorded, Known, AppliedOnce, schema
  <2> QED BY <2>1, <2>3, <2>4, <2>5, Preserved DEF schema
<1> QED BY <1>1, <1>2, <1>3, <1>4, <1>5, <1>6, InductiveEnsure DEF SyncStep

LEMMA InductiveSignal == ASSUME Inductive, NEW p \in Procs, Signal(p) PROVE Inductive'
<1>1. TypeOK /\ OneOwner /\ Opened(p) /\ OneSync(p) /\ Recorded(p) /\ Known(p)
  BY DEF Inductive
<1>2. /\ pc[p]["main"] = "serving" /\ Goto(p, "main", "draining")
      /\ UNCHANGED <<schema, profiles, games, newest, stuck, running, mem>>
  BY DEF Signal, At
<1>3. /\ pc' \in [Procs -> [Threads -> Steps]]
      /\ pc'[p]["main"] = "draining"
      /\ \A u \in Threads \ {"main"} : pc'[p][u] = pc[p][u]
      /\ \A q \in Procs \ {p} : pc'[q] = pc[q]
  BY <1>1, <1>2, Gone DEF Threads, Steps, Serving
<1>4. TypeOK'
  BY <1>1, <1>2, <1>3 DEF TypeOK, schema
<1>5. Opened(p)' /\ OneSync(p)'
  BY <1>1, <1>2, <1>3 DEF Opened, OneSync, Opening, Serving, Threads, Syncers, schema
<1>6. Recorded(p)'
  BY <1>1, <1>2, <1>3 DEF Recorded, Threads, Syncers
<1>7. Known(p)'
  BY <1>1, <1>2, <1>3 DEF Known, Threads, Syncers
<1>8. AppliedOnce' /\ OneOwner'
  BY <1>2 DEF schema, Inductive, AppliedOnce, OneOwner
<1> QED BY <1>2, <1>3, <1>4, <1>5, <1>6, <1>7, <1>8, Preserved DEF schema

-----------------------------------------------------------------------------
LEMMA InductiveStep == Inductive /\ [Next]_vars => Inductive'
<1> SUFFICES ASSUME Inductive, [Next]_vars PROVE Inductive'
  OBVIOUS
<1>1. CASE UNCHANGED vars
  BY <1>1 DEF vars, schema, Inductive, TypeOK, AppliedOnce, OneOwner, Opened, OneSync,
              Recorded, Known
<1>2. CASE Next
  <2>1. PICK p \in Procs :
          \/ \E command \in Commands, source \in Sources : Launch(p, command, source)
          \/ Start(p)
          \/ \E t \in Syncers : BeginSync(p, t) \/ SyncStep(p, t) \/ ImportMatch(p, t)
          \/ Signal(p) \/ Exit(p) \/ Kill(p)
    BY <1>2 DEF Next
  <2>2. CASE \E command \in Commands, source \in Sources : Launch(p, command, source)
    BY <2>2, InductiveLaunch
  <2>3. CASE Start(p)
    BY <2>3, InductiveOpen, InductivePrepare, InductiveEnsure DEF Start, Threads
  <2>4. CASE \E t \in Syncers : BeginSync(p, t) \/ SyncStep(p, t) \/ ImportMatch(p, t)
    BY <2>4, InductiveBeginSync, InductiveSync
  <2>5. CASE Signal(p)
    BY <2>5, InductiveSignal
  <2>6. CASE Exit(p) \/ Kill(p)
    BY <2>6, InductiveEnds DEF Exit, Kill
  <2> QED BY <2>1, <2>2, <2>3, <2>4, <2>5, <2>6
<1> QED BY <1>1, <1>2

(* The invariant on which the theorems below rest. *)
THEOREM InductiveInvariant == Spec => []Inductive
<1>1. Inductive /\ [Next]_vars => Inductive'
  BY InductiveStep
<1> QED BY <1>1, InductiveInit, PTL DEF Spec

(* Every reachable state is well typed. *)
THEOREM ProcessTypeCorrect == Spec => []TypeOK
<1>1. Inductive => TypeOK
  BY DEF Inductive
<1> QED BY <1>1, InductiveInvariant, PTL

(* Whatever number of processes opens the file at once and however they    *)
(* die: a migration is recorded exactly when it is applied, and never      *)
(* applied twice, and no process goes past Open with one missing.          *)
THEOREM WholeMigrations == Spec => []MigrationsAreWhole
<1>1. Inductive => MigrationsAreWhole
  BY DEF Inductive, Opened, AppliedOnce, MigrationsAreWhole
<1> QED BY <1>1, InductiveInvariant, PTL

(* One database, one profile, and its games only. *)
THEOREM NeverMixed == Spec => []OneOwner
<1>1. Inductive => OneOwner
  BY DEF Inductive
<1> QED BY <1>1, InductiveInvariant, PTL

(* A run shown as going on goes on, unless its process is gone or the      *)
(* store call that begins or ends it failed (service.go, Sync, finishRun). *)
THEOREM SyncShownIsLive == Spec => []RunningRunIsLive
<1>1. Inductive => RunningRunIsLive
  BY DEF Inductive, Recorded, OneSync, RunningRunIsLive
<1> QED BY <1>1, InductiveInvariant, PTL

(* No step of any process takes a stored profile away or replaces it. *)
THEOREM FixedProfile == Spec => ProfileIsFixed
<1>1. Inductive /\ [Next]_vars => [profiles \subseteq profiles']_vars
  <2> SUFFICES ASSUME Inductive, Next PROVE profiles \subseteq profiles'
    BY DEF vars
  <2>1. ASSUME NEW p \in Procs, SeedDemo(p) PROVE profiles \subseteq profiles'
    BY <2>1 DEF SeedDemo, Real
  <2>2. ASSUME NEW p \in Procs, NEW t \in Threads, SavePrimaryPlayer(p, t)
        PROVE  profiles \subseteq profiles'
    <3>1. mem[p].seen \in {None, mem[p].account} /\ profiles \ {mem[p].seen} = {}
      BY <2>2 DEF SavePrimaryPlayer, At, Inductive, Known
    <3>2. None \notin profiles
      BY ProcessAssumption DEF ProcessAssumption, Inductive, TypeOK
    <3> QED BY <2>2, <3>1, <3>2 DEF SavePrimaryPlayer
  <2>3. ASSUME NEW p \in Procs, NEW t \in Threads, Ensure(p, t) PROVE profiles \subseteq profiles'
    BY <2>2, <2>3 DEF Ensure, AccountByRiotID, ReadProfile, ProfileConflict, EnsureFails, Ends,
                      database
  <2>4. ASSUME NEW p \in Procs, Start(p) PROVE profiles \subseteq profiles'
    BY <2>1, <2>3, <2>4 DEF Start, Open, CheckMigration, ApplyBody, RecordMigration, Prepare,
       SeedNotRequested, SeedSkipped, SeedRefused, ServeSaved, RequirePrimaryPlayer, StartFails,
       Ends, database, Threads
  <2>5. ASSUME NEW p \in Procs, NEW t \in Syncers, SyncStep(p, t) PROVE profiles \subseteq profiles'
    BY <2>3, <2>5 DEF SyncStep, ReadExisting, StartSyncRun, StartSyncRunUnread, NoSyncRun, EndImport,
       FinishSyncRun, FinishFails, Threads
  <2> QED BY <2>4, <2>5 DEF Next, Launch, BeginSync, ImportMatch, Signal, Exit, Kill, Ends, database
<1> QED BY <1>1, InductiveInvariant, PTL DEF Spec, ProfileIsFixed
=============================================================================
