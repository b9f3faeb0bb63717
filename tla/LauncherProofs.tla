---------------------------- MODULE LauncherProofs ----------------------------
(***************************************************************************)
(* Theorems about Launcher, for any number of PIDs and of commands.        *)
(*                                                                         *)
(* Inductive says what a PID may have become since the command got it from *)
(* exec: while no other process has it, it is the command's game or        *)
(* nothing, and a process that has it now is not League's.                 *)
(***************************************************************************)
EXTENDS Launcher, TLAPS

(* A game counts as the command's while it lives, and as no other PID. *)
OwnLives ==
  own # None =>
    /\ own \in PIDs /\ kind[own] \in League
    /\ target # None => own = target

(* The PID the command holds: its game's, or given away. *)
TargetIsOwn == target # None => own = target \/ kind[target] \in {"none", "other"}

NothingStarted == pc \in {"check", "start"} => own = None

(* What the command returns after it restored the settings of a live game. *)
StopIsAccountedFor == At("restore") => own = None \/ error \/ mistaken

Inductive ==
  /\ TypeOK /\ OwnLives /\ TargetIsOwn /\ NothingStarted
  /\ SignalsOnlyItsGame /\ StopIsAccountedFor

-----------------------------------------------------------------------------
LEMMA InductiveInit == Init => Inductive
<1> SUFFICES ASSUME Init PROVE Inductive
  OBVIOUS
<1>1. TypeOK
  BY DEF Init, TypeOK, Kinds, Unlaunched, Launched
<1>2. OwnLives /\ TargetIsOwn /\ NothingStarted
  BY DEF Init, OwnLives, TargetIsOwn, NothingStarted
<1>3. SignalsOnlyItsGame /\ StopIsAccountedFor
  BY DEF Init, SignalsOnlyItsGame, StopIsAccountedFor, Instants, At
<1> QED BY <1>1, <1>2, <1>3 DEF Inductive

(* A process that is not League's is not the command's game. *)
LEMMA OwnIsTheGame ==
  ASSUME TypeOK, OwnLives, TargetIsOwn, target # None
  PROVE  /\ kind[target] \in League => own = target
         /\ Gone => own = None
BY DEF OwnLives, TargetIsOwn, League, Gone, TypeOK

-----------------------------------------------------------------------------
LEMMA InductiveLaunch == ASSUME Inductive, Launch PROVE Inductive'
<1> USE LauncherAssumption DEF LauncherAssumption, At, Goto, command, outcome, system
<1>1. CASE Begin
  <2>1. TypeOK'
    BY <1>1 DEF Begin, Inductive, TypeOK, Unlaunched, Launched
  <2>2. own' = None /\ target' = None /\ pc' = "check"
    BY <1>1 DEF Begin, Inductive, TypeOK, Unlaunched
  <2> QED BY <2>1, <2>2 DEF Inductive, OwnLives, TargetIsOwn, NothingStarted,
                            SignalsOnlyItsGame, StopIsAccountedFor, Instants
<1>2. CASE CheckRunning
  <2>1. TypeOK'
    BY <1>2 DEF CheckRunning, Inductive, TypeOK, Unlaunched, Launched
  <2> QED BY <1>2, <2>1 DEF CheckRunning, Inductive, OwnLives, TargetIsOwn, NothingStarted,
                            SignalsOnlyItsGame, StopIsAccountedFor, Instants
<1>3. CASE CheckFails \/ StartFails
  <2>1. TypeOK'
    BY <1>3 DEF CheckFails, StartFails, FailTo, Inductive, TypeOK, Unlaunched, Launched
  <2> QED BY <1>3, <2>1 DEF CheckFails, StartFails, FailTo, Inductive, OwnLives, TargetIsOwn,
                            NothingStarted, SignalsOnlyItsGame, StopIsAccountedFor, Instants
<1>4. ASSUME NEW p \in PIDs, Start(p) PROVE Inductive'
  <2>1. kind' \in [PIDs -> Kinds] /\ kind'[p] = "replay"
    BY <1>4 DEF Start, Inductive, TypeOK, Kinds, League
  <2>2. own' = p /\ target' = p /\ owned' = "launched" /\ pc' = "ready" /\ UNCHANGED outcome
    BY <1>4 DEF Start
  <2>3. TypeOK'
    BY <2>1, <2>2 DEF Inductive, TypeOK, Unlaunched, Launched
  <2> QED BY <2>1, <2>2, <2>3 DEF Inductive, OwnLives, TargetIsOwn, NothingStarted, League,
                            SignalsOnlyItsGame, StopIsAccountedFor, Instants
<1> QED BY <1>1, <1>2, <1>3, <1>4 DEF Launch

-----------------------------------------------------------------------------
(* A verified PID is the command's game. *)
LEMMA VerifiedIsOwn ==
  ASSUME Inductive, NEW from \in Launched, NEW to \in Launched, VerifyOwned(from, to)
  PROVE  Inductive'
<1> USE DEF At, Goto, command, outcome, system
<1>1. TypeOK'
  BY DEF VerifyOwned, Inductive, TypeOK, Unlaunched, Launched
<1>2. target # None
  BY DEF VerifyOwned, Inductive, TypeOK
<1>3. kind[target] \in League
  BY DEF VerifyOwned, Owned, League
<1>4. own = target
  BY <1>2, <1>3, OwnIsTheGame DEF Inductive
<1>5. UNCHANGED <<system, target, error, mistaken>> /\ pc' = to
  BY DEF VerifyOwned
<1>6. OwnLives' /\ TargetIsOwn'
  BY <1>5 DEF Inductive, OwnLives, TargetIsOwn
<1>7. SignalsOnlyItsGame'
  BY <1>4, <1>5 DEF SignalsOnlyItsGame
<1>8. NothingStarted' /\ StopIsAccountedFor'
  BY <1>5 DEF NothingStarted, StopIsAccountedFor, Launched
<1> QED BY <1>1, <1>6, <1>7, <1>8 DEF Inductive

LEMMA InductiveCapture == ASSUME Inductive, Capture PROVE Inductive'
<1> USE DEF At, Goto, command, outcome, system
<1>1. CASE WaitReady \/ PostKey \/ EndRender
  <2>1. TypeOK'
    BY <1>1 DEF WaitReady, PostKey, EndRender, Inductive, TypeOK, Unlaunched, Launched
  <2>2. pc' \notin Instants \cup {"check", "start", "restore"}
    BY <1>1 DEF WaitReady, PostKey, EndRender, Instants
  <2>3. UNCHANGED <<system, command>>
    BY <1>1 DEF WaitReady, PostKey, EndRender
  <2> QED BY <2>1, <2>2, <2>3 DEF Inductive, OwnLives, TargetIsOwn, NothingStarted,
                            SignalsOnlyItsGame, StopIsAccountedFor
<1>2. CASE Verify \/ SelectParticipant
  BY <1>2, VerifiedIsOwn DEF Verify, SelectParticipant, Launched
<1>3. CASE CaptureFails
  <2>1. TypeOK'
    BY <1>3 DEF CaptureFails, FailTo, Inductive, TypeOK, Unlaunched, Launched
  <2> QED BY <1>3, <2>1 DEF CaptureFails, FailTo, Inductive, OwnLives, TargetIsOwn,
                            NothingStarted, SignalsOnlyItsGame, StopIsAccountedFor, Instants
<1> QED BY <1>1, <1>2, <1>3 DEF Capture

-----------------------------------------------------------------------------
LEMMA InductiveStop == ASSUME Inductive, Stop PROVE Inductive'
<1> USE DEF At, Goto, command, outcome, system
<1>1. CASE StopVerify \/ VerifyAgain
  BY <1>1, VerifiedIsOwn DEF StopVerify, VerifyAgain, Launched
<1>2. CASE Terminate \/ AwaitTimesOut
  <2>1. TypeOK'
    BY <1>2 DEF Terminate, AwaitTimesOut, Inductive, TypeOK, Unlaunched, Launched
  <2> QED BY <1>2, <2>1 DEF Terminate, AwaitTimesOut, Inductive, OwnLives, TargetIsOwn,
                            NothingStarted, SignalsOnlyItsGame, StopIsAccountedFor, Instants
<1>3. CASE Kill
  <2>1. target \in PIDs /\ target # None /\ pc' = "await_kill" /\ UNCHANGED <<command, outcome>>
    BY <1>3 DEF Kill, Inductive, TypeOK, Launched
  <2>2. CASE UNCHANGED system
    <3>1. TypeOK'
      BY <2>1, <2>2 DEF Inductive, TypeOK, Unlaunched, Launched
    <3> QED BY <2>1, <2>2, <3>1 DEF Inductive, OwnLives, TargetIsOwn, NothingStarted,
                            SignalsOnlyItsGame, StopIsAccountedFor, Instants
  <2>3. CASE kind' = [kind EXCEPT ![target] = "none"] /\ own' = None
    <3>1. kind' \in [PIDs -> Kinds] /\ kind'[target] = "none"
      BY <2>1, <2>3 DEF Inductive, TypeOK, Kinds
    <3>2. TypeOK'
      BY <2>1, <2>3, <3>1 DEF Inductive, TypeOK, Unlaunched, Launched
    <3> QED BY <2>1, <2>3, <3>1, <3>2 DEF Inductive, OwnLives, TargetIsOwn, NothingStarted,
                            SignalsOnlyItsGame, StopIsAccountedFor, Instants
  <2> QED BY <1>3, <2>2, <2>3 DEF Kill
<1>4. CASE ProcessGone
  <2>1. mistaken' \in BOOLEAN
    BY <1>4 DEF ProcessGone, Inductive, TypeOK
  <2>2. TypeOK'
    BY <1>4, <2>1 DEF ProcessGone, Inductive, TypeOK, Unlaunched, Launched
  <2>3. target # None
    BY <1>4 DEF ProcessGone, Inductive, TypeOK, Launched
  <2>4. own = None \/ ~Gone
    BY <2>3, OwnIsTheGame DEF Inductive
  <2>5. StopIsAccountedFor'
    BY <1>4, <2>4 DEF ProcessGone, StopIsAccountedFor
  <2> QED BY <1>4, <2>2, <2>5 DEF ProcessGone, Inductive, OwnLives, TargetIsOwn,
                            NothingStarted, SignalsOnlyItsGame, Instants
<1>5. CASE StopRefuses \/ SignalFails \/ KillTimesOut
  <2>1. pc' = "restore" /\ error' = TRUE /\ UNCHANGED <<system, command, patched, mistaken>>
    BY <1>5 DEF StopRefuses, SignalFails, KillTimesOut, FailTo
  <2>2. TypeOK'
    BY <2>1 DEF Inductive, TypeOK, Unlaunched, Launched
  <2> QED BY <2>1, <2>2 DEF Inductive, OwnLives, TargetIsOwn, NothingStarted,
                            SignalsOnlyItsGame, StopIsAccountedFor, Instants
<1>6. CASE RestoreSettings
  <2>1. TypeOK'
    BY <1>6 DEF RestoreSettings, Inductive, TypeOK, Unlaunched, Launched
  <2> QED BY <1>6, <2>1 DEF RestoreSettings, Inductive, OwnLives, TargetIsOwn, NothingStarted,
                            SignalsOnlyItsGame, StopIsAccountedFor, Instants
<1> QED BY <1>1, <1>2, <1>3, <1>4, <1>5, <1>6 DEF Stop

-----------------------------------------------------------------------------
LEMMA InductiveMachine == ASSUME Inductive, Machine PROVE Inductive'
<1> USE LauncherAssumption DEF LauncherAssumption, At, command, outcome
<1>1. ASSUME NEW p \in PIDs, ProcessEnds(p) PROVE Inductive'
  <2>1. kind' \in [PIDs -> Kinds] /\ kind'[p] = "none"
    BY <1>1 DEF ProcessEnds, Inductive, TypeOK, Kinds
  <2>2. \A q \in PIDs \ {p} : kind'[q] = kind[q]
    BY <1>1 DEF ProcessEnds, Inductive, TypeOK
  <2>3. own' = IF own = p THEN None ELSE own
    BY <1>1 DEF ProcessEnds
  <2>4. UNCHANGED <<pc, command, outcome>>
    BY <1>1 DEF ProcessEnds
  <2>5. TypeOK'
    BY <2>1, <2>3, <2>4 DEF Inductive, TypeOK
  <2>6. OwnLives'
    BY <2>2, <2>3, <2>4 DEF Inductive, OwnLives
  <2>7. TargetIsOwn'
    BY <2>1, <2>2, <2>3, <2>4 DEF Inductive, TargetIsOwn, TypeOK
  <2>8. NothingStarted' /\ StopIsAccountedFor'
    BY <2>3, <2>4 DEF Inductive, NothingStarted, StopIsAccountedFor
  <2>9. SignalsOnlyItsGame'
    <3>1. SUFFICES ASSUME pc \in Instants PROVE Gone' \/ target' = own'
      BY <2>4 DEF SignalsOnlyItsGame
    <3>2. target \in PIDs
      BY <3>1 DEF Inductive, TypeOK, Instants, Launched
    <3>3. Gone \/ target = own
      BY <3>1 DEF Inductive, SignalsOnlyItsGame
    <3> QED BY <2>1, <2>2, <2>3, <2>4, <3>2, <3>3 DEF Gone
  <2> QED BY <2>5, <2>6, <2>7, <2>8, <2>9 DEF Inductive
<1>2. ASSUME NEW p \in PIDs, TitleChanges(p) PROVE Inductive'
  <2>1. kind' \in [PIDs -> Kinds] /\ kind'[p] = "game" /\ kind[p] = "replay"
    BY <1>2 DEF TitleChanges, Inductive, TypeOK, Kinds, League
  <2>2. \A q \in PIDs \ {p} : kind'[q] = kind[q]
    BY <1>2 DEF TitleChanges, Inductive, TypeOK
  <2>3. UNCHANGED <<own, pc, command, outcome>>
    BY <1>2 DEF TitleChanges
  <2>5. TypeOK'
    BY <2>1, <2>3 DEF Inductive, TypeOK
  <2>6. OwnLives'
    BY <2>1, <2>2, <2>3 DEF Inductive, OwnLives, League
  <2>7. TargetIsOwn'
    BY <2>1, <2>2, <2>3 DEF Inductive, TargetIsOwn, TypeOK
  <2>8. NothingStarted' /\ StopIsAccountedFor'
    BY <2>3 DEF Inductive, NothingStarted, StopIsAccountedFor
  <2>9. SignalsOnlyItsGame'
    <3>1. SUFFICES ASSUME pc \in Instants PROVE Gone' \/ target' = own'
      BY <2>3 DEF SignalsOnlyItsGame
    <3>2. target \in PIDs
      BY <3>1 DEF Inductive, TypeOK, Instants, Launched
    <3>3. Gone \/ target = own
      BY <3>1 DEF Inductive, SignalsOnlyItsGame
    <3> QED BY <2>1, <2>2, <2>3, <3>2, <3>3 DEF Gone
  <2> QED BY <2>5, <2>6, <2>7, <2>8, <2>9 DEF Inductive
<1>3. ASSUME NEW p \in PIDs, NEW k \in Kinds, ProcessStarts(p, k) PROVE Inductive'
  <2>1. kind' \in [PIDs -> Kinds] /\ kind'[p] = k /\ kind[p] = "none"
    BY <1>3 DEF ProcessStarts, Inductive, TypeOK
  <2>2. \A q \in PIDs \ {p} : kind'[q] = kind[q]
    BY <1>3 DEF ProcessStarts, Inductive, TypeOK
  <2>3. UNCHANGED <<own, pc, command, outcome>>
    BY <1>3 DEF ProcessStarts
  <2>4. p = target => k = "other" /\ pc \notin Instants
    BY <1>3 DEF ProcessStarts
  <2>5. TypeOK'
    BY <2>1, <2>3 DEF Inductive, TypeOK
  <2>6. OwnLives'
    BY <2>1, <2>2, <2>3 DEF Inductive, OwnLives, League
  <2>7. TargetIsOwn'
    BY <2>1, <2>2, <2>3, <2>4 DEF Inductive, TargetIsOwn, TypeOK
  <2>8. NothingStarted' /\ StopIsAccountedFor'
    BY <2>3 DEF Inductive, NothingStarted, StopIsAccountedFor
  <2>9. SignalsOnlyItsGame'
    <3>1. SUFFICES ASSUME pc \in Instants PROVE Gone' \/ target' = own'
      BY <2>3 DEF SignalsOnlyItsGame
    <3>2. target \in PIDs
      BY <3>1 DEF Inductive, TypeOK, Instants, Launched
    <3>3. Gone \/ target = own
      BY <3>1 DEF Inductive, SignalsOnlyItsGame
    <3> QED BY <2>2, <2>3, <2>4, <3>1, <3>2, <3>3 DEF Gone
  <2> QED BY <2>5, <2>6, <2>7, <2>8, <2>9 DEF Inductive
<1> QED BY <1>1, <1>2, <1>3 DEF Machine

-----------------------------------------------------------------------------
LEMMA InductiveStep == Inductive /\ [Next]_vars => Inductive'
<1> SUFFICES ASSUME Inductive, [Next]_vars PROVE Inductive'
  OBVIOUS
<1>1. CASE UNCHANGED vars
  BY <1>1 DEF vars, system, command, outcome, Inductive, TypeOK, OwnLives, TargetIsOwn,
              NothingStarted, SignalsOnlyItsGame, StopIsAccountedFor, Gone, At
<1> QED BY <1>1, InductiveLaunch, InductiveCapture, InductiveStop, InductiveMachine DEF Next

(* The invariant on which the theorems below rest. *)
THEOREM InductiveInvariant == Spec => []Inductive
<1>1. Init => Inductive
  BY InductiveInit
<1>2. Inductive /\ [Next]_vars => Inductive'
  BY InductiveStep
<1> QED BY <1>1, <1>2, PTL DEF Spec

(* Every reachable state is well typed, however many PIDs there are. *)
THEOREM LauncherTypeCorrect == Spec => []TypeOK
<1>1. Inductive => TypeOK
  BY DEF Inductive
<1> QED BY <1>1, InductiveInvariant, PTL

(* SelectParticipant and StopOwned reach nobody but the launched game, with *)
(* any number of processes that come and go.                                *)
THEOREM OnlyItsGame == Spec => []SignalsOnlyItsGame
<1>1. Inductive => SignalsOnlyItsGame
  BY DEF Inductive
<1> QED BY <1>1, InductiveInvariant, PTL

(* The settings of a live game are only restored by a command that fails,  *)
(* or that ps misled.                                                       *)
THEOREM RestoredAfter == Spec => RestoredAfterExit
<1> DEFINE Restored == patched /\ ~patched' => own = None \/ error \/ mistaken
<1>1. Inductive /\ [Next]_vars => [Restored]_vars
  <2> SUFFICES ASSUME Inductive, Next, patched, ~patched' PROVE own = None \/ error \/ mistaken
    BY DEF vars
  <2>1. At("restore")
    BY DEF Next, Launch, Capture, Stop, Machine, Begin, CheckRunning, CheckFails, StartFails,
           Start, WaitReady, Verify, SelectParticipant, PostKey, EndRender, CaptureFails,
           StopVerify, Terminate, AwaitTimesOut, VerifyAgain, Kill, ProcessGone, StopRefuses,
           SignalFails, KillTimesOut, RestoreSettings, ProcessEnds, TitleChanges,
           ProcessStarts, VerifyOwned, FailTo, outcome
  <2> QED BY <2>1 DEF Inductive, StopIsAccountedFor
<1> QED BY <1>1, InductiveInvariant, PTL DEF Spec, RestoredAfterExit
==============================================================================
