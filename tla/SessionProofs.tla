--------------------------- MODULE SessionProofs ---------------------------
(***************************************************************************)
(* At most one emulator that is not an orphan runs on a pack, for any      *)
(* number of sessions, in any mode, whatever is killed.                    *)
(*                                                                         *)
(* The invariant follows the lock: nobody holds it who did not take it     *)
(* (FlocksOf), an emulator only starts under it (StartedOf), and of two    *)
(* sessions with one lock file only one holds it (Exclusive).  Together    *)
(* with LockCoversMachine this gives OneMachineButOrphans.                 *)
(*                                                                         *)
(* And the lock never turns everybody away: a session that was refused     *)
(* holds nothing any more (RefusedOf), so whoever stood in its way was not *)
(* refused.                                                                *)
(***************************************************************************)
EXTENDS Session, TLAPS

Exclusive ==
  \A s, t \in Sessions : s # t /\ Work(s) = Work(t) => ~(Held(s) /\ Held(t))

(* The lock files of a session: it carries the lock exactly while its      *)
(* scripts are past taking it and not past dropping it.                    *)
FlocksOf(s) ==
  /\ term[s] \in {"none", "start"} => "term" \notin flocked[s]
  /\ term[s] \notin {"none", "start", "gone"} => "term" \in flocked[s]
  /\ shell[s] = "locked" => "shell" \in flocked[s]
  /\ owner[s] = "shell" => "shell" \in flocked[s]

(* Its processes: each is started by the one before it, at its place.      *)
StartedOf(s) ==
  /\ Running(s) => owner[s] \in {"shell", "term"}
  /\ term[s] \in {"start", "locked"} => ~Running(s)
  /\ term[s] = "none" /\ shell[s] \in {"idle", "locked"} => ~Running(s)
  /\ shell[s] = "locked" => term[s] = "none"
  /\ Asked[s].script = "run.sh" /\ shell[s] = "idle" => term[s] = "none"
  /\ Asked[s].script = "genixterm" => shell[s] = "idle"
  /\ owner[s] = "shell" => shell[s] \in {"child", "gone"}
  /\ owner[s] = "shell" => term[s] = "none"

Alone(s) == FlocksOf(s) /\ StartedOf(s)

EachAlone == \A s \in Sessions : Alone(s)

SInv == TypeOK /\ Exclusive /\ EachAlone

LEMMA Initially ==
  ASSUME Init
  PROVE  SInv
<1>1. TypeOK
  BY DEF Init, TypeOK
<1>2. \A s \in Sessions : ~Held(s)
  BY DEF Init, Held
<1>3. EachAlone
  BY DEF Init, EachAlone, Alone, FlocksOf, StartedOf, Running
<1> QED BY <1>1, <1>2, <1>3 DEF SInv, Exclusive

LEMMA TypeStep ==
  ASSUME TypeOK, NEW s \in Sessions, SessionNext(s)
  PROVE  TypeOK'
<1> USE DEF TypeOK
<1>1. CASE ShellLock(s)
  <2>1. CASE Free(Work(s))
    BY <1>1, <2>1 DEF ShellLock
  <2>2. CASE ~Free(Work(s))
    BY <1>1, <2>2 DEF ShellLock
  <2> QED BY <2>1, <2>2
<1>2. CASE ShellHandsOver(s)
  BY <1>2 DEF ShellHandsOver
<1>3. CASE ShellRunsWindow(s)
  BY <1>3 DEF ShellRunsWindow
<1>4. CASE UserRunsTerm(s)
  BY <1>4 DEF UserRunsTerm, TermGoes
<1>5. CASE TermLock(s)
  <2>1. CASE Free(Work(s))
    <3>1. /\ term' = [term EXCEPT ![s] = "locked"]
          /\ flocked' = [flocked EXCEPT ![s] = @ \cup {"term"}]
          /\ UNCHANGED <<refused, shell, emu, owner, booting, again, stopfile>>
      BY <1>5, <2>1 DEF TermLock, TermGoes
    <3> QED BY <3>1
  <2>2. CASE ~Free(Work(s))
    BY <1>5, <2>2 DEF TermLock, TermGoes
  <2> QED BY <2>1, <2>2
<1>6. CASE TermSpawns(s)
  BY <1>6 DEF TermSpawns, TermGoes
<1>7. CASE TermConnects(s) \/ TermTimesOut(s)
  BY <1>7 DEF TermConnects, TermTimesOut, TermGoes
<1>18. CASE TermKills(s) \/ TermGivesUp(s)
  BY <1>18 DEF TermKills, TermGivesUp, TermGoes
<1>8. CASE TermSyncs(s)
  BY <1>8 DEF TermSyncs, TermGoes
<1>16. CASE TermStops(s)
  BY <1>16 DEF TermStops, TermGoes
<1>17. CASE TermInterrupted(s)
  BY <1>17 DEF TermInterrupted, TermGoes
<1>9. CASE TermPolls(s)
  BY <1>9 DEF TermPolls, TermGoes
<1>10. CASE TermAsks(s)
  BY <1>10 DEF TermAsks, TermGoes, Works, Work
<1>11. CASE TermWaits(s)
  BY <1>11 DEF TermWaits, TermGoes
<1>12. CASE ShellExits(s) \/ KillShell(s)
  BY <1>12 DEF ShellExits, KillShell
<1>13. CASE EmuStops(s)
  BY <1>13 DEF EmuStops
<1>14. CASE EmuEnds(s)
  BY <1>14 DEF EmuEnds
<1>15. CASE KillTerm(s)
  BY <1>15 DEF KillTerm
<1> QED BY <1>1, <1>2, <1>3, <1>4, <1>5, <1>6, <1>7, <1>8, <1>9, <1>10, <1>11,
           <1>12, <1>13, <1>14, <1>15, <1>16, <1>17, <1>18 DEF SessionNext, Leaving

(* What a step may change of one session and nothing of another.           *)
LEMMA Untouched ==
  ASSUME TypeOK, NEW s \in Sessions, SessionNext(s), NEW x \in Sessions, x # s
  PROVE  /\ shell'[x] = shell[x] /\ term'[x] = term[x] /\ emu'[x] = emu[x]
         /\ owner'[x] = owner[x] /\ flocked'[x] = flocked[x]
<1> USE DEF TypeOK
<1>1. CASE ShellLock(s) \/ ShellHandsOver(s) \/ ShellRunsWindow(s)
           \/ ShellExits(s) \/ KillShell(s)
  BY <1>1 DEF ShellLock, ShellHandsOver, ShellRunsWindow, ShellExits, KillShell
<1>2. CASE UserRunsTerm(s) \/ TermLock(s) \/ TermSpawns(s) \/ TermConnects(s)
  BY <1>2 DEF UserRunsTerm, TermLock, TermSpawns, TermConnects, TermGoes
<1>3. CASE TermSyncs(s) \/ TermStops(s) \/ TermInterrupted(s) \/ TermPolls(s) \/ TermAsks(s)
  BY <1>3 DEF TermSyncs, TermStops, TermInterrupted, TermPolls, TermAsks, TermGoes
<1>4. CASE TermWaits(s) \/ EmuStops(s) \/ EmuEnds(s) \/ KillTerm(s)
  BY <1>4 DEF TermWaits, EmuStops, EmuEnds, KillTerm, TermGoes
<1>5. CASE TermTimesOut(s) \/ TermKills(s) \/ TermGivesUp(s)
  BY <1>5 DEF TermTimesOut, TermKills, TermGivesUp, TermGoes
<1> QED BY <1>1, <1>2, <1>3, <1>4, <1>5 DEF SessionNext, Leaving

(* The lock is only ever won by a session that finds it free: no other     *)
(* step makes a session hold it that did not.                              *)
LEMMA HeldStep ==
  ASSUME SInv, NEW s \in Sessions, SessionNext(s), NEW x \in Sessions, Held(x)'
  PROVE  Held(x) \/ (x = s /\ Free(Work(s)))
<1>1. CASE x # s
  <2>1. /\ shell'[x] = shell[x] /\ term'[x] = term[x] /\ emu'[x] = emu[x]
        /\ owner'[x] = owner[x] /\ flocked'[x] = flocked[x]
    BY <1>1, Untouched DEF SInv
  <2> QED BY <2>1 DEF Held, StillOpen, ShellAlive, TermAlive, Running
<1>2. CASE x = s
  <2> SUFFICES ASSUME ~Free(Work(s)) PROVE Held(s)
    BY <1>2
  <2>0. PICK who \in flocked'[s] : StillOpen(s, who)'
    BY <1>2 DEF Held
  <2> USE DEF SInv, TypeOK, StillOpen, ShellAlive, TermAlive, Running, Held
  <2>1. CASE ShellLock(s)
    BY <2>0, <2>1 DEF ShellLock
  <2>2. CASE ShellHandsOver(s)
    <3>1. "term" \notin flocked[s]
      BY <2>2 DEF ShellHandsOver, EachAlone, Alone, FlocksOf, StartedOf
    <3> QED BY <2>0, <2>2, <3>1 DEF ShellHandsOver
  <2>3. CASE ShellRunsWindow(s)
    BY <2>3 DEF ShellRunsWindow, EachAlone, Alone, FlocksOf
  <2>4. CASE UserRunsTerm(s)
    <3>1. "term" \notin flocked[s]
      BY <2>4 DEF UserRunsTerm, TermGoes, EachAlone, Alone, FlocksOf
    <3> QED BY <2>0, <2>4, <3>1 DEF UserRunsTerm, TermGoes
  <2>5. CASE TermLock(s)
    BY <2>0, <2>5 DEF TermLock, TermGoes
  <2>6. CASE TermSpawns(s)
    BY <2>0, <2>6 DEF TermSpawns, TermGoes
  <2>7. CASE TermConnects(s) \/ TermTimesOut(s)
    BY <2>0, <2>7 DEF TermConnects, TermTimesOut, TermGoes
  <2>12. CASE TermKills(s) \/ TermGivesUp(s)
    BY <2>0, <2>12 DEF TermKills, TermGivesUp, TermGoes
  <2>8. CASE TermSyncs(s) \/ TermStops(s) \/ TermInterrupted(s) \/ TermPolls(s) \/ TermAsks(s)
    BY <2>0, <2>8 DEF TermSyncs, TermStops, TermInterrupted, TermPolls, TermAsks, TermGoes
  <2>9. CASE TermWaits(s)
    BY <2>0, <2>9 DEF TermWaits, TermGoes
  <2>10. CASE ShellExits(s) \/ KillShell(s) \/ KillTerm(s)
    BY <2>0, <2>10 DEF ShellExits, KillShell, KillTerm
  <2>11. CASE EmuStops(s) \/ EmuEnds(s)
    BY <2>0, <2>11 DEF EmuStops, EmuEnds
  <2> QED BY <2>1, <2>2, <2>3, <2>4, <2>5, <2>6, <2>7, <2>8, <2>9, <2>10, <2>11, <2>12
          DEF SessionNext, Leaving
<1> QED BY <1>1, <1>2

LEMMA ExclusiveStep ==
  ASSUME SInv, NEW s \in Sessions, SessionNext(s)
  PROVE  Exclusive'
<1> SUFFICES ASSUME NEW x \in Sessions, NEW y \in Sessions, x # y,
                    Work(x) = Work(y), Held(x)', Held(y)'
             PROVE  FALSE
  BY DEF Exclusive, Work
<1>1. /\ Held(x) \/ (x = s /\ Free(Work(s)))
      /\ Held(y) \/ (y = s /\ Free(Work(s)))
  BY HeldStep
<1>2. CASE Held(x) /\ Held(y)
  BY <1>2 DEF SInv, Exclusive
<1>3. CASE x = s /\ Free(Work(s))
  BY <1>1, <1>3 DEF Free
<1>4. CASE y = s /\ Free(Work(s))
  BY <1>1, <1>4 DEF Free
<1> QED BY <1>1, <1>2, <1>3, <1>4

LEMMA AloneStep ==
  ASSUME SInv, NEW s \in Sessions, SessionNext(s)
  PROVE  EachAlone'
<1>1. ASSUME NEW x \in Sessions, x # s PROVE Alone(x)'
  <2>1. Alone(x)
    BY DEF SInv, EachAlone
  <2>2. /\ shell'[x] = shell[x] /\ term'[x] = term[x] /\ emu'[x] = emu[x]
        /\ owner'[x] = owner[x] /\ flocked'[x] = flocked[x]
    BY <1>1, Untouched DEF SInv
  <2> QED BY <2>1, <2>2 DEF Alone, FlocksOf, StartedOf, Running
<1>2. Alone(s)'
  <2>0. Alone(s)
    BY DEF SInv, EachAlone
  <2> USE <2>0 DEF SInv, TypeOK, Alone, FlocksOf, StartedOf, Running
  <2>1. CASE ShellLock(s)
    <3>1. CASE Free(Work(s))
      BY <2>1, <3>1, SessionAssumption DEF ShellLock
    <3>2. CASE ~Free(Work(s))
      BY <2>1, <3>2, SessionAssumption DEF ShellLock
    <3> QED BY <3>1, <3>2
  <2>2. CASE ShellHandsOver(s)
    BY <2>2, SessionAssumption DEF ShellHandsOver
  <2>3. CASE ShellRunsWindow(s)
    BY <2>3, SessionAssumption DEF ShellRunsWindow
  <2>4. CASE UserRunsTerm(s)
    BY <2>4, SessionAssumption DEF UserRunsTerm, TermGoes
  <2>5. CASE TermLock(s)
    BY <2>5 DEF TermLock, TermGoes
  <2>6. CASE TermSpawns(s)
    BY <2>6 DEF TermSpawns, TermGoes
  <2>7. CASE TermConnects(s) \/ TermTimesOut(s)
    BY <2>7 DEF TermConnects, TermTimesOut, TermGoes
  <2>12. CASE TermKills(s) \/ TermGivesUp(s)
    BY <2>12 DEF TermKills, TermGivesUp, TermGoes
  <2>8. CASE TermSyncs(s) \/ TermStops(s) \/ TermInterrupted(s) \/ TermPolls(s) \/ TermAsks(s)
    BY <2>8 DEF TermSyncs, TermStops, TermInterrupted, TermPolls, TermAsks, TermGoes
  <2>9. CASE TermWaits(s)
    BY <2>9 DEF TermWaits, TermGoes
  <2>10. CASE ShellExits(s) \/ KillShell(s) \/ KillTerm(s)
    BY <2>10 DEF ShellExits, KillShell, KillTerm, ShellAlive, TermAlive
  <2>11. CASE EmuStops(s) \/ EmuEnds(s)
    BY <2>11 DEF EmuStops, EmuEnds
  <2> QED BY <2>1, <2>2, <2>3, <2>4, <2>5, <2>6, <2>7, <2>8, <2>9, <2>10, <2>11, <2>12
          DEF SessionNext, Leaving
<1>3. \A x \in Sessions : Alone(x)'
  BY <1>1, <1>2
<1> QED BY <1>3 DEF EachAlone

THEOREM Invariance == Spec => []SInv
<1>1. ASSUME SInv, [Next]_svars
      PROVE  SInv'
  <2>1. ASSUME NEW s \in Sessions, SessionNext(s)
        PROVE  SInv'
    BY <2>1, <1>1, TypeStep, ExclusiveStep, AloneStep DEF SInv
  <2>2. CASE UNCHANGED svars
    BY <1>1, <2>2 DEF SInv, TypeOK, Exclusive, EachAlone, Alone, FlocksOf,
                      StartedOf, Held, StillOpen, ShellAlive, TermAlive,
                      Running, Work, svars
  <2> QED BY <1>1, <2>1, <2>2 DEF Next
<1> QED BY Initially, <1>1, PTL DEF Spec

LEMMA Covered == SInv => LockCoversMachine
<1> SUFFICES ASSUME SInv, NEW s \in Sessions, Running(s), ~Orphan(s)
             PROVE  Held(s)
  BY DEF LockCoversMachine
<1>1. owner[s] \in {"shell", "term"}
  BY DEF SInv, EachAlone, Alone, StartedOf
<1>2. CASE owner[s] = "shell"
  BY <1>2 DEF SInv, EachAlone, Alone, FlocksOf, Held, StillOpen
<1>3. CASE owner[s] = "term"
  <2>1. TermAlive(s) /\ term[s] # "start"
    BY <1>3 DEF Orphan, SInv, EachAlone, Alone, StartedOf
  <2>2. "term" \in flocked[s]
    BY <2>1 DEF SInv, EachAlone, Alone, FlocksOf, TermAlive
  <2> QED BY <2>1, <2>2 DEF Held, StillOpen
<1> QED BY <1>1, <1>2, <1>3

(* Whoever is started when, in whatever mode, whatever is killed: an       *)
(* emulator that is no orphan runs under the lock of its session (the     *)
(* flock calls of run.sh:50-62 and genixterm.py:56-61).                    *)
THEOREM Covers == Spec => []LockCoversMachine
<1> QED BY Invariance, Covered, PTL

(* For any number of sessions: of two emulators that write one pack, one   *)
(* is an orphan.                                                           *)
THEOREM OneMachine == Spec => []OneMachineButOrphans
<1>1. SInv => OneMachineButOrphans
  <2> SUFFICES ASSUME SInv, NEW s \in Sessions, NEW t \in Sessions, s # t,
                      Pack(s) = Pack(t), Running(s), Running(t),
                      ~Orphan(s), ~Orphan(t)
               PROVE  FALSE
    BY DEF OneMachineButOrphans
  <2>1. Held(s) /\ Held(t)
    BY Covered DEF LockCoversMachine
  <2>2. Work(s) = Work(t)
    BY SessionAssumption DEF Pack, Work
  <2> QED BY <2>1, <2>2 DEF SInv, Exclusive
<1> QED BY Invariance, <1>1, PTL

(* Every process is at one of the stages of its script, and the lock files *)
(* name only processes that may hold one.                                  *)
THEOREM Typed == Spec => []TypeOK
<1>1. SInv => TypeOK
  BY DEF SInv
<1> QED BY Invariance, <1>1, PTL

-----------------------------------------------------------------------------
(* A session that was refused holds nothing and never will again; and      *)
(* run.sh has dropped its lock before genixterm.py asks for one.           *)
RefusedOf(s) ==
  /\ shell[s] = "idle" \/ term[s] # "none" => "shell" \notin flocked[s]
  /\ refused[s] =>
       /\ flocked[s] = {}
       /\ term[s] = "gone" \/ (term[s] = "none" /\ shell[s] = "gone")
       /\ Asked[s].script = "run.sh" => shell[s] \in {"child", "gone"}

RefusedInv == (\A s \in Sessions : RefusedOf(s)) /\ SomebodyGetsThePack

(* Only the two steps that ask for the lock refuse a session.              *)
LEMMA Refuses ==
  ASSUME TypeOK, NEW s \in Sessions, SessionNext(s)
  PROVE  /\ \A x \in Sessions : x # s => refused'[x] = refused[x]
         /\ refused' = refused \/ (~Free(Work(s)) /\ (ShellLock(s) \/ TermLock(s)))
<1> USE DEF TypeOK
<1>1. CASE ShellLock(s)
  BY <1>1 DEF ShellLock
<1>2. CASE TermLock(s)
  BY <1>2 DEF TermLock
<1>3. CASE ~ShellLock(s) /\ ~TermLock(s)
  <2>1. refused' = refused
    BY <1>3 DEF SessionNext, Leaving, ShellHandsOver, ShellRunsWindow, UserRunsTerm, TermSpawns,
       TermConnects, TermTimesOut, TermKills, TermGivesUp, TermSyncs, TermStops,
       TermInterrupted, TermPolls, TermAsks, TermWaits, ShellExits, EmuStops, EmuEnds, KillShell, KillTerm
  <2> QED BY <2>1
<1> QED BY <1>1, <1>2, <1>3

LEMMA RefusedStep ==
  ASSUME SInv, NEW s \in Sessions, SessionNext(s), RefusedOf(s)
  PROVE  RefusedOf(s)'
<1>0. Alone(s) /\ TypeOK
  BY DEF SInv, EachAlone
<1> USE <1>0 DEF TypeOK, Alone, FlocksOf, StartedOf, RefusedOf, TermGoes
<1>1. CASE ShellLock(s)
  <2>1. CASE Free(Work(s))
    BY <1>1, <2>1, SessionAssumption DEF ShellLock
  <2>2. CASE ~Free(Work(s))
    <3>1. flocked[s] = {}
      BY <1>1 DEF ShellLock
    <3> QED BY <1>1, <2>2, <3>1, SessionAssumption DEF ShellLock
  <2> QED BY <2>1, <2>2
<1>2. CASE ShellHandsOver(s) \/ ShellRunsWindow(s)
  BY <1>2, SessionAssumption DEF ShellHandsOver, ShellRunsWindow
<1>3. CASE UserRunsTerm(s)
  BY <1>3, SessionAssumption DEF UserRunsTerm
<1>4. CASE TermLock(s)
  <2>1. CASE Free(Work(s))
    BY <1>4, <2>1, SessionAssumption DEF TermLock
  <2>2. CASE ~Free(Work(s))
    <3>1. flocked[s] = {}
      BY <1>4 DEF TermLock
    <3> QED BY <1>4, <2>2, <3>1, SessionAssumption DEF TermLock
  <2> QED BY <2>1, <2>2
<1>5. CASE TermSpawns(s) \/ TermConnects(s) \/ TermSyncs(s)
  BY <1>5 DEF TermSpawns, TermConnects, TermSyncs
<1>6. CASE TermStops(s) \/ TermInterrupted(s) \/ TermPolls(s) \/ TermAsks(s) \/ TermWaits(s)
  BY <1>6 DEF TermStops, TermInterrupted, TermPolls, TermAsks, TermWaits
<1>7. CASE ShellExits(s) \/ KillShell(s) \/ KillTerm(s)
  BY <1>7 DEF ShellExits, KillShell, KillTerm, ShellAlive, TermAlive
<1>8. CASE EmuStops(s) \/ EmuEnds(s)
  BY <1>8 DEF EmuStops, EmuEnds
<1>9. CASE TermTimesOut(s) \/ TermKills(s) \/ TermGivesUp(s)
  BY <1>9 DEF TermTimesOut, TermKills, TermGivesUp
<1> QED BY <1>1, <1>2, <1>3, <1>4, <1>5, <1>6, <1>7, <1>8, <1>9 DEF SessionNext, Leaving

(* Whoever asks for the lock does not hold it.                             *)
LEMMA AsksEmptyHanded ==
  ASSUME SInv, NEW s \in Sessions, RefusedOf(s), ShellLock(s) \/ TermLock(s)
  PROVE  ~Held(s)
<1>0. Alone(s)
  BY DEF SInv, EachAlone
<1>1. CASE ShellLock(s)
  BY <1>0, <1>1 DEF ShellLock, Alone, FlocksOf, StartedOf, Held, StillOpen, ShellAlive
<1>2. CASE TermLock(s)
  BY <1>0, <1>2 DEF TermLock, TermGoes, RefusedOf, Alone, FlocksOf, Held, StillOpen
<1> QED BY <1>1, <1>2

(* Who refuses a session has not been refused himself: so for any number   *)
(* of sessions, in the gap of run.sh too, somebody has the pack or had it. *)
THEOREM NotEverybodyRefused == Spec => []SomebodyGetsThePack
<1>1. Init => RefusedInv
  BY DEF Init, RefusedInv, RefusedOf, SomebodyGetsThePack, Works, Work
<1>2. ASSUME SInv, RefusedInv, NEW s \in Sessions, SessionNext(s)
      PROVE  RefusedInv'
  <2>1. \A x \in Sessions : RefusedOf(x)'
    <3>1. ASSUME NEW x \in Sessions, x # s PROVE RefusedOf(x)'
      <4>1. /\ shell'[x] = shell[x] /\ term'[x] = term[x] /\ flocked'[x] = flocked[x]
            /\ refused'[x] = refused[x]
        BY <1>2, <3>1, Untouched, Refuses DEF SInv
      <4> QED BY <1>2, <4>1 DEF RefusedInv, RefusedOf
    <3>2. RefusedOf(s)'
      BY <1>2, RefusedStep DEF RefusedInv
    <3> QED BY <3>1, <3>2
  <2>2. SomebodyGetsThePack'
    <3>1. CASE refused' = refused
      BY <1>2, <3>1 DEF RefusedInv, SomebodyGetsThePack, Works, Work
    <3>2. CASE refused' # refused
      <4>1. ~Free(Work(s)) /\ (ShellLock(s) \/ TermLock(s))
        BY <1>2, <3>2, Refuses DEF SInv
      <4>2. PICK t \in Sessions : Work(t) = Work(s) /\ Held(t)
        BY <4>1 DEF Free
      <4>3. t # s
        BY <1>2, <4>1, <4>2, AsksEmptyHanded DEF RefusedInv
      <4>4. ~refused[t]
        BY <1>2, <4>2 DEF RefusedInv, RefusedOf, Held
      <4>5. ~refused'[t]
        BY <1>2, <4>3, <4>4, Refuses DEF SInv
      <4>6. \A w \in Works : \E x \in Sessions : Work(x) = w /\ ~refused'[x]
        <5> TAKE w \in Works
        <5>1. CASE w = Work(s)
          BY <4>2, <4>5, <5>1
        <5>2. CASE w # Work(s)
          <6>1. PICK x \in Sessions : Work(x) = w /\ ~refused[x]
            BY <1>2 DEF RefusedInv, SomebodyGetsThePack
          <6> QED BY <1>2, <5>2, <6>1, Refuses DEF SInv
        <5> QED BY <5>1, <5>2
      <4> QED BY <4>6 DEF SomebodyGetsThePack, Works, Work
    <3> QED BY <3>1, <3>2
  <2> QED BY <2>1, <2>2 DEF RefusedInv
<1>3. ASSUME SInv, RefusedInv, [Next]_svars PROVE RefusedInv'
  <2>1. CASE UNCHANGED svars
    BY <1>3, <2>1 DEF RefusedInv, RefusedOf, SomebodyGetsThePack, Works, Work, svars
  <2> QED BY <1>2, <1>3, <2>1 DEF Next
<1>4. RefusedInv => SomebodyGetsThePack
  BY DEF RefusedInv
<1> QED BY <1>1, <1>3, <1>4, Invariance, PTL DEF Spec
=============================================================================
