------------------------------ MODULE Session ------------------------------
(***************************************************************************)
(* The processes of a session at the emulated machine, and what keeps two  *)
(* emulators off one pack: run.sh and genixterm.py take a lock, genixterm  *)
(* starts the emulator and asks it to stop through a file that stop.lua    *)
(* watches.                                                                *)
(*                                                                         *)
(* A flock belongs to an open file, not to a process: it lasts until it is *)
(* dropped or the last process that has the file open is gone.  run.sh     *)
(* opens the lock file as descriptor 9, which the emulator it starts       *)
(* inherits; genixterm opens it anew, and the emulator it starts does not  *)
(* inherit that (Popen closes every descriptor).                           *)
(*                                                                         *)
(* The emulator (MAME) is external: it runs until it is told to stop, may  *)
(* end by itself, and without video ignores signals (pack/README.txt).     *)
(*                                                                         *)
(* A definition marked "a slip" is no part of the specification: it is a   *)
(* mistake the properties are tried against.                               *)
(***************************************************************************)
EXTENDS FiniteSets

CONSTANTS
  Sessions,
  Asked,       \* what the user typed: [script, mode, desktop, work, pack]
  Watched,     \* the work directory whose stop file stop.lua looks for
  Killable,    \* processes a signal from outside may end: {"shell", "term"}
  Prompt       \* the emulator is gone within 20 s of seeing its stop file

Mode == {"window", "monitor", "terminal", "check"}

Works == {Asked[s].work : s \in Sessions}

ASSUME SessionAssumption ==
  /\ \A s \in Sessions :
       /\ Asked[s].script \in {"run.sh", "genixterm"}
       /\ Asked[s].mode \in Mode
       /\ Asked[s].script = "genixterm" => Asked[s].mode # "window"
       /\ Asked[s].desktop \in BOOLEAN
  /\ \A s, t \in Sessions :          \* true of run.sh and of the defaults
       Asked[s].pack = Asked[t].pack => Asked[s].work = Asked[t].work
  /\ Killable \subseteq {"shell", "term"}
  /\ Prompt \in BOOLEAN

VARIABLES
  shell,    \* run.sh: "idle", "locked", "child", "gone"
  term,     \* genixterm.py: "none", "start", "locked", "connect", "late",
            \*   "exit", "up", "sync", "poll", "ask", "wait", "gone"
  emu,      \* its emulator: "none", "up", "ended", "killed"
  owner,    \* the parent of the emulator: "shell", "term", or "none"
  booting,  \* the emulator's first key presses boot GENIX
  flocked,  \* open lock files that carry the lock: {"shell", "term"}
  refused,  \* the session was told that another one has the pack
  again,    \* genixterm.py is in its `finally': the next Ctrl-C is its end
  stopfile  \* the work directories in which a file `stop' lies

svars == <<shell, term, emu, owner, booting, flocked, refused, again, stopfile>>

Init ==
  /\ shell    = [s \in Sessions |-> "idle"]
  /\ term     = [s \in Sessions |-> "none"]
  /\ emu      = [s \in Sessions |-> "none"]
  /\ owner    = [s \in Sessions |-> "none"]
  /\ booting  = [s \in Sessions |-> FALSE]
  /\ flocked  = [s \in Sessions |-> {}]
  /\ refused  = [s \in Sessions |-> FALSE]
  /\ again    = [s \in Sessions |-> FALSE]
  /\ stopfile = {}

Work(s) == Asked[s].work
Pack(s) == Asked[s].pack

ShellAlive(s) == shell[s] \notin {"idle", "gone"}
TermAlive(s)  == term[s]  \notin {"none", "gone"}
Running(s)    == emu[s] = "up"

(* Somebody still has the lock file open that s opened as `who'.           *)
StillOpen(s, who) ==
  \/ who = "shell" /\ (ShellAlive(s) \/ (Running(s) /\ owner[s] = "shell"))
  \/ who = "term"  /\ TermAlive(s)

Held(s) == \E who \in flocked[s] : StillOpen(s, who)

Free(w) == \A s \in Sessions : Work(s) = w => ~Held(s)

(* The mode a session ends up in: without a desktop run.sh opens no window,*)
(* and genixterm.py never does.                                            *)
Effective(s) ==
  IF /\ Asked[s].mode \in {"window", "monitor"}
     /\ ~Asked[s].desktop \/ Asked[s].script = "genixterm"
  THEN "terminal" ELSE Asked[s].mode

(* args.monitor, which genixterm.py is never given by run.sh               *)
ArgsMonitor(s) == Asked[s].script = "genixterm" /\ Asked[s].mode = "monitor"

-----------------------------------------------------------------------------
(* run.sh *)

(* exec 9> disk.lock; flock -n 9 *)
ShellLock(s) ==
  /\ Asked[s].script = "run.sh" /\ shell[s] = "idle"
  /\ \/ /\ Free(Work(s))
        /\ shell'   = [shell EXCEPT ![s] = "locked"]
        /\ flocked' = [flocked EXCEPT ![s] = {"shell"}]
        /\ UNCHANGED refused
     \/ /\ ~Free(Work(s))
        /\ shell'   = [shell EXCEPT ![s] = "gone"]
        /\ refused' = [refused EXCEPT ![s] = TRUE]
        /\ UNCHANGED flocked
  /\ UNCHANGED <<term, emu, owner, booting, again, stopfile>>

(* A slip: no flock -u. *)
ShellHandsOverLocked(s) ==
  /\ shell[s] = "locked" /\ Effective(s) \in {"terminal", "check"}
  /\ shell'   = [shell EXCEPT ![s] = "child"]
  /\ term'    = [term EXCEPT ![s] = "start"]
  /\ UNCHANGED <<emu, owner, booting, flocked, refused, again, stopfile>>

(* flock -u 9, then genixterm.py, which never gets --monitor *)
ShellHandsOver(s) ==
  /\ shell[s] = "locked" /\ Effective(s) \in {"terminal", "check"}
  /\ flocked' = [flocked EXCEPT ![s] = @ \ {"shell"}]
  /\ shell'   = [shell EXCEPT ![s] = "child"]
  /\ term'    = [term EXCEPT ![s] = "start"]
  /\ UNCHANGED <<emu, owner, booting, refused, again, stopfile>>

(* A slip: flock -u whatever the mode. *)
ShellRunsWindowUnlocked(s) ==
  /\ shell[s] = "locked" /\ Effective(s) \in {"window", "monitor"}
  /\ shell'   = [shell EXCEPT ![s] = "child"]
  /\ emu'     = [emu EXCEPT ![s] = "up"]
  /\ owner'   = [owner EXCEPT ![s] = "shell"]
  /\ booting' = [booting EXCEPT ![s] = Effective(s) # "monitor"]
  /\ flocked' = [flocked EXCEPT ![s] = {}]
  /\ UNCHANGED <<term, refused, again, stopfile>>

(* the emulator in a window, with bootkey.lua unless --monitor *)
ShellRunsWindow(s) ==
  /\ shell[s] = "locked" /\ Effective(s) \in {"window", "monitor"}
  /\ shell'   = [shell EXCEPT ![s] = "child"]
  /\ emu'     = [emu EXCEPT ![s] = "up"]
  /\ owner'   = [owner EXCEPT ![s] = "shell"]
  /\ booting' = [booting EXCEPT ![s] = Effective(s) # "monitor"]
  /\ UNCHANGED <<term, flocked, refused, again, stopfile>>

ShellExits(s) ==
  /\ shell[s] = "child"
  /\ IF owner[s] = "shell" THEN ~Running(s) ELSE term[s] = "gone"
  /\ shell' = [shell EXCEPT ![s] = "gone"]
  /\ UNCHANGED <<term, emu, owner, booting, flocked, refused, again, stopfile>>

-----------------------------------------------------------------------------
(* genixterm.py *)
TermGoes(s, from, to) ==
  /\ term[s] = from
  /\ term' = [term EXCEPT ![s] = to]

UserRunsTerm(s) ==
  /\ Asked[s].script = "genixterm"
  /\ TermGoes(s, "none", "start")
  /\ UNCHANGED <<shell, emu, owner, booting, flocked, refused, again, stopfile>>

(* A slip: the lock is not asked for, run.sh has taken it already. *)
TermLockTrusting(s) ==
  /\ TermGoes(s, "start", "locked")
  /\ UNCHANGED <<flocked, refused, shell, emu, owner, booting, again, stopfile>>

(* Machine.__init__: flock(LOCK_EX | LOCK_NB) *)
TermLock(s) ==
  /\ \/ /\ Free(Work(s))
        /\ TermGoes(s, "start", "locked")
        /\ flocked' = [flocked EXCEPT ![s] = @ \cup {"term"}]
        /\ UNCHANGED refused
     \/ /\ ~Free(Work(s))
        /\ TermGoes(s, "start", "gone")
        /\ refused' = [refused EXCEPT ![s] = TRUE]
        /\ UNCHANGED flocked
  /\ UNCHANGED <<shell, emu, owner, booting, again, stopfile>>

(* Popen *)
TermSpawns(s) ==
  /\ TermGoes(s, "locked", "connect")
  /\ emu'   = [emu EXCEPT ![s] = "up"]
  /\ owner' = [owner EXCEPT ![s] = "term"]
  /\ UNCHANGED <<shell, booting, flocked, refused, again, stopfile>>

(* accept() *)
TermConnects(s) ==
  /\ Running(s)
  /\ TermGoes(s, "connect", "up")
  /\ booting' = [booting EXCEPT ![s] = ~ArgsMonitor(s)]
  /\ UNCHANGED <<shell, emu, owner, flocked, refused, again, stopfile>>

(* 30 s have passed: whether the emulator connects now or is gone by now,  *)
(* it is killed, and genixterm.py exits                                    *)
TermTimesOut(s) ==
  /\ TermGoes(s, "connect", "late")
  /\ UNCHANGED <<shell, emu, owner, booting, flocked, refused, again, stopfile>>

TermKills(s) ==
  /\ TermGoes(s, "late", "exit")
  /\ emu' = [emu EXCEPT ![s] = IF Running(s) THEN "killed" ELSE @]
  /\ UNCHANGED <<shell, owner, booting, flocked, refused, again, stopfile>>

TermGivesUp(s) ==
  /\ TermGoes(s, "exit", "gone")
  /\ UNCHANGED <<shell, emu, owner, booting, flocked, refused, again, stopfile>>

(* Ctrl-] q, or the end of a check *)
TermSyncs(s) ==
  /\ TermGoes(s, "up", "sync")
  /\ UNCHANGED <<shell, emu, owner, booting, flocked, refused, again, stopfile>>

(* stop() after the sync; Ctrl-] x, the end of standard input, and an      *)
(* emulator that is gone go straight to it, the last two by way of the     *)
(* `finally'                                                               *)
TermStops(s) ==
  /\ \/ TermGoes(s, "sync", "poll") /\ UNCHANGED again
     \/ /\ TermGoes(s, "up", "poll")
        /\ \E final \in BOOLEAN : again' = [again EXCEPT ![s] = final]
  /\ UNCHANGED <<shell, emu, owner, booting, flocked, refused, stopfile>>

(* Ctrl-C while a terminal session is being shut down, where the terminal  *)
(* is cooked again: KeyboardInterrupt, and stop() anew in the `finally'    *)
TermInterrupted(s) ==
  /\ "term" \in Killable
  /\ Effective(s) = "terminal" /\ ~again[s]
  /\ \E from \in {"sync", "poll", "ask", "wait"} : TermGoes(s, from, "poll")
  /\ again' = [again EXCEPT ![s] = TRUE]
  /\ UNCHANGED <<shell, emu, owner, booting, flocked, refused, stopfile>>

(* if self.proc.poll() is None *)
TermPolls(s) ==
  /\ TermGoes(s, "poll", IF Running(s) THEN "ask" ELSE "gone")
  /\ UNCHANGED <<shell, emu, owner, booting, flocked, refused, again, stopfile>>

(* A slip: the stop file goes beside the pack. *)
TermAsksBesidePack(s) ==
  /\ TermGoes(s, "ask", "wait")
  /\ stopfile' = stopfile \cup {Pack(s)}
  /\ UNCHANGED <<shell, emu, owner, booting, flocked, refused, again>>

(* open(work/stop, 'w') *)
TermAsks(s) ==
  /\ TermGoes(s, "ask", "wait")
  /\ stopfile' = stopfile \cup {Work(s)}
  /\ UNCHANGED <<shell, emu, owner, booting, flocked, refused, again>>

(* The emulator of s would find a stop file.                               *)
WillStop(s) == Running(s) /\ owner[s] = "term" /\ Watched \in stopfile

(* A slip: no timeout. *)
TermWaitsForEver(s) ==
  /\ TermGoes(s, "wait", "gone")
  /\ ~Running(s)
  /\ UNCHANGED <<shell, emu, owner, booting, flocked, refused, again, stopfile>>

(* proc.wait(timeout=20): it is gone, or it is killed *)
TermWaits(s) ==
  /\ TermGoes(s, "wait", "gone")
  /\ Running(s) => ~(Prompt /\ WillStop(s))
  /\ emu' = [emu EXCEPT ![s] = IF Running(s) THEN "killed" ELSE @]
  /\ UNCHANGED <<shell, owner, booting, flocked, refused, again, stopfile>>

-----------------------------------------------------------------------------
(* The emulator: stop.lua's periodic function, or its own end (Esc in the  *)
(* window, -seconds_to_run, a crash); and what comes from outside.         *)
EmuStops(s) ==
  /\ WillStop(s)
  /\ emu' = [emu EXCEPT ![s] = "ended"]
  /\ stopfile' = stopfile \ {Watched}
  /\ UNCHANGED <<shell, term, owner, booting, flocked, refused, again>>

EmuEnds(s) ==
  /\ Running(s)
  /\ emu' = [emu EXCEPT ![s] = "ended"]
  /\ UNCHANGED <<shell, term, owner, booting, flocked, refused, again, stopfile>>

(* A signal ends run.sh, or ends genixterm outside its `finally' (Ctrl-C   *)
(* in a check, a hangup, a kill); the emulator lives on.                   *)
KillShell(s) ==
  /\ "shell" \in Killable /\ ShellAlive(s)
  /\ shell' = [shell EXCEPT ![s] = "gone"]
  /\ UNCHANGED <<term, emu, owner, booting, flocked, refused, again, stopfile>>

KillTerm(s) ==
  /\ "term" \in Killable /\ TermAlive(s)
  /\ term' = [term EXCEPT ![s] = "gone"]
  /\ UNCHANGED <<shell, emu, owner, booting, flocked, refused, again, stopfile>>

-----------------------------------------------------------------------------
(* The steps a session takes towards its end once it has begun to leave.   *)
Leaving(s) ==
  \/ TermKills(s) \/ TermGivesUp(s)
  \/ TermStops(s) \/ TermPolls(s) \/ TermAsks(s) \/ TermWaits(s)
  \/ ShellExits(s)

SessionNext(s) ==
  \/ ShellLock(s)
  \/ ShellHandsOver(s)
  \/ ShellRunsWindow(s)
  \/ UserRunsTerm(s)
  \/ TermLock(s)
  \/ TermSpawns(s)
  \/ TermConnects(s)
  \/ TermTimesOut(s)
  \/ TermSyncs(s)
  \/ Leaving(s)
  \/ TermInterrupted(s)
  \/ EmuStops(s)
  \/ EmuEnds(s)
  \/ KillShell(s)
  \/ KillTerm(s)

Next == \E s \in Sessions : SessionNext(s)

Spec == Init /\ [][Next]_svars

(* A process that has begun to leave is not suspended, and the emulator    *)
(* runs its periodic function for ever; nobody is obliged to leave.        *)
Fairness ==
  \A s \in Sessions :
    /\ WF_svars(term[s] # "up" /\ Leaving(s))
    /\ WF_svars(EmuStops(s))

FairSpec == Spec /\ Fairness

-----------------------------------------------------------------------------
TypeOK ==
  /\ shell \in [Sessions -> {"idle", "locked", "child", "gone"}]
  /\ term \in [Sessions -> {"none", "start", "locked", "connect", "late", "exit", "up",
                            "sync", "poll", "ask", "wait", "gone"}]
  /\ emu \in [Sessions -> {"none", "up", "ended", "killed"}]
  /\ owner \in [Sessions -> {"none", "shell", "term"}]
  /\ booting \in [Sessions -> BOOLEAN]
  /\ flocked \in [Sessions -> SUBSET {"shell", "term"}]
  /\ refused \in [Sessions -> BOOLEAN]
  /\ again \in [Sessions -> BOOLEAN]
  /\ stopfile \subseteq Works \cup {Watched}

(* genixterm.py was ended from outside and its emulator runs on, without   *)
(* the lock: the emulator did not inherit it.                              *)
Orphan(s) == Running(s) /\ owner[s] = "term" /\ ~TermAlive(s)

(* Two emulators never write the same pack ("Two machines writing the same *)
(* disk image would destroy it ... Refuse the second one rather than let   *)
(* that happen", genixterm.py:53).                                         *)
OneMachinePerPack ==
  \A s, t \in Sessions :
    s # t /\ Pack(s) = Pack(t) => ~(Running(s) /\ Running(t))

(* What does hold, whoever is started when, in whatever mode, and whenever *)
(* run.sh or genixterm.py is killed: of two emulators on one pack, one is  *)
(* an orphan.                                                              *)
OneMachineButOrphans ==
  \A s, t \in Sessions :
    s # t /\ Pack(s) = Pack(t) /\ Running(s) /\ Running(t) =>
      Orphan(s) \/ Orphan(t)

(* Why: an emulator that is no orphan is covered by the lock its session   *)
(* took, also one whose run.sh is dead, and also in the gap between        *)
(* flock -u and the lock of genixterm.py.                                  *)
LockCoversMachine == \A s \in Sessions : Running(s) /\ ~Orphan(s) => Held(s)

(* The lock refuses one too many, never everybody: run.sh drops its lock   *)
(* before genixterm.py takes it, and a session that sneaks into that gap   *)
(* refuses the first one, but then it has the pack itself.                 *)
SomebodyGetsThePack ==
  \A w \in Works : \E s \in Sessions : Work(s) = w /\ ~refused[s]

(* Leaving works: once genixterm.py has begun to stop, or has waited 30 s  *)
(* for its emulator in vain, the emulator comes to its end, one way or the *)
(* other, unless genixterm.py is killed over it, and the pack is free.     *)
LeavingFreesThePack ==
  \A s \in Sessions :
    term[s] \in {"late", "sync", "poll"} ~> (~Running(s) \/ Orphan(s)) /\ ~Held(s)

(* pack/README.txt:113 and 125: in --terminal, Ctrl-] q closes the machine *)
(* through the file stop.lua watches, so a machine that is asked to stop   *)
(* is not killed.                                                          *)
StoppedNotKilled ==
  [][\A s \in Sessions :
       Running(s) /\ emu'[s] = "killed" => term[s] = "late"]_svars
=============================================================================
