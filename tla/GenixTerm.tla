----------------------------- MODULE GenixTerm -----------------------------
(***************************************************************************)
(* The console of genixterm.py: what one of the sessions types into its    *)
(* machine, what it sees of the machine's output, and when it decides to   *)
(* leave.  It is Session with the step TermSyncs and the step TermStops of *)
(* session Me replaced by the loops they stand for.                        *)
(*                                                                         *)
(* Between genixterm.py and the machine lie two queues: `wire', the keys   *)
(* sent and not yet read, and `out', the output not yet received.  A key   *)
(* is a character or a piece of a line that is typed as a whole; a piece   *)
(* of output is a marker genixterm.py looks for or other "text".           *)
(*                                                                         *)
(* The machine is external: a ROM monitor that boots at the line "k", a    *)
(* kernel that prints its banner, and a shell that reads lines, echoes     *)
(* them and prompts.  Keys that come before the monitor or while the       *)
(* kernel starts are lost; keys that come while a command runs wait.       *)
(*                                                                         *)
(* A definition marked "a slip" is no part of the specification: it is a   *)
(* mistake the properties are tried against.                               *)
(***************************************************************************)
EXTENDS Session, Naturals, SequencesExt

CONSTANTS
  Me,          \* the session that is looked at closely
  Jobs,        \* what it is run for: run_check, run_exec, run_interactive, or
               \*   an interactive session without a terminal ("notty")
  Scripts,     \* bound: what a user may type, sequences of keys
  Prints,      \* bound: what the command of --exec may print
  Window,      \* bound: pieces of output `seen' keeps (4096 bytes in the code)
  Budget       \* characters sync_and_stop is sure to type in 6 s (at 0.12 s
               \*   each and 0.02 s of sleep, some 42)

Token == {"return", "star", "banner", "single", "prompt", "ok", "text"}

(* "a" stands for every character that is not another key here.            *)
Key == {"a", "k", "q", "x", "]", "cr", "Ctrl-]", "eof",
        "echo ok''1234", "command", "/bin/sync"}

ASSUME GenixTermAssumption ==
  /\ Me \in Sessions
  /\ Jobs \subseteq {"check", "exec", "interactive", "notty"}
  /\ Jobs \cap {"check", "exec"} # {} => Effective(Me) = "check"
  /\ Jobs \cap {"interactive", "notty"} # {} => Effective(Me) = "terminal"
  /\ Scripts \subseteq Seq(Key)
  /\ Prints \subseteq Seq(Token \ {"ok"})
  /\ Window \in Nat \ {0} /\ Budget \in Nat

VARIABLES
  job,       \* which of the Jobs this is
  input,     \* what the user has still to type
  escape,    \* Ctrl-] was typed
  raw,       \* the terminal is in raw mode
  pending,   \* keys still to be typed, slowly
  seen,      \* the last of the output
  booted,    \* genixterm.py has typed the boot command
  typed,     \* the command of the check or of --exec was typed
  turn,      \* run_check, run_exec: next is "pump" (pump_keys) or "recv"
  budget,    \* characters sync_and_stop still types for sure
  verdict,   \* why the loop ended: "passed", "failed", "late"; or "none"
  wire, out,
  machine,   \* "rom", "monitor", "kernel", "shell", "busy", "printed"
  line,      \* the line it is reading
  ran,       \* history: it ran the command of the check or of --exec to its end
  synced,    \* history: it ran /bin/sync
  ahead,     \* history: the user typed a "k" before genixterm.py did
  promised   \* history: sync_and_stop began at a shell, with time for its keys

keyboard == <<job, input, escape, raw, ahead>>
console  == <<pending, seen, booted, typed, turn, budget, verdict>>
target   == <<machine, line, ran, synced>>
cvars    == <<keyboard, console, wire, out, target, promised>>

BootText    == <<"k", "cr">>

(* A slip: the line the shell is to print is the line that is typed.       *)
CheckTextPlain == <<"echo ok1234", "cr">>

CheckText   == <<"echo ok''1234", "cr">>
CommandText == <<"command", "cr">>

(* A slip: the line the user has begun is not ended. *)
SyncTextPlain == <<"/bin/sync", "cr">>

SyncText == <<"cr", "/bin/sync", "cr">>

(* How many characters a key stands for, those of a queue, and their count.*)
Strokes(key) ==
  CASE key = "/bin/sync"     -> 9
    [] key = "command"       -> 7
    [] key = "echo ok''1234" -> 13
    [] OTHER                 -> 1

Characters(keys) ==
  {c \in (1 .. Len(keys)) \X (1 .. 13) : c[2] <= Strokes(keys[c[1]])}

Time(keys) == Cardinality(Characters(keys))

ConsoleInit ==
  /\ Init
  /\ job \in Jobs /\ input \in Scripts
  /\ escape = FALSE /\ raw = FALSE /\ ahead = FALSE
  /\ pending = <<>> /\ seen = <<>> /\ budget = 0 /\ turn = "pump"
  /\ booted = FALSE /\ typed = FALSE /\ verdict = "none"
  /\ wire = <<>> /\ out = <<>>
  /\ machine = "rom" /\ line = <<>>
  /\ ran = FALSE /\ synced = FALSE /\ promised = FALSE

In(jobs) == term[Me] = "up" /\ job \in jobs

-----------------------------------------------------------------------------
(* pump_keys: the key is off the queue before it is sent, and lost when    *)
(* nobody is there to take it.                                             *)
pump_keys ==
  /\ pending # <<>>
  /\ pending' = Tail(pending)
  /\ wire' = IF Running(Me) THEN Append(wire, Head(pending)) ELSE wire

(* recv: what has arrived so far, which is n pieces.                       *)
Data(n) == SubSeq(out, 1, n)
recv(n) == out' = SubSeq(out, n + 1, Len(out))

Saw(marker, s) == marker \in ToSet(s)

(* MONITOR, which may arrive in two parts                                  *)
SawMonitor(s) ==
  \E i \in 1 .. Len(s) - 1 : s[i] = "return" /\ s[i + 1] = "star"

(* Two slips: all of the output is kept, or the first of it.               *)
NotedAll(data) == seen \o data

NotedFirst(data) ==
  LET s == seen \o data IN IF Len(s) > Window THEN SubSeq(s, 1, Window) ELSE s

(* note: `seen' keeps the last of the output; when the monitor's prompt is *)
(* in it and nothing is waiting, the boot command is typed, once.          *)
Noted(data) ==
  LET s == seen \o data
  IN  IF Len(s) > Window THEN SubSeq(s, Len(s) - Window + 1, Len(s)) ELSE s

(* Two slips: only fresh output counts, and the command is typed again.    *)
BootsFresh(data) ==
  ~booted /\ ~ArgsMonitor(Me) /\ SawMonitor(data) /\ pending = <<>>

BootsAgain(data) ==
  data # <<>> /\ ~ArgsMonitor(Me) /\ SawMonitor(Noted(data)) /\ pending = <<>>

Boots(data) ==
  /\ data # <<>>
  /\ ~booted /\ ~ArgsMonitor(Me)
  /\ SawMonitor(Noted(data))
  /\ pending = <<>>

Queued(data) == IF Boots(data) THEN BootText ELSE pending

(* sync_and_stop begins, with `rest' waiting.                              *)
BeginsSync(rest) ==
  /\ TermSyncs(Me)
  /\ pending' = rest \o SyncText
  /\ budget' = Budget
  /\ promised' = (/\ Time(rest \o SyncText) <= Budget
                  /\ machine \in {"shell", "busy", "printed"})

-----------------------------------------------------------------------------
(* run_check and run_exec: a loop of pump_keys, recv and a look at what    *)
(* has been seen.  The loop goes on while the emulator runs; the second    *)
(* loop of run_check does not look.                                        *)
Cycling == In({"check", "exec"}) /\ (Running(Me) \/ (job = "check" /\ typed))

LoopPumps ==
  /\ Cycling
  /\ turn = "pump" /\ turn' = "recv"
  /\ pump_keys
  /\ UNCHANGED <<svars, keyboard, seen, booted, typed, budget, verdict, out, target, promised>>

ShellSeen(s) ==
  /\ Saw("prompt", s) /\ Saw("single", s)
  /\ job = "check" => Saw("banner", s)

Text == IF job = "check" THEN CheckText ELSE CommandText

(* A slip: what was seen is kept.                                          *)
SeenKept(data) == Noted(data)

Starts(data) == ~typed /\ ShellSeen(Noted(data))

SeenNext(data) == IF Starts(data) /\ job = "exec" THEN <<>> ELSE Noted(data)

(* run_exec: nothing is waiting, and what was seen ends in a prompt.       *)
CommandOver(data) ==
  /\ job = "exec" /\ typed
  /\ Queued(data) = <<>>
  /\ Noted(data) # <<>> /\ Last(Noted(data)) = "prompt"

LoopLooks(n) ==
  LET data == Data(n) IN
  /\ Cycling \/ (In({"check", "exec"}) /\ turn = "recv")
  /\ turn' = "pump"
  /\ recv(n)
  /\ seen' = SeenNext(data)
  /\ booted' = (booted \/ Boots(data))
  /\ typed' = (typed \/ Starts(data))
  /\ \/ /\ ~CommandOver(data)
        /\ pending' = Queued(data) \o (IF Starts(data) THEN Text ELSE <<>>)
        /\ UNCHANGED <<svars, budget, promised>>
     \/ CommandOver(data) /\ BeginsSync(<<>>)
  /\ UNCHANGED <<keyboard, verdict, wire, target>>

(* The check has passed, the emulator is gone, or a deadline (timeout,     *)
(* 25 s, 40 s) has passed, which may be at any time.  The last two are one *)
(* to genixterm.py.                                                        *)
Verdict ==
  CASE job = "check" /\ typed /\ Saw("ok", seen) -> "passed"
    [] ~Running(Me) -> "failed"
    [] OTHER -> "late"

LoopEnds ==
  /\ In({"check", "exec"}) /\ turn = "pump"
  /\ verdict' = Verdict
  /\ BeginsSync(pending)
  /\ UNCHANGED <<keyboard, seen, booted, typed, turn, wire, out, target>>

-----------------------------------------------------------------------------
(* run_interactive *)
Interacting == In({"interactive"}) /\ raw

(* tty.setraw *)
TerminalGoesRaw ==
  /\ In({"interactive"}) /\ ~raw
  /\ raw' = TRUE
  /\ UNCHANGED <<svars, job, input, escape, ahead, console, wire, out, target, promised>>

InteractivePumps ==
  /\ Interacting
  /\ pump_keys
  /\ UNCHANGED <<svars, keyboard, seen, booted, typed, turn, budget, verdict, out, target, promised>>

InteractiveLooks(n) ==
  /\ Interacting /\ n > 0
  /\ recv(n)
  /\ seen' = Noted(Data(n))
  /\ booted' = (booted \/ Boots(Data(n)))
  /\ pending' = Queued(Data(n))
  /\ UNCHANGED <<svars, keyboard, typed, turn, budget, verdict, wire, target, promised>>

UserTypes(key) ==
  /\ Interacting
  /\ input # <<>> /\ Head(input) = key
  /\ input' = Tail(input)
  /\ UNCHANGED <<job, seen, booted, typed, turn, verdict, wire, out, target>>

UserTypesKey ==
  /\ ~escape
  /\ \E key \in ToSet(input) \ {"Ctrl-]", "eof"} :
       /\ UserTypes(key)
       /\ pending' = Append(pending, key)
       /\ ahead' = (ahead \/ (key = "k" /\ ~booted))
  /\ UNCHANGED <<svars, escape, raw, budget, promised>>

UserEscapes ==
  /\ ~escape /\ UserTypes("Ctrl-]")
  /\ escape' = TRUE
  /\ UNCHANGED <<svars, raw, ahead, pending, budget, promised>>

(* Ctrl-] and any other key: Ctrl-] itself is sent, the other key is not.  *)
UserSendsEscape ==
  /\ escape /\ escape' = FALSE
  /\ \E key \in ToSet(input) \ {"q", "x", "eof"} : UserTypes(key)
  /\ pending' = Append(pending, "Ctrl-]")
  /\ UNCHANGED <<svars, raw, ahead, budget, promised>>

(* The terminal is given back first, so that Ctrl-C works from here on.    *)
UserQuits ==
  /\ escape /\ escape' = FALSE
  /\ UserTypes("q")
  /\ raw' = FALSE
  /\ BeginsSync(pending)
  /\ UNCHANGED ahead

Stops(final) == TermStops(Me) /\ again' = [again EXCEPT ![Me] = final]

UserStops ==
  /\ escape /\ escape' = FALSE
  /\ UserTypes("x")
  /\ raw' = FALSE
  /\ Stops(FALSE)
  /\ UNCHANGED <<ahead, pending, budget, promised>>

(* A slip: no `finally'. *)
InputEndsRaw ==
  /\ UserTypes("eof")
  /\ Stops(TRUE)
  /\ UNCHANGED <<escape, raw, ahead, pending, budget, promised>>

(* KeyboardInterrupt, and the `finally'                                    *)
InputEnds ==
  /\ UserTypes("eof")
  /\ raw' = FALSE
  /\ Stops(TRUE)
  /\ UNCHANGED <<escape, ahead, pending, budget, promised>>

(* The emulator is gone, or there never was a terminal.                    *)
InteractiveEnds ==
  /\ (Interacting /\ ~Running(Me)) \/ In({"notty"})
  /\ raw' = FALSE
  /\ Stops(TRUE)
  /\ UNCHANGED <<job, input, escape, ahead, console, wire, out, target, promised>>

-----------------------------------------------------------------------------
(* sync_and_stop: the keys are typed until the queue is empty or 6 s have  *)
(* passed; what the machine says meanwhile is thrown away.  A word that    *)
(* the 6 s break off is not sent at all: the line it is in never ends.     *)
SyncPumps ==
  /\ term[Me] = "sync"
  /\ pump_keys
  /\ budget' = IF budget < Strokes(Head(pending)) THEN 0 ELSE budget - Strokes(Head(pending))
  /\ UNCHANGED <<svars, keyboard, seen, booted, typed, turn, verdict, out, target, promised>>

drain ==
  /\ term[Me] = "sync" /\ pending # <<>>
  /\ \E n \in 1 .. Len(out) : recv(n)
  /\ UNCHANGED <<svars, keyboard, console, wire, target, promised>>

TimeIsUp == pending # <<>> /\ budget < Strokes(Head(pending))

(* A slip: no stop(). *)
SyncEndsUnstopped ==
  /\ pending = <<>> \/ TimeIsUp
  /\ TermGoes(Me, "sync", "gone")
  /\ UNCHANGED <<shell, emu, owner, booting, flocked, refused, again, stopfile, cvars>>

(* the sleep of 1.5 s, and stop()                                          *)
SyncEnds ==
  /\ term[Me] = "sync"
  /\ pending = <<>> \/ TimeIsUp
  /\ Stops(again[Me])
  /\ UNCHANGED cvars

SyncInterrupted ==
  /\ job = "interactive" /\ term[Me] = "sync"
  /\ TermInterrupted(Me)
  /\ UNCHANGED cvars

-----------------------------------------------------------------------------
(***************************************************************************)
(* The machine (external).                                                 *)
(***************************************************************************)
Says(tokens) == out' = out \o tokens

MonitorStarts ==
  /\ Running(Me) /\ machine = "rom"
  /\ machine' = "monitor"
  /\ Says(<<"return", "star">>)
  /\ UNCHANGED <<svars, keyboard, console, wire, line, ran, synced, promised>>

Reads(key) ==
  /\ Running(Me) /\ wire # <<>> /\ Head(wire) = key
  /\ wire' = Tail(wire)
  /\ UNCHANGED <<svars, keyboard, console, promised>>

KeyLost ==
  /\ machine \in {"rom", "kernel"}
  /\ \E key \in ToSet(wire) : Reads(key)
  /\ UNCHANGED <<out, target>>

(* The quotes keep the echo of the check's command from looking like what  *)
(* the shell will print.                                                   *)
EchoOf(key) == IF key = "echo ok1234" THEN "ok" ELSE "text"

KeyEchoed ==
  /\ machine \in {"monitor", "shell"}
  /\ \E key \in ToSet(wire) \ {"cr"} :
       /\ Reads(key)
       /\ line' = Append(line, key)
       /\ Says(<<EchoOf(key)>>)
  /\ UNCHANGED <<machine, ran, synced>>

MonitorObeys ==
  /\ machine = "monitor"
  /\ Reads("cr")
  /\ line' = <<>>
  /\ machine' = IF line = <<"k">> THEN "kernel" ELSE "monitor"
  /\ Says(IF line = <<"k">> THEN <<"text">> ELSE <<"return", "star">>)
  /\ UNCHANGED <<ran, synced>>

KernelBoots ==
  /\ Running(Me) /\ machine = "kernel"
  /\ machine' = "shell"
  /\ Says(<<"banner", "single", "prompt">>)
  /\ UNCHANGED <<svars, keyboard, console, wire, line, ran, synced, promised>>

ShellObeys ==
  /\ machine = "shell"
  /\ Reads("cr")
  /\ line' = <<>>
  /\ machine' = IF line = <<"command">> THEN "busy" ELSE "shell"
  /\ synced' = (synced \/ line = <<"/bin/sync">>)
  /\ ran' = (ran \/ line = <<"echo ok''1234">>)
  /\ Says(CASE line = <<"echo ok''1234">> -> <<"ok", "prompt">>
            [] line = <<"command">> -> <<"text">>
            [] OTHER -> <<"text", "prompt">>)

CommandPrints ==
  /\ Running(Me) /\ machine = "busy"
  /\ machine' = "printed"
  /\ \E printed \in Prints : Says(printed)
  /\ UNCHANGED <<svars, keyboard, console, wire, line, ran, synced, promised>>

CommandEnds ==
  /\ Running(Me) /\ machine = "printed"
  /\ machine' = "shell"
  /\ ran' = TRUE
  /\ Says(<<"prompt">>)
  /\ UNCHANGED <<svars, keyboard, console, wire, line, synced, promised>>

Machine ==
  \/ MonitorStarts
  \/ KeyLost
  \/ KeyEchoed
  \/ MonitorObeys
  \/ KernelBoots
  \/ ShellObeys
  \/ CommandPrints
  \/ CommandEnds

-----------------------------------------------------------------------------
(* Everything else that happens to the sessions: while genixterm.py is in  *)
(* its loops only a signal takes it out of them.                           *)
SessionStep ==
  /\ Next
  /\ term[Me] \in {"up", "sync"} => term'[Me] \in {term[Me], "gone"}
  /\ UNCHANGED cvars

ConsoleNext ==
  \/ SessionStep
  \/ LoopPumps
  \/ \E n \in 0 .. Len(out) : LoopLooks(n)
  \/ LoopEnds
  \/ TerminalGoesRaw
  \/ InteractivePumps
  \/ \E n \in 0 .. Len(out) : InteractiveLooks(n)
  \/ UserTypesKey
  \/ UserEscapes
  \/ UserSendsEscape
  \/ UserQuits
  \/ UserStops
  \/ InputEnds
  \/ InteractiveEnds
  \/ SyncPumps
  \/ drain
  \/ SyncEnds
  \/ SyncInterrupted
  \/ Machine

cvarsAll == <<svars, cvars>>

ConsoleSpec == ConsoleInit /\ [][ConsoleNext]_cvarsAll

(* genixterm.py comes round its loops again and again, and receives what   *)
(* has arrived; the machine goes on; the user is obliged to nothing, and   *)
(* nothing to end by itself.                                               *)
ConsoleFairness ==
  /\ WF_cvarsAll(LoopPumps \/ InteractivePumps \/ SyncPumps)
  /\ WF_cvarsAll(\E n \in 1 .. Len(out) : LoopLooks(n) \/ InteractiveLooks(n))
  /\ WF_cvarsAll(LoopLooks(0))
  /\ WF_cvarsAll(LoopEnds /\ verdict' # "late")
  /\ WF_cvarsAll(TerminalGoesRaw \/ InteractiveEnds \/ SyncEnds)
  /\ WF_cvarsAll(term[Me] \notin {"up", "sync"} /\ Leaving(Me) /\ UNCHANGED cvars)
  /\ WF_cvarsAll(EmuStops(Me) /\ UNCHANGED cvars)
  /\ WF_cvarsAll(Machine)

FairConsoleSpec == ConsoleSpec /\ ConsoleFairness

-----------------------------------------------------------------------------
ConsoleTypeOK ==
  /\ TypeOK
  /\ job \in Jobs /\ input \in Seq(Key) /\ escape \in BOOLEAN /\ raw \in BOOLEAN
  /\ pending \in Seq(Key) /\ wire \in Seq(Key) /\ line \in Seq(Key)
  /\ seen \in Seq(Token) /\ Len(seen) <= Window /\ out \in Seq(Token)
  /\ booted \in BOOLEAN /\ typed \in BOOLEAN /\ verdict \in {"none", "passed", "failed", "late"}
  /\ turn \in {"pump", "recv"} /\ budget \in 0 .. Budget
  /\ machine \in {"rom", "monitor", "kernel", "shell", "busy", "printed"}
  /\ ran \in BOOLEAN /\ synced \in BOOLEAN /\ ahead \in BOOLEAN /\ promised \in BOOLEAN

(* The loops of the console do nothing to the processes, the lock and the  *)
(* stop file that Session does not say genixterm.py does.                  *)
SessionSpec == Spec

(* "so a match can only have come from the shell" (genixterm.py:218): a    *)
(* check passes only when the shell has run the check's command, not when  *)
(* its echo has been seen.                                                 *)
CheckIsHonest == verdict = "passed" => ran

(* "the monitor is up: tell it to boot" (genixterm.py:137): genixterm.py   *)
(* types the boot command once in a session, and to a monitor; to a kernel *)
(* or a shell only when the user has booted before it could.               *)
BootAtMonitor ==
  [][pending = <<>> /\ pending' = BootText =>
       ~booted /\ (machine = "monitor" \/ ahead)]_cvarsAll

(* "Boot, wait for the prompt, run one command, then shut down cleanly"    *)
(* (run_exec): while the emulator runs, the shutdown does not begin before *)
(* the command has come to its end.                                        *)
ExecRunsToTheEnd ==
  [][job = "exec" /\ Running(Me) /\ term[Me] = "up" /\ term'[Me] = "sync"
       => ran \/ verdict' = "late"]_cvarsAll

(* /bin/sync is run by a shell that is there to read it and has the time,  *)
(* also when the user leaves in the middle of a line.                      *)
SyncReachesShell ==
  /\ promised /\ ~again[Me] /\ term[Me] \in {"poll", "ask", "wait"}
  /\ Running(Me) /\ wire = <<>> /\ machine = "shell"
  => synced

(* The terminal is cooked again whichever way run_interactive ends, unless *)
(* genixterm.py is killed.                                                 *)
TerminalGivenBack == raw => term[Me] \in {"up", "gone"}

(* A check whose deadlines do not pass passes, unless the emulator ends by *)
(* itself or the check is killed.                                          *)
CheckPasses ==
  job = "check" /\ term[Me] = "up" ~> verdict \in {"passed", "late"} \/ ~Running(Me) \/ term[Me] = "gone"

(* "boot GENIX and use it" (genixterm.py:9): a session gets to a shell if  *)
(* nobody leaves.                                                          *)
GenixComesUp ==
  term[Me] = "up" /\ job # "notty" ~>
    machine \in {"shell", "busy", "printed"} \/ term[Me] # "up" \/ ~Running(Me)
=============================================================================
