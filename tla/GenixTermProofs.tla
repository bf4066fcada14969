-------------------------- MODULE GenixTermProofs --------------------------
(***************************************************************************)
(* The console of genixterm.py implements Session, for any script, any     *)
(* output and any number of other sessions; so what is proved of Session   *)
(* holds with the console in it.                                           *)
(*                                                                         *)
(* And what the loops promise themselves: the terminal is given back, a    *)
(* check that passes is honest, the boot command goes to a monitor, a sync *)
(* is read by a shell, and a command of --exec is waited for.  Each has an *)
(* invariant of its own, after ConsoleInv, which all of them need.  The    *)
(* last holds on a condition only, the hypothesis PrintsNoPrompt.          *)
(***************************************************************************)
EXTENDS GenixTerm, SessionProofs, SequenceTheorems, FiniteSetTheorems

(* Every step of the console and of the machine is a step of session Me or *)
(* changes nothing of the sessions.                                        *)
LEMMA StepOfSession ==
  ASSUME ConsoleNext
  PROVE  [Next]_svars
<1> USE GenixTermAssumption
<1>1. ASSUME NEW rest, BeginsSync(rest) PROVE Next
  BY <1>1 DEF BeginsSync, Next, SessionNext
<1>2. ASSUME NEW final, Stops(final) PROVE Next
  BY <1>2 DEF Stops, Next, SessionNext, Leaving
<1>3. CASE SessionStep
  BY <1>3 DEF SessionStep
<1>4. CASE LoopPumps
  BY <1>4 DEF LoopPumps
<1>5. ASSUME NEW n \in 0 .. Len(out), LoopLooks(n) PROVE [Next]_svars
  BY <1>5, <1>1 DEF LoopLooks
<1>6. CASE LoopEnds
  BY <1>6, <1>1 DEF LoopEnds
<1>7. CASE TerminalGoesRaw \/ InteractivePumps
  BY <1>7 DEF TerminalGoesRaw, InteractivePumps
<1>8. ASSUME NEW n \in 0 .. Len(out), InteractiveLooks(n) PROVE [Next]_svars
  BY <1>8 DEF InteractiveLooks
<1>9. CASE UserTypesKey \/ UserEscapes \/ UserSendsEscape
  BY <1>9 DEF UserTypesKey, UserEscapes, UserSendsEscape
<1>10. CASE UserQuits
  BY <1>10, <1>1 DEF UserQuits
<1>11. CASE UserStops \/ InputEnds \/ InteractiveEnds \/ SyncEnds
  BY <1>11, <1>2 DEF UserStops, InputEnds, InteractiveEnds, SyncEnds
<1>12. CASE SyncPumps \/ drain
  BY <1>12 DEF SyncPumps, drain
<1>13. CASE SyncInterrupted
  BY <1>13 DEF SyncInterrupted, Next, SessionNext
<1>14. CASE Machine
  <2>1. ASSUME NEW key, Reads(key) PROVE UNCHANGED svars
    BY <2>1 DEF Reads
  <2> QED BY <1>14, <2>1 DEF Machine, MonitorStarts, KeyLost, KeyEchoed, MonitorObeys,
               KernelBoots, ShellObeys, CommandPrints, CommandEnds
<1> QED BY <1>3, <1>4, <1>5, <1>6, <1>7, <1>8, <1>9, <1>10, <1>11, <1>12, <1>13, <1>14
        DEF ConsoleNext

(* The console implements Session: it never touches processes, lock and    *)
(* stop file but in the steps genixterm.py has in Session.                 *)
THEOREM ConsoleIsASession == ConsoleSpec => SessionSpec
<1>1. ConsoleInit => Init
  BY DEF ConsoleInit
<1>2. [ConsoleNext]_cvarsAll => [Next]_svars
  BY StepOfSession DEF cvarsAll
<1> QED BY <1>1, <1>2, PTL DEF ConsoleSpec, SessionSpec, Spec

(* So of two emulators on one pack one is an orphan, whatever the console  *)
(* is made to do.                                                          *)
THEOREM ConsoleKeepsThePack == ConsoleSpec => []OneMachineButOrphans
BY ConsoleIsASession, OneMachine, PTL DEF SessionSpec

-----------------------------------------------------------------------------
(* Nobody comes back from the dead, and out of the loops of genixterm.py   *)
(* only the console leads.                                                 *)
LEMMA GoneStaysGone ==
  ASSUME SInv, Next, NEW s \in Sessions, term[s] = "gone"
  PROVE  term'[s] = "gone"
<1>1. PICK t \in Sessions : SessionNext(t)
  BY DEF Next
<1>2. CASE t # s
  BY <1>1, <1>2, Untouched DEF SInv
<1>3. CASE t = s
  <2>1. StartedOf(s) /\ TypeOK
    BY DEF SInv, EachAlone, Alone
  <2> QED
    BY <1>1, <1>3, <2>1 DEF TypeOK, SessionNext, Leaving, ShellLock, ShellHandsOver,
       ShellRunsWindow, UserRunsTerm, TermLock, TermSpawns, TermConnects,
       TermTimesOut, TermKills, TermGivesUp, TermSyncs,
       TermStops, TermInterrupted, TermPolls, TermAsks, TermWaits, ShellExits, EmuStops,
       EmuEnds, KillShell, KillTerm, TermGoes, TermAlive, StartedOf
<1> QED BY <1>2, <1>3

RawInv == raw => job = "interactive" /\ term[Me] \in {"up", "gone"}

LEMMA RawStep ==
  ASSUME SInv, RawInv, ConsoleNext
  PROVE  RawInv'
<1> USE DEF RawInv
<1>1. CASE SessionStep
  BY <1>1, GoneStaysGone, GenixTermAssumption DEF SessionStep, cvars, keyboard
<1>2. ASSUME UNCHANGED <<raw, job, term>> PROVE RawInv'
  BY <1>2
<1>3. CASE LoopPumps \/ TerminalGoesRaw \/ InteractivePumps
  BY <1>3 DEF LoopPumps, TerminalGoesRaw, InteractivePumps, svars, keyboard, In
<1>4. ASSUME NEW n \in 0 .. Len(out), LoopLooks(n) \/ InteractiveLooks(n) PROVE RawInv'
  BY <1>4 DEF LoopLooks, InteractiveLooks, svars, keyboard, In, Cycling
<1>5. CASE LoopEnds
  BY <1>5 DEF LoopEnds, keyboard, In
<1>6. CASE UserTypesKey \/ UserEscapes \/ UserSendsEscape
  BY <1>6 DEF UserTypesKey, UserEscapes, UserSendsEscape, UserTypes, svars
<1>7. CASE UserQuits \/ UserStops \/ InputEnds \/ InteractiveEnds
  BY <1>7 DEF UserQuits, UserStops, InputEnds, InteractiveEnds
<1>8. CASE SyncPumps \/ drain \/ SyncEnds \/ SyncInterrupted
  BY <1>8 DEF SyncPumps, drain, SyncEnds, SyncInterrupted, Stops, TermStops, TermGoes, svars,
     keyboard, cvars
<1>9. CASE Machine
  <2>1. ASSUME NEW key, Reads(key) PROVE UNCHANGED <<raw, job, term>>
    BY <2>1 DEF Reads, svars, keyboard
  <2> QED BY <1>9, <2>1 DEF Machine, MonitorStarts, KeyLost, KeyEchoed, MonitorObeys,
               KernelBoots, ShellObeys, CommandPrints, CommandEnds, svars, keyboard
<1> QED BY <1>1, <1>3, <1>4, <1>5, <1>6, <1>7, <1>8, <1>9 DEF ConsoleNext

(* The user's terminal is out of raw mode whenever run_interactive has     *)
(* left its loop, whichever way it left.                                   *)
THEOREM GivenBack == ConsoleSpec => []TerminalGivenBack
<1>1. ConsoleInit => RawInv
  BY DEF ConsoleInit, RawInv
<1>2. SInv /\ RawInv /\ [ConsoleNext]_cvarsAll => RawInv'
  <2>1. ASSUME RawInv, UNCHANGED cvarsAll PROVE RawInv'
    BY <2>1 DEF RawInv, cvarsAll, svars, cvars, keyboard
  <2> QED BY <2>1, RawStep
<1>3. ConsoleSpec => []SInv
  BY ConsoleIsASession, Invariance, PTL DEF SessionSpec
<1>4. RawInv => TerminalGivenBack
  BY DEF RawInv, TerminalGivenBack
<1> QED BY <1>1, <1>2, <1>3, <1>4, PTL DEF ConsoleSpec

-----------------------------------------------------------------------------
(* The argument: no key that leaves the keyboard looks like what the shell *)
(* will print, so nothing that is heard is an "ok" until the command ran.  *)
Heard == IF ran THEN Token ELSE Token \ {"ok"}

HonestInv ==
  /\ input \in Seq(Key) /\ pending \in Seq(Key) /\ wire \in Seq(Key)
  /\ ran \in BOOLEAN
  /\ seen \in Seq(Heard) /\ out \in Seq(Heard)
  /\ verdict = "passed" => ran

LEMMA Tuples ==
  ASSUME NEW S, NEW a \in S, NEW b \in S, NEW c \in S
  PROVE  <<a>> \in Seq(S) /\ <<a, b>> \in Seq(S) /\ <<a, b, c>> \in Seq(S)
OBVIOUS

LEMMA Texts ==
  /\ BootText \in Seq(Key) /\ CheckText \in Seq(Key)
  /\ CommandText \in Seq(Key) /\ SyncText \in Seq(Key) /\ <<>> \in Seq(Key)
<1>1. "k" \in Key /\ "cr" \in Key /\ "command" \in Key /\ "/bin/sync" \in Key
  BY DEF Key
<1>2. "echo ok''1234" \in Key
  BY DEF Key
<1> QED BY <1>1, <1>2, Tuples, EmptySeq DEF BootText, CheckText, CommandText, SyncText

LEMMA PartOf ==
  ASSUME NEW S, NEW s \in Seq(S), NEW i \in Nat \ {0}, NEW j \in 0 .. Len(s)
  PROVE  SubSeq(s, i, j) \in Seq(S)
<1>1. \A k \in i .. j : s[k] \in S
  BY ElementOfSeq
<1> QED BY <1>1, SubSeqProperties

(* What was heard stays heard.                                             *)
LEMMA HeardGrows ==
  ASSUME ran => ran', ran' \in BOOLEAN, NEW s \in Seq(Heard)
  PROVE  s \in Seq(Heard')
BY SeqMonotonic DEF Heard

LEMMA NotingOf ==
  ASSUME NEW S, seen \in Seq(S), NEW data \in Seq(S)
  PROVE  Noted(data) \in Seq(S)
<1> DEFINE s == seen \o data
<1>1. s \in Seq(S)
  BY ConcatProperties
<1>2. CASE Len(s) > Window
  <2>1. Len(s) \in Nat /\ Window \in Nat
    BY <1>1, LenProperties, GenixTermAssumption
  <2>2. Len(s) - Window + 1 \in Nat \ {0} /\ Len(s) \in 0 .. Len(s)
    BY <1>2, <2>1
  <2>3. SubSeq(s, Len(s) - Window + 1, Len(s)) \in Seq(S)
    BY <1>1, <2>2, PartOf
  <2> QED BY <1>2, <2>3 DEF Noted
<1>3. CASE ~(Len(s) > Window)
  BY <1>1, <1>3 DEF Noted
<1> QED BY <1>2, <1>3

LEMMA Noting ==
  ASSUME HonestInv, NEW n \in 0 .. Len(out)
  PROVE  /\ Data(n) \in Seq(Heard) /\ Noted(Data(n)) \in Seq(Heard)
         /\ SubSeq(out, n + 1, Len(out)) \in Seq(Heard)
         /\ Queued(Data(n)) \in Seq(Key)
<1>1. Data(n) \in Seq(Heard) /\ SubSeq(out, n + 1, Len(out)) \in Seq(Heard)
  BY PartOf DEF HonestInv, Data
<1>2. Noted(Data(n)) \in Seq(Heard)
  BY <1>1, NotingOf DEF HonestInv
<1>3. Queued(Data(n)) \in Seq(Key)
  BY Texts DEF Queued, HonestInv
<1> QED BY <1>1, <1>2, <1>3

LEMMA Pumping ==
  ASSUME HonestInv, pump_keys
  PROVE  pending' \in Seq(Key) /\ wire' \in Seq(Key)
BY HeadTailProperties, AppendProperties DEF HonestInv, pump_keys

LEMMA TypingOf ==
  ASSUME HonestInv, NEW key, UserTypes(key)
  PROVE  /\ input' \in Seq(Key) /\ key \in Key
         /\ Append(pending, key) \in Seq(Key)
         /\ UNCHANGED <<verdict, wire, out, seen, ran>>
BY HeadTailProperties, AppendProperties DEF HonestInv, UserTypes, target

LEMMA Beginning ==
  ASSUME HonestInv, NEW rest \in Seq(Key), BeginsSync(rest)
  PROVE  pending' \in Seq(Key)
BY Texts, ConcatProperties DEF BeginsSync

(* What the machine says, it says of Heard.                                *)
LEMMA Saying ==
  ASSUME HonestInv, ran => ran', ran' \in BOOLEAN, NEW tokens \in Seq(Heard'), Says(tokens)
  PROVE  out' \in Seq(Heard')
BY HeardGrows, ConcatProperties DEF HonestInv, Says

LEMMA MachineHonest ==
  ASSUME HonestInv, Machine
  PROVE  HonestInv'
<1>0. Token \ {"ok"} \subseteq Heard'
  BY DEF Heard
<1>1. ASSUME UNCHANGED <<keyboard, console, wire>>, ran => ran', ran' \in BOOLEAN,
             NEW tokens \in Seq(Heard'), Says(tokens)
      PROVE  HonestInv'
  BY <1>1, Saying, HeardGrows DEF HonestInv, keyboard, console
<1>2. ASSUME NEW key, Reads(key)
      PROVE  /\ wire' \in Seq(Key) /\ key \in Key
             /\ UNCHANGED <<keyboard, console>>
  BY <1>2, HeadTailProperties DEF HonestInv, Reads
<1>3. ASSUME NEW key, Reads(key), ran => ran', ran' \in BOOLEAN,
             NEW tokens \in Seq(Heard'), Says(tokens)
      PROVE  HonestInv'
  BY <1>3, <1>2, Saying, HeardGrows DEF HonestInv, keyboard, console
<1>4. CASE MonitorStarts
  <2>1. <<"return", "star">> \in Seq(Heard')
    BY <1>0, Tuples DEF Token
  <2> QED BY <1>4, <2>1, <1>1 DEF MonitorStarts, HonestInv
<1>5. CASE KeyLost
  <2>1. UNCHANGED <<out, ran>>
    BY <1>5 DEF KeyLost, target
  <2> QED BY <1>5, <2>1, <1>2 DEF KeyLost, HonestInv, keyboard, console, Heard
<1>6. CASE KeyEchoed
  <2>1. PICK key : Reads(key) /\ Says(<<EchoOf(key)>>) /\ ran' = ran
    BY <1>6 DEF KeyEchoed
  <2>2. EchoOf(key) = "text"
    BY <2>1, <1>2 DEF EchoOf, Key
  <2>3. <<EchoOf(key)>> \in Seq(Heard')
    BY <2>2, <1>0, Tuples DEF Token
  <2> QED BY <2>1, <2>3, <1>3 DEF HonestInv
<1>7. CASE MonitorObeys
  <2>1. <<"text">> \in Seq(Heard') /\ <<"return", "star">> \in Seq(Heard')
    BY <1>0, Tuples DEF Token
  <2> QED BY <1>7, <2>1, <1>3 DEF MonitorObeys, HonestInv
<1>8. CASE KernelBoots
  <2>1. <<"banner", "single", "prompt">> \in Seq(Heard')
    BY <1>0, Tuples DEF Token
  <2> QED BY <1>8, <2>1, <1>1 DEF KernelBoots, HonestInv
<1>9. CASE ShellObeys
  <2>1. ran' \in BOOLEAN /\ (ran => ran')
    BY <1>9 DEF ShellObeys, HonestInv
  <2>2. CASE line = <<"echo ok''1234">>
    <3>1. ran' /\ Reads("cr") /\ Says(<<"ok", "prompt">>)
      BY <1>9, <2>2 DEF ShellObeys
    <3>2. "ok" \in Heard' /\ "prompt" \in Heard'
      BY <3>1 DEF Heard, Token
    <3>3. <<"ok", "prompt">> \in Seq(Heard')
      BY <3>2, Tuples
    <3> QED BY <3>1, <3>3, <2>1, <1>3
  <2>3. CASE line # <<"echo ok''1234">>
    <3>1. Reads("cr") /\ (Says(<<"text">>) \/ Says(<<"text", "prompt">>))
      BY <1>9, <2>3 DEF ShellObeys
    <3>2. <<"text">> \in Seq(Heard') /\ <<"text", "prompt">> \in Seq(Heard')
      BY <1>0, Tuples DEF Token
    <3> QED BY <3>1, <3>2, <2>1, <1>3
  <2> QED BY <2>2, <2>3
<1>10. CASE CommandPrints
  <2>1. PICK printed \in Prints : Says(printed)
    BY <1>10 DEF CommandPrints
  <2>2. printed \in Seq(Heard')
    BY <2>1, GenixTermAssumption, SeqMonotonic DEF Heard
  <2> QED BY <1>10, <2>1, <2>2, <1>1 DEF CommandPrints, HonestInv
<1>11. CASE CommandEnds
  <2>1. <<"prompt">> \in Seq(Heard')
    BY <1>0, Tuples DEF Token
  <2> QED BY <1>11, <2>1, <1>1 DEF CommandEnds, HonestInv
<1> QED BY <1>4, <1>5, <1>6, <1>7, <1>8, <1>9, <1>10, <1>11 DEF Machine

LEMMA HonestStep ==
  ASSUME HonestInv, ConsoleNext
  PROVE  HonestInv'
<1> USE DEF HonestInv
<1>1. ASSUME UNCHANGED ran PROVE Heard' = Heard
  BY <1>1 DEF Heard
<1>2. CASE SessionStep \/ SyncEnds \/ SyncInterrupted
  BY <1>2, <1>1 DEF SessionStep, SyncEnds, SyncInterrupted, cvars, keyboard, console, target
<1>3. CASE LoopPumps \/ InteractivePumps \/ SyncPumps
  <2>1. pump_keys /\ UNCHANGED <<keyboard, seen, verdict, out, target>>
    BY <1>3 DEF LoopPumps, InteractivePumps, SyncPumps
  <2> QED BY <2>1, Pumping, <1>1 DEF keyboard, target
<1>4. ASSUME NEW n \in 0 .. Len(out), LoopLooks(n) PROVE HonestInv'
  <2>1. UNCHANGED <<input, verdict, wire, ran>> /\ out' = SubSeq(out, n + 1, Len(out))
    BY <1>4 DEF LoopLooks, recv, keyboard, target
  <2>2. seen' \in Seq(Heard)
    BY <1>4, Noting, EmptySeq DEF LoopLooks, SeenNext
  <2>3. pending' \in Seq(Key)
    <3>1. CASE CommandOver(Data(n))
      BY <1>4, <3>1, Beginning, Texts DEF LoopLooks
    <3>2. CASE ~CommandOver(Data(n))
      <4>1. Text \in Seq(Key)
        BY Texts DEF Text
      <4>2. Queued(Data(n)) \in Seq(Key)
        BY Noting
      <4>3. Queued(Data(n)) \o <<>> \in Seq(Key) /\ Queued(Data(n)) \o Text \in Seq(Key)
        BY <4>1, <4>2, Texts, ConcatProperties
      <4> QED BY <1>4, <3>2, <4>3 DEF LoopLooks
    <3> QED BY <3>1, <3>2
  <2> QED BY <2>1, <2>2, <2>3, Noting, <1>1
<1>5. CASE LoopEnds
  <2>1. UNCHANGED <<input, seen, wire, out, ran>>
    BY <1>5 DEF LoopEnds, keyboard, target
  <2>2. Saw("ok", seen) => ran
    <3>1. ASSUME Saw("ok", seen) PROVE "ok" \in Heard
      <4>1. PICK i \in DOMAIN seen : seen[i] = "ok"
        BY <3>1 DEF Saw, ToSet
      <4> QED BY <4>1, ElementOfSeq
    <3> QED BY <3>1 DEF Heard
  <2>3. verdict' = "passed" => ran
    BY <1>5, <2>2 DEF LoopEnds, Verdict
  <2>4. pending' \in Seq(Key)
    BY <1>5, Beginning DEF LoopEnds
  <2> QED BY <2>1, <2>3, <2>4, <1>1
<1>6. CASE TerminalGoesRaw \/ drain
  <2>1. UNCHANGED <<input, pending, wire, seen, verdict, ran>>
    BY <1>6 DEF TerminalGoesRaw, drain, keyboard, console, target
  <2>2. out' \in Seq(Heard)
    <3>1. CASE TerminalGoesRaw
      BY <3>1 DEF TerminalGoesRaw
    <3>2. CASE drain
      BY <3>2, Noting DEF drain, recv
    <3> QED BY <1>6, <3>1, <3>2
  <2> QED BY <2>1, <2>2, <1>1
<1>7. ASSUME NEW n \in 0 .. Len(out), InteractiveLooks(n) PROVE HonestInv'
  BY <1>7, Noting, <1>1 DEF InteractiveLooks, recv, keyboard, target
<1>8. CASE UserTypesKey
  BY <1>8, TypingOf, <1>1 DEF UserTypesKey
<1>9. CASE UserEscapes \/ UserStops \/ InputEnds
  BY <1>9, TypingOf, <1>1 DEF UserEscapes, UserStops, InputEnds
<1>10. CASE UserSendsEscape
  <2>1. "Ctrl-]" \in Key
    BY DEF Key
  <2>2. Append(pending, "Ctrl-]") \in Seq(Key)
    BY <2>1, AppendProperties
  <2> QED BY <1>10, <2>2, TypingOf, <1>1 DEF UserSendsEscape
<1>11. CASE UserQuits
  BY <1>11, TypingOf, Beginning, <1>1 DEF UserQuits
<1>12. CASE InteractiveEnds
  BY <1>12, <1>1 DEF InteractiveEnds, console, target
<1> QED BY <1>2, <1>3, <1>4, <1>5, <1>6, <1>7, <1>8, <1>9, <1>10, <1>11, <1>12,
           MachineHonest DEF ConsoleNext

(* A check that says CHECK PASSED has had its command run by the shell,    *)
(* whatever arrives in which pieces, and whichever deadline passes when.   *)
THEOREM Honest == ConsoleSpec => []CheckIsHonest
<1>1. ConsoleInit => HonestInv
  <2> SUFFICES ASSUME ConsoleInit PROVE HonestInv
    OBVIOUS
  <2>1. input \in Seq(Key)
    BY GenixTermAssumption DEF ConsoleInit
  <2>2. <<>> \in Seq(Key) /\ <<>> \in Seq(Heard)
    BY EmptySeq
  <2> QED BY <2>1, <2>2 DEF ConsoleInit, HonestInv
<1>2. HonestInv /\ [ConsoleNext]_cvarsAll => HonestInv'
  <2>1. ASSUME HonestInv, UNCHANGED cvarsAll PROVE HonestInv'
    BY <2>1 DEF HonestInv, cvarsAll, cvars, keyboard, console, target, Heard
  <2> QED BY <2>1, HonestStep
<1>3. HonestInv => CheckIsHonest
  BY DEF HonestInv, CheckIsHonest
<1> QED BY <1>1, <1>2, <1>3, PTL DEF ConsoleSpec
-----------------------------------------------------------------------------
(* The rest of the types: the window of what was seen, the budget of keys, *)
(* and the stages of the machine.                                          *)
StageInv ==
  /\ job \in Jobs /\ escape \in BOOLEAN /\ raw \in BOOLEAN
  /\ line \in Seq(Key) /\ Len(seen) <= Window
  /\ booted \in BOOLEAN /\ typed \in BOOLEAN
  /\ verdict \in {"none", "passed", "failed", "late"}
  /\ turn \in {"pump", "recv"} /\ budget \in 0 .. Budget
  /\ machine \in {"rom", "monitor", "kernel", "shell", "busy", "printed"}
  /\ synced \in BOOLEAN /\ ahead \in BOOLEAN /\ promised \in BOOLEAN

(* No more is kept than the window holds.                                  *)
LEMMA WindowHolds ==
  ASSUME HonestInv, NEW n \in 0 .. Len(out)
  PROVE  Len(Noted(Data(n))) <= Window
<1> DEFINE s == seen \o Data(n)
<1>1. s \in Seq(Heard)
  BY Noting, ConcatProperties DEF HonestInv
<1>2. Len(s) \in Nat /\ Window \in Nat \ {0}
  BY <1>1, LenProperties, GenixTermAssumption
<1>3. Noted(Data(n)) = IF Len(s) > Window THEN SubSeq(s, Len(s) - Window + 1, Len(s)) ELSE s
  BY DEF Noted
<1>4. CASE Len(s) > Window
  <2>1. Len(s) - Window + 1 \in 1 .. Len(s)
    BY <1>2, <1>4
  <2>2. Len(SubSeq(s, Len(s) - Window + 1, Len(s))) = Len(s) - (Len(s) - Window + 1) + 1
    <3> HIDE DEF s
    <3>1. \A k \in Len(s) - Window + 1 .. Len(s) : s[k] \in Heard
      BY <1>1, <1>2, <2>1, ElementOfSeq
    <3> QED BY <1>2, <2>1, <3>1, SubSeqProperties
  <2> QED BY <1>2, <1>3, <1>4, <2>2
<1>5. CASE ~(Len(s) > Window)
  BY <1>2, <1>3, <1>5
<1> QED BY <1>4, <1>5

LEMMA MachineStages ==
  ASSUME HonestInv, StageInv, Machine
  PROVE  StageInv'
<1> USE DEF StageInv
<1>1. ASSUME NEW key, Reads(key)
      PROVE  key \in Key /\ UNCHANGED <<keyboard, console, promised>>
  BY <1>1, HeadTailProperties DEF HonestInv, Reads
<1>2. CASE MonitorStarts
  BY <1>2 DEF MonitorStarts, keyboard, console
<1>3. CASE KeyLost
  BY <1>3, <1>1 DEF KeyLost, keyboard, console, target
<1>4. CASE KeyEchoed
  BY <1>4, <1>1, AppendProperties DEF KeyEchoed, keyboard, console
<1>5. CASE MonitorObeys
  BY <1>5, <1>1, EmptySeq DEF MonitorObeys, keyboard, console
<1>6. CASE KernelBoots
  BY <1>6 DEF KernelBoots, keyboard, console
<1>7. CASE ShellObeys
  <2>1. synced' \in BOOLEAN
    BY <1>7 DEF ShellObeys
  <2> QED BY <1>7, <2>1, <1>1, EmptySeq DEF ShellObeys, keyboard, console
<1>8. CASE CommandPrints
  BY <1>8 DEF CommandPrints, keyboard, console
<1>9. CASE CommandEnds
  BY <1>9 DEF CommandEnds, keyboard, console
<1> QED BY <1>2, <1>3, <1>4, <1>5, <1>6, <1>7, <1>8, <1>9 DEF Machine

LEMMA StrokesCounted == \A key : Strokes(key) \in 1 .. 13 /\ Strokes(key) \in Nat
BY DEF Strokes

LEMMA StageStep ==
  ASSUME HonestInv, StageInv, ConsoleNext
  PROVE  StageInv'
<1> USE DEF StageInv
<1>0. Budget \in Nat /\ Budget \in 0 .. Budget /\ Window \in Nat
  BY GenixTermAssumption
<1>1. CASE SessionStep \/ SyncEnds \/ SyncInterrupted
  BY <1>1 DEF SessionStep, SyncEnds, SyncInterrupted, cvars, keyboard, console, target
<1>2. CASE LoopPumps \/ InteractivePumps
  BY <1>2 DEF LoopPumps, InteractivePumps, keyboard, target
<1>3. CASE SyncPumps
  <2>1. budget' \in 0 .. Budget
    <3>1. budget \in 0 .. Budget /\ Strokes(Head(pending)) \in Nat
      BY StrokesCounted
    <3>2. budget' = IF budget < Strokes(Head(pending)) THEN 0 ELSE budget - Strokes(Head(pending))
      BY <1>3 DEF SyncPumps
    <3> QED BY <1>0, <3>1, <3>2
  <2> QED BY <1>3, <2>1 DEF SyncPumps, keyboard, target
<1>4. ASSUME NEW rest, BeginsSync(rest) PROVE budget' \in 0 .. Budget /\ promised' \in BOOLEAN
  BY <1>0, <1>4 DEF BeginsSync
<1>5. ASSUME NEW n \in 0 .. Len(out), LoopLooks(n) PROVE StageInv'
  <2>1. Len(seen') <= Window
    BY <1>5, <1>0, WindowHolds, EmptySeq DEF LoopLooks, SeenNext
  <2>2. budget' \in 0 .. Budget /\ promised' \in BOOLEAN
    BY <1>5, <1>4 DEF LoopLooks
  <2>3. booted' \in BOOLEAN /\ typed' \in BOOLEAN /\ turn' = "pump"
    BY <1>5 DEF LoopLooks
  <2> QED BY <1>5, <2>1, <2>2, <2>3 DEF LoopLooks, keyboard, target
<1>6. CASE LoopEnds
  <2>1. verdict' \in {"passed", "failed", "late"}
    BY <1>6 DEF LoopEnds, Verdict
  <2> QED BY <1>6, <2>1, <1>4 DEF LoopEnds, keyboard, target
<1>7. CASE TerminalGoesRaw \/ drain
  <2>1. CASE TerminalGoesRaw
    BY <2>1 DEF TerminalGoesRaw, console, target
  <2>2. CASE drain
    BY <2>2 DEF drain, keyboard, console, target
  <2> QED BY <1>7, <2>1, <2>2
<1>8. ASSUME NEW n \in 0 .. Len(out), InteractiveLooks(n) PROVE StageInv'
  <2>1. Len(seen') <= Window
    BY <1>8, WindowHolds DEF InteractiveLooks
  <2>2. booted' \in BOOLEAN
    BY <1>8 DEF InteractiveLooks
  <2> QED BY <1>8, <2>1, <2>2 DEF InteractiveLooks, keyboard, target
<1>9. CASE UserTypesKey \/ UserEscapes \/ UserSendsEscape
  <2>1. /\ UNCHANGED <<job, raw, line, seen, booted, typed, verdict, turn, budget>>
        /\ UNCHANGED <<machine, synced, promised>>
    BY <1>9 DEF UserTypesKey, UserEscapes, UserSendsEscape, UserTypes, target
  <2>2. escape' \in BOOLEAN /\ ahead' \in BOOLEAN
    BY <1>9 DEF UserTypesKey, UserEscapes, UserSendsEscape
  <2> QED BY <2>1, <2>2
<1>10. CASE UserQuits
  BY <1>10, <1>4 DEF UserQuits, UserTypes, target
<1>11. CASE UserStops \/ InputEnds
  <2>1. raw' = FALSE /\ escape' \in BOOLEAN /\ UNCHANGED ahead
    BY <1>11 DEF UserStops, InputEnds
  <2>2. /\ UNCHANGED <<job, line, seen, booted, typed, verdict, turn, budget>>
        /\ UNCHANGED <<machine, synced, promised>>
    BY <1>11 DEF UserStops, InputEnds, UserTypes, target
  <2> QED BY <2>1, <2>2
<1>12. CASE InteractiveEnds
  BY <1>12 DEF InteractiveEnds, console, target
<1> QED BY <1>1, <1>2, <1>3, <1>5, <1>6, <1>7, <1>8, <1>9, <1>10, <1>11, <1>12,
           MachineStages DEF ConsoleNext

(* What every proof below begins with.                                     *)
ConsoleInv == SInv /\ HonestInv /\ StageInv

LEMMA Unmoved ==
  ASSUME ConsoleInv, UNCHANGED cvarsAll
  PROVE  HonestInv' /\ StageInv'
BY DEF ConsoleInv, HonestInv, StageInv, cvarsAll, cvars, keyboard, console, target, Heard

THEOREM ConsoleInvariance == ConsoleSpec => []ConsoleInv
<1>1. ConsoleInit => HonestInv /\ StageInv
  <2> SUFFICES ASSUME ConsoleInit PROVE HonestInv /\ StageInv
    OBVIOUS
  <2>1. input \in Seq(Key)
    BY GenixTermAssumption DEF ConsoleInit
  <2>2. <<>> \in Seq(Key) /\ <<>> \in Seq(Heard)
    BY EmptySeq
  <2>3. 0 \in 0 .. Budget
    BY GenixTermAssumption
  <2>6. Len(seen) <= Window
    BY GenixTermAssumption DEF ConsoleInit
  <2>4. HonestInv
    BY <2>1, <2>2 DEF ConsoleInit, HonestInv
  <2>5. StageInv
    BY <2>2, <2>3, <2>6 DEF ConsoleInit, StageInv
  <2> QED BY <2>4, <2>5
<1>2. SInv /\ HonestInv /\ StageInv /\ [ConsoleNext]_cvarsAll => HonestInv' /\ StageInv'
  BY HonestStep, StageStep, Unmoved DEF ConsoleInv
<1>3. ConsoleSpec => []SInv
  BY ConsoleIsASession, Invariance, PTL DEF SessionSpec
<1> QED BY <1>1, <1>2, <1>3, PTL DEF ConsoleSpec, ConsoleInv

(* Whatever the user types and the machine prints: the queues hold keys    *)
(* and pieces of output, `seen' no more than its window, and every loop is *)
(* at one of its stages.                                                   *)
THEOREM ConsoleTyped == ConsoleSpec => []ConsoleTypeOK
<1>1. ConsoleInv => ConsoleTypeOK
  <2> SUFFICES ASSUME ConsoleInv PROVE ConsoleTypeOK
    OBVIOUS
  <2>1. Heard \subseteq Token
    BY DEF Heard
  <2>2. seen \in Seq(Token) /\ out \in Seq(Token)
    BY <2>1, SeqMonotonic DEF ConsoleInv, HonestInv
  <2> QED BY <2>2 DEF ConsoleInv, SInv, HonestInv, StageInv, ConsoleTypeOK
<1> QED BY <1>1, ConsoleInvariance, PTL
-----------------------------------------------------------------------------
(* Until genixterm.py types the boot command, or the user a "k" of his     *)
(* own, there is none in any queue, so the machine is still in its ROM;    *)
(* and the ROM says nothing before its monitor runs.                       *)
NoBoot == Key \ {"k"}

BootInv ==
  /\ ~booted /\ ~ahead =>
       /\ machine \in {"rom", "monitor"}
       /\ pending \in Seq(NoBoot) /\ wire \in Seq(NoBoot) /\ line \in Seq(NoBoot)
  /\ machine = "rom" => seen = <<>> /\ out = <<>>

LEMMA OtherTexts ==
  /\ CheckText \in Seq(NoBoot) /\ CommandText \in Seq(NoBoot)
  /\ SyncText \in Seq(NoBoot) /\ <<>> \in Seq(NoBoot)
<1>1. "cr" \in NoBoot /\ "command" \in NoBoot /\ "/bin/sync" \in NoBoot
  BY DEF NoBoot, Key
<1>2. "echo ok''1234" \in NoBoot
  BY DEF NoBoot, Key
<1> QED BY <1>1, <1>2, Tuples, EmptySeq DEF CheckText, CommandText, SyncText

LEMMA NothingHeard ==
  ASSUME HonestInv, out = <<>>, NEW n \in 0 .. Len(out)
  PROVE  /\ n = 0 /\ Data(n) = <<>> /\ SubSeq(out, n + 1, Len(out)) = <<>>
         /\ ~Boots(Data(n))
         /\ seen = <<>> => Noted(Data(n)) = <<>>
<1>1. n = 0 /\ Data(n) = <<>> /\ SubSeq(out, n + 1, Len(out)) = <<>>
  BY DEF Data
<1>2. ASSUME seen = <<>> PROVE Noted(Data(n)) = <<>>
  <2>1. seen \o Data(n) = <<>> /\ ~(Len(<<>>) > Window)
    BY <1>1, <1>2, GenixTermAssumption
  <2> QED BY <2>1 DEF Noted
<1> QED BY <1>1, <1>2 DEF Boots

(* What the queues hold, they hold still when a key goes from one to the   *)
(* other, and when keys of the same kind are added.                        *)
LEMMA PumpingOf ==
  ASSUME NEW S, pending \in Seq(S), wire \in Seq(S), pump_keys
  PROVE  pending' \in Seq(S) /\ wire' \in Seq(S)
BY HeadTailProperties, AppendProperties DEF pump_keys

LEMMA MachineBoots ==
  ASSUME ConsoleInv, BootInv, Machine
  PROVE  BootInv'
<1> USE DEF BootInv
<1>1. ASSUME NEW key, Reads(key)
      PROVE  /\ UNCHANGED <<keyboard, console>>
             /\ wire \in Seq(NoBoot) => wire' \in Seq(NoBoot) /\ key \in NoBoot
  BY <1>1, HeadTailProperties DEF Reads
<1>2. CASE MonitorStarts
  BY <1>2 DEF MonitorStarts, keyboard, console
<1>3. CASE KeyLost
  BY <1>3, <1>1 DEF KeyLost, keyboard, console, target
<1>4. CASE KeyEchoed
  BY <1>4, <1>1, AppendProperties DEF KeyEchoed, keyboard, console
<1>5. CASE MonitorObeys
  <2>1. UNCHANGED <<keyboard, console>> /\ machine' \in {"monitor", "kernel"} /\ line' = <<>>
    BY <1>5, <1>1 DEF MonitorObeys
  <2>2. ASSUME ~booted, ~ahead PROVE machine' = "monitor" /\ wire' \in Seq(NoBoot)
    <3>1. line # <<"k">>
      <4>1. <<"k">> \notin Seq(NoBoot)
        <5>1. ASSUME <<"k">> \in Seq(NoBoot) PROVE <<"k">>[1] \in NoBoot
          BY <5>1, ElementOfSeq
        <5> QED BY <5>1 DEF NoBoot
      <4> QED BY <2>2, <4>1
    <3> QED BY <1>5, <1>1, <2>2, <3>1 DEF MonitorObeys
  <2> QED BY <2>1, <2>2, EmptySeq DEF keyboard, console
<1>6. CASE KernelBoots \/ ShellObeys \/ CommandPrints \/ CommandEnds
  <2>1. (booted \/ ahead) /\ UNCHANGED <<keyboard, console>>
    BY <1>6, <1>1 DEF KernelBoots, ShellObeys, CommandPrints, CommandEnds
  <2>2. machine' \in {"shell", "busy", "printed"}
    BY <1>6 DEF KernelBoots, ShellObeys, CommandPrints, CommandEnds
  <2> QED BY <2>1, <2>2 DEF keyboard, console
<1> QED BY <1>2, <1>3, <1>4, <1>5, <1>6 DEF Machine

LEMMA BootStep ==
  ASSUME ConsoleInv, BootInv, ConsoleNext
  PROVE  BootInv'
<1> USE DEF BootInv
<1>0. HonestInv /\ StageInv
  BY DEF ConsoleInv
<1>1. CASE SessionStep \/ SyncEnds \/ SyncInterrupted
  BY <1>1 DEF SessionStep, SyncEnds, SyncInterrupted, cvars, keyboard, console, target
<1>2. CASE LoopPumps \/ InteractivePumps \/ SyncPumps
  <2>1. pump_keys /\ UNCHANGED <<keyboard, seen, booted, out, target>>
    BY <1>2 DEF LoopPumps, InteractivePumps, SyncPumps
  <2> QED BY <2>1, PumpingOf DEF keyboard, target
<1>3. ASSUME NEW n \in 0 .. Len(out), LoopLooks(n) PROVE BootInv'
  <2>1. UNCHANGED <<keyboard, wire, target>> /\ out' = SubSeq(out, n + 1, Len(out))
    BY <1>3 DEF LoopLooks, recv
  <2>2. machine = "rom" => seen' = <<>> /\ out' = <<>>
    BY <1>0, <1>3, <2>1, NothingHeard DEF LoopLooks, SeenNext
  <2>3. ASSUME ~booted', ~ahead PROVE ~booted /\ pending' \in Seq(NoBoot)
    <3>1. ~booted /\ ~Boots(Data(n))
      BY <1>3, <2>3 DEF LoopLooks
    <3>2. Queued(Data(n)) \in Seq(NoBoot)
      BY <2>3, <3>1 DEF Queued
    <3>3. Text \in Seq(NoBoot)
      BY OtherTexts DEF Text
    <3>4. Queued(Data(n)) \o <<>> \in Seq(NoBoot) /\ Queued(Data(n)) \o Text \in Seq(NoBoot)
      BY <3>2, <3>3, OtherTexts, ConcatProperties
    <3>5. <<>> \o SyncText \in Seq(NoBoot)
      BY OtherTexts, ConcatProperties
    <3> QED BY <1>3, <3>1, <3>4, <3>5 DEF LoopLooks, BeginsSync
  <2> QED BY <2>1, <2>2, <2>3 DEF keyboard, target
<1>4. ASSUME BeginsSync(pending), pending \in Seq(NoBoot) PROVE pending' \in Seq(NoBoot)
  BY <1>4, OtherTexts, ConcatProperties DEF BeginsSync
<1>5. CASE LoopEnds
  BY <1>5, <1>4 DEF LoopEnds, keyboard, target
<1>6. CASE TerminalGoesRaw
  BY <1>6 DEF TerminalGoesRaw, console, target
<1>7. CASE drain
  <2>1. out = <<>> => FALSE
    BY <1>7 DEF drain
  <2> QED BY <1>7, <2>1 DEF drain, keyboard, console, target
<1>8. ASSUME NEW n \in 0 .. Len(out), InteractiveLooks(n) PROVE BootInv'
  <2>1. UNCHANGED <<keyboard, wire, target>> /\ out' = SubSeq(out, n + 1, Len(out))
    BY <1>8 DEF InteractiveLooks, recv
  <2>2. machine = "rom" => seen' = <<>> /\ out' = <<>>
    BY <1>0, <1>8, <2>1, NothingHeard DEF InteractiveLooks
  <2>3. ~booted' => ~booted /\ pending' = pending
    BY <1>8 DEF InteractiveLooks, Queued
  <2> QED BY <2>1, <2>2, <2>3 DEF keyboard, target
<1>9. ASSUME NEW key, UserTypes(key)
      PROVE  key \in Key /\ UNCHANGED <<seen, booted, wire, out, machine, line>>
  BY <1>0, <1>9, TypingOf DEF UserTypes, target
<1>10. CASE UserTypesKey
  <2>1. PICK key : /\ UserTypes(key) /\ pending' = Append(pending, key)
                   /\ ahead' = (ahead \/ (key = "k" /\ ~booted))
    BY <1>10 DEF UserTypesKey
  <2>2. ASSUME ~booted, ~ahead' PROVE ~ahead /\ key \in NoBoot
    BY <2>1, <2>2, <1>9 DEF NoBoot
  <2>3. ASSUME ~booted, ~ahead' PROVE pending' \in Seq(NoBoot)
    BY <2>1, <2>2, <2>3, AppendProperties
  <2> QED BY <2>1, <2>2, <2>3, <1>9
<1>11. CASE UserEscapes \/ UserStops \/ InputEnds
  <2>1. PICK key : UserTypes(key) /\ UNCHANGED <<ahead, pending>>
    BY <1>11 DEF UserEscapes, UserStops, InputEnds
  <2> QED BY <2>1, <1>9
<1>12. CASE UserSendsEscape
  <2>1. "Ctrl-]" \in NoBoot
    BY DEF NoBoot, Key
  <2>2. pending \in Seq(NoBoot) => Append(pending, "Ctrl-]") \in Seq(NoBoot)
    BY <2>1, AppendProperties
  <2> QED BY <1>12, <2>2, <1>9 DEF UserSendsEscape
<1>13. CASE UserQuits
  BY <1>13, <1>9, <1>4 DEF UserQuits
<1>14. CASE InteractiveEnds
  BY <1>14 DEF InteractiveEnds, console, target
<1> QED BY <1>1, <1>2, <1>3, <1>5, <1>6, <1>7, <1>8, <1>10, <1>11, <1>12, <1>13, <1>14,
           MachineBoots DEF ConsoleNext

(* The only step that puts the boot command in an empty queue.             *)
LEMMA BootsAtMonitor ==
  ASSUME ConsoleInv, BootInv, ConsoleNext, pending = <<>>, pending' = BootText
  PROVE  ~booted /\ (machine = "monitor" \/ ahead)
<1>0. HonestInv /\ StageInv
  BY DEF ConsoleInv
<1>1. Len(pending') = 2 /\ pending'[1] = "k" /\ pending' # pending
  BY DEF BootText
<1>2. ASSUME NEW n \in 0 .. Len(out), Boots(Data(n))
      PROVE  ~booted /\ (machine = "monitor" \/ ahead)
  BY <1>0, <1>2, NothingHeard DEF BootInv, Boots
<1>3. ASSUME NEW rest, rest = <<>>, BeginsSync(rest) PROVE FALSE
  <2>1. pending' = <<"cr", "/bin/sync", "cr">>
    BY <1>3 DEF BeginsSync, SyncText
  <2> QED BY <1>1, <2>1
<1>4. ASSUME NEW n \in 0 .. Len(out), LoopLooks(n) PROVE Boots(Data(n))
  <2> SUFFICES ASSUME ~Boots(Data(n)) PROVE FALSE
    OBVIOUS
  <2>1. Queued(Data(n)) = <<>>
    BY DEF Queued
  <2>2. Text[1] # "k"
    BY DEF Text, CheckText, CommandText
  <2>3. <<>> \o <<>> = <<>> /\ <<>> \o Text = Text
    BY ConcatEmptySeq, Texts DEF Text
  <2>4. ~CommandOver(Data(n))
    BY <1>3, <1>4 DEF LoopLooks
  <2> QED BY <1>1, <1>4, <2>1, <2>2, <2>3, <2>4 DEF LoopLooks
<1>5. ASSUME NEW n \in 0 .. Len(out), InteractiveLooks(n) PROVE Boots(Data(n))
  BY <1>1, <1>5 DEF InteractiveLooks, Queued
<1>6. ASSUME NEW key, pending' = Append(pending, key) PROVE FALSE
  <2>1. Len(pending') = 1
    BY <1>6
  <2> QED BY <1>1, <2>1
<1>7. CASE LoopPumps \/ InteractivePumps \/ SyncPumps
  BY <1>7 DEF LoopPumps, InteractivePumps, SyncPumps, pump_keys
<1>8. CASE UserTypesKey \/ UserSendsEscape \/ UserQuits \/ LoopEnds
  BY <1>8, <1>6, <1>3 DEF UserTypesKey, UserSendsEscape, UserQuits, LoopEnds
<1>9. CASE Machine
  <2>1. ASSUME NEW key, Reads(key) PROVE pending' = pending
    BY <2>1 DEF Reads, console
  <2> QED BY <1>1, <1>9, <2>1 DEF Machine, MonitorStarts, KeyLost, KeyEchoed, MonitorObeys,
               KernelBoots, ShellObeys, CommandPrints, CommandEnds, console
<1>10. CASE SessionStep \/ SyncEnds \/ SyncInterrupted \/ drain
  BY <1>1, <1>10 DEF SessionStep, SyncEnds, SyncInterrupted, drain, cvars, console
<1>11. CASE TerminalGoesRaw \/ InteractiveEnds \/ UserEscapes \/ UserStops \/ InputEnds
  BY <1>1, <1>11 DEF TerminalGoesRaw, InteractiveEnds, UserEscapes, UserStops, InputEnds, console
<1> QED BY <1>2, <1>4, <1>5, <1>7, <1>8, <1>9, <1>10, <1>11 DEF ConsoleNext

(* Whatever the user types, and whatever arrives in which pieces: the boot *)
(* command is queued once in a session, for a machine that is in its       *)
(* monitor; for a kernel or a shell only when the user has typed a "k" of  *)
(* his own while genixterm.py was still waiting.                           *)
THEOREM BootsOnce == ConsoleSpec => BootAtMonitor
<1>1. ConsoleInit => BootInv
  BY EmptySeq DEF ConsoleInit, BootInv
<1>2. ConsoleInv /\ BootInv /\ [ConsoleNext]_cvarsAll => BootInv'
  <2>1. ASSUME BootInv, UNCHANGED cvarsAll PROVE BootInv'
    BY <2>1 DEF BootInv, cvarsAll, cvars, keyboard, console, target
  <2> QED BY <2>1, BootStep
<1>3. ConsoleInv /\ BootInv /\ [ConsoleNext]_cvarsAll
        => [pending = <<>> /\ pending' = BootText =>
              ~booted /\ (machine = "monitor" \/ ahead)]_cvarsAll
  BY BootsAtMonitor
<1> QED BY <1>1, <1>2, <1>3, ConsoleInvariance, PTL DEF ConsoleSpec, BootAtMonitor
-----------------------------------------------------------------------------
(* Where a session has not yet come to the loops, and where it has not yet *)
(* left them.                                                              *)
Before == {"none", "start", "locked", "connect", "late", "exit"}
Early  == Before \cup {"up"}

(* The way a session goes, and the way it does not: no loop is come to     *)
(* twice, and an emulator that is gone is not started again.               *)
LEMMA Onward ==
  ASSUME SInv, Next, NEW s \in Sessions
  PROVE  /\ term'[s] \in Before => term[s] \in Before
         /\ term'[s] = "up" => term[s] \in {"connect", "up"}
         /\ term'[s] = "sync" => term[s] \in {"up", "sync"}
         /\ term'[s] \in {"poll", "ask", "wait"} => term[s] \in {"up", "sync", "poll", "ask", "wait"}
         /\ term[s] \notin Before /\ Running(s)' => Running(s)
         /\ again[s] /\ ~again'[s] => term[s] = "up"
<1> USE DEF Before
<1>0. StartedOf(s) /\ TypeOK
  BY DEF SInv, EachAlone, Alone
<1>1. PICK t \in Sessions : SessionNext(t)
  BY DEF Next
<1>2. CASE t # s
  <2>1. /\ term'[s] = term[s] /\ emu'[s] = emu[s]
    BY <1>1, <1>2, Untouched DEF SInv
  <2>2. again'[s] = again[s]
    BY <1>0, <1>1, <1>2
       DEF TypeOK, SessionNext, Leaving, ShellLock, ShellHandsOver, ShellRunsWindow, UserRunsTerm,
       TermLock, TermSpawns, TermConnects, TermTimesOut, TermKills, TermGivesUp, TermSyncs, TermStops, TermInterrupted, TermPolls,
       TermAsks, TermWaits, ShellExits, EmuStops, EmuEnds, KillShell, KillTerm
  <2> QED BY <2>1, <2>2 DEF Running
<1>3. CASE t = s
  <2> USE <1>0 DEF TypeOK, StartedOf, TermGoes, Running
  <2>1. CASE ShellLock(s) \/ ShellHandsOver(s) \/ ShellRunsWindow(s) \/ ShellExits(s) \/ KillShell(s)
    BY <2>1 DEF ShellLock, ShellHandsOver, ShellRunsWindow, ShellExits, KillShell
  <2>2. CASE UserRunsTerm(s) \/ TermLock(s) \/ TermSpawns(s) \/ TermConnects(s)
    BY <2>2 DEF UserRunsTerm, TermLock, TermSpawns, TermConnects
  <2>6. CASE TermTimesOut(s) \/ TermKills(s) \/ TermGivesUp(s)
    BY <2>6 DEF TermTimesOut, TermKills, TermGivesUp
  <2>3. CASE TermSyncs(s) \/ TermStops(s) \/ TermInterrupted(s)
    BY <2>3 DEF TermSyncs, TermStops, TermInterrupted
  <2>4. CASE TermPolls(s) \/ TermAsks(s) \/ TermWaits(s) \/ KillTerm(s)
    BY <2>4 DEF TermPolls, TermAsks, TermWaits, KillTerm, TermAlive
  <2>5. CASE EmuStops(s) \/ EmuEnds(s)
    BY <2>5 DEF EmuStops, EmuEnds
  <2> QED BY <1>1, <1>3, <2>1, <2>2, <2>3, <2>4, <2>5, <2>6 DEF SessionNext, Leaving
<1> QED BY <1>2, <1>3

-----------------------------------------------------------------------------
(* Numbers and steps the two theorems below have in common.                *)
LEMMA QueuedKeys ==
  ASSUME ConsoleInv, NEW data
  PROVE  Queued(data) \in Seq(Key)
BY Texts DEF Queued, ConsoleInv, HonestInv

LEMMA Numbers ==
  ASSUME ConsoleInv
  PROVE  /\ pending \in Seq(Key) /\ Len(pending) \in Nat /\ Len(input) \in Nat
         /\ budget \in Nat /\ Budget \in Nat
BY LenProperties, GenixTermAssumption DEF ConsoleInv, HonestInv, StageInv

LEMMA Begun ==
  ASSUME ConsoleInv, NEW rest, BeginsSync(rest)
  PROVE  term[Me] = "up" /\ term'[Me] = "sync"
BY GenixTermAssumption DEF BeginsSync, TermSyncs, TermGoes, ConsoleInv, SInv, TypeOK

LEMMA Stopping ==
  ASSUME ConsoleInv, NEW final, Stops(final)
  PROVE  term'[Me] = "poll"
BY GenixTermAssumption DEF Stops, TermStops, TermGoes, ConsoleInv, SInv, TypeOK

LEMMA MachineApart ==
  ASSUME Machine
  PROVE  UNCHANGED <<svars, keyboard, console, promised>> /\ Running(Me)
<1>1. ASSUME NEW key, Reads(key) PROVE UNCHANGED <<svars, keyboard, console, promised>> /\ Running(Me)
  BY <1>1 DEF Reads
<1> QED BY <1>1 DEF Machine, MonitorStarts, KeyLost, KeyEchoed, MonitorObeys, KernelBoots,
           ShellObeys, CommandPrints, CommandEnds

(* Steps of the sessions neither lead into the loops nor begin a sync.     *)
LEMMA SessionApart ==
  ASSUME ConsoleInv, SessionStep
  PROVE  /\ UNCHANGED cvars
         /\ term'[Me] \in Early => term[Me] \in Early
         /\ term'[Me] = "sync" => term[Me] = "sync"
BY Onward, GenixTermAssumption DEF ConsoleInv, SessionStep, Early, Before

-----------------------------------------------------------------------------
(* The argument: from the queue of keys to the wire, and off the wire, the *)
(* order of the keys does not change; so the sync comes behind a return,   *)
(* and is read by a shell that begins a line.                              *)
Coming == wire \o pending

SyncTyping == <<"/bin/sync", "cr">>

(* The sync is on its way to the shell: behind what is waiting, or behind  *)
(* the return that ends a line begun, or as far as its own return.         *)
SyncComes ==
  \/ \E rest \in Seq(Key) : Coming = rest \o SyncText
  \/ line = <<>> /\ Coming = SyncTyping
  \/ line = <<"/bin/sync">> /\ Coming = <<"cr">>

SyncInv ==
  promised =>
    /\ term[Me] \notin Early
    /\ machine \in {"shell", "busy", "printed"}
    /\ term[Me] = "sync" => Time(pending) <= budget
    /\ term[Me] \in {"poll", "ask", "wait"} /\ ~again[Me] => pending = <<>>
    /\ Running(Me) /\ ~synced /\ ~again[Me] /\ term[Me] # "gone" => SyncComes

(* The time of a queue is that of its first key and that of the others:    *)
(* the characters of the others are those of their own queue, one place on.*)
LEMMA TimeOf ==
  ASSUME NEW q \in Seq(Key)
  PROVE  /\ IsFiniteSet(Characters(q)) /\ Time(q) \in Nat
         /\ \A c : c \in Characters(q) <=>
              \E i \in 1 .. Len(q), n \in 1 .. 13 : c = <<i, n>> /\ n <= Strokes(q[i])
<1>1. Characters(q) \subseteq (1 .. Len(q)) \X (1 .. 13)
  BY DEF Characters
<1>2. IsFiniteSet(1 .. Len(q)) /\ IsFiniteSet(1 .. 13)
  <2>1. 1 \in Int /\ 13 \in Int /\ Len(q) \in Int
    BY LenProperties
  <2> QED BY <2>1, FS_Interval
<1>3. IsFiniteSet((1 .. Len(q)) \X (1 .. 13))
  BY <1>2, FS_Product
<1>4. IsFiniteSet(Characters(q))
  BY <1>1, <1>3, FS_Subset
<1> QED BY <1>4, FS_CardinalityType DEF Time, Characters

LEMMA TimeOfFirst ==
  ASSUME NEW q \in Seq(Key), q # <<>>
  PROVE  /\ Strokes(Head(q)) \in 1 .. 13
         /\ Time(q) = Strokes(Head(q)) + Time(Tail(q))
         /\ Time(Tail(q)) \in Nat
<1> DEFINE first == {1} \X (1 .. Strokes(Head(q)))
           later == Characters(q) \ first
           rest  == Characters(Tail(q))
           shift == [c \in rest |-> <<c[1] + 1, c[2]>>]
<1>1. /\ Tail(q) \in Seq(Key) /\ Len(q) \in Nat \ {0} /\ Len(Tail(q)) = Len(q) - 1
      /\ \A i \in 1 .. Len(q) - 1 : Tail(q)[i] = q[i + 1]
      /\ Head(q) = q[1]
  BY HeadTailProperties, LenProperties, EmptySeq
<1>2. \A key : Strokes(key) \in 1 .. 13
  BY StrokesCounted
<1>3. \A c : c \in Characters(q) <=>
        \E i \in 1 .. Len(q), n \in 1 .. 13 : c = <<i, n>> /\ n <= Strokes(q[i])
  BY TimeOf
<1>4. \A c : c \in rest <=>
        \E i \in 1 .. Len(q) - 1, n \in 1 .. 13 : c = <<i, n>> /\ n <= Strokes(q[i + 1])
  <2>1. \A c : c \in rest <=>
          \E i \in 1 .. Len(Tail(q)), n \in 1 .. 13 : c = <<i, n>> /\ n <= Strokes(Tail(q)[i])
    BY <1>1, TimeOf
  <2> HIDE DEF rest
  <2> QED BY <1>1, <2>1
<1>5. first \subseteq Characters(q)
  <2> SUFFICES ASSUME NEW c \in first
               PROVE  c \in Characters(q)
    OBVIOUS
  <2>1. PICK n \in 1 .. Strokes(q[1]) : c = <<1, n>>
    BY <1>1
  <2>2. n \in 1 .. 13 /\ n <= Strokes(q[1])
    BY <1>2, <2>1
  <2>3. 1 \in 1 .. Len(q)
    BY <1>1
  <2> HIDE DEF first
  <2> QED BY <1>3, <2>1, <2>2, <2>3
<1>6. IsFiniteSet(first) /\ Cardinality(first) = Strokes(Head(q))
  <2>1. IsFiniteSet(1 .. Strokes(Head(q))) /\ Cardinality(1 .. Strokes(Head(q))) = Strokes(Head(q))
    <3> DEFINE strokes == Strokes(Head(q))
    <3>1. strokes \in 1 .. 13
      BY <1>2
    <3> HIDE DEF strokes
    <3>2. /\ IsFiniteSet(1 .. strokes)
          /\ Cardinality(1 .. strokes) = IF 1 > strokes THEN 0 ELSE strokes - 1 + 1
      BY <3>1, FS_Interval
    <3>3. Cardinality(1 .. strokes) = strokes
      BY <3>1, <3>2
    <3> QED BY <3>2, <3>3 DEF strokes
  <2>2. IsFiniteSet({1}) /\ Cardinality({1}) = 1
    BY FS_Singleton
  <2>3. Cardinality(first) = 1 * Strokes(Head(q)) /\ IsFiniteSet(first)
    <3> DEFINE S == 1 .. Strokes(Head(q))
    <3>1. IsFiniteSet(S) /\ Cardinality(S) = Strokes(Head(q))
      BY <2>1
    <3> HIDE DEF S
    <3>2. IsFiniteSet({1} \X S) /\ Cardinality({1} \X S) = Cardinality({1}) * Cardinality(S)
      BY <2>2, <3>1, FS_Product
    <3> QED BY <2>2, <3>1, <3>2 DEF S
  <2> QED BY <2>3, <1>2
<1>7. \A c : c \in later <=>
        \E i \in 2 .. Len(q), n \in 1 .. 13 : c = <<i, n>> /\ n <= Strokes(q[i])
  <2>1. ASSUME NEW i \in 1 .. Len(q), NEW n \in 1 .. 13, n <= Strokes(q[i])
        PROVE  <<i, n>> \in first <=> i = 1
    <3>1. i = 1 => n \in 1 .. Strokes(Head(q))
      BY <1>1, <1>2, <2>1
    <3> QED BY <3>1
  <2>2. \A c : c \in later <=> c \in Characters(q) /\ c \notin first
    OBVIOUS
  <2>3. \A i : i \in 2 .. Len(q) <=> i \in 1 .. Len(q) /\ i # 1
    BY <1>1
  <2> HIDE DEF first, later
  <2>4. ASSUME NEW c, c \in later
        PROVE  \E i \in 2 .. Len(q), n \in 1 .. 13 : c = <<i, n>> /\ n <= Strokes(q[i])
    <3>1. PICK i \in 1 .. Len(q), n \in 1 .. 13 : c = <<i, n>> /\ n <= Strokes(q[i])
      BY <1>3, <2>2, <2>4
    <3>2. i # 1
      BY <2>1, <2>2, <2>4, <3>1
    <3>3. i \in 2 .. Len(q)
      BY <2>3, <3>2
    <3> QED BY <3>1, <3>3
  <2>5. ASSUME NEW c, \E i \in 2 .. Len(q), n \in 1 .. 13 : c = <<i, n>> /\ n <= Strokes(q[i])
        PROVE  c \in later
    <3>0. PICK i \in 2 .. Len(q), n \in 1 .. 13 : c = <<i, n>> /\ n <= Strokes(q[i])
      BY <2>5
    <3>1. i \in 1 .. Len(q) /\ i # 1
      BY <2>3
    <3>2. <<i, n>> \in Characters(q)
      BY <1>3, <3>0, <3>1
    <3>3. <<i, n>> \notin first
      BY <2>1, <3>0, <3>1
    <3> QED BY <2>2, <3>0, <3>2, <3>3
  <2> QED BY <2>4, <2>5
<1>8. shift \in Bijection(rest, later)
  <2>1. \A c \in rest : shift[c] \in later
    <3> TAKE c \in rest
    <3>1. PICK i \in 1 .. Len(q) - 1, n \in 1 .. 13 : c = <<i, n>> /\ n <= Strokes(q[i + 1])
      BY <1>4
    <3>2. shift[c] = <<i + 1, n>>
      BY <3>1
    <3>3. i + 1 \in 2 .. Len(q)
      BY <1>1
    <3> HIDE DEF shift, rest, later
    <3> QED BY <1>7, <3>1, <3>2, <3>3
  <2>2. \A c, d \in rest : shift[c] = shift[d] => c = d
    <3> TAKE c, d \in rest
    <3>1. PICK i \in 1 .. Len(q) - 1, n \in 1 .. 13 : c = <<i, n>>
      BY <1>4
    <3>2. PICK j \in 1 .. Len(q) - 1, k \in 1 .. 13 : d = <<j, k>>
      BY <1>4
    <3>3. shift[c] = <<i + 1, n>> /\ shift[d] = <<j + 1, k>>
      BY <3>1, <3>2
    <3> QED BY <1>1, <3>1, <3>2, <3>3
  <2>3. \A c \in later : \E d \in rest : shift[d] = c
    <3> TAKE c \in later
    <3>1. PICK i \in 2 .. Len(q), n \in 1 .. 13 : c = <<i, n>> /\ n <= Strokes(q[i])
      BY <1>7
    <3>2. i - 1 \in 1 .. Len(q) - 1 /\ (i - 1) + 1 = i
      BY <1>1, <3>1
    <3>3. <<i - 1, n>> \in rest
      BY <1>4, <3>1, <3>2
    <3>4. shift[<<i - 1, n>>] = c
      BY <3>1, <3>2, <3>3
    <3> QED BY <3>3, <3>4
  <2>4. shift = [c \in rest |-> shift[c]]
    OBVIOUS
  <2> HIDE DEF shift, rest, later
  <2>5. shift \in [rest -> later]
    BY <2>1, <2>4
  <2> QED BY <2>2, <2>3, <2>5 DEF Bijection, Injection, Surjection, IsInjective
<1>9. IsFiniteSet(later) /\ Cardinality(later) = Cardinality(rest)
  <2>1. IsFiniteSet(rest)
    BY <1>1, TimeOf
  <2> HIDE DEF shift, rest, later
  <2>2. ExistsBijection(rest, later)
    BY <1>8 DEF ExistsBijection
  <2> QED BY <2>1, <2>2, FS_Bijection
<1>10. Cardinality(Characters(q)) = Cardinality(first) + Cardinality(later)
  <2>1. first \cap later = {} /\ first \cup later = Characters(q)
    BY <1>5
  <2>2. Cardinality(first \cap later) = 0
    BY <2>1, FS_EmptySet
  <2>3. Cardinality(first \cup later) = Cardinality(first) + Cardinality(later) - Cardinality(first \cap later)
    BY <1>6, <1>9, FS_Union
  <2>4. Cardinality(first) \in Nat /\ Cardinality(later) \in Nat
    BY <1>6, <1>9, FS_CardinalityType
  <2> HIDE DEF first, later
  <2>5. Cardinality(first \cup later) = Cardinality(first) + Cardinality(later)
    BY <2>2, <2>3, <2>4
  <2> QED BY <2>1, <2>5
<1> QED BY <1>1, <1>2, <1>6, <1>9, <1>10, TimeOf DEF Time

(* A key that goes from one queue to the next keeps its place.             *)
LEMMA MovesAlong ==
  ASSUME NEW S, NEW w \in Seq(S), NEW p \in Seq(S), p # <<>>
  PROVE  Append(w, Head(p)) \o Tail(p) = w \o p
<1>1. Head(p) \in S /\ Tail(p) \in Seq(S) /\ p = <<Head(p)>> \o Tail(p)
  <2>1. Head(p) \in S /\ Tail(p) \in Seq(S)
    BY HeadTailProperties
  <2>2. <<Head(p)>> \in Seq(S) /\ Len(<<Head(p)>>) = 1 /\ <<Head(p)>>[1] = Head(p)
    BY <2>1, Tuples
  <2>3. /\ Len(<<Head(p)>> \o Tail(p)) = Len(p)
        /\ \A i \in 1 .. Len(p) : p[i] = (<<Head(p)>> \o Tail(p))[i]
    BY <2>1, <2>2, HeadTailProperties, ConcatProperties, LenProperties
  <2>4. <<Head(p)>> \o Tail(p) \in Seq(S)
    BY <2>1, <2>2, ConcatProperties
  <2> QED BY <2>1, <2>3, <2>4, SeqEqual
<1>2. Append(w, Head(p)) = w \o <<Head(p)>>
  BY <1>1, AppendIsConcat
<1>3. <<Head(p)>> \in Seq(S)
  BY <1>1, Tuples
<1>4. (w \o <<Head(p)>>) \o Tail(p) = w \o (<<Head(p)>> \o Tail(p))
  BY <1>1, <1>3, ConcatAssociative
<1> QED BY <1>1, <1>2, <1>4

(* What is taken off the first queue is taken off the whole.               *)
LEMMA TakenOff ==
  ASSUME NEW S, NEW w \in Seq(S), NEW p \in Seq(S), w # <<>>
  PROVE  /\ w \o p # <<>> /\ Head(w \o p) = Head(w)
         /\ Tail(w \o p) = Tail(w) \o p
<1>1. w \o p \in Seq(S) /\ Len(w) \in Nat \ {0} /\ Len(p) \in Nat /\ Len(w \o p) = Len(w) + Len(p)
  BY ConcatProperties, EmptySeq, LenProperties
<1>2. w \o p # <<>>
  BY <1>1, EmptySeq
<1>3. (w \o p)[1] = w[1]
  BY <1>1, ConcatProperties
<1>4. Tail(w) \in Seq(S) /\ Len(Tail(w)) = Len(w) - 1 /\ Tail(w) \o p \in Seq(S)
  BY HeadTailProperties, ConcatProperties
<1>5. /\ Tail(w \o p) \in Seq(S) /\ Len(Tail(w \o p)) = Len(w) + Len(p) - 1
      /\ \A i \in 1 .. Len(Tail(w \o p)) : Tail(w \o p)[i] = (w \o p)[i + 1]
  BY <1>1, <1>2, HeadTailProperties
<1>6. /\ Len(Tail(w) \o p) = Len(w) + Len(p) - 1
      /\ \A i \in 1 .. Len(w) + Len(p) - 1 :
           (Tail(w) \o p)[i] = IF i <= Len(w) - 1 THEN Tail(w)[i] ELSE p[i - (Len(w) - 1)]
  BY <1>1, <1>4, ConcatProperties
<1>7. \A i \in 1 .. Len(w) + Len(p) - 1 : Tail(w \o p)[i] = (Tail(w) \o p)[i]
  <2> TAKE i \in 1 .. Len(w) + Len(p) - 1
  <2>1. Tail(w \o p)[i] = IF i + 1 <= Len(w) THEN w[i + 1] ELSE p[i + 1 - Len(w)]
    BY <1>1, <1>5, ConcatProperties
  <2>2. i <= Len(w) - 1 => Tail(w)[i] = w[i + 1]
    BY <1>1, <1>4, HeadTailProperties
  <2>3. i + 1 - Len(w) = i - (Len(w) - 1) /\ (i + 1 <= Len(w) <=> i <= Len(w) - 1)
    BY <1>1
  <2> QED BY <2>1, <2>2, <2>3, <1>6
<1>8. Tail(w \o p) = Tail(w) \o p
  BY <1>4, <1>5, <1>6, <1>7, SeqEqual
<1>9. Head(w \o p) = Head(w)
  BY <1>3
<1> QED BY <1>2, <1>8, <1>9

LEMMA SyncBegins ==
  ASSUME ConsoleInv, NEW rest \in Seq(Key), BeginsSync(rest), UNCHANGED <<wire, machine>>
  PROVE  SyncInv'
<1>1. term'[Me] = "sync"
  BY Begun
<1>2. promised' => Time(pending') <= budget' /\ machine \in {"shell", "busy", "printed"}
  BY DEF BeginsSync
<1>3. SyncComes'
  <2>1. wire \in Seq(Key) /\ wire \o rest \in Seq(Key)
    BY ConcatProperties DEF ConsoleInv, HonestInv
  <2>2. (wire \o rest) \o SyncText = wire \o (rest \o SyncText)
    <3>1. SyncText \in Seq(Key)
      BY Texts
    <3> QED BY <2>1, <3>1, ConcatAssociative
  <2>3. pending' = rest \o SyncText /\ wire' = wire
    BY DEF BeginsSync
  <2>4. Coming' = (wire \o rest) \o SyncText
    BY <2>2, <2>3 DEF Coming
  <2> QED BY <2>1, <2>4 DEF SyncComes
<1> QED BY <1>1, <1>2, <1>3 DEF SyncInv, Early, Before

(* What the shell makes of the next key, while the sync is coming.         *)
LEMMA SyncRead ==
  ASSUME ConsoleInv, SyncComes, ~synced, ~synced', NEW key, Reads(key),
         \/ key # "cr" /\ line' = Append(line, key)
         \/ ShellObeys /\ key = "cr"
  PROVE  SyncComes'
<1>1. wire \in Seq(Key) /\ pending \in Seq(Key)
  BY DEF ConsoleInv, HonestInv
<1>2. Coming # <<>> /\ key = Head(Coming) /\ Coming' = Tail(Coming)
  BY <1>1, TakenOff DEF Reads, Coming, console
<1>3. ASSUME NEW rest \in Seq(Key), Coming = rest \o SyncText PROVE SyncComes'
  <2>1. CASE rest = <<>>
    <3>1. Coming = <<"cr", "/bin/sync", "cr">>
      BY <1>3, <2>1, Texts, ConcatEmptySeq DEF SyncText
    <3>2. key = "cr" /\ Coming' = SyncTyping
      BY <1>2, <3>1 DEF SyncTyping
    <3> QED BY <3>2 DEF SyncComes, ShellObeys
  <2>2. CASE rest # <<>>
    <3>1. Coming' = Tail(rest) \o SyncText /\ Tail(rest) \in Seq(Key)
      BY <1>2, <1>3, <2>2, Texts, TakenOff, HeadTailProperties
    <3> QED BY <3>1 DEF SyncComes
  <2> QED BY <2>1, <2>2
<1>4. ASSUME line = <<>>, Coming = SyncTyping PROVE SyncComes'
  <2>1. key = "/bin/sync" /\ Coming' = <<"cr">>
    BY <1>2, <1>4 DEF SyncTyping
  <2>2. line' = <<"/bin/sync">>
    BY <1>4, <2>1
  <2> QED BY <2>1, <2>2 DEF SyncComes
<1>5. ASSUME line = <<"/bin/sync">>, Coming = <<"cr">> PROVE FALSE
  <2>1. key = "cr"
    BY <1>2, <1>5
  <2> QED BY <1>5, <2>1 DEF ShellObeys
<1> QED BY <1>3, <1>4, <1>5 DEF SyncComes

LEMMA SyncInvStep ==
  ASSUME ConsoleInv, SyncInv, ConsoleNext
  PROVE  SyncInv'
<1>0. Me \in Sessions /\ SInv /\ HonestInv /\ StageInv
  BY GenixTermAssumption DEF ConsoleInv
<1>1. ASSUME UNCHANGED <<svars, promised, machine, pending, budget, wire, synced, line>> PROVE SyncInv'
  BY <1>1 DEF SyncInv, svars, SyncComes, Coming, Running
<1>2. CASE SessionStep
  <2>1. UNCHANGED <<promised, machine, pending, budget, wire, synced, line>>
    BY <1>2 DEF SessionStep, cvars, console, target
  <2>2. SyncComes' = SyncComes
    BY <2>1 DEF SyncComes, Coming
  <2>3. term[Me] \in {"up", "sync"} => term'[Me] \in {term[Me], "gone"}
    BY <1>2 DEF SessionStep
  <2>4. term'[Me] \in Early => term[Me] \in Early
    BY <1>2, SessionApart
  <2>5. /\ term'[Me] \in {"poll", "ask", "wait"} =>
             term[Me] \in {"up", "sync", "poll", "ask", "wait"}
        /\ term'[Me] = "sync" => term[Me] = "sync"
        /\ term[Me] \notin Early /\ Running(Me)' => Running(Me)
        /\ term[Me] \notin Early /\ again[Me] => again'[Me]
    BY <1>0, <1>2, Onward, SessionApart DEF SessionStep, Early, Before
  <2>6. term[Me] = "gone" => term'[Me] = "gone"
    BY <1>0, <1>2, GoneStaysGone DEF SessionStep
  <2> SUFFICES ASSUME promised PROVE SyncInv'
    BY <2>1 DEF SyncInv
  <2>7. term[Me] \notin Early /\ term'[Me] \notin Early
    BY <2>4 DEF SyncInv
  <2>8. term'[Me] \in {"poll", "ask", "wait"} => term[Me] \in {"poll", "ask", "wait"}
    BY <2>3, <2>5, <2>7 DEF Early
  <2> QED BY <2>1, <2>2, <2>5, <2>6, <2>7, <2>8 DEF SyncInv
<1>3. ASSUME term[Me] = "up", UNCHANGED promised PROVE SyncInv'
  BY <1>3 DEF SyncInv, Early
<1>4. CASE LoopPumps \/ TerminalGoesRaw \/ InteractivePumps \/ InteractiveEnds
  <2>1. term[Me] = "up" /\ UNCHANGED promised
    BY <1>4 DEF LoopPumps, TerminalGoesRaw, InteractivePumps, InteractiveEnds, Cycling,
       Interacting, In
  <2> QED BY <2>1, <1>3
<1>5. ASSUME NEW n \in 0 .. Len(out), LoopLooks(n) \/ InteractiveLooks(n) PROVE SyncInv'
  <2>1. term[Me] = "up" /\ UNCHANGED <<wire, machine>>
    BY <1>5 DEF LoopLooks, InteractiveLooks, Cycling, Interacting, In, target
  <2>2. UNCHANGED promised \/ BeginsSync(<<>>)
    BY <1>5 DEF LoopLooks, InteractiveLooks
  <2> QED BY <2>1, <2>2, <1>3, Texts, SyncBegins
<1>6. CASE LoopEnds
  BY <1>6, <1>0, SyncBegins DEF LoopEnds, target, HonestInv
<1>7. ASSUME NEW key, UserTypes(key) PROVE term[Me] = "up" /\ UNCHANGED <<wire, machine>>
  BY <1>7 DEF UserTypes, Interacting, In, target
<1>8. CASE UserTypesKey \/ UserEscapes \/ UserSendsEscape \/ UserStops \/ InputEnds
  BY <1>8, <1>7, <1>3 DEF UserTypesKey, UserEscapes, UserSendsEscape, UserStops, InputEnds
<1>9. CASE UserQuits
  BY <1>9, <1>0, <1>7, SyncBegins DEF UserQuits, HonestInv
<1>10. CASE SyncPumps
  <2>1. UNCHANGED <<svars, promised, machine, synced, line>> /\ term[Me] = "sync" /\ pump_keys
    BY <1>10 DEF SyncPumps, target
  <2>2. /\ Time(pending) = Strokes(Head(pending)) + Time(pending')
        /\ Strokes(Head(pending)) \in 1 .. 13 /\ Time(pending') \in Nat
    BY <2>1, Numbers, TimeOfFirst DEF pump_keys
  <2>3. budget' = IF budget < Strokes(Head(pending)) THEN 0 ELSE budget - Strokes(Head(pending))
    BY <1>10 DEF SyncPumps
  <2>4. Running(Me) => Coming' = Coming
    BY <1>0, <2>1, MovesAlong DEF pump_keys, Coming, HonestInv
  <2>5. Time(pending) <= budget => Time(pending') <= budget'
    <3>1. budget \in Nat
      BY Numbers
    <3> QED BY <2>2, <2>3, <3>1
  <2>6. Running(Me)' = Running(Me) /\ term'[Me] = term[Me] /\ again'[Me] = again[Me]
    BY <2>1 DEF svars, Running
  <2> QED BY <2>1, <2>4, <2>5, <2>6 DEF SyncInv, SyncComes
<1>11. CASE drain
  BY <1>11, <1>1 DEF drain, console, target
<1>12. CASE SyncEnds
  <2>1. /\ UNCHANGED <<promised, machine, pending, budget, wire, synced, line>>
        /\ pending = <<>> \/ TimeIsUp
    BY <1>12 DEF SyncEnds, cvars, console, target
  <2>2. term[Me] = "sync" /\ term'[Me] = "poll" /\ again'[Me] = again[Me] /\ emu' = emu
    BY <1>0, <1>12, Stopping DEF SyncEnds, Stops, TermStops, SInv, TypeOK
  <2>3. promised => pending = <<>>
    <3>1. TimeIsUp => ~(Time(pending) <= budget)
      BY Numbers, TimeOfFirst DEF TimeIsUp
    <3> QED BY <2>1, <2>2, <3>1 DEF SyncInv
  <2> QED BY <2>1, <2>2, <2>3 DEF SyncInv, Early, Before, SyncComes, Coming, Running
<1>13. CASE SyncInterrupted
  <2>1. again'[Me] /\ term'[Me] = "poll" /\ UNCHANGED cvars
    BY <1>0, <1>13 DEF SyncInterrupted, TermInterrupted, TermGoes, SInv, TypeOK
  <2> QED BY <2>1 DEF SyncInv, Early, Before, cvars, target
<1>14. CASE Machine
  <2>1. UNCHANGED <<svars, keyboard, console, promised>>
    BY <1>14, MachineApart
  <2> SUFFICES ASSUME promised PROVE SyncInv'
    BY <2>1 DEF SyncInv
  <2>2. machine \in {"shell", "busy", "printed"}
    BY DEF SyncInv
  <2>3. ASSUME machine' \in {"shell", "busy", "printed"},
               Running(Me) /\ SyncComes /\ ~synced' => SyncComes', synced => synced'
        PROVE  SyncInv'
    BY <2>1, <2>3 DEF SyncInv, svars, console, Running
  <2>4. ~MonitorStarts /\ ~KeyLost /\ ~MonitorObeys /\ ~KernelBoots
    BY <2>2 DEF MonitorStarts, KeyLost, MonitorObeys, KernelBoots
  <2>5. CASE KeyEchoed
    <3>1. PICK key : key # "cr" /\ Reads(key) /\ line' = Append(line, key)
      BY <2>5 DEF KeyEchoed
    <3>2. UNCHANGED <<machine, synced>>
      BY <2>5 DEF KeyEchoed
    <3>3. ASSUME SyncComes, ~synced' PROVE SyncComes'
      BY <3>1, <3>2, <3>3, SyncRead
    <3> QED BY <2>2, <2>3, <3>2, <3>3
  <2>6. CASE ShellObeys
    <3>1. Reads("cr") /\ machine' \in {"shell", "busy"} /\ (synced => synced')
      BY <2>6 DEF ShellObeys
    <3>2. ASSUME SyncComes, ~synced' PROVE SyncComes'
      BY <2>6, <3>1, <3>2, SyncRead
    <3> QED BY <2>3, <3>1, <3>2
  <2>7. CASE CommandPrints \/ CommandEnds
    <3>1. machine' \in {"printed", "shell"} /\ UNCHANGED <<wire, pending, line, synced>>
      BY <2>7 DEF CommandPrints, CommandEnds, console
    <3> QED BY <2>3, <3>1 DEF SyncComes, Coming
  <2> QED BY <1>14, <2>4, <2>5, <2>6, <2>7 DEF Machine
<1> QED BY <1>2, <1>4, <1>5, <1>6, <1>8, <1>9, <1>10, <1>11, <1>12, <1>13, <1>14
        DEF ConsoleNext

(* Whatever the user has begun to type when he leaves: if there is time to *)
(* type it all and a shell to read it, /bin/sync has been run when the     *)
(* machine is told to stop, and nothing of it is left on the wire.         *)
THEOREM SyncRuns == ConsoleSpec => []SyncReachesShell
<1>1. ConsoleInit => SyncInv
  BY DEF ConsoleInit, SyncInv
<1>2. ConsoleInv /\ SyncInv /\ [ConsoleNext]_cvarsAll => SyncInv'
  <2>1. ASSUME SyncInv, UNCHANGED cvarsAll PROVE SyncInv'
    BY <2>1 DEF SyncInv, SyncComes, Coming, Running, cvarsAll, svars, cvars, console, target
  <2> QED BY <2>1, SyncInvStep
<1>3. ConsoleInv /\ SyncInv => SyncReachesShell
  <2> SUFFICES ASSUME ConsoleInv, SyncInv, promised, ~again[Me], Running(Me), wire = <<>>,
                      term[Me] \in {"poll", "ask", "wait"}, ~synced
               PROVE  FALSE
    BY DEF SyncReachesShell
  <2>1. SyncComes /\ pending = <<>>
    BY DEF SyncInv
  <2>2. Coming = <<>>
    BY <2>1 DEF Coming
  <2>3. ASSUME NEW rest \in Seq(Key), Coming = rest \o SyncText PROVE FALSE
    <3>1. Len(rest \o SyncText) = Len(rest) + Len(SyncText) /\ Len(rest) \in Nat
      BY Texts, ConcatProperties, LenProperties
    <3>2. Len(rest \o SyncText) = 0
      BY <2>2, <2>3
    <3>3. Len(SyncText) = 3
      BY DEF SyncText
    <3> QED BY <3>1, <3>2, <3>3
  <2> QED BY <2>1, <2>2, <2>3 DEF SyncComes, SyncTyping
<1> QED BY <1>1, <1>2, <1>3, ConsoleInvariance, PTL DEF ConsoleSpec
-----------------------------------------------------------------------------
(* The argument: run_exec goes through four stages.  Once it has noticed   *)
(* the one prompt of a shell that comes up, and forgotten what it has      *)
(* seen, no prompt reaches it before the command has come to its end.      *)
Plain == Token \ {"prompt"}

NoKeys == pending = <<>> /\ wire = <<>> /\ line = <<>>

(* A key and its return are on their way: not yet typed, not yet read, or  *)
(* read as far as the key.                                                 *)
Underway(key) ==
  \/ line = <<>> /\ wire = <<>> /\ pending = <<key, "cr">>
  \/ line = <<>> /\ wire = <<key>> /\ pending = <<"cr">>
  \/ line = <<>> /\ wire = <<key, "cr">> /\ pending = <<>>
  \/ line = <<key>> /\ wire = <<>> /\ pending = <<"cr">>
  \/ line = <<key>> /\ wire = <<"cr">> /\ pending = <<>>

OnlyPlain == seen \in Seq(Plain) /\ out \in Seq(Plain)

Unbooted ==
  /\ ~booted /\ ~typed /\ NoKeys /\ OnlyPlain
  /\ machine \in {"rom", "monitor"} /\ (machine = "rom" => out = <<>>)

BootTyped ==
  /\ booted /\ ~typed /\ OnlyPlain
  /\ \/ machine = "monitor" /\ Underway("k")
     \/ machine = "kernel" /\ NoKeys

PromptComes ==
  /\ booted /\ ~typed /\ machine = "shell" /\ NoKeys
  /\ \A i \in 1 .. Len(out) : out[i] = "prompt" => i = Len(out) /\ seen \in Seq(Plain)

CommandTyped ==
  /\ booted /\ typed /\ OnlyPlain
  /\ \/ machine = "shell" /\ Underway("command")
     \/ machine \in {"busy", "printed"} /\ NoKeys

Stages == Unbooted \/ BootTyped \/ PromptComes \/ CommandTyped

ExecInv ==
  job = "exec" /\ ~ran =>
    /\ term[Me] \in Before => Unbooted
    /\ term[Me] = "up" /\ Running(Me) => Stages

(* The command of --exec prints nothing genixterm.py takes for a prompt.   *)
PrintsNoPrompt == Prints \subseteq Seq(Token \ {"ok", "prompt"})

(* What a sequence holds may be read off its elements.                     *)
LEMMA PlainSeq ==
  ASSUME NEW S, NEW T, NEW s \in Seq(T), \A i \in 1 .. Len(s) : s[i] \in S
  PROVE  s \in Seq(S)
<1>1. Len(s) \in Nat /\ SubSeq(s, 1, Len(s)) = s
  BY LenProperties, SubSeqFull
<1>2. SubSeq(s, 1, Len(s)) \in Seq(S)
  BY <1>1, SubSeqProperties
<1> QED BY <1>1, <1>2

LEMMA PlainHeard ==
  ASSUME ConsoleInv, OnlyPlain, NEW n \in 0 .. Len(out)
  PROVE  /\ Noted(Data(n)) \in Seq(Plain) /\ SubSeq(out, n + 1, Len(out)) \in Seq(Plain)
         /\ ~Saw("prompt", Noted(Data(n))) /\ ~CommandOver(Data(n))
<1>1. Data(n) \in Seq(Plain) /\ SubSeq(out, n + 1, Len(out)) \in Seq(Plain)
  BY PartOf DEF OnlyPlain, Data
<1>2. Noted(Data(n)) \in Seq(Plain)
  BY <1>1, NotingOf DEF OnlyPlain
<1>3. \A i \in 1 .. Len(Noted(Data(n))) : Noted(Data(n))[i] # "prompt"
  BY <1>2, ElementOfSeq DEF Plain
<1>4. ~Saw("prompt", Noted(Data(n)))
  BY <1>2, <1>3, LenProperties DEF Saw, ToSet
<1>5. ~CommandOver(Data(n))
  BY <1>2, <1>3, EmptySeq DEF CommandOver, Last
<1> QED BY <1>1, <1>2, <1>4, <1>5

LEMMA Appended ==
  ASSUME NEW a, NEW b
  PROVE  Append(<<a>>, b) = <<a, b>>
<1>1. <<a>> \in Seq({a, b}) /\ <<a, b>> \in Seq({a, b})
  BY Tuples
<1>2. Append(<<a>>, b) \in Seq({a, b}) /\ Len(Append(<<a>>, b)) = 2
  BY <1>1, AppendProperties
<1>3. Append(<<a>>, b)[1] = a /\ Append(<<a>>, b)[2] = b
  BY <1>1, AppendProperties
<1> DEFINE s == Append(<<a>>, b)
           t == <<a, b>>
<1>4. s \in Seq({a, b}) /\ t \in Seq({a, b}) /\ Len(s) = 2 /\ Len(t) = 2
  BY <1>1, <1>2
<1>5. s[1] = t[1] /\ s[2] = t[2]
  BY <1>3
<1> HIDE DEF s, t
<1>6. \A i \in 1 .. Len(s) : s[i] = t[i]
  BY <1>4, <1>5
<1>7. s = t
  BY <1>4, <1>6, SeqEqual
<1> QED BY <1>7 DEF s, t

LEMMA PumpUnderway ==
  ASSUME NEW key, Underway(key), pump_keys, Running(Me), UNCHANGED line
  PROVE  Underway(key)'
<1>1. CASE line = <<>> /\ wire = <<>> /\ pending = <<key, "cr">>
  <2>1. pending' = <<"cr">> /\ wire' = <<key>>
    BY <1>1 DEF pump_keys
  <2> QED BY <1>1, <2>1 DEF Underway
<1>2. CASE line = <<>> /\ wire = <<key>> /\ pending = <<"cr">>
  <2>1. Append(<<key>>, "cr") = <<key, "cr">>
    BY Appended
  <2>2. pending' = <<>> /\ wire' = <<key, "cr">>
    BY <1>2, <2>1 DEF pump_keys
  <2> QED BY <1>2, <2>2 DEF Underway
<1>3. CASE line = <<key>> /\ wire = <<>> /\ pending = <<"cr">>
  <2>1. pending' = <<>> /\ wire' = <<"cr">>
    BY <1>3 DEF pump_keys
  <2> QED BY <1>3, <2>1 DEF Underway
<1> QED BY <1>1, <1>2, <1>3 DEF Underway, pump_keys

LEMMA EchoUnderway ==
  ASSUME NEW key, Underway(key), NEW x, x # "cr", Reads(x), line' = Append(line, x)
  PROVE  Underway(key)'
<1>0. pending' = pending
  BY DEF Reads, console
<1>1. CASE line = <<>> /\ wire = <<key>> /\ pending = <<"cr">>
  <2>1. wire' = <<>> /\ line' = <<key>>
    BY <1>1 DEF Reads
  <2> QED BY <1>0, <1>1, <2>1 DEF Underway
<1>2. CASE line = <<>> /\ wire = <<key, "cr">> /\ pending = <<>>
  <2>1. wire' = <<"cr">> /\ line' = <<key>>
    BY <1>2 DEF Reads
  <2> QED BY <1>0, <1>2, <2>1 DEF Underway
<1> QED BY <1>1, <1>2 DEF Underway, Reads

LEMMA ReturnUnderway ==
  ASSUME NEW key, key # "cr", Underway(key), Reads("cr")
  PROVE  line = <<key>> /\ wire' = <<>> /\ pending' = <<>>
BY DEF Underway, Reads, console

LEMMA MachineStaged ==
  ASSUME PrintsNoPrompt, ConsoleInv, Stages, ~ran', Machine
  PROVE  Stages' /\ (Unbooted => Unbooted')
<1>0. /\ UNCHANGED <<svars, keyboard, console, promised>>
      /\ out \in Seq(Heard) /\ out \in Seq(Token)
  BY MachineApart, SeqMonotonic DEF ConsoleInv, HonestInv, Heard
<1> USE DEF Stages, OnlyPlain
<1>1. ASSUME NEW tokens \in Seq(Plain), Says(tokens), OnlyPlain PROVE OnlyPlain'
  BY <1>0, <1>1, ConcatProperties DEF Says, console
<1>2. <<"text">> \in Seq(Plain) /\ <<"return", "star">> \in Seq(Plain)
  BY Tuples DEF Plain, Token
<1>3. ASSUME NEW key, Reads(key) PROVE wire # <<>> /\ ~NoKeys
  BY <1>3 DEF Reads, NoKeys
<1>4. CASE MonitorStarts
  <2>1. Unbooted
    BY <1>4 DEF MonitorStarts, BootTyped, PromptComes, CommandTyped
  <2>2. OnlyPlain'
    BY <1>1, <1>2, <1>4, <2>1 DEF MonitorStarts, Unbooted
  <2>3. machine' = "monitor" /\ UNCHANGED <<wire, line>>
    BY <1>4 DEF MonitorStarts
  <2>4. Unbooted'
    BY <1>0, <2>1, <2>2, <2>3 DEF Unbooted, NoKeys, console
  <2> QED BY <2>4
<1>5. CASE KeyLost
  BY <1>3, <1>5 DEF KeyLost, Unbooted, BootTyped, PromptComes, CommandTyped
<1>6. CASE KeyEchoed
  <2>1. PICK key \in ToSet(wire) \ {"cr"} :
          Reads(key) /\ line' = Append(line, key) /\ Says(<<EchoOf(key)>>)
    BY <1>6 DEF KeyEchoed
  <2>2. ~NoKeys /\ UNCHANGED machine
    BY <1>6, <2>1, <1>3 DEF KeyEchoed
  <2>3. EchoOf(key) = "text"
    <3>1. key \in Key
      BY <2>1, HeadTailProperties DEF Reads, ConsoleInv, HonestInv
    <3> QED BY <3>1 DEF EchoOf, Key
  <2>4. OnlyPlain => OnlyPlain'
    BY <1>1, <1>2, <2>1, <2>3
  <2>5. CASE BootTyped
    <3>1. Underway("k")'
      BY <2>1, <2>2, <2>5, EchoUnderway DEF BootTyped
    <3> QED BY <1>0, <2>2, <2>4, <2>5, <3>1 DEF BootTyped, Unbooted, console
  <2>6. CASE CommandTyped
    <3>1. Underway("command")'
      BY <2>1, <2>2, <2>6, EchoUnderway DEF CommandTyped
    <3> QED BY <1>0, <2>2, <2>4, <2>6, <3>1 DEF CommandTyped, Unbooted, console
  <2> QED BY <2>2, <2>5, <2>6 DEF Unbooted, PromptComes
<1>7. CASE MonitorObeys
  <2>1. BootTyped /\ Underway("k") /\ Reads("cr")
    BY <1>3, <1>7 DEF MonitorObeys, Unbooted, BootTyped, PromptComes, CommandTyped
  <2>2. line = <<"k">> /\ wire' = <<>> /\ pending' = <<>>
    BY <2>1, ReturnUnderway
  <2>3. line' = <<>> /\ machine' = "kernel" /\ Says(<<"text">>)
    BY <1>7, <2>2 DEF MonitorObeys
  <2>4. BootTyped'
    BY <1>0, <1>1, <1>2, <2>1, <2>2, <2>3 DEF BootTyped, NoKeys, console
  <2> QED BY <2>1, <2>4 DEF BootTyped, Unbooted
<1>8. CASE KernelBoots
  <2>1. BootTyped /\ NoKeys
    BY <1>8 DEF KernelBoots, Unbooted, BootTyped, PromptComes, CommandTyped
  <2>2. /\ machine' = "shell" /\ out' = out \o <<"banner", "single", "prompt">>
        /\ UNCHANGED <<wire, line>>
    BY <1>8 DEF KernelBoots, Says
  <2>3. \A i \in 1 .. Len(out') : out'[i] = "prompt" => i = Len(out')
    <3> DEFINE new == <<"banner", "single", "prompt">>
    <3>1. new \in Seq(Token) /\ Len(new) = 3
      BY Tuples DEF Token
    <3>2. out \in Seq(Plain) /\ Len(out) \in Nat
      BY <2>1, LenProperties DEF BootTyped
    <3>3. /\ Len(out') = Len(out) + 3
          /\ \A i \in 1 .. Len(out) + 3 : out'[i] = IF i <= Len(out) THEN out[i] ELSE new[i - Len(out)]
      BY <1>0, <2>2, <3>1, ConcatProperties
    <3> SUFFICES ASSUME NEW i \in 1 .. Len(out) + 3, out'[i] = "prompt" PROVE i = Len(out) + 3
      BY <3>3
    <3>4. ~(i <= Len(out))
      BY <3>2, <3>3, ElementOfSeq DEF Plain
    <3>5. i - Len(out) \in 1 .. 3 /\ new[i - Len(out)] = "prompt"
      BY <3>2, <3>3, <3>4
    <3>6. new[1] # "prompt" /\ new[2] # "prompt"
      OBVIOUS
    <3> QED BY <3>2, <3>5, <3>6
  <2> QED BY <1>0, <2>1, <2>2, <2>3 DEF BootTyped, Unbooted, PromptComes, NoKeys, console
<1>9. CASE ShellObeys
  <2>1. CommandTyped /\ Underway("command") /\ Reads("cr")
    BY <1>3, <1>9 DEF ShellObeys, Unbooted, BootTyped, PromptComes, CommandTyped
  <2>2. line = <<"command">> /\ wire' = <<>> /\ pending' = <<>>
    BY <2>1, ReturnUnderway
  <2>3. line # <<"echo ok''1234">>
    BY <2>2
  <2>4. line' = <<>> /\ machine' = "busy" /\ Says(<<"text">>)
    BY <1>9, <2>2, <2>3 DEF ShellObeys
  <2>5. CommandTyped'
    BY <1>0, <1>1, <1>2, <2>1, <2>2, <2>4 DEF CommandTyped, NoKeys, console
  <2> QED BY <2>1, <2>5 DEF CommandTyped, Unbooted
<1>10. CASE CommandPrints
  <2>1. CommandTyped /\ NoKeys
    BY <1>10 DEF CommandPrints, Unbooted, BootTyped, PromptComes, CommandTyped
  <2>2. PICK printed \in Prints : Says(printed)
    BY <1>10 DEF CommandPrints
  <2>3. printed \in Seq(Plain)
    BY SeqMonotonic DEF PrintsNoPrompt, Plain
  <2>4. OnlyPlain'
    BY <1>1, <2>1, <2>2, <2>3 DEF CommandTyped
  <2>5. machine' = "printed" /\ UNCHANGED <<wire, line>>
    BY <1>10 DEF CommandPrints
  <2>6. CommandTyped'
    BY <1>0, <2>1, <2>4, <2>5 DEF CommandTyped, NoKeys, console
  <2> QED BY <2>1, <2>6 DEF CommandTyped, Unbooted
<1>11. CASE CommandEnds
  BY <1>11 DEF CommandEnds
<1> QED BY <1>4, <1>5, <1>6, <1>7, <1>8, <1>9, <1>10, <1>11 DEF Machine

(* run_exec looks at what has come in: it notices the prompt, or does not. *)
LEMMA LookStaged ==
  ASSUME ConsoleInv, Stages, job = "exec", ~ran, NEW n \in 0 .. Len(out), LoopLooks(n)
  PROVE  ~CommandOver(Data(n)) /\ Stages'
<1> DEFINE data == Data(n)
           rest == SubSeq(out, n + 1, Len(out))
<1>0. /\ out' = rest /\ seen' = SeenNext(data) /\ UNCHANGED <<wire, machine, line>>
      /\ booted' = (booted \/ Boots(data)) /\ typed' = (typed \/ Starts(data))
  BY DEF LoopLooks, recv, target
<1>1. /\ booted \in BOOLEAN /\ typed \in BOOLEAN /\ pending \in Seq(Key)
      /\ out \in Seq(Token) /\ seen \in Seq(Token) /\ Len(out) \in Nat
  BY SeqMonotonic, LenProperties DEF ConsoleInv, HonestInv, StageInv, Heard
<1>2. ~CommandOver(data)
  <2>1. CASE CommandTyped
    BY <2>1, PlainHeard DEF CommandTyped
  <2>2. CASE ~CommandTyped
    BY <2>2 DEF Stages, Unbooted, BootTyped, PromptComes, CommandOver
  <2> QED BY <2>1, <2>2
<1>3. pending' = Queued(data) \o (IF Starts(data) THEN CommandText ELSE <<>>)
  BY <1>2 DEF LoopLooks, Text
<1>4. ASSUME ~Starts(data) PROVE pending' = Queued(data) /\ seen' = Noted(data) /\ typed' = typed
  <2>1. Queued(data) \in Seq(Key)
    BY QueuedKeys
  <2> QED BY <1>0, <1>1, <1>3, <1>4, <2>1, ConcatEmptySeq DEF SeenNext
<1>5. ASSUME OnlyPlain PROVE ~Starts(data) /\ OnlyPlain' /\ UNCHANGED typed
  <2>1. ~Starts(data)
    BY <1>5, PlainHeard DEF Starts, ShellSeen
  <2> QED BY <1>0, <1>4, <1>5, <2>1, PlainHeard DEF OnlyPlain
<1>6. ASSUME booted PROVE ~Boots(data) /\ Queued(data) = pending /\ booted' = booted
  BY <1>0, <1>1, <1>6 DEF Boots, Queued
<1>7. CASE Unbooted
  <2>1. ~Starts(data) /\ OnlyPlain' /\ ~typed' /\ pending' = Queued(data)
    BY <1>4, <1>5, <1>7 DEF Unbooted
  <2>2. CASE Boots(data)
    <3>1. pending' = <<"k", "cr">> /\ booted'
      BY <1>0, <2>1, <2>2 DEF Queued, BootText
    <3>2. machine = "monitor"
      BY <1>7, <2>2, NothingHeard DEF Unbooted, ConsoleInv
    <3>3. BootTyped'
      BY <1>0, <1>7, <2>1, <3>1, <3>2 DEF BootTyped, Unbooted, NoKeys, Underway
    <3> QED BY <1>2, <3>3 DEF Stages
  <2>3. CASE ~Boots(data)
    <3>1. pending' = pending /\ booted' = booted
      BY <1>0, <1>1, <2>1, <2>3 DEF Queued
    <3>2. machine = "rom" => out' = <<>>
      BY <1>0, <1>7, NothingHeard DEF Unbooted, ConsoleInv
    <3>3. Unbooted'
      BY <1>0, <1>7, <2>1, <3>1, <3>2 DEF Unbooted, NoKeys
    <3> QED BY <1>2, <3>3 DEF Stages
  <2> QED BY <2>2, <2>3
<1>8. CASE BootTyped
  <2>1. OnlyPlain' /\ ~typed' /\ booted' /\ pending' = pending
    BY <1>4, <1>5, <1>6, <1>8 DEF BootTyped
  <2>2. BootTyped'
    BY <1>0, <1>8, <2>1 DEF BootTyped, NoKeys, Underway
  <2> QED BY <1>2, <2>2 DEF Stages
<1>9. CASE CommandTyped
  <2>1. OnlyPlain' /\ typed' /\ booted' /\ pending' = pending
    BY <1>4, <1>5, <1>6, <1>9 DEF CommandTyped
  <2>2. CommandTyped'
    BY <1>0, <1>9, <2>1 DEF CommandTyped, NoKeys, Underway
  <2> QED BY <1>2, <2>2 DEF Stages
<1>10. CASE PromptComes
  <2>0. booted' /\ ~typed /\ NoKeys /\ machine = "shell" /\ Queued(data) = <<>>
    BY <1>6, <1>10 DEF PromptComes, NoKeys
  <2>1. /\ rest \in Seq(Token) /\ Len(rest) = Len(out) - n
        /\ \A i \in 1 .. Len(rest) : rest[i] = out[n + i]
    <3>1. \A i \in n + 1 .. Len(out) : out[i] \in Token
      BY <1>1, ElementOfSeq
    <3>2. n \in Int /\ n + 1 \in Int /\ Len(out) \in Int
      BY <1>1
    <3>3. /\ rest \in Seq(Token)
          /\ Len(rest) = IF n + 1 <= Len(out) THEN Len(out) - (n + 1) + 1 ELSE 0
          /\ \A i \in 1 .. Len(out) - (n + 1) + 1 : rest[i] = out[n + 1 + i - 1]
      BY <3>1, <3>2, SubSeqProperties
    <3> HIDE DEF rest
    <3>4. Len(rest) = Len(out) - n
      BY <1>1, <3>3
    <3>5. \A i \in 1 .. Len(rest) : rest[i] = out[n + i]
      <4> TAKE i \in 1 .. Len(rest)
      <4>1. i \in 1 .. Len(out) - (n + 1) + 1 /\ n + 1 + i - 1 = n + i
        BY <1>1, <3>4
      <4> QED BY <3>3, <4>1
    <3> QED BY <3>3, <3>4, <3>5
  <2>2. ASSUME seen \notin Seq(Plain) PROVE out \in Seq(Plain)
    <3>1. \A i \in 1 .. Len(out) : out[i] \in Plain
      BY <1>1, <1>10, <2>2, ElementOfSeq DEF PromptComes, Plain
    <3> QED BY <1>1, <3>1, PlainSeq
  <2>3. CASE Starts(data)
    <3>1. seen' = <<>> /\ typed' /\ pending' = <<"command", "cr">>
      <4>1. <<>> \o CommandText = CommandText
        BY Texts, ConcatEmptySeq
      <4> QED BY <1>0, <1>3, <2>0, <2>3, <4>1 DEF SeenNext, CommandText
    <3>2. rest \in Seq(Plain)
      <4>1. CASE seen \notin Seq(Plain)
        BY <2>2, <4>1, PartOf
      <4>2. CASE n = Len(out)
        <5>1. Len(rest) = 0
          BY <1>1, <2>1, <4>2
        <5> HIDE DEF rest
        <5> QED BY <2>1, <5>1, EmptySeq
      <4>3. CASE seen \in Seq(Plain) /\ n # Len(out)
        <5>1. n < Len(out)
          BY <1>1, <4>3
        <5>2. \A i \in 1 .. n : out[i] \in Plain
          BY <1>1, <1>10, <5>1, ElementOfSeq DEF PromptComes, Plain
        <5>3. data \in Seq(Plain)
          BY <1>1, <5>2, SubSeqProperties DEF Data
        <5>4. Noted(data) \in Seq(Plain)
          BY <4>3, <5>3, NotingOf
        <5>5. ~Saw("prompt", Noted(data))
          <6>1. \A i \in 1 .. Len(Noted(data)) : Noted(data)[i] # "prompt"
            BY <5>4, ElementOfSeq DEF Plain
          <6> QED BY <5>4, <6>1, LenProperties DEF Saw, ToSet
        <5> QED BY <2>3, <5>5 DEF Starts, ShellSeen
      <4> QED BY <4>1, <4>2, <4>3
    <3>3. CommandTyped'
      BY <1>0, <2>0, <3>1, <3>2, EmptySeq DEF CommandTyped, OnlyPlain, NoKeys, Underway
    <3> QED BY <1>2, <3>3 DEF Stages
  <2>4. CASE ~Starts(data)
    <3>1. pending' = <<>> /\ ~typed' /\ seen' = Noted(data)
      BY <1>4, <2>0, <2>4
    <3>2. ASSUME NEW i \in 1 .. Len(rest), rest[i] = "prompt"
          PROVE  i = Len(rest) /\ Noted(data) \in Seq(Plain)
      <4> HIDE DEF rest
      <4>1. n + i \in 1 .. Len(out) /\ out[n + i] = "prompt"
        BY <1>1, <2>1, <3>2
      <4>2. n + i = Len(out) /\ seen \in Seq(Plain)
        BY <1>10, <4>1 DEF PromptComes
      <4>3. i = Len(rest) /\ n < Len(out)
        <5>1. Len(rest) = Len(out) - n /\ i \in Nat /\ i > 0 /\ n \in Nat
          BY <1>1, <2>1, <3>2
        <5> QED BY <1>1, <4>2, <5>1
      <4>4. \A j \in 1 .. n : out[j] \in Plain
        BY <1>1, <1>10, <4>3, ElementOfSeq DEF PromptComes, Plain
      <4>5. data \in Seq(Plain)
        BY <1>1, <4>4, SubSeqProperties DEF Data
      <4> QED BY <4>2, <4>3, <4>5, NotingOf
    <3>3. PromptComes'
      BY <1>0, <2>0, <3>1, <3>2 DEF PromptComes, NoKeys
    <3> QED BY <1>2, <3>3 DEF Stages
  <2> QED BY <2>3, <2>4
<1> QED BY <1>7, <1>8, <1>9, <1>10 DEF Stages

LEMMA ExecStep ==
  ASSUME PrintsNoPrompt, ConsoleInv, ExecInv, ConsoleNext
  PROVE  ExecInv'
<1> USE DEF ExecInv
<1>0. Me \in Sessions /\ SInv /\ HonestInv
  BY GenixTermAssumption DEF ConsoleInv
<1>1. ASSUME term'[Me] \in {"sync", "poll"} PROVE ExecInv'
  BY <1>1 DEF Before
<1>2. CASE SessionStep
  <2>1. UNCHANGED <<keyboard, console, wire, out, target>>
    BY <1>2 DEF SessionStep, cvars
  <2>2. Unbooted' = Unbooted /\ Stages' = Stages
    BY <2>1 DEF Stages, Unbooted, BootTyped, PromptComes, CommandTyped, NoKeys, OnlyPlain,
       Underway, console, target
  <2>3. /\ term'[Me] \in Before => term[Me] \in Before
        /\ term'[Me] = "up" => term[Me] \in {"connect", "up"}
        /\ term[Me] = "up" /\ Running(Me)' => Running(Me)
    BY <1>0, <1>2, Onward DEF SessionStep, Before
  <2>4. job' = job /\ ran' = ran
    BY <2>1 DEF keyboard, target
  <2> QED BY <2>2, <2>3, <2>4 DEF Before, Stages
<1>3. ASSUME NEW n \in 0 .. Len(out), LoopLooks(n) PROVE ExecInv'
  <2> SUFFICES ASSUME job = "exec", ~ran, term'[Me] = "up", Running(Me)' PROVE Stages'
    <3>1. job' = job /\ ran' = ran /\ term[Me] = "up"
      BY <1>3 DEF LoopLooks, keyboard, target, Cycling, In
    <3>2. ~CommandOver(Data(n)) => term' = term
      BY <1>3 DEF LoopLooks, svars
    <3>3. CommandOver(Data(n)) => term'[Me] = "sync"
      BY <1>3, Begun, Texts DEF LoopLooks
    <3> QED BY <1>1, <3>1, <3>2, <3>3 DEF Before
  <2>1. ~CommandOver(Data(n))
    BY <1>3, Begun, Texts DEF LoopLooks
  <2>2. term[Me] = "up" /\ Running(Me)
    BY <1>3, <2>1 DEF LoopLooks, svars, Running
  <2> QED BY <1>3, <2>2, LookStaged
<1>4. CASE LoopPumps
  <2>1. /\ pump_keys /\ term[Me] = "up" /\ UNCHANGED <<keyboard, seen, booted, typed, out, target>>
        /\ UNCHANGED svars
    BY <1>4 DEF LoopPumps, Cycling, In
  <2> SUFFICES ASSUME Stages, Running(Me) PROVE Stages'
    BY <2>1 DEF keyboard, target, svars, Running, Before
  <2>2. ~NoKeys
    BY <2>1 DEF pump_keys, NoKeys
  <2>3. ASSUME NEW key, Underway(key) PROVE Underway(key)'
    BY <2>1, <2>3, PumpUnderway DEF target
  <2>4. BootTyped => BootTyped'
    BY <2>1, <2>2, <2>3 DEF BootTyped, OnlyPlain, target
  <2>5. CommandTyped => CommandTyped'
    BY <2>1, <2>2, <2>3 DEF CommandTyped, OnlyPlain, target
  <2> QED BY <2>2, <2>4, <2>5 DEF Stages, Unbooted, PromptComes
<1>5. CASE LoopEnds
  BY <1>0, <1>1, <1>5, Begun DEF LoopEnds, HonestInv
<1>6. ASSUME job = "interactive", job' = job PROVE ExecInv'
  BY <1>6
<1>7. ASSUME NEW key, UserTypes(key) PROVE job = "interactive" /\ job' = job
  BY <1>7 DEF UserTypes, Interacting, In
<1>8. CASE UserTypesKey \/ UserEscapes \/ UserSendsEscape \/ UserQuits \/ UserStops \/ InputEnds
  BY <1>6, <1>7, <1>8 DEF UserTypesKey, UserEscapes, UserSendsEscape, UserQuits, UserStops, InputEnds
<1>9. CASE TerminalGoesRaw \/ InteractivePumps
  BY <1>6, <1>9 DEF TerminalGoesRaw, InteractivePumps, Interacting, In, keyboard
<1>10. ASSUME NEW n \in 0 .. Len(out), InteractiveLooks(n) PROVE ExecInv'
  BY <1>6, <1>10 DEF InteractiveLooks, Interacting, In, keyboard
<1>11. CASE InteractiveEnds \/ SyncEnds
  BY <1>1, <1>11, Stopping DEF InteractiveEnds, SyncEnds
<1>12. CASE SyncInterrupted
  BY <1>0, <1>1, <1>12 DEF SyncInterrupted, TermInterrupted, TermGoes, SInv, TypeOK
<1>13. CASE SyncPumps \/ drain
  BY <1>1, <1>13 DEF SyncPumps, drain, svars
<1>14. CASE Machine
  <2>1. UNCHANGED <<svars, keyboard, console, promised>> /\ Running(Me) /\ (ran => ran')
    <3>1. ran => ran'
      <4>1. ASSUME KeyLost \/ KeyEchoed PROVE ran' = ran
        BY <4>1 DEF KeyLost, KeyEchoed, target
      <4> QED BY <1>14, <4>1 DEF Machine, MonitorStarts, MonitorObeys, KernelBoots,
                   ShellObeys, CommandPrints, CommandEnds
    <3> QED BY <1>14, <3>1, MachineApart
  <2>2. Stages /\ ~ran' => Stages' /\ (Unbooted => Unbooted')
    BY <1>14, MachineStaged
  <2>3. Unbooted => Stages
    BY DEF Stages
  <2> QED BY <2>1, <2>2, <2>3 DEF svars, keyboard, Running
<1> QED BY <1>2, <1>3, <1>4, <1>5, <1>8, <1>9, <1>10, <1>11, <1>12, <1>13, <1>14
        DEF ConsoleNext

(* The steps that begin a shutdown.                                        *)
LEMMA ExecLeaves ==
  ASSUME ConsoleInv, ExecInv, ConsoleNext,
         job = "exec", Running(Me), term[Me] = "up", term'[Me] = "sync"
  PROVE  ran \/ verdict' = "late"
<1> SUFFICES ASSUME ~ran PROVE verdict' = "late"
  OBVIOUS
<1>1. ASSUME UNCHANGED svars PROVE FALSE
  BY <1>1 DEF svars
<1>2. ASSUME NEW n \in 0 .. Len(out), LoopLooks(n) PROVE FALSE
  <2>1. ~CommandOver(Data(n))
    BY <1>2, LookStaged DEF ExecInv
  <2> QED BY <1>1, <1>2, <2>1 DEF LoopLooks
<1>3. CASE LoopEnds
  BY <1>3 DEF LoopEnds, Verdict
<1>4. ~SessionStep
  BY DEF SessionStep
<1>5. ~LoopPumps /\ ~TerminalGoesRaw /\ ~InteractivePumps /\ ~SyncPumps /\ ~drain /\ ~Machine
  BY <1>1, MachineApart DEF LoopPumps, TerminalGoesRaw, InteractivePumps, SyncPumps, drain
<1>6. \A n \in 0 .. Len(out) : ~InteractiveLooks(n)
  BY <1>1 DEF InteractiveLooks
<1>7. \A key : ~UserTypes(key)
  BY DEF UserTypes, Interacting, In
<1>8. ~UserTypesKey /\ ~UserEscapes /\ ~UserSendsEscape /\ ~UserQuits /\ ~UserStops /\ ~InputEnds
  BY <1>7 DEF UserTypesKey, UserEscapes, UserSendsEscape, UserQuits, UserStops, InputEnds
<1>9. ~InteractiveEnds /\ ~SyncEnds /\ ~SyncInterrupted
  BY DEF InteractiveEnds, SyncEnds, SyncInterrupted, Interacting, In
<1> QED BY <1>2, <1>3, <1>4, <1>5, <1>6, <1>8, <1>9 DEF ConsoleNext

(* Whatever arrives in which pieces: with --exec the shutdown begins after *)
(* the command has come to its end, or because a deadline has passed --    *)
(* unless the command itself prints what looks like a prompt.              *)
THEOREM ExecWaits ==
  ASSUME PrintsNoPrompt
  PROVE  ConsoleSpec => ExecRunsToTheEnd
<1>1. ConsoleInit => ExecInv
  <2> SUFFICES ASSUME ConsoleInit PROVE ExecInv
    OBVIOUS
  <2>1. seen \in Seq(Plain) /\ out \in Seq(Plain) /\ term[Me] = "none"
    BY EmptySeq, GenixTermAssumption DEF ConsoleInit, Init
  <2>2. Unbooted
    BY <2>1 DEF ConsoleInit, Unbooted, NoKeys, OnlyPlain
  <2> QED BY <2>1, <2>2 DEF ExecInv
<1>2. ConsoleInv /\ ExecInv /\ [ConsoleNext]_cvarsAll => ExecInv'
  <2>1. ASSUME ExecInv, UNCHANGED cvarsAll PROVE ExecInv'
    BY <2>1 DEF ExecInv, Stages, Unbooted, BootTyped, PromptComes, CommandTyped, NoKeys, OnlyPlain,
       Underway, Running, cvarsAll, svars, cvars, keyboard, console, target
  <2> QED BY <2>1, ExecStep
<1>3. ConsoleInv /\ ExecInv /\ [ConsoleNext]_cvarsAll
        => [job = "exec" /\ Running(Me) /\ term[Me] = "up" /\ term'[Me] = "sync"
              => ran \/ verdict' = "late"]_cvarsAll
  BY ExecLeaves
<1> QED BY <1>1, <1>2, <1>3, ConsoleInvariance, PTL DEF ConsoleSpec, ExecRunsToTheEnd
=============================================================================
