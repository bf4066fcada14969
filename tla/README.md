# A formal model of the SYS16 emulation

This directory holds TLA+ specifications of the code of this repository: the
disk board of the emulated National Semiconductor SYS16 (`patch/sys16.cpp`), the
scripts that run the machine (`pack/run.sh`, `pack/genixterm.py`,
`pack/stop.lua`), the tools that make its disks (`tools/mkdisk.py`,
`tools/mkfs.py`, `tools/s5fs.py`, `tools/s5extract.py`,
`tools/rebuild-disk.sh`), and those that convert and trace its kernel
(`tools/coff2genix.py`, `tools/nm32.py`, `tools/trace.py`).  TLC checks small instances of them, and TLAPS
proves theorems about them for every value of their constants.

`PROJECT.json` lists the runs, which source lines each definition stands for,
the theorems, and the hazards the properties were chosen for.

## 1. The system

| component | where | state | operations |
|---|---|---|---|
| disk control unit (DCU) | `patch/sys16.cpp` 135-228, 272-288, 410-659 | argument bytes, opcode, status code, self-test and illegal-command flags, selected unit, cached drive shapes, one timer, interrupt line 3; IOCBs and pages in main memory; two disk images | register read and write, timer expiry (`dcu_complete`), `dcu_execute`, `dcu_transfer`, `machine_reset` |
| interrupt controller | MAME, wired in `sys16.cpp` | per line: level and edge latch | drive a line, take an interrupt |
| rest of the machine | `sys16.cpp` 239-403, 661-709 | boot view, DCR, NMI register, options | wiring of MAME devices |
| drivers (ROM monitor, kernel `io/dc.c`) | not in the repository | where they are in a command | poll or sleep, set up IOCBs, start, acknowledge |
| session scripts | `pack/run.sh`, `pack/genixterm.py`, `pack/stop.lua`, `pack/bootkey.lua` | a lock file per work directory, processes, the stop file | lock, hand over, start the emulator, ask it to stop, kill it |
| console of genixterm | `pack/genixterm.py` 117-159, 189-327 | keys still to type, a window of what was seen, booted or not | type, boot, check, exec, interactive, sync |
| pack shape | `tools/mkdisk.py` | none | header and partitions of a drive type |
| file system builder | `tools/mkfs.py` | inodes, directory lists, next block and inode, the image | walk the host tree, apply spec lines, write i-list, free list, superblock |
| reader | `tools/s5fs.py`, `tools/s5extract.py` | none | inode, data, readdir, walk |
| kernel converter | `tools/coff2genix.py` | the section table | find text and data, pad, write the a.out |
| kernel tracer | `tools/nm32.py`, `tools/trace.py` | symbols, fetch addresses | read the symbol table, find the abort, thin out, name |
| pack builder | `tools/rebuild-disk.sh` | image files | disk, root, overlay, convert, copy |
| build scripts | `pack/build.sh`, `tools/mkroot.sh` | none | sequences of external commands |

How they interact.  The processor (drivers) and the DCU share registers, main
memory and interrupt line 3; the DCU runs in timer callbacks of the emulator.
The DCU and `mkdisk.py` agree on sector 0 of a pack (the *disktab* header);
`mkfs.py` and `s5fs.py` agree on a file system, and `mkfs.py` and `mkdisk.py` on
where it ends and swap begins.  `coff2genix.py` writes what the ROM monitor
loads.  `run.sh` and `genixterm.py`
agree through `flock` on `disk.lock`; `genixterm.py` and the emulator through a
socket and the file `stop`.

What is hard here:

* commands take time, and the processor may rewrite arguments, start another
  command, acknowledge early, or reset the machine while one is pending;
* line 3 is edge triggered: an acknowledge that is missed makes every later
  completion silent, and a sleeping kernel does not wake up;
* a chain of IOCBs can fail in the middle, with part of it done;
* the shape of a drive is cached, over links of a chain, commands and packs;
* a lock belongs to an open file, is dropped by one script and taken again by
  another, and does not follow an emulator whose parent has died;
* a stop file, a timeout of 20 s and the end of the emulator race;
* the console knows the state of the machine only from pieces of its output,
  which hold echoes, come late, and are cut anywhere; keys wait in a queue of
  their own and may reach a program they were not typed for;
* a file system layout has boundaries at each level of indirection and at each
  piece of the free list, and counts that are kept in several places.

What makes each component correct is stated as properties (section 4).

## 2. Plan

Done, in this order:

1. `Dcu`: the board under an unrestricted processor; its invariants, proved.
2. `DiskService`, `DcuDriver`: what the board promises, and the board with the
   two drivers refining it; the lost-interrupt argument, proved.
3. `Session`: processes and locks; the mutual exclusion it gives, proved.
4. `Pack`: shapes, partitions and address arithmetic, proved about.
5. `Mkfs` with `S5fs`: building a file system and reading it back.
6. `GenixTerm`: the keyboard queue and the loops of `genixterm.py`, with the
   machine as an environment, composed with `Session`, which it refines; proved.
7. `S5fs` and `Mkfs`: `walk`, `s5extract.py`, device numbers, execute bits, the
   i-list of three-byte block numbers.
8. `Coff2Genix`: the padding, and what the ROM monitor makes of it; proved.
9. `KernelTrace`: the symbol table and the trace; the trace proved.
10. `Rebuild`: `Pack` and the shape of `Mkfs` composed, as `rebuild-disk.sh` does;
    proved for every shape of a drive.
11. `DcuDriverProofs`: the answers, the types, and the refinement of
    `DiskService`, step by step.
12. `GenixTermProofs` and `SessionProofs`: what the loops of the console promise
    themselves, and that the lock never turns everybody away.
13. `KernelTraceProofs`: the symbol table and the lookup.
14. `MkfsProofs`: allocators, link counts, and the free inodes.
15. `MkfsProofs` again: the layout of one file, the pieces of the free list, then
    both over the whole image, and what `s5fs.py` and `s5extract.py` read of it.

Nothing of the plan is left but what section 5 says stays with TLC.

## 3. Modules

| module | models | how |
|---|---|---|
| `Icu` | one input line of the NS32202 | operators; trigger modes from the header of `sys16.cpp` |
| `Pack` | header, shape, partitions, `Lba` | constant operators |
| `Dcu` | the DCU | one action per register write, per command and per step of `dcu_transfer` |
| `DiskService` | what the DCU promises | abstract specification: jobs done in order, one answer |
| `DcuDriver` | DCU, ROM monitor and kernel driver | composition: each driver step is an action of `Dcu` plus the driver's own state |
| `Session` | `run.sh`, `genixterm.py`, `stop.lua` as processes | one action per script step that touches lock, process or stop file |
| `GenixTerm` | the console of `genixterm.py` | `Session` with its steps `TermSyncs` and `TermStops` of one session replaced by the loops; one action per pass of a loop, per key of the user, and per thing the machine does |
| `S5fs` | `s5fs.py`, `s5extract.py` | operators over an image and an inode |
| `Mkfs` | `mkfs.py` | one action per host directory, host file, spec line, stored directory, and final table |
| `Coff2Genix` | `coff2genix.py`, then the ROM monitor's load | one action per section header, for the writing, and for the load |
| `KernelTrace` | `nm32.py`, `trace.py` | one action per symbol, line of the log and fetch; the lookup at the end |
| `Rebuild` | `rebuild-disk.sh`, `main` of `mkdisk.py`, `--disktab` and the sizes of `mkfs.py` | one action per tool |
| `MCDcu`, `MCDcuDriver`, `MCSession`, `MCGenixTerm`, `MCMkfs`, `MCCoff2Genix`, `MCKernelTrace`, `MCRebuild` | - | instances for TLC |
| `DcuProofs`, `DcuDriverProofs`, `SessionProofs`, `GenixTermProofs`, `RebuildProofs` (of `Pack`, too), `Coff2GenixProofs`, `KernelTraceProofs`, `MkfsProofs` | - | theorems |

Definitions marked "a slip" are not part of a specification.  Each is a mistake
the code could plausibly contain, kept so that every property can be seen to
fail when it is put in place of the definition below it.

### Correspondence, and what is abstracted

*Dcu.*  The variables are the members of `sys16_state` under their names without
`m_dcu_`, except `geom` (sectors and heads in one record per unit), `line3` (what
was driven on line 3 and what the controller latched), `phase`, `at`, `moved`,
`failed` (the locals of `dcu_transfer`) and `trail` (history: links left behind).
`dcu_complete` is one callback in the code.  Its loop is unrolled into one
action per link opened, sector moved and link closed; no other action is enabled
while `phase` is not `"cpu"`, so there are no interleavings the code does not
have, and the loop invariant can be stated.  A sector is one value; the header a
sector would be is given by `HeaderIn`.  An IOCB is a record at its address, its
page table a function; IOCBs, page tables and pages do not overlap (the drivers
allocate them apart).  The write after the last sector of an image fails, as
`harddisk_image_device` does.

*DcuDriver.*  The drivers are external.  Of the ROM monitor it is assumed that
it polls, of the kernel that its handler runs on an edge, that it ignores an
edge while its own command is busy, and of both that they give one command at a
time, prepare it fully before they write the opcode, and acknowledge it after
they have read the outcome.  `DriverAssumption` says what that means for a
request: the address of its first IOCB fits into the three argument bytes, its
IOCBs are IOCBs, its chain ends, and no ending is left in it from a command
before, as a driver that reads the status words of a chain after an error must have
cleared them: with an ending left over nothing could be told from them.

*DiskService.*  The shape of a drive is part of what the software sees: it is
read from the label when the drive is first selected and stays until a reset,
even when the label is overwritten in between, for this is what
`sys16.cpp:417` does.

*Session.*  `flock` is modelled as it works: the lock is held while the open
file it was taken on is open in some process.  `run.sh` opens it as descriptor 9,
which the emulator inherits; `Popen` closes it.  Everything between connecting
and stopping is one state, `"up"`; `GenixTerm` looks into it.  An emulator that
has not connected within 30 s (`"late"`) is killed in one step and `genixterm.py`
exits in the next (`"exit"`), so that the emulator may end by itself, and either script
be killed, before, between and after.  `genixterm.py
--exec` behaves as `check` here.  Ctrl-C while a terminal session syncs or stops
leads to the `finally` of `main` (`again`), which stops once more.  A signal may
end either script at any point, as constants allow; the emulator survives it.

*GenixTerm.*  The variables are those of `genixterm.py`: `pending`, `seen`,
`booted`, `typed`, `raw`, `escape`; `turn` is the place in the loop, `budget` the
characters that can still be typed in the 6 s.  `wire` and `out` are the two directions of the socket.
Output is cut into pieces of any length by `recv` (the `n` of `LoopLooks(n)`); 0
is a wait of `select` that ran out.  A key that is never looked at alone is
joined with its neighbours (`"/bin/sync"`), but takes the time of its characters
(`Strokes`); when the 6 s break off in the middle of it, it is not sent at all, since the line it
is in never ends.  A piece of output is a marker the code looks for or `"text"`.
`ahead` remembers whether the user typed a `k` before `genixterm.py` did.  A deadline may pass at any moment;
`verdict` keeps why the loop ended.
The sleep of 1.5 s before `stop` is not timed: `SyncReachesShell` speaks of
shells that have read their input by then.  The machine is external: a monitor
that boots at the line `k`, a kernel, and a shell that echoes, runs lines and
prompts; keys typed to a program that is starting are lost.

*Mkfs.*  A block is `BSIZE` words, a word a number and a name: a pointer, a
directory entry, or four bytes of a file.  The consecutive calls of
`alloc_block` in `store_data` are one step; when one of them would fail, the
program ends there, before anything is written out, which is the same.  What
the host tree and the spec hold is left open.  Host names are unique within a
directory; spec lines may repeat names.  Owners, times and permissions but for execute are left out.  A device is
a major and a minor number in one address, `BYTE` the values of a byte; a name
that is too long is a member of `TooLong`.  A dictionary of Python is a function,
and `f[x] = v` is `Set`; recursion along a path or a list of blocks is a
recursive function on numbers.  `AllocOrder`, the blocks the kernel's `alloc()` hands
out, is one, too: `from[k]` follows at most `k` pieces of the free list.

*S5fs.*  The i-list's three bytes of a block number are split and joined in base
`BYTE`.  A list made by appending (`InUse`, of the slots of a directory) is a
recursive function on the length looked at.  So is `walk` on the levels it may
still go down, since the code bounds them by 12 (`WalkDepth`), and `Extract` on the
number of things extracted: the tree `s5extract.py` makes, as functions from
paths, or the first system call that failed.

*Coff2Genix.*  A file is its bytes and what its headers say of them.  The
monitor, external, lays data straight behind text (`docs/STATUS.md`); bytes it
does not write are not in `memory`.

*KernelTrace.*  A name is its rank in the alphabet.  `Sorted` is what `sort`
gives: the list by a rearrangement of its places that is ascending.  What was written by the
linker as an auxiliary entry is known (`aux`) to the properties only.

*Rebuild.*  An image is its length, the header in its first sector and the
sectors up to which a file system reaches.

## 4. Runs

| run | config | distinct states | result |
|---|---|---|---|
| `dcu` | `Dcu.cfg` | 1,111,662 | nine properties hold |
| `dcu_driver` | `DcuDriver.cfg` | 145,708 | five properties hold, refinement and liveness among them |
| `session` | `Session.cfg` | 557,789 | five properties hold |
| `console_check` | `ConsoleCheck.cfg` | 27,710 | seven properties hold, liveness and the refinement of `Session` among them |
| `console_terminal` | `ConsoleTerminal.cfg` | 106,424 | three properties hold |
| `mkfs` | `Mkfs.cfg` | 465,514 | six properties hold |
| `coff2genix` | `Coff2Genix.cfg` | 5,046 | one property holds |
| `kernel_trace` | `KernelTrace.cfg` | 271,260 | three properties hold |
| `rebuild` | `Rebuild.cfg` | 7,794 | one property holds |
| `dcu_reset` | `DcuReset.cfg` | - | violated: a command outlives the reset |
| `session_orphan` | `SessionOrphan.cfg` | - | violated: a dead `genixterm.py` leaves its emulator without the lock |
| `session_stop` | `SessionStop.cfg` | - | violated: the stop file is written where nobody looks |

To run one: `tlc -config Dcu.cfg MCDcu.tla`, and so on.

### What the passing runs ask

*dcu*: whatever the processor does with the registers,

* `BusyIsUnderway`: a status of "busy" is always going to be resolved;
* `LineFollowsCode`: line 3 is low for a finished command and high for an idle
  board, so a completion after an acknowledge is an edge;
* `IllegalIsExplained`: DCU_AUXERR accuses the opcode in the register and no
  command that was given later;
* `ShapeKnown`: addresses are computed with a shape that has been read, never
  with the zeros of a reset;
* `PrefixMoved`: of the link under way exactly the first `moved` sectors are
  where they belong;
* `TrailAcknowledged`, `OutcomeReported`: the IOCBs in memory and the status code
  tell the same story, also after a failure in the middle of a chain; and the
  residue of the last link is exactly the number of its sectors that were not
  transferred, those that lie behind the end of the image, or all when the unit is missing;
* `ShapeKeptUntilReset`: no drive is addressed with two shapes between resets.

*dcu_driver*: with the drivers of the machine,

* `NoLostInterrupt`, `EveryCommandCompletes`: the kernel is woken for each
  command, and each command, polled or not, is answered;
* `AnswerIsOurs`: what the driver reads is about the chain it started;
* `ServiceSpec`: the composition implements `DiskService`.  The refinement
  mapping turns the chain that is left, from `phase`, `at` and `moved` on, into
  the list of jobs to do, and code, phase and driver step into the answer.  A
  reset with a command pending maps to `Forget`.  One of the requests writes
  another header over sector 0 while the shape of the old one is in use: the
  sectors after it are still placed by the old shape.

*session*: with two sessions through `run.sh`, one in a window and one in a
terminal, and two of `genixterm.py` itself, each of which may be killed,

* `OneMachineButOrphans`: of two emulators on one pack, one is an orphan, that
  is, one whose `genixterm.py` has died;
* `LockCoversMachine`: why: an emulator that is no orphan is covered by a lock
  its session holds, through the hand-over from `run.sh` to `genixterm.py` too;
* `SomebodyGetsThePack`: the lock never turns everybody away;
* `LeavingFreesThePack`: once a session begins to stop, or has waited 30 s for the
  emulator to connect, its emulator ends and the pack is free again.

*console_check*: a check or `--exec` of a command that prints nothing that looks
like a prompt, with every deadline free to pass at any moment and the emulator
free to end,

* `GenixComesUp`: unless a deadline passes, the machine gets to a shell;
* `CheckPasses`: a check passes, unless a deadline does or the emulator dies;
* `ExecRunsToTheEnd`: the shutdown waits for the command, unless a deadline
  passes;
* `CheckIsHonest`: a check passes only if the shell has run its command: the
  echo of the command is never taken for its answer;
* `BootAtMonitor`: the boot command is typed once, and never to a kernel or a shell;
* `SessionSpec`: what the loops do to processes, lock and stop file is what
  `Session` says `genixterm.py` does.

*console_terminal*: a user who types, also before the monitor is up, boots by himself,
escapes, quits, interrupts, whose script may be killed and whose emulator may end,

* `SyncReachesShell`: `/bin/sync` is run by a shell that reads it, also when the
  user leaves in the middle of a line;
* `BootAtMonitor`: the boot command is typed once, and to a kernel or a shell only when the user
  has typed a `k` of his own before;
* `TerminalGivenBack`: the terminal is raw only inside `run_interactive`.

*mkfs*: for every host tree and spec within the bounds,

* `LinksCounted`: link counts equal the entries that name an inode, at every
  step;
* `BlocksAccounted`: each data block belongs to one file once, or is handed out
  once by the kernel's `alloc()` walking the free list;
* `RoundTrip`: `s5fs.py` reads back what was put in;
* `InodesAccounted`: the superblock's free inodes are free, and all of them are
  counted;
* `Extracted`: the tree `s5extract.py` makes of the image is the tree that was put
  in: contents, execute bits and device numbers, through the i-list as it stands
  in the image.

*coff2genix*: `LoadedAsLinked`, that after the monitor has loaded the a.out, every
byte of text and data is at the address it was linked at.  Files whose data lies
over or below the text are refused or come out right.

*kernel_trace*: for symbol tables and logs of every shape within the bounds,

* `SymbolsListed`: the symbols are those of the kernel: no auxiliary entry is
  taken for one, and none is passed over behind one;
* `NamedByNearest`: an address gets the name of the last symbol at or below it;
* `PathKept`: the abort reported is the one asked for, and of the fetches before
  it none is missing but those that follow straight on.

*rebuild*: `PackUsable`, that the controller reads from the pack the shape of its
drive, the image has the length of the drive, and the file system ends before
the swap area, whichever of the six drives is the default.

The runs of the board, the drivers, `session`, `console_check` and `mkfs` have one
invariant of types besides.

### What the others show

Each of the three violations is a disagreement between the code and what a
comment or document beside it says; `PROJECT.json`, "findings", quotes both.  All
are defects of the code: a timer not cancelled by `machine_reset` (`dcu_reset`), an
emulator left without lock by an interrupted `--check` or `--exec`
(`session_orphan`), and a stop file in `$GENIX_WORK/run` that `stop.lua` looks for
under `work/`, so that under `run.sh` leaving always ends in a kill after 20 s - the
very thing `genixterm.py` warns of (`session_stop`).

### Known limits

These were met while modelling.  The models have the behaviour, or say in a
precondition where they stop; no run is spent on them.

* A header written to a pack through the board is not looked at before the next
  reset (`sys16.cpp:417`).
* `run.sh --monitor` without a desktop boots, since `genixterm.py` is not given
  `--monitor` (`run.sh:56`).
* Every emulator of a package looks for the same `work/stop`: a session may be ended
  by the stop file of the one next to it (`stop.lua:8`).
* A key pressed before the monitor's prompt is typed in front of the boot command,
  which is then unknown to the monitor and not typed again (`genixterm.py:136`);
  `GenixComesUp` is asked of sessions nobody types at.
* A user who has booted by himself, before `genixterm.py` saw the monitor's prompt, gets its
  boot command typed to his kernel or shell (`genixterm.py:136`); `BootAtMonitor` leaves
  this case out (`ahead`), and no other.
* Ctrl-] then q is to type the sync before it closes the machine (`README.txt:113` of the
  package), but `sync_and_stop` types for at most 6 s, some 42 characters, and what the user typed
  before goes first: behind a paste of 32 characters or more `/bin/sync` is not typed to its end, and the machine
  is closed all the same (`genixterm.py:147`).  The model does so when the queue exceeds `Budget`,
  which happens in `console_terminal`; `SyncReachesShell` asks only for a sync that
  had the time.
* A command of `--exec` that prints a line ending in `# ` and goes on is shut down in the
  middle (`genixterm.py:262`); `Prints` has no prompt in it.
* A stop file written just when the emulator had ended by itself stays, and ends
  the next one (`genixterm.py:166`).
* A routine entered at most eight bytes past the last address kept is missing from
  the trace (`trace.py:65`), and so from the call chain `trace.py:4-6` speaks of;
  `PathKept` leaves these bytes out.
* `walk` of `s5fs.py` goes down 12 directories and says nothing of what is deeper;
  `Extracted` is asked of trees within `WalkDepth`.
* A pack put together by hand with another type than the default gets the default's
  header (`mkfs.py:300`); `PackUsable` is asked of packs of
  the default type.

### Bounds

* `Dcu.cfg`: one drive of three sectors and one missing, shape read or fallback;
  two IOCB addresses with two images each, among them a chain, a failure on
  the second sector, a format over the header, and a missing unit; six opcodes;
  pages `p`, `q`.  A link of two sectors is the smallest with a middle, a chain
  of two the smallest with a link behind and one ahead; all interleavings of
  register writes, expiry and reset on them are explored, with no bound on their
  number.
* `DcuDriver.cfg`: two drives, six requests (failure on the first, middle and
  last link, missing unit, count 0), one reset - the second finds the board in
  the same states as the first.
* `Session.cfg`: two sessions per lock file, which is what mutual exclusion
  needs, and two lock files, which is what a stop file shared by both needs; each
  session is run once.
* `Console*.cfg`: one session, `Session.cfg` having explored several.  A window of
  five pieces of output cuts off markers while they are still looked at.  The
  users' scripts leave in each of the ways there are, in the middle of a line and
  before one.  A budget of 12 characters is enough for the sync (11) and one
  more: so in `console_terminal` both a sync that is typed in time and one that the 6 s
  cut off occur.
* `Coff2Genix.cfg`: text and data of up to three bytes at addresses up to 5: data
  below, upon, right behind and apart from the text; headers in three orders, one
  missing, one twice.
* `KernelTrace.cfg`: every table of up to three entries, which lets a symbol have
  two auxiliary entries that look like symbols; every log of up to five lines,
  with an abort before, between and behind fetches straight on, ahead and back.
* `Rebuild.cfg`: the six drives in full size; trees in steps of 1000 blocks up to
  more than the largest drive holds.
* `Mkfs.cfg`: blocks of three words, one direct block number and pieces of two in
  the free list, so that 16 words need double and 40 words triple indirection,
  and a directory of two entries besides `.` and `..` an indirect block; four
  entries, three names of which one is too long, paths of two; 22 blocks and 6
  inodes, both of which give out in some behaviours; bytes of three values, so
  that block numbers need all three bytes.

`CHECK_DEADLOCK FALSE` stands in the configurations of scripts and programs,
because they end.  The board and its drivers never stop, and
deadlock is checked there.

### Fairness

`Dcu` is checked for safety only.  `FairDriverSpec` assumes weak fairness of the
board's steps (the emulator's scheduler runs a due timer and a callback to its
end) and of each driver step on the way to an answer (the processor runs on).
It does not assume that a request is ever made, a kernel started, or reset
pressed; the reset is bounded.  `FairSpec` of `Session` assumes that a script
which has begun to leave goes on, and that the emulator's periodic function runs;
nobody is obliged to leave, and `genixterm.py` may be killed at any step.  With
`Prompt` TRUE an emulator that sees its stop file is gone within the 20 s.
`FairConsoleSpec` assumes of `genixterm.py` that a loop goes on typing, looking
and ending, and of the machine that it takes its input and goes on; of the user
nothing, nor that a deadline passes or the emulator stays alive.  Typing and looking each have
fairness of their own, as `select` and the queue are served in every pass.

## 5. Theorems

All are checked by TLAPS, for every value of the constants that satisfies the
named assumptions (`DcuAssumption`, `DriverAssumption`, `SessionAssumption`,
`GenixTermAssumption`, `CoffAssumption`, `TraceAssumption`, `RebuildAssumption`,
`MkfsAssumption`).  Every invariant named below was checked by TLC on the run of its
module before it was proved.

**The board** (`DcuProofs`).  `Spec => []IInv`, with `IInv` the conjunction of
`TypeOK`, `ShapeKnown`, `BusyIsUnderway`, `LineFollowsCode`,
`IllegalIsExplained`, `TrailAcknowledged` and `Progress`.  Most of the properties
are not inductive alone.  `Progress` says what the locals of `dcu_transfer` may
be in each phase: without it, `moved` could pass the count of its link, and types
and outcome would not follow.  `ShapeKnown` is needed for `TypeOK`, since the
place of a sector is a number only when the shape is one.  From `IInv` follow all
nine properties of the run, the two action properties among them.  `PrefixMoved`
is proved from `IInv` with an induction of its own: it needs that two sectors of
one link never share a place, and that a page named twice keeps its last sector.
So is the residue in `OutcomeReported`: `Accounted` says of the link under way that the sectors
moved lie on the image, and that the walk has failed only over a missing unit or
at the first sector that does not.

**Board and drivers** (`DcuDriverProofs`).  `Wakes`: `DriverSpec => []NoLostInterrupt`.
The invariant, `Handshake`, follows the edge from the acknowledge of one command
to the end of the next: until the driver has started a command the board is idle
with the line high, or still finishing what was pending at a reset; it rests on
`LineFollowsCode` and `BusyIsUnderway` of the board.

`DriverTypesCorrect` and `AnswersAreOurs` need a second part, `OursInv`.  It carries
one errand through the system: the argument bytes written so far are those of
the first IOCB (`BytesOfFirst`); the opcode in the register is the driver's
(`Commands`); the IOCBs in memory are those of a request of `Program`, their
chain ends, and the board is at a link of it (`Errand`); the links behind the
board are acknowledged, those ahead untouched, and the one it ends at tells how
(`Story`); and a walk that has failed had a reason (`Culpable`).  `TogetherInv`
is all of it with the invariant of the board, which holds under the drivers as
it does under any processor (`BoardUnderDriver`).  The links of a chain are the
least set that holds the first and follows `chain` (`ChainFrom`): so a link is
shown to be in a chain, or not, by giving a set, and no induction is needed.

`Implements`: `DriverSpec => ServiceSpec`, from `TogetherInv`.  Every step of
driver and board is one step of the service or none: starting is `Submit`,
`ExecuteStart` is `Begin`, opening a link its "select" job, a sector moved the
next job, the end `AnswerOk` or `AnswerFailed`, the acknowledge `TakeAnswer`, a
reset `Forget`.  The list of jobs of a chain is a recursive function along the
chain; that it has the value it is defined by, because chains end, is proved
from the empty set of links upwards, with the least closed set above.

**Sessions** (`SessionProofs`).  `OneMachine`: for any number of sessions,
`Spec => []OneMachineButOrphans`.  The invariant says, of each session alone,
which of its lock files carry the lock at which place of its scripts (`FlocksOf`)
and which process may be running there (`StartedOf`), and, of any two with one
lock file, that not both hold it (`Exclusive`).  The lemma `HeldStep` carries the
argument: no step makes a session hold the lock that did not, except a `flock`
that found it free.  The assumption that one pack has one work directory is part
of `SessionAssumption`; it is what `run.sh` and the defaults of `genixterm.py`
give, and `--work` can break it.

`NotEverybodyRefused`: `[]SomebodyGetsThePack`.  A session is refused only by one
that holds the lock; and one that was refused holds nothing and never will
(`RefusedOf`), so whoever is in its way was not refused himself.

**Console** (`GenixTermProofs`).  `ConsoleIsASession`: every step of the console is
a step of `Session` or leaves its variables alone, so what is proved of `Session`
holds of it (`ConsoleKeepsThePack`).  `GivenBack`: the terminal is raw only while
`run_interactive` runs, or was killed; it needs that nobody comes back from
"gone", which is `SInv` of `Session`.  `Honest`: a check that passes has had its
command run.  The invariant, `HonestInv`, says that before the command has run
the marker is neither in what was seen nor in what is under way, because no key
that may be typed looks like it; the rest is what `recv` and the window do to a
sequence.

The rest is about the order in which keys and output pass through the queues.
All of it rests on `ConsoleInv`, which adds to `SInv` what place in `Session`
each loop is in and what the machine may be doing there (`StageInv`, `ConsoleTyped`).

* `BootsOnce` (`BootAtMonitor`), for every script of the user and without a
  hypothesis: until either `genixterm.py` has typed the boot command or the user a `k` of his
  own, no `k` is in any queue (`QueuedKeys`), so the machine has not left its ROM.
  The code does not keep the user from being first, and the property says so (`ahead`).
* `SyncRuns` (`SyncReachesShell`), without a hypothesis: the property itself
  speaks of a sync begun before a shell with time for all that is queued.  The time that what
  is left still takes never exceeds what is left of the 6 s: it is the number of its characters
  (`Time`), and taking the first key off it is taking its characters off (`TimeOfFirst`).
  From queue to wire to line the keys stay in order, so `/bin/sync` comes behind the
  return that ends what the user had begun (`SyncComes`).
* `ExecWaits` (`ExecRunsToTheEnd`): `run_exec` passes four stages, before the
  boot, until the one prompt of a new shell is noticed, and from the command
  typed to its end (`Stages`); no prompt can reach it in the last one.
  Hypothesis `PrintsNoPrompt`: nor does the command print one; see the known limits.

**Packs** (`RebuildProofs`).  For every drive shape: sectors are placed within the
drive (`PlaceInDrive`) and never on one another (`PlaceIsOwn`); the arithmetic
does not wrap in 32 bits whatever an IOCB and a header hold (`PlaceFitsAWord`);
swap is large enough (`SwapIsEnough`); root and swap divide the unit
(`PartitionsDivideTheUnit`).  For the six drives of `mkdisk.py` a root partition
remains and the header is read back as written (`DrivesAreUsable`).
`RebuiltPackIsUsable`: for every shape with
room for a root and a header that holds it, not only the six.  `RInv` says what
has been written so far; that the file system ends before swap is the arithmetic
of `PartitionsDivideTheUnit`.

**Kernels** (`Coff2GenixProofs`, `KernelTraceProofs`).  `Loaded`: for every kernel
of any size; the invariant describes the a.out as the padded text followed by the
data, so that each address has one index in it.  `TraceKeepsThePath`: for every
log; the invariant says that what is kept is in the order of the log and that
each fetch passed over is at most eight bytes past the last one kept before it.

`EverySymbolListed`: for every table.  `SymInv` says of the entries read so far that
those wanted are in one-to-one correspondence with the list, and that the next
one to be read is no auxiliary entry.  That sorting keeps the correspondence
and puts the list in order (`SortRearranges`, `SortAscends`) needs that there is an
order that sorts: the place of a symbol is the number of those ahead of it, equal
ones as they come (`SomeOrderSorts`).
`NearestIsNamed` follows, for in an ascending list those at or below an address
are the first ones.

**File systems** (`MkfsProofs`).  `MkInv` speaks of the tree `build` keeps, at
every moment between two calls.  The inodes in use are those from 2 up to the
next one, each with its type, and every directory a list of entries that name
inodes in use (`TreeInv`); of every inode the link count is the number of places
that name it (`Counted`); no block number in an inode lies beyond the next block
(`InBlocks`); and i-list and superblock say what the tree says.  There is a lemma
for each thing done to a tree: a new inode, a new entry, a link more, a new
directory with its parents (`NewDir`, `GetDir`), a new file or node
(`NewNamed`), a further name (`NewName`), data stored (`DataStored`).  `NewDir` is
where the count could go wrong: the parent is counted once for the `..` of
the new directory, and the new one twice, for its `.` and its entry.  From `MkInv` follow
`AllocatorsStayInside` (`TypeOK`), `LinkCountsRight` (`LinksCounted`) and
`FreeInodesRight` (`InodesAccounted`), for any size of the image and any input.

`StoreInv` (theorem `StoreInvariance`) speaks of the image.  All that was
written, and `written` remembers what, is in it where its inode says (`Kept`); the
blocks of any two files lie apart, and together they fill the image up to the next
block (`Tiled`), behind which it is untouched (`Untouched`).  `Untouched` is needed
for files that end in the middle of a block of block numbers: their zeros are
those of a fresh image.  The files are written as they come and the directories
at the end, so until then a directory is written nowhere, and later as it stands in
the tree (`DirsInv`, `DirsWritten`).  At last the free list holds what is left:
a piece in memory (`Ahead`), and behind it pieces of `NICFREE`, each in the block
its predecessor ends with (`FreeListed`).  The pieces are a set of blocks that each lead
to the next, as the links of a chain are in `DcuDriverProofs`.

* `WhatWasPutInComesOut` (`RoundTrip`).  `ReadBack` is the lemma for one file: what
  `data` joins from the direct blocks, the single indirect block and the blocks of
  the double indirect one is the text in pieces of a block (`Span`), whatever
  its length.  That the loop of `data` ends at the first zero of the double
  indirect block (`UpToZeroIs`), and that a triple indirect block is never needed
  (`Inner(...) <= NINDIR` in `Holds`, from the check in `store_data`), is where it could go wrong.
  `InodeRead` adds the three bytes of a block number; no slot of a directory is of
  inode 0, so `readdir` gives all of them, in order (`AllInUse`).
* `EveryBlockOnce` (`BlocksAccounted`).  A list holds a set once (`Once`) when it has
  just its members and no more places.  Lists of sets that lie apart join to a
  list of the union (`OnceJoin`, `OnceFlat`).  So the blocks of one file are its extent once
  (`BlocksOfOnce`), those of all files what lies below the next block
  (`UsedOnce`), and what `alloc()` hands out is the rest (`AllocOnce`), piece by piece
  from the last (`AllHanded`).
* `TheTreeComesBack` (`Extracted`).  It needs that names and tree agree,
  `FormedInv` (theorem `FormedInvariance`): every directory stands under its last name
  in the one above (`Placed`), and a special file keeps the device number of the
  spec (`Nodes`).  By levels, `walk` then reports from each directory just what has a
  name below it, as far down as the level says (`Finds`, `NextLevel`,
  `WalkIs`); no name is reported for two inodes, and no directory has two
  names, unless the spec says so, which `Extracted` excludes with `Plain`
  (`OneOfAName`, `NamedDir`).  `s5extract.py` makes of a list of such reports,
  in any order, the tree of those seen so far (`Growing`, `ExtractedOne`): the
  directories a file needs are made by `os.makedirs`, and none of them is a file.
  Hypothesis `Depth <= WalkDepth`: the directories put in lie no deeper than
  `walk` goes down; see the known limits.

**How recursion is dealt with.**  What is computed by a recursive function on
numbers (`getdir`, the free list, the jobs of a chain, `alloc()`, `walk`, the
extraction) is proved in two steps.
First, that there is a function with the values the definition asks for, so
that the definition may be used as an equation (`MadeDirs`, `FreedInOrder`,
`AllocFrom`, `WalkOf`, `HostOf`); then,
that what holds of its value for 0 and is kept from each number to the next
holds of all.  Both are induction over a set of numbers, which is a fact of
set theory about cardinalities (`UpTo`) and needs no induction rule.

### Only model-checked

* Liveness: `EveryCommandCompletes`, `LeavingFreesThePack`, `GenixComesUp`,
  `CheckPasses`.  Proofs would need ENABLED, which is out of the prover's reach.

Every safety property a passing run checks is stated by a theorem.  Where a theorem
has a hypothesis the run has not, it is named above; `Extracted` holds in the run
because `Mkfs.cfg` gives `Depth` and `WalkDepth` one value.

## 6. Not modelled

* The memory map, boot view, DCR, NMI and option registers: wiring of MAME
  devices, without a decision that depends on more than the last write.
* `build.sh`, `mkroot.sh`: what they do is done by git, make and cp.
* The patches: they lead to `sys16.cpp`, which is modelled as it is.
* Of the tools, what has no part in a decision: permission bits but for execute,
  owners, times, long symbol names, usage messages, and how many lines of a
  trace are printed.
* A socket that refuses a byte while the emulator runs: at eight keys a second
  its buffer would have to be full.
* Saved states: what of a timer is saved is MAME's.
* A cyclic IOCB chain, which `dcu_transfer` follows for ever: the drivers are
  assumed not to build one.
