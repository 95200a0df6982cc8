# Verification of wattson

wattson estimates the power of an i.MX95 from an emulator: QEMU with counting
plugins produces an *activity vector* (instructions, cache refills, DRAM writes),
a power model fitted on a real board turns it into milliwatts, and measurement
campaigns establish how far the emulator's counts are from the silicon's. Much of
it is arithmetic on files. What can go wrong without anyone noticing is the rest:
plugin callbacks that run in several threads, scripts that drive a board they
cannot see, programs that wait for an interrupt, timetables held together by
sleeps, transfers that run beside a recording, campaigns that are killed and
resumed, and a presentation that a program and a person edit in turn. This
directory models those parts in TLA+, checks them with TLC, and proves the central
properties with TLAPS for every value of the parameters.

## The system

| part | source | state it keeps | operations | what must be right |
|---|---|---|---|---|
| cache plugin | `xcheck/patches-cache-l3-wstream.patch` | the lines of each cache level, its counters and mutexes; per core a store-stream detector; two global DRAM-write counters | a callback per load, store and instruction fetch, on each vCPU's thread; a report at exit | refills conserved from level to level, mutexes released on every exit, real streams detected, a line's DRAM write counted once |
| board runner | `calibrate/run-on-frdm.sh` | a capture file of the console, a position in it, counters of two loops | drain, reboot over ssh or through the System Manager, stop the autoboot, load, jump, restore Linux | only live output is believed, `go` only into a loaded image, the board is given back |
| duty-cycle workload | `workloads/bench-duty.S` | interrupt controller, timer, windows left | bring-up, active phase, halted phase, power-off | both phases keep their length; no WFI sleeps for ever or ends early |
| WFI diagnostic | `workloads/bench-wfi-diag.S` | the same, and a bounded poll | read back each setting, poll the timer, WFI | the answers are true, and a hang is the board's |
| busy window | `xcheck/busywin.py` | the two rails' samples, one pass over their bins | read the rows, medians, threshold, scan, trim, power in the window | the longest plateau is found, the window lies in it, and both rails' power is of the same rows |
| multi-application run | `xcheck/run-multi.sh` | a timetable; per application a count file on the board | start monitor, launch, perf, wait, collect | perf's window contains the applications and nothing else; counts belong to the run that reports them |
| validation campaign | `xcheck/validate50.sh`, `silicon50.sh`, `compare50.py`, `run-qemu.sh`, `run-perf.sh`, `run-ddr.sh` | four result files per application | resume, measure, join | nothing is skipped that has no result; the verdict rests on whole results |
| activity harness | `harness/run-activity.sh`, `parse_activity.py`, `estimate_power.py` | the plugins' log, the vector | run with a timeout, check, parse, join to a power model | the vector is what the machine did; an estimate that is not whole says so |
| batch extraction | `afgen/afgen.sh` | the manifest's position, `SUMMARY.tsv` | two passes per application | one vector per application |
| register and stream workloads | `workloads/bench-alu.S`, `bench-mem.S` | loop counters | counted loops, power-off | fixed work |
| Linux load generator | `workloads/linux/bench.c`, `probe.c` | worker threads, a stop flag, counters | timed loops, a grid of threads | rates over the time they were measured in |
| network sweep | `xcheck/run-network.sh`, `board_load.py`, `host_ep.py` | a connection per load, a byte count and a clock | idle, send and receive at a target rate inside a monitored window; a thread per connection at the endpoint | the load keeps its rate and its place in the capture, its line tells what it did, everything ends |
| power presentation | `xcheck/make_power_deck.py`, `deck_edit.py` | a generated deck, a base edited by hand, the deck made from it | generate, edit, adopt, eleven deltas, reorder, number, save | no slide lost or doubled, pages right, retired claims gone |
| OpenMP kernels | `xcheck/apps/microbench_mt.c` | partial results | parallel loops | totals independent of the thread count |
| system-mode runs | `xcheck/run-system.sh`, `run-system-x2b.sh`, `compare_sys.py` | the plugins' log | boot one application, parse | as the harness |
| reports, sheets, figures | `xcheck/compare.py`, `compare_mt.py`, `make_deck.py`, `make_xlsx.py`, `make_scatter.py` | none beyond their output | ratios, tables, slides | wording and arithmetic |
| calibration | `calibrate/calibrate.py` | none | a stub | makes up nothing |
| drivers and data | `xcheck/microbench.c`, `xcheck/apps/`, `schema/`, `models/`, `samples/` | none | benchmark bodies; schemas | |

How they meet. Emulated runs (harness, afgen, campaign, system mode) load the
cache plugin and read what it prints when QEMU exits; images for them and for
the board runner are the bare-metal workloads. Board runs (multi-application,
network) are framed by an external power monitor whose capture the busy-window
code reads afterwards; the deck programs read the tables of results that are
written down from there. The campaign's scripts run on two machines and meet in a
directory. Nothing in the system talks to another part through anything but a
file, a log, a console or a pipe; time and order are all that connects them.

## The modules

| module | extends | models | run |
|---|---|---|---|
| `CachePlugin`, `CachePluginProofs` | | the plugin | `MCCachePlugin`: `cache_private`, `cache_shared_burst` |
| `FrdmRun`, `FrdmRunProofs` | | the board runner | `frdm`, `frdm_go` |
| `GicTimer` | | interrupt controller, timer and bring-up shared by two workloads | |
| `DutyCycle` | | what the header of the duty-cycle workload promises | |
| `BenchDuty` | `GicTimer`, instantiates `DutyCycle` | the duty-cycle workload | `duty` |
| `WfiDiag` | `GicTimer` | the diagnostic | `wfidiag` |
| `WorkloadProofs` | both workloads | theorems about them | |
| `Lists` | | the list that a loop builds by appending | |
| `RailCapture` | `Lists` | the capture: rows, samples, bins, threshold, rail power | |
| `BusyPlateau` | `RailCapture` | what `window()` promises, in one step | |
| `BusyWindow` | `RailCapture`, instantiates `BusyPlateau` | `rails()`, `window()`, `busy_power()` | `MCBusyWindow`: `busywin` |
| `RunMulti`, `RunMultiProofs` | | the multi-application run | `MCRunMulti`: `multi` |
| `NetworkRun`, `NetworkRunProofs` | | the network sweep, load and endpoint composed | `MCNetworkRun`: `network` |
| `Campaign50`, `Campaign50Proofs` | | the campaign, both scripts and the comparison composed | `campaign` |
| `ActivityRun`, `ActivityRunProofs` | | the harness, QEMU and the three programs composed | `MCActivityRun`: `activity` |
| `PowerDeck` | `Lists` | generator, maintainer and `deck_edit.py` composed | `powerdeck` |
| `ReportingProofs` | `BusyWindow`, `PowerDeck` | theorems about both, which build lists in the same loops | |

In the modules a definition that follows the comment `Mutant:` is not used by the
specification. It is a variant with a plausible mistake, put in the place of the
definition after it to see that a property notices.

### CachePlugin

`lines`, `accesses`, `misses` are the `Cache` structures per level and core, `l1Lock`
the one array of mutexes that is held across a branch, `ws_*` and `wstream_*` the
patch's variables under their names; `pc` and `op` say where each vCPU's thread is in
its callback. A critical section that is straight-line code is one action. The store
path of `vcpu_mem_access` is split where another thread can run in between: the probe
(`ProbeHit`, `ProbeMiss`, patch lines 65-82), its two exits (`LeaveStreaming`,
`LeaveKeeping`), the probes of the outer levels, and the unlocked check, atomic add and
assignment (`CheckLastLine`, `CountDramWrite`, `AssignLastLine`, lines 96-99). Then the
ordinary path: L1, L2, L3, each under its own mutex. Lines are addresses divided by the
block size; which block the replacement policy evicts is left open, so what holds,
holds for LRU, FIFO and random alike. An access to a device is not issued: the upstream
callback returns at once for it, before the lines of the patch. The history variables
`begun`, `lastBurst` and `recent` only record.

### FrdmRun

The script, the background `cat` of the console, and the board take turns without
any synchronisation: each `sleep` of the script is a point where the board may
take any number of steps. `tty` holds the lines the bridge has yet to deliver,
`live` what the script's function `live` would print, each line marked with
whether it was printed before or after the drain. The board (countdown, prompt,
loading, Linux, the running image, and the *second boot* that the script's notes
report after a reset by the System Manager) is external, modelled from those
notes. Whether ssh answers is decided once, since it decides between one boot and
two; the second ssh, whose status the script throws away, may still fail, and the
`reboot -f` it leaves in the background comes when the script is already typing.
The reader may reach its time limit at any point after the drain, and is killed with
the restore. `Steady` is an assumption about the bridge, not something the script
sees to: while it holds old lines it delivers one in each 3 s round of the drain, so
that a file that did not grow means an empty bridge. A bridge that pauses for a
round while it still holds lines makes line 55 take old output for live; that case,
like a backlog longer than the twenty rounds, is outside `LiveIsFresh` and
`SingleBootGo`.

### GicTimer, DutyCycle, BenchDuty, WfiDiag

Each register write of the bring-up is an action that sets one of eight `Settings`,
and an interrupt is delivered only with all of them. The timer's line is level
sensitive: the redistributor takes up a change of it later than the program's next
instruction, but before the counter's next tick (`Sample`, `Settled`). This is what
makes a stale pending interrupt possible and `disarm` worth modelling. `BenchDuty`
runs on a good board, with chunks of the active phase taking any of `ChunkTicks`:
the same binary at the speed of silicon and of an emulator. `DutyCycle` is the sweep
of the program's header without timer or interrupts: windows of an active phase,
which ends at the first look at the counter after `ActiveTicks`, and of a halted
phase of single ticks, which ends with the last tick that leaves the duty cycle at
DUTY percent or above. `BenchDuty` is mapped to it by position: from the first chunk
to the last look the phase is active and `spent` is `now - began`; from the setting
of the timer to the disarm it is halted and `spent` is `now - idleFrom`; everything
else lies between windows. `WfiDiag` runs on boards that may refuse any of the
eight settings, whether it reads them back or not, leave the redistributor asleep, or
have a timer that does not count.

### RailCapture, BusyPlateau, BusyWindow

A capture is a sequence of rows, each as wide as the header or not, each rail's
reading a number or `None`. `ArmRead` and `SocRead` are the two `append`s inside one
`try`: a row whose arm parses and whose soc does not leaves the lists of different
length, and `zip` and the slices go on with what there is. The bins, the 10th and
90th percentile and the threshold are computed from it in integers: medians are
doubled, and 0.35 is 35/100 of a sum taken a hundred times. `BusyPlateau` is the
promise of the docstring as a state machine of one step: the longest run of bins
above the threshold, the first of several, trimmed; or the error for a capture that
is too short or has none. `BusyWindow` has one action per iteration of the scan,
with the variables of the code, and is shown to implement it (`FindsPlateau`, with
the mapping `answer <- Answer`, which is empty until the code returns or raises).

### RunMulti

One clock. The script's sleeps are due times; an ssh call takes up to
`MaxLatency`, an iteration of an application up to `longest`, chosen once. The
workers on the board test the deadline before an iteration only, as the shell
loop does, and write `/tmp/it.<app>` when the last one is over. The script looks at
no status of its ssh calls (lines 36-42), so each may fail unnoticed: `LaunchFails`,
and the second alternatives of `StartPerf` and `Collect`. A call that fails returns
within the same `MaxLatency`; one that hangs for longer only moves the rest of its run
away from the monitor, and is outside. `timeout -k 5` may take until five seconds
after `CAP` to end the monitor (`KillAfter`), which is counted on to record until
`CAP` only; a `bcu` that dies earlier is not modelled.

### NetworkRun

Time is in units, and data in what the target rate carries in one unit, so that `sent >
Elapsed` is the code's `sent > want`. The script sleeps, starts a load by an ssh call
that takes up to `MaxLatency`, waits for the monitor, which its `timeout` has ended by
then if the load outlasted it, and sleeps on from there (`Waits`). The load is the loop
of `board_load.py`: the deadline is looked at in `Loop`, one call moves data (`SendAll`
waits for room for its whole chunk, `Recv` takes what is there), `Pace` sleeps off the
lead up to `Nap`. A call, and `create_connection`, which has no time-out, may take any
time up to `MaxClock`. The endpoint has a backlog and a handler per connection, and may
die with its connections and be started again. A send to a closed peer raises, so the
sweep's `grep` finds no line; a receive returns nothing, so the load prints its line
early.

### PowerDeck

A slide is what the deltas look for: its title, the claims it makes in the wording
they search for (`says`) or in another (`own`), what its tables show, its page box.
Deltas are actions in the order of the program, and address slides by the positions
written in the code; what they do not find is passed over, and what they index
beyond the deck, a slide without a table (five titles have none) or with too short a
one, or a missing column, ends the program with the copy in `DECK`. The copy and the
save are two actions each, since the file is emptied before it is written: a run
stopped in between leaves a `DECK` that does not open. All sentences of a slide that
make one claim are one member of `says`; no property tells them apart.
Between runs the maintainer adds, removes, moves and rewords slides in any of the
three files, and adopts a deck as the next base. The specification is `DeckSpec`.
`reorder()` is two lists of positions, each built by the loop of `Lists`: those
found for the titles in its list and the others. `Committed` is the base in the
repository; the wording and titles are those of its slides.

### Campaign50

A result file is absent, empty (a redirection has created it), whole, whole but
without the counts it is for, with the counts of an application that died, or not
JSON. Each redirection is an action of its own, before the action in which the
program fills the file, so that a kill or a comparison may come in between. The two
scripts may be started again after they ended or were killed, and the applications
rebuilt while neither runs. `Readers` are the lines whose application reads its
standard input, which is the loop's: it takes the rest of the list, and the loop is
over. No application of `manifest50.txt` does; the model allows it. `Verdict` is what
`compare50.py` would print in a state: it reads the files and changes none of them,
so that it holds at whatever moment it is run is an invariant. Of a ratio it says
whether there is something to divide; whether it is above the noise floor is left
out. `build`, in each result, and `cut` are history.

### ActivityRun

QEMU retires instructions until the image powers the machine off or `timeout`
sends SIGTERM; then each plugin prints in one write, in either order; or QEMU
crashes. `Grep`, `Parse` and `Estimate` are the three programs' uses of that log.
A vector is a function from dotted keys to quantities, so `dig` is membership in
its domain, and the keys of its objects are in `Objects`. It has every quantity of
`parse_activity.py`, with rates in thousandths; the keys below an object of a vector
(`cores.insns_by_cpu.0`) and the wall clock, which lies outside what `dig` sees, are
left out. A unit declared in a term is not looked at, as in the code. A file without
the schema of a power model is refused before any of this (`NotAModel`).

## What the runs show

**cache_private** (two vCPUs with a core each, three callbacks per vCPU, streams of
two, a one-block L1 and two-block outer levels). `MissFlow`: L2 is accessed once
per L1 miss and L3 once per L2 miss, up to accesses in flight. `EachAccessOnce`:
the streaming path and the allocating path count an access once between them.
`StreamsAreRuns`: a store streams only after a run of adjacent missing lines of
its own vCPU. `OneBurstPerLine`: a line's DRAM write is counted once.
`LockDiscipline`: the probing section's mutex is held by who is in it, and by
nobody after either exit. `ReportBalanced`: the exit report agrees with the
counters of all cores. Three stores are the fewest that start a stream and continue
it, and the tiny geometry makes every level miss, hit and evict. Contention for one
core's mutex is in the violation run below, and in the proofs of `LockDiscipline`,
`MissFlow` and `EachAccessOnce`, which do not assume private cores.

**cache_shared_burst**, a violation of `OneBurstPerLine`: two vCPUs on one core
pass the unlocked check for the same line. The patch's comment says "one DRAM
write burst per line". User mode has one core.

**frdm** (drain of up to four rounds, up to three stale lines). `LiveIsFresh`:
nothing from before the drain is taken for live output. `SingleBootGo`: after a
reboot over ssh the script jumps only into its image. `ScriptEnds`,
`LinuxRestored`: it ends whatever the board does, and gives the board back, on
every refusal too. A longer backlog than the rounds allow would escape the drain,
whose loop gives up after twenty rounds, and so would one that pauses: the bounds
keep `MaxChecks` above `MaxBacklog` and the bridge `Steady`, and the theorems below
assume both.

**frdm_go**, a violation of `NoBlindGo`: after a System Manager reset the second
boot comes after both confirmations, which look at the whole capture, and the
script jumps to memory that nothing was loaded to.

**duty** (three windows, duties of 25, 50, 60 and 100 percent, chunks of one or
three ticks). `KeepsDuty`: the program is the sweep of its header. `DutyCycle`
states the halted phase by what it is for, U as close to DUTY percent as whole ticks
allow, and not by the quotient of line 165, so that the run compares two formulas; at
60 percent of these lengths the quotient is not whole and the rounding shows.
`NeverWokenEarly`: no halted phase is cut short. `ActiveInv`: an active phase
overruns by less than a chunk; the header calls the phases exact. `Completes`: every
WFI wakes and the board is switched off. `TypeOK` carries that the windows left are
counted down to zero.

**wfidiag** (1024 boards: any of the eight settings refused, the redistributor
asleep for ever or not, the timer running or not). `AnswersTrue`: each printed answer
is that of the board. `HangMeansBoard`: on a board without fault the program comes to
its end, so that a hang is put down to the board with reason (line 180). That the
answers explain the hang is not so, and the program does not claim it: it reads four
of the eight settings back, and lines 13 and 177 expect boards whose answers are all
good and that hang.
`ReachesWfi` is for boards whose redistributor wakes: the poll at lines 47-48 is
unbounded and comes before the answers, although line 7 says that every answer is
printed "BEFORE doing anything that can hang".

**busywin** (captures of eleven rows, one a second, over three powers with up to
three changes; captures of twelve rows with one broken row anywhere; one that is too
short). `FindsPlateau`: the scan implements the promise in one step. `LongestRun`:
what it holds at the end is the first of the longest plateaus. `WindowInPlateau`:
the window is non-empty and inside, trimmed from five bins on (shorter plateaus keep
their edges, which the docstring does not say). `SameRows`: both rails' power is of
the same rows, unless an earlier row had a readable arm and an unreadable soc.
Eleven bins put the percentiles at bins of their own and leave room for two
plateaus.

**multi** (two applications, then one; iterations of up to five units).
`HomogeneousPhase`: while perf counts, the monitor runs and so do all of this
run's applications, and no others if iterations are short enough; when their launch
failed, none do. `CountsAreOwn`: a
run whose launch got through reports its own counts, or none, as long as no iteration
outlasts the slack of the timetable. A run whose launch failed is excepted: the files
of the run before have not been removed, and the script reports their counts under the
new tag. In the code's numbers the slack is nine seconds, and iterations of four
to thirteen are reported: the condition is not idle.

**network** (an idle, a sending and a receiving load of four units; one death of the
endpoint anywhere; a connection that holds four units). `PaceHeld`: a load is never
ahead of its rate by more than one call, if one call is worth no more than the longest
sleep. That condition fails for the committed `rx250` run: one receive of 1 MiB is
worth 34 ms of 250 Mbit/s and the sleep is capped at 20 ms (`board_load.py:28-31`), so
the run went at 387.7 Mbit/s (`RESULTS-network.csv`). `InsideCapture`: a load leaves
the capture only if connecting and its last call together take all of what is left.
`LineTrue`: a line for less than the duration is a receiving load's whose endpoint went
away. `SweepEnds`, `HandlersEnd`: the sweep and the endpoint's threads come to an end,
if calls return: neither ssh nor the sockets have a time-out, so a peer that stays
silent stops the sweep for ever. Fairness excludes just that.

**campaign** (two applications, of which the first reads its standard input, three
starts, one rebuild). `NothingLost`: when `validate50.sh` is done, after any kills
and failures, every line it read has both results whole or its failure has been
printed, and it has read every line unless the last one's application took the
others. `PassesOfOneBuild`: the two passes that are joined are of one build, except
for a line cut off exactly between its passes. `VerdictWhole`: behind each ratio
there are counts, in files none of which is half written, and a line left out that
both scripts have read had its failure printed. Two lines are needed for a skip and
a resumption, three starts for a failure, a resumption and the board's results.

What these do not say: that a whole result has counts. When the plugin's line is not
the one `run-qemu.sh` looks for (line 34; the repository's patch prints such a line,
with four fields of six, at lines 166-169) the result has nulls and the exit status
is 0: no failure is printed, `validate50.sh` skips the line ever after, and
`compare50.py` prints a dash, the same as for a ratio below the noise floor. When the
application dies under perf, `|| true` hides that too, and the ratio of instructions
is of what it had done. A result without counts from perf ends `compare50.py` in a
TypeError at line 42. And after a rebuild the board's results and the emulator's may
be of different builds, because a finished line is skipped for good: remove `out50/`
when an application changes.

**activity** (two vCPUs, four images, four models, one of them a file that is none).
`VectorTrue`: the vector is what the machine did, with sum and rows not added twice.
Its number of cores is that of the lines, `count_seen`, and so of the machine's vCPUs.
`EstimateTrue`: an estimate without a warning charges every term for what was measured.
`HarnessEnds`: a run is over, whatever the image does. The third model asks for keys no
vector has, as `models/imx95.power-model.json` does (`cores.alu_mops_per_s` and the
others are not produced by `parse_activity.py`): joined to a vector of the harness it
yields its static power and a warning per term.

**powerdeck** (two edits by hand or adoptions, anywhere between runs; a kill at any
delta or in the middle of a copy or a save). `DeckWhole`: `DECK` does not open because a
run was stopped while it wrote it, or is the base it was copied from, or is that base
with the four new slides once each, whatever an earlier run or edit left there.
`PagesRight`: every page box shows its position. `ClaimsRetired`: a claim that the
deltas look for is gone from every slide that stood where they look. `ClosingLast`,
whatever the base was: the first slide of each title in the list of `reorder()`, the
new ones included, is before the closing slide, part 1 before part 2, and every other
slide behind it. So the closing slide is the last of a deck made from the twelve
slides only when "SeesNot" is the fifth and "Edge" the tenth: elsewhere their
retitling passes them over, and the old title has no place in the list. Two edits are
enough to move such a slide or to add one and reword another, or to adopt a deck and
edit it again.

### Disagreements without a run

* `deck_edit.py`'s docstring says that it edits the deck in place (line 2) and
  "detects slides it has already inserted and skips them" (line 9). The program
  overwrites the deck with the base first (line 22) and detects nothing, so a second
  run does no harm, but edits by hand in `DECK` are lost unless it is adopted.
  Adopting a *generated* deck as the base doubles the slides it already has, and a
  slide added in front makes every fixed position hit its neighbour, without a
  message.
* `make_power_deck.py` reads the columns `qemu_GBps`, `silicon_GBps` and `bw_err`,
  which the committed `RESULTS-activity.csv` no longer has: it cannot be run on it.
  `RESULTS-bandwidth.csv` is required by `deck_edit.py` and optional in
  `make_xlsx.py`. A slide whose title is not in the list of `reorder()` lands behind
  the closing slide: one of the maintainer's own, or the fifth or tenth when a delta
  that retitles it does not find it at its position.
* `make_deck.py` says at 379-380 that no number is typed by hand and pins two at
  line 44. The decks colour by rounded percentages, `make_xlsx.py` by the ratio.
* `estimate_power.py`'s docstring (lines 9-10) and the schema say that units are
  compared; line 49 joins on keys alone.
* A run that `timeout` cuts off is accepted by the harness: SIGTERM too makes QEMU
  exit in order and the plugins print (`run-activity.sh:8-9, 40, 43, 47`;
  `bench-duty.S:65-66` says what a run is for).
* `-nographic` puts the guest's console on the standard output that carries the
  vector, so an image that prints, as `bench-duty` does, may put text in front of
  the JSON.

### Fairness

`CachePlugin` states that a thread inside a callback goes on; that the guest issues
accesses is not assumed. Its runs check safety, and TLC's deadlock check that no
callback is stuck. `FrdmRun`: the script goes on after a sleep, the reader reads
while it runs, and the board gets on with its boots, the second one and a `reboot -f`
that got through included; that the loop which
types keys ends is strong fairness, since its deadline is one of real time.
`BenchDuty` and `WfiDiag`: the core executes and the counter counts, or the board
samples the line. `ActivityRun`: QEMU, the clock and the scripts go on; a crash is
never forced. `NetworkRun`: the script and the load go on when they can, time
passes, and the endpoint's listener and threads go on while it lives; that it dies
or is started again is never forced. `BusyWindow`, `RunMulti`, `Campaign50` and
`PowerDeck` state safety only. `PowerDeck` and `Campaign50` are checked without TLC's
deadlock check, since a maintainer may stop editing and an operator may start neither
script again; the others never stop but in a step that says they have finished.

## What is proved

For every value of the constants that satisfies the named assumptions of the
module. All proofs are by an inductive invariant, one step per action. The library's
induction theorems are of no use to these provers, since they take an operator as a
parameter. What a sum or an appending loop computes is proved instead from well-founded
induction on the set of the naturals for which it is so (`SetInduction`): the function
that the fold chooses exists for sets of up to n elements, or lists of n passes, and
then has the values that its equation says (`SumExists` and `TotalUnfolded`,
`PassesExist` and `AppendedUnfolded`).

* `CachePluginProofs`. `TypeCorrect`. `MutexDiscipline`: `LockDiscipline` is
  inductive with the type invariant. `RefillsConserved`: `MissFlow` is inductive once
  it is clear that a vCPU counted at a level is the one whose miss is in flight; the
  proof follows one vCPU joining or leaving the set `At(c, {"l2"})` and its
  cardinality. `CountedOnce`: `EachAccessOnce` in the same way, over the accesses
  begun and not yet counted; it needs that only a store is probed (`ProbedStores`),
  since a load in the streaming path would be counted twice. `OneBurst`:
  `OneBurstPerLine` under `PrivateCores`, which the violation run shows to be needed.
  It is not inductive: `BurstInv` adds what a thread knows between the check, the add
  and the assignment, which is that nobody else moves its core's `ws_last_wline`.
  `StreamDetected`: `StreamsAreRuns`, for every threshold, under `PrivateCores` too; the
  detector's `ws_streak` counts a tail of adjacent lines among the stores remembered, or
  as many as are remembered (`StreamInv`). `BalancedReport`: `ReportBalanced`, for every
  number of cores: the sums that the exit report prints are still those of the counters
  (`ReportInv`), each core misses no more than it accesses (`MissInv`), and each DRAM
  write, counted or under way, is of a counted store of its own (`WritesInv`).
* `ReportingProofs`, of the busy window. `ScanInvariant`: at each iteration the best
  run is the first of the longest closed so far, and `cur` starts the run that is
  open. `LongestFound` and `WindowFound` follow for captures of every length, and
  `ScanFindsPlateau` shows that `BusyWindow` implements `BusyPlateau`: iterations
  stutter, and the step that returns or raises is the promise's. It needs, besides
  the scan's invariant, that the code and the promise read the same bins
  (`InputInv`). `SameWindow` proves `SameRows`: two lists appended to from the same
  rows, one of them skipping some, agree up to the first row skipped (`SameUpTo`),
  and the window's samples are samples of the capture.
* `ReportingProofs`, of the deck. `DeckInvariant`, for any number of edits by hand, of
  any of the files, and a run of `deck_edit.py` that fails or is killed at any point.
  `SlidesInv`: slides are well formed, say only what their titles go with, and are
  distinct, but for those the deltas add. `EditInv`: at each delta the presentation in
  memory is `BASE` slide by slide, with the deltas so far and the slides added behind;
  it is what makes `DeckWhole` inductive, since `DECK` is saved once and at the end.
  `FinishedInv`: what `reorder()` and `renumber()` leave is what the properties say.
  The lemma `Reordering` shows that `reorder()` is a permutation, whatever titles there
  are: its first list has no position twice, because the titles in it are different,
  and its second has the other positions. `DeckIsWhole`, `PagesShowPositions`,
  `OldClaimsRetired` and `ClosingSlideLast` follow; for the last, the slides found come
  first, by ascending places, and no other has one (`PlacedFirst`), and twelve slides
  with twelve titles have each title once (`CompleteOnce`), so that all sixteen are
  found.
* `WorkloadProofs`, of the duty-cycle workload (one module, since both workloads
  extend `GicTimer`). `DutyTypeCorrect`. `QuietInvariant`: the timer is armed only
  around the WFI, and nothing is pending when it is armed, from which `HaltsInFull`
  (`NeverWokenEarly`) follows. `ActiveInvariant`: the chunk that runs began before
  the deadline, so the active phase overruns by less than a chunk. `DutyKept`: the
  program implements `DutyCycle`. It needs all of these, `RestInv` (the halted phase
  is measured from when the timer was set), and that line 165's quotient is the
  number of ticks that may be spent halted (`RestLasts`); each tick in the WFI is
  one of rest, and all that happens around the interrupt is a stutter. These hold
  for every number of windows, duty and execution speed.
* `WorkloadProofs`, of the diagnostic. `AnswersAreTrue` and `HangsAreTheBoards`, on
  every board; the second is the safety half of `HangMeansBoard`. The invariant says
  what the bring-up has yet to write (`GicInv`), and that each iteration of the poll is
  a tick, `now + polls = cval - ArmTicks + PollLimit` (`TimerInv`): with `PollLimit >
  ArmTicks`, giving up comes after the compare value, so "not running" is never said of
  a timer that runs.
* `FrdmRunProofs`, both from `LongDrain`: the drain loop has more rounds than the
  bridge holds lines, and the bridge is `Steady`; neither theorem is about every
  backlog. `LiveOutputIsFresh`: the loop's counter never passes the lines
  read plus one, so it ends on a quiet file or not at all (`DrainInv`), and what is
  captured or still waiting after it is fresh (`FreshInv`). `SingleBootIsSafe`: at each
  position `BootInv` relates what the board has printed since the reset, read or not,
  to what it is doing; after a single boot a prompt in the capture means the board is
  at its prompt.
* `NetworkRunProofs`. `TypeCorrect`, `CaptureHolds` (from `Clock`: when a load may
  begin to connect and its last call begin), `PacingHolds` (from `Lead`: a load is not
  ahead when a call begins, and a sleep takes all of its lead), `LinesTell` (from
  `Conns`: a connection closes on the board's side first as long as the endpoint
  lives).
* `RunMultiProofs`. `TypeCorrect`, `Homogeneous` and `CountsOwned`, from
  `TimetableAssumption`: the inequalities between pre-roll, warm-up, window,
  applications' duration, cap and latency that the script's numbers satisfy for ssh
  calls of up to six seconds. `Timetable` bounds how late each position is,
  `AllRunning` that no worker stops before the window does, `OwnInv` that, with short
  iterations, workers and files are of the present run when they are read.
* `Campaign50Proofs`. `TypeCorrect`; `ResumeLosesNothing`, for any list of
  applications and any number of starts: a line passed has both results, whole, or is
  in `failed`, and an empty file is never one that was passed (`ResumeInv`);
  `PairsOfOneBuild` (`BuildInv`: a prefetch result in place while the base pass runs is
  of the present build); `VerdictsAreWhole`, from `ResumeInv` and `BoardInv`, its
  counterpart for the board's script.

* `ActivityRunProofs`. `HarnessInvariant`, `VectorIsTrue` and `EstimateIsTrue`, for
  every number of vCPUs, every image and every power model, and wherever QEMU ends. The
  log is the lines of the plugins that have printed, of counts that no longer change
  (`LogInv`); the script parses only the log of a machine that is gone (`ScriptInv`);
  so each key of the vector is what the machine did (`VectorInv`), the sum over vCPUs
  that share a cache core included, and the estimate's terms are charged for that
  (`EstimateInv`).

Every safety and action property of the passing runs, and both refinements, are stated
by one of these theorems. Only model-checked are the liveness properties (`Completes`,
`ReachesWfi`, `HangMeansBoard`, `ScriptEnds`, `LinuxRestored`, `SweepEnds`,
`HandlersEnd`, `HarnessEnds`), since the prover cannot reason about fairness and
ENABLED. The two violations, `OneBurstPerLine` on a shared core and `NoBlindGo`, are
TLC's counterexamples; the theorems `OneBurst` and `SingleBootIsSafe` state what holds
without the shared core and the second boot.

## What is not covered

Hazards known and left without a property: a script killed after `go` leaves the
board in the image, since the exit trap only closes ports (`run-on-frdm.sh:45`);
the two of `afgen.sh` (a report that does not parse ends the loop, line 32; an
application that reads its standard input swallows the rest of the manifest, line 29);
the rates of a mixed grid in `bench.c:107`. Smaller ones: vCPUs that share a core
share its stream detector, which in user mode sees no stream in interleaved ones
(patch line 61); the diagnostic's second arming may meet the first one's interrupt
(`bench-wfi-diag.S:120`), which wakes it for the wrong reason; `compare50.py:15`
joins builds without knowing; `microbench_mt.c:23` drops the remainder of
`iters / n`, so that the work depends on the number of threads.

Not modelled, and why:

* `afgen/`, `workloads/linux/`, `xcheck/apps/microbench_mt.c`, the system-mode
  scripts: each is a component of its own, in this order of interest. `afgen.sh`
  would be a module of a manifest and two passes per line, with the abstract
  specification that every line ends with a vector or a message; the load generator
  one of threads and a stop flag; the kernels' totals a function of the number of
  threads; the system-mode runs a second front of `ActivityRun` without its check that
  the plugins have printed.
* `bench-alu.S`, `bench-mem.S`: counted loops that end in a power-off; `ActivityRun`
  has them as images that retire a number of instructions.
* Reports, sheets and figures: one pass from tables to a file written last,
  floating-point ratios and wording. `calibrate.py`: a stub that makes up nothing.
* Drivers of third-party libraries, schemas, samples: no state the system relies on.

Next in the proofs: an abstract plugin with atomic callbacks that `CachePlugin` with
private cores implements, and a one-step promise for `deck_edit.py`, from `BASE` to the
finished deck, that its eleven deltas implement.
