------------------------------ MODULE RunMulti ------------------------------
(***************************************************************************)
(* xcheck/run-multi.sh: power and activity of several applications at once *)
(* on the board.  The script on the host sleeps through a timetable; the   *)
(* power monitor, perf and one worker loop per application run beside it,  *)
(* on the board's clock.  A worker stops launching at a deadline but lets  *)
(* its last iteration finish, and then leaves its count in /tmp/it.<app>.  *)
(* Time is in units; whatever is due happens before the next unit, and     *)
(* things due at once happen in any order.                                 *)
(***************************************************************************)
EXTENDS Naturals, Sequences

CONSTANTS
  NApps,          \* run |-> number of applications it starts
  PreRoll,        \* sleep before the launch (3 s)
  APPDUR, WARMUP, WINDOW, CAP,
  KillAfter,      \* timeout's -k: it may take this long to end the monitor (5 s)
  Settle,         \* sleep before the counts are collected (6 s)
  MaxLatency,     \* bound: what an ssh call may take to act
  MaxIteration,   \* bound: the longest iteration of an application
  NoRun           \* no count in a file

Run == DOMAIN NApps

ASSUME RunMultiAssumption ==
  /\ NApps \in Seq(Nat \ {0}) /\ NApps # <<>>
  /\ {PreRoll, APPDUR, WARMUP, WINDOW, CAP, Settle, MaxIteration} \subseteq Nat \ {0}
  /\ {MaxLatency, KillAfter} \subseteq Nat
  /\ NoRun \notin Nat

(* The script's numbers leave room for ssh calls of up to six seconds: the *)
(* applications outlast the window, and the monitor does too.              *)
ASSUME TimetableAssumption ==
  /\ WARMUP + MaxLatency + WINDOW < APPDUR
  /\ PreRoll + MaxLatency + WARMUP + MaxLatency + WINDOW <= CAP

AppsOf(r) == 0 .. NApps[r] - 1
App == UNION {AppsOf(r) : r \in Run}

VARIABLES
  now,
  longest,        \* the longest iteration of this campaign's applications
  run, pc, wake,  \* the script: its run, its position, when it goes on
  started,        \* when the run began
  bcuEnd,         \* when `timeout` ends the power monitor
  deadline,       \* run |-> E, after which its workers launch nothing
  launched,       \* the runs whose launch got through to the board
  perf,           \* "counts" while it runs on the board
  workers,        \* the loops on the board: [run, app, until]
  it,             \* /tmp/it.<app>: the run whose count it holds
  iters           \* run |-> app |-> the run whose count was collected

boardVars == <<deadline, launched, workers, it>>
vars == <<now, longest, run, pc, wake, started, bcuEnd, perf, boardVars, iters>>

Latency == 0 .. MaxLatency

Init ==
  /\ now = 0 /\ longest \in 1 .. MaxIteration
  /\ run = 1 /\ pc = "monitor" /\ wake = 0 /\ started = 0
  /\ bcuEnd = 0
  /\ deadline = [r \in Run |-> 0]
  /\ launched = {} /\ perf = "none" /\ workers = {}
  /\ it = [a \in App |-> NoRun]
  /\ iters = [r \in Run |-> [a \in App |-> NoRun]]

-----------------------------------------------------------------------------
(* The script.                                                             *)

Due(position) == pc = position /\ now = wake

Sleeps(position, units) == pc' = position /\ wake' = now + units

(* The monitor starts in the background, and the launch follows PreRoll.   *)
(* `timeout` signals it after CAP, and kills it KillAfter later.           *)
StartMonitor ==
  /\ Due("monitor")
  /\ bcuEnd' \in now + CAP .. now + CAP + KillAfter
  /\ started' = now
  /\ \E d \in Latency : Sleeps("launch", PreRoll + d)
  /\ UNCHANGED <<now, longest, run, perf, boardVars, iters>>

(* The board's script starts every application on a core of its own, and   *)
(* each goes on launching for so long.                                     *)
StartsWorkers(duration) ==
  /\ launched' = launched \cup {run}
  /\ deadline' = [deadline EXCEPT ![run] = now + duration]
  /\ \E until \in [AppsOf(run) -> now + 1 .. now + longest] :
       workers' = workers \cup {[run |-> run, app |-> a, until |-> until[a]] : a \in AppsOf(run)}

(* Mutant: the applications run no longer than the window. *)
LaunchShort ==
  /\ Due("launch")
  /\ it' = [a \in App |-> NoRun] /\ StartsWorkers(WINDOW)
  /\ \E d \in Latency : Sleeps("perf", WARMUP + d)
  /\ UNCHANGED <<now, longest, run, started, bcuEnd, perf, iters>>

(* Mutant: the counts of the run before are not removed. *)
LaunchKeeping ==
  /\ Due("launch")
  /\ StartsWorkers(APPDUR)
  /\ \E d \in Latency : Sleeps("perf", WARMUP + d)
  /\ UNCHANGED <<now, longest, run, started, bcuEnd, perf, it, iters>>

(* Old counts are removed, then the applications are started. *)
Launch ==
  /\ Due("launch")
  /\ it' = [a \in App |-> NoRun] /\ StartsWorkers(APPDUR)
  /\ \E d \in Latency : Sleeps("perf", WARMUP + d)
  /\ UNCHANGED <<now, longest, run, started, bcuEnd, perf, iters>>

(* The ssh fails, which the script does not look at: nothing is removed    *)
(* and nothing started.                                                    *)
LaunchFails ==
  /\ Due("launch")
  /\ \E d \in Latency : Sleeps("perf", WARMUP + d)
  /\ UNCHANGED <<now, longest, run, started, bcuEnd, perf, boardVars, iters>>

(* perf counts for WINDOW; or this ssh fails, unnoticed too.               *)
StartPerf ==
  /\ Due("perf")
  /\ \/ perf' = "counts" /\ Sleeps("window", WINDOW)
     \/ perf' = "none" /\ \E d \in Latency : Sleeps("window", d)
  /\ UNCHANGED <<now, longest, run, started, bcuEnd, boardVars, iters>>

(* perf is over: the frequency is read, the monitor waited for, and the    *)
(* workers are given Settle to finish.                                     *)
EndPerf ==
  /\ Due("window")
  /\ perf' = "none"
  /\ \E d \in Latency :
       LET read == now + d
       IN  Sleeps("collect", (IF read < bcuEnd THEN bcuEnd ELSE read) - now + Settle)
  /\ UNCHANGED <<now, longest, run, started, bcuEnd, boardVars, iters>>

(* The counts are read, or the ssh for them fails. *)
Collect ==
  /\ Due("collect")
  /\ iters' = [iters EXCEPT ![run] = it] \/ UNCHANGED iters
  /\ IF run + 1 \in Run
     THEN run' = run + 1 /\ Sleeps("monitor", 0)
     ELSE UNCHANGED run /\ Sleeps("done", 0)
  /\ UNCHANGED <<now, longest, started, bcuEnd, perf, boardVars>>

Script == StartMonitor \/ Launch \/ LaunchFails \/ StartPerf \/ EndPerf \/ Collect

-----------------------------------------------------------------------------
(* The workers, and time.                                                  *)

(* The deadline bounds only the launch of an iteration. *)
IterationEnds(w) ==
  /\ w.until = now
  /\ IF now < deadline[w.run]
     THEN /\ \E len \in 1 .. longest :
               workers' = (workers \ {w}) \cup {[w EXCEPT !.until = now + len]}
          /\ UNCHANGED it
     ELSE workers' = workers \ {w} /\ it' = [it EXCEPT ![w.app] = w.run]
  /\ UNCHANGED <<now, longest, run, pc, wake, started, bcuEnd, deadline, launched, perf, iters>>

Tick ==
  /\ pc # "done" /\ now < wake
  /\ \A w \in workers : now < w.until
  /\ now' = now + 1
  /\ UNCHANGED <<longest, run, pc, wake, started, bcuEnd, perf, boardVars, iters>>

Finished == pc = "done" /\ UNCHANGED vars

Next == Script \/ (\E w \in workers : IterationEnds(w)) \/ Tick \/ Finished

Spec == Init /\ [][Next]_vars

-----------------------------------------------------------------------------
(* The shape of the state. *)
TypeOK ==
  /\ now \in Nat /\ longest \in 1 .. MaxIteration
  /\ run \in Run /\ wake \in Nat /\ started \in Nat /\ bcuEnd \in Nat
  /\ pc \in {"monitor", "launch", "perf", "window", "collect", "done"}
  /\ deadline \in [Run -> Nat] /\ launched \subseteq Run /\ perf \in {"counts", "none"}
  /\ workers \subseteq [run : Run, app : App, until : now .. now + MaxIteration]
  /\ it \in [App -> Run \cup {NoRun}]
  /\ iters \in [Run -> [App -> Run \cup {NoRun}]]

(* An iteration begun just before the deadline is over before the counts   *)
(* are collected, however late the launch.                                 *)
ShortIterations == PreRoll + MaxLatency + APPDUR - 1 + longest < CAP + Settle

(* "the 20 s perf window sits INSIDE that span, so counters and power      *)
(* describe one homogeneous phase" (lines 11-12): while perf counts, just  *)
(* the run's applications are running, every one of them, or no worker at  *)
(* all when their launch failed, and the monitor is recording.             *)
HomogeneousPhase ==
  pc = "window" /\ perf = "counts" =>
    LET mine == IF run \in launched THEN {run} \X AppsOf(run) ELSE {}
        running == {<<w.run, w.app>> : w \in workers}
    IN  /\ ShortIterations => running = mine
        /\ mine \subseteq running
        /\ now <= started + CAP

Expected(r) == [a \in App |-> IF a \in AppsOf(r) THEN r ELSE NoRun]
Unread == [a \in App |-> NoRun]

(* The counts that a launched run reports, if it could read them, are its  *)
(* own, one for each of its applications, and none of a worker of an       *)
(* earlier run that finished late.                                         *)
CountsAreOwn ==
  ShortIterations =>
    \A r \in launched : r < run \/ pc = "done" => iters[r] \in {Expected(r), Unread}

=============================================================================
