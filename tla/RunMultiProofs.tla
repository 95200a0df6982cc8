--------------------------- MODULE RunMultiProofs ---------------------------
(***************************************************************************)
(* Theorems about RunMulti, for every list of runs and every timetable     *)
(* that satisfies TimetableAssumption: what perf counts, and whose counts  *)
(* a run reports.                                                          *)
(***************************************************************************)
EXTENDS RunMulti, TLAPS

Position == {"monitor", "launch", "perf", "window", "collect", "done"}

(* All that the proofs need to know of the constants. *)
LEMMA Constants ==
  /\ {PreRoll, APPDUR, WARMUP, WINDOW, CAP, Settle, MaxIteration} \subseteq Nat \ {0}
  /\ MaxLatency \in Nat /\ KillAfter \in Nat /\ NoRun \notin Nat
  BY RunMultiAssumption

(* The runs and their applications. *)
LEMMA RunType ==
  /\ Run = 1 .. Len(NApps) /\ Len(NApps) \in Nat /\ 1 \in Run
  /\ \A r \in Run : NApps[r] \in Nat \ {0} /\ AppsOf(r) \subseteq App
<1>1. NApps \in Seq(Nat \ {0}) /\ NApps # <<>>
  BY RunMultiAssumption
<1>2. Run = 1 .. Len(NApps) /\ Len(NApps) \in Nat /\ Len(NApps) # 0
  BY <1>1 DEF Run
<1>3. \A r \in 1 .. Len(NApps) : NApps[r] \in Nat \ {0}
  BY <1>1
<1> QED BY <1>2, <1>3 DEF App

(* The numbers of the state. *)
Numbers ==
  /\ now \in Nat /\ wake \in Nat /\ started \in Nat /\ bcuEnd \in Nat
  /\ longest \in 1 .. MaxIteration /\ longest \in Nat
  /\ run \in Run /\ pc \in Position /\ perf \in {"counts", "none"}

Worker == [run : Run, app : App, until : Nat]

(* The shape of the state, a worker's iteration still to end, and no launch *)
(* of a run that is yet to come.                                           *)
Shape ==
  /\ Numbers
  /\ launched \subseteq Run
  /\ \A r \in launched : r < run \/ (r = run /\ pc \notin {"monitor", "launch"})
  /\ deadline \in [Run -> Nat]
  /\ workers \subseteq Worker
  /\ \A w \in workers : now <= w.until /\ w.until <= now + longest
  /\ it \in [App -> Run \cup {NoRun}]
  /\ iters \in [Run -> [App -> Run \cup {NoRun}]]

(* Until its launch, nothing of a run has got through to the board. *)
LEMMA NotYetLaunched ==
  ASSUME Shape, pc \in {"monitor", "launch"}
  PROVE  run \notin launched
<1>1. run \in Nat
  BY RunType DEF Shape, Numbers
<1> QED BY <1>1 DEF Shape

(* The workers a launch starts. *)
Started(until) == {[run |-> run, app |-> a, until |-> until[a]] : a \in AppsOf(run)}

(* The workers that a launch starts: one of this run per application, each *)
(* with an end within one iteration.                                       *)
LEMMA Launched ==
  ASSUME Numbers, NEW until \in [AppsOf(run) -> now + 1 .. now + longest]
  PROVE  /\ Started(until) \subseteq Worker
         /\ \A w \in Started(until) :
              /\ w.run = run /\ w.app \in AppsOf(run)
              /\ now + 1 <= w.until /\ w.until <= now + longest
         /\ \A a \in AppsOf(run) : \E w \in Started(until) : w.run = run /\ w.app = a
<1>1. \A a \in AppsOf(run) : until[a] \in Nat /\ now + 1 <= until[a] /\ until[a] <= now + longest
  BY DEF Numbers
<1>2. run \in Run /\ AppsOf(run) \subseteq App
  BY RunType DEF Numbers
<1>3. Started(until) \subseteq Worker
  BY <1>1, <1>2 DEF Started, Worker
<1>4. ASSUME NEW w \in Started(until)
      PROVE  /\ w.run = run /\ w.app \in AppsOf(run)
             /\ now + 1 <= w.until /\ w.until <= now + longest
  <2>1. PICK a \in AppsOf(run) : w = [run |-> run, app |-> a, until |-> until[a]]
    BY DEF Started
  <2> QED BY <1>1, <2>1
<1>5. ASSUME NEW a \in AppsOf(run)
      PROVE  \E w \in Started(until) : w.run = run /\ w.app = a
  <2>1. [run |-> run, app |-> a, until |-> until[a]] \in Started(until)
    BY DEF Started
  <2> QED BY <2>1
<1> QED BY <1>3, <1>4, <1>5

(* What the end of an iteration does to the worker and its file. *)
LEMMA Iteration ==
  ASSUME Shape, NEW w \in workers, IterationEnds(w)
  PROVE  /\ w.until = now /\ w.run \in Run /\ w.app \in App
         /\ UNCHANGED <<now, longest, run, pc, wake, started, bcuEnd, deadline, launched, perf, iters>>
         /\ \/ /\ now < deadline[w.run] /\ it' = it
               /\ \E len \in 1 .. longest :
                    workers' = (workers \ {w}) \cup {[w EXCEPT !.until = now + len]}
            \/ /\ ~(now < deadline[w.run]) /\ workers' = workers \ {w}
               /\ it' = [it EXCEPT ![w.app] = w.run]
  BY DEF IterationEnds, Shape, Worker

(* The same worker with a later end. *)
LEMMA Again ==
  ASSUME Numbers, NEW w \in Worker, NEW len \in 1 .. longest
  PROVE  /\ [w EXCEPT !.until = now + len] \in Worker
         /\ [w EXCEPT !.until = now + len].run = w.run
         /\ [w EXCEPT !.until = now + len].app = w.app
         /\ [w EXCEPT !.until = now + len].until = now + len
         /\ now + len \in Nat /\ now <= now + len /\ now + len <= now + longest
  BY DEF Numbers, Worker

(* The script starts with nothing launched. *)
LEMMA ShapeInit == Init => Shape
<1> SUFFICES ASSUME Init PROVE Shape
  OBVIOUS
<1>1. perf \in {"counts", "none"}
  BY DEF Init
<1>2. Numbers /\ launched = {} /\ workers = {}
  BY <1>1, Constants, RunType DEF Init, Numbers, Position
<1> QED BY <1>2, Constants, RunType DEF Init, Shape, Run

(* Every step keeps the types. *)
LEMMA ShapeStep ==
  ASSUME Shape, [Next]_vars
  PROVE  Shape'
<1> USE Constants DEF Latency, Due, Sleeps
<1>1. CASE StartMonitor
  BY <1>1 DEF StartMonitor, boardVars, Shape, Numbers, Position
<1>2. CASE Launch
  <2>1. PICK until \in [AppsOf(run) -> now + 1 .. now + longest] :
          workers' = workers \cup Started(until)
    BY <1>2 DEF Launch, StartsWorkers, Started
  <2>2. Numbers' /\ longest' = longest /\ now' = now
    BY <1>2 DEF Launch, Shape, Numbers, Position
  <2>3. deadline' \in [Run -> Nat] /\ it' \in [App -> Run \cup {NoRun}] /\ iters' = iters
    BY <1>2 DEF Launch, StartsWorkers, Shape, Numbers
  <2>5. launched' = launched \cup {run} /\ run' = run /\ pc' = "perf" /\ run \in Run
    BY <1>2 DEF Launch, StartsWorkers, Shape, Numbers
  <2>4. /\ workers' \subseteq Worker
        /\ \A w \in workers' : now <= w.until /\ w.until <= now + longest
    <3>1. \A w \in Started(until) : now <= w.until /\ w.until <= now + longest
      <4>1. \A w \in Started(until) : w.until \in Nat /\ now + 1 <= w.until /\ w.until <= now + longest
        BY Launched DEF Shape, Worker
      <4> QED BY <4>1 DEF Shape, Numbers
    <3> QED BY <2>1, <3>1, Launched DEF Shape
  <2> QED BY <2>2, <2>3, <2>4, <2>5 DEF Shape
<1>3. CASE LaunchFails
  BY <1>3 DEF LaunchFails, boardVars, Shape, Numbers, Position
<1>9. CASE StartPerf
  <2>1. perf' \in {"counts", "none"} /\ pc' = "window" /\ wake' \in Nat
    BY <1>9 DEF StartPerf, Shape, Numbers
  <2> QED BY <1>9, <2>1 DEF StartPerf, boardVars, Shape, Numbers, Position
<1>4. CASE EndPerf
  <2>1. perf' \in {"counts", "none"} /\ pc' = "collect" /\ wake' \in Nat
    BY <1>4 DEF EndPerf, Shape, Numbers
  <2> QED BY <1>4, <2>1 DEF EndPerf, boardVars, Shape, Numbers, Position
<1>5. CASE Collect
  <2>4. perf' \in {"counts", "none"} /\ run' \in Run /\ pc' \in Position /\ wake' = now
    BY <1>5 DEF Collect, Shape, Numbers, Position
  <2>1. Numbers' /\ longest' = longest /\ now' = now
    BY <1>5, <2>4 DEF Collect, Shape, Numbers
  <2>3. \A r \in launched : r < run' \/ (r = run' /\ pc' \notin {"monitor", "launch"})
    <3>1. \A r \in launched : r \in Nat /\ r <= run /\ run \in Nat
      BY RunType DEF Shape, Numbers
    <3>2. run' = run + 1 \/ (run' = run /\ pc' = "done")
      BY <1>5 DEF Collect
    <3> QED BY <3>1, <3>2 DEF Shape
  <2>2. iters' \in [Run -> [App -> Run \cup {NoRun}]]
    BY <1>5 DEF Collect, Shape, Numbers
  <2> QED BY <1>5, <2>1, <2>2, <2>3 DEF Collect, boardVars, Shape
<1>6. ASSUME NEW w \in workers, IterationEnds(w) PROVE Shape'
  <2>1. /\ Numbers' /\ longest' = longest /\ now' = now /\ deadline' = deadline
        /\ iters' = iters /\ launched' = launched /\ run' = run /\ pc' = pc
    BY <1>6, Iteration DEF Shape, Numbers
  <2>2. it' \in [App -> Run \cup {NoRun}]
    BY <1>6, Iteration DEF Shape
  <2>3. /\ workers' \subseteq Worker
        /\ \A v \in workers' : now <= v.until /\ v.until <= now + longest
    <3>1. w \in Worker /\ Numbers
      BY <1>6 DEF Shape
    <3>2. \A len \in 1 .. longest :
            /\ [w EXCEPT !.until = now + len] \in Worker
            /\ now <= [w EXCEPT !.until = now + len].until
            /\ [w EXCEPT !.until = now + len].until <= now + longest
      BY <3>1, Again
    <3>3. \/ \E len \in 1 .. longest :
               workers' = (workers \ {w}) \cup {[w EXCEPT !.until = now + len]}
          \/ workers' = workers \ {w}
      BY <1>6, Iteration
    <3> QED BY <3>2, <3>3 DEF Shape
  <2> QED BY <2>1, <2>2, <2>3 DEF Shape
<1>7. CASE Tick
  <2>1. /\ now' = now + 1 /\ longest' = longest /\ workers' = workers
        /\ UNCHANGED <<run, pc, wake, started, bcuEnd, deadline, launched, perf, it, iters>>
        /\ \A w \in workers : now < w.until
    BY <1>7 DEF Tick, boardVars
  <2>2. Numbers'
    BY <2>1 DEF Shape, Numbers
  <2>3. \A w \in workers : now + 1 <= w.until /\ w.until <= (now + 1) + longest
    <3>1. \A w \in workers : w.until \in Nat /\ now < w.until /\ w.until <= now + longest
      BY <2>1 DEF Shape, Worker
    <3> QED BY <3>1 DEF Shape, Numbers
  <2> QED BY <2>1, <2>2, <2>3 DEF Shape
<1>8. CASE Finished \/ UNCHANGED vars
  BY <1>8 DEF Finished, vars, boardVars, Shape, Numbers
<1> QED BY <1>1, <1>2, <1>3, <1>4, <1>5, <1>6, <1>7, <1>8, <1>9 DEF Next, Script

(* The state of a campaign keeps its shape. *)
THEOREM TypeCorrect == Spec => []TypeOK
<1>1. Init => Shape
  BY ShapeInit
<1>2. Shape /\ [Next]_vars => Shape'
  BY ShapeStep
<1>3. Shape => TypeOK
  <2> SUFFICES ASSUME Shape PROVE TypeOK
    OBVIOUS
  <2>1. \A w \in workers : w \in Worker /\ w.until \in now .. now + MaxIteration
    BY Constants DEF Shape, Numbers, Worker
  <2>2. workers \subseteq [run : Run, app : App, until : now .. now + MaxIteration]
    BY <2>1 DEF Worker
  <2> QED BY <2>2 DEF Shape, Numbers, Position, TypeOK
<1> QED BY <1>1, <1>2, <1>3, PTL DEF Spec

-----------------------------------------------------------------------------
(* perf counts the applications that the present run has launched, or will. *)
Measuring == run \in launched /\ (pc = "perf" \/ (pc = "window" /\ perf = "counts"))

(* The timetable: how late the script is in each of its positions, against *)
(* the monitor's end and the deadline of the present run's workers.        *)
Timetable ==
  /\ pc # "done" => now <= wake
  /\ pc \in {"launch", "perf", "window", "collect"} => started + CAP <= bcuEnd
  /\ pc = "launch" => wake <= started + PreRoll + MaxLatency
  /\ pc \in {"perf", "window", "collect"} /\ run \in launched =>
       deadline[run] <= started + PreRoll + MaxLatency + APPDUR
  /\ pc = "perf" => wake <= started + PreRoll + MaxLatency + WARMUP + MaxLatency
  /\ pc = "perf" /\ run \in launched => wake + APPDUR <= deadline[run] + WARMUP + MaxLatency
  /\ pc = "window" /\ perf = "counts" =>
       wake <= started + PreRoll + MaxLatency + WARMUP + MaxLatency + WINDOW
  /\ pc = "window" /\ perf = "counts" /\ run \in launched =>
       wake + APPDUR <= deadline[run] + WARMUP + MaxLatency + WINDOW
  /\ pc = "collect" => started + CAP + Settle <= wake

(* The timetable starts at nought. *)
LEMMA TimetableInit == Init => Timetable
  BY DEF Init, Timetable

(* Every step keeps each position within its time. *)
LEMMA TimetableStep ==
  ASSUME Shape, Timetable, [Next]_vars
  PROVE  Timetable'
<1> USE Constants DEF Latency, Due, Sleeps
<1>0. Numbers /\ deadline \in [Run -> Nat]
  BY DEF Shape
<1>1. CASE StartMonitor
  BY <1>0, <1>1 DEF StartMonitor, boardVars, Timetable, Numbers
<1>2. CASE Launch
  BY <1>0, <1>2 DEF Launch, StartsWorkers, Timetable, Numbers
<1>3. CASE LaunchFails
  <2>1. run \notin launched /\ launched' = launched /\ run' = run
    BY <1>3, NotYetLaunched DEF LaunchFails, boardVars
  <2> QED BY <1>0, <1>3, <2>1 DEF LaunchFails, boardVars, Timetable, Numbers
<1>9. CASE StartPerf
  BY <1>0, <1>9 DEF StartPerf, boardVars, Timetable, Numbers
<1>4. CASE EndPerf
  BY <1>0, <1>4 DEF EndPerf, boardVars, Timetable, Numbers
<1>5. CASE Collect
  BY <1>0, <1>5 DEF Collect, boardVars, Timetable, Numbers
<1>6. ASSUME NEW w \in workers, IterationEnds(w) PROVE Timetable'
  BY <1>0, <1>6, Iteration DEF Timetable
<1>7. CASE Tick
  BY <1>0, <1>7 DEF Tick, boardVars, Timetable, Numbers
<1>8. CASE Finished \/ UNCHANGED vars
  BY <1>8 DEF Finished, vars, boardVars, Timetable
<1> QED BY <1>1, <1>2, <1>3, <1>4, <1>5, <1>6, <1>7, <1>8, <1>9 DEF Next, Script

(* A worker of the present run stops at its deadline, after perf's window. *)
LEMMA WindowEndsFirst ==
  ASSUME Shape, Timetable, Measuring
  PROVE  now < deadline[run]
<1>1. deadline[run] \in Nat /\ now \in Nat /\ wake \in Nat /\ now <= wake
  BY DEF Shape, Numbers, Timetable, Measuring
<1> QED BY <1>1, Constants, TimetableAssumption DEF Timetable, Measuring

Running(r, a) == \E w \in workers : w.run = r /\ w.app = a

AllRunning == Measuring => \A a \in AppsOf(run) : Running(run, a)

(* All applications keep running until the window is over. *)
LEMMA RunningStep ==
  ASSUME Shape, Timetable, AllRunning, [Next]_vars
  PROVE  AllRunning'
<1> USE DEF Due, Sleeps, Measuring
<1>1. CASE Launch
  <2>1. PICK until \in [AppsOf(run) -> now + 1 .. now + longest] :
          workers' = workers \cup Started(until)
    BY <1>1 DEF Launch, StartsWorkers, Started
  <2>2. \A a \in AppsOf(run) : \E w \in Started(until) : w.run = run /\ w.app = a
    BY Launched DEF Shape
  <2>3. run' = run
    BY <1>1 DEF Launch
  <2> QED BY <2>1, <2>2, <2>3 DEF AllRunning, Running
<1>2. CASE StartPerf
  <2>1. Measuring' => Measuring
    BY <1>2 DEF StartPerf, boardVars
  <2>2. run' = run /\ workers' = workers
    BY <1>2 DEF StartPerf, boardVars
  <2> QED BY <2>1, <2>2 DEF AllRunning, Running
<1>3. CASE StartMonitor \/ EndPerf \/ Collect
  BY <1>3 DEF StartMonitor, EndPerf, Collect, AllRunning
<1>7. CASE LaunchFails
  <2>1. run \notin launched'
    BY <1>7, NotYetLaunched DEF LaunchFails, boardVars
  <2> QED BY <1>7, <2>1 DEF LaunchFails, AllRunning
<1>4. ASSUME NEW w \in workers, IterationEnds(w), Measuring,
             NEW a \in AppsOf(run)
      PROVE  Running(run, a)'
  <2>1. PICK v \in workers : v.run = run /\ v.app = a
    BY <1>4 DEF AllRunning, Running
  <2>2. run' = run
    BY <1>4, Iteration
  <2>3. CASE v # w
    <3>1. v \in workers'
      BY <1>4, <2>3, Iteration
    <3> QED BY <2>1, <2>2, <3>1 DEF Running
  <2>4. CASE v = w
    <3>1. now < deadline[w.run]
      BY <1>4, <2>1, <2>4, WindowEndsFirst
    <3>2. PICK len \in 1 .. longest : [w EXCEPT !.until = now + len] \in workers'
      BY <1>4, <3>1, Iteration
    <3>3. [w EXCEPT !.until = now + len].run = w.run /\ [w EXCEPT !.until = now + len].app = w.app
      BY <1>4, Again DEF Shape
    <3> QED BY <2>1, <2>2, <2>4, <3>2, <3>3 DEF Running
  <2> QED BY <2>3, <2>4
<1>5. ASSUME NEW w \in workers, IterationEnds(w) PROVE AllRunning'
  <2>1. UNCHANGED <<run, pc, launched, perf>>
    BY <1>5, Iteration
  <2> QED BY <1>4, <1>5, <2>1 DEF AllRunning
<1>6. CASE Tick \/ Finished \/ UNCHANGED vars
  BY <1>6 DEF Tick, Finished, vars, boardVars, AllRunning, Running
<1> QED BY <1>1, <1>2, <1>3, <1>5, <1>6, <1>7 DEF Next, Script

-----------------------------------------------------------------------------
(* Whose the workers and the counts are, when iterations are short.        *)
(* A worker is of the present run, and in its last iteration at the latest *)
(* when the deadline has passed.                                           *)
OwnWorkers ==
  /\ pc \in {"monitor", "launch", "done"} \/ run \notin launched => workers = {}
  /\ pc \in {"perf", "window", "collect"} =>
       \A w \in workers :
         w.run = run /\ w.app \in AppsOf(run) /\ w.until < deadline[run] + longest

(* An application of the run still runs or has left its count.             *)
OwnFiles ==
  pc \in {"perf", "window", "collect"} /\ run \in launched =>
    \A a \in App : IF a \in AppsOf(run) THEN Running(run, a) \/ it[a] = run ELSE it[a] = NoRun

Collected ==
  /\ \A r \in launched : r < run \/ pc = "done" => iters[r] \in {Expected(r), Unread}
  /\ \A r \in Run : r > run \/ (r = run /\ pc # "done") => iters[r] = Unread

OwnInv == ShortIterations => OwnWorkers /\ OwnFiles /\ Collected

(* There are no count files of an earlier run yet. *)
LEMMA OwnInit == Init => OwnInv
  BY RunType DEF Init, OwnInv, OwnWorkers, OwnFiles, Collected, Unread, Run

(* By the time the counts are collected no worker is left. *)
LEMMA Drained ==
  ASSUME Shape, Timetable, OwnWorkers, ShortIterations, pc = "collect", now = wake
  PROVE  workers = {}
<1> SUFFICES ASSUME NEW w \in workers PROVE FALSE
  OBVIOUS
<1>1. /\ w.until \in Nat /\ now <= w.until /\ w.until < deadline[run] + longest
      /\ deadline[run] \in Nat /\ now \in Nat /\ started \in Nat /\ longest \in Nat
      /\ run \in launched
  BY DEF Shape, Numbers, Worker, OwnWorkers
<1>2. /\ deadline[run] <= started + PreRoll + MaxLatency + APPDUR
      /\ started + CAP + Settle <= now
  BY <1>1 DEF Timetable
<1> QED BY <1>1, <1>2, Constants DEF ShortIterations

(* Every step keeps workers and count files those of the present run,      *)
(* where they matter.                                                      *)
LEMMA OwnStep ==
  ASSUME Shape, Timetable, AllRunning, OwnInv, [Next]_vars
  PROVE  OwnInv'
<1> USE Constants DEF Due, Sleeps, Latency
<1>0. Numbers /\ deadline \in [Run -> Nat] /\ Run = 1 .. Len(NApps) /\ Len(NApps) \in Nat
  BY RunType DEF Shape
<1>1. longest' = longest
  BY Iteration DEF Next, Script, StartMonitor, Launch, LaunchFails, StartPerf, EndPerf, Collect,
                   Tick, Finished, vars
<1> SUFFICES ASSUME ShortIterations
             PROVE  OwnWorkers' /\ OwnFiles' /\ Collected'
  BY <1>1 DEF OwnInv, ShortIterations
<1>2. OwnWorkers /\ OwnFiles /\ Collected
  BY DEF OwnInv
<1>3. CASE StartMonitor
  BY <1>2, <1>3 DEF StartMonitor, boardVars, OwnWorkers, OwnFiles, Collected
<1>4. CASE Launch
  <2>1. PICK until \in [AppsOf(run) -> now + 1 .. now + longest] :
          workers' = workers \cup Started(until)
    BY <1>4 DEF Launch, StartsWorkers, Started
  <2>2. /\ workers' = Started(until) /\ run' = run /\ pc' = "perf" /\ iters' = iters
        /\ deadline'[run] = now + APPDUR /\ it' = [a \in App |-> NoRun]
        /\ launched' = launched \cup {run}
    BY <1>0, <1>2, <1>4, <2>1 DEF Launch, StartsWorkers, OwnWorkers, Numbers
  <2>3. OwnWorkers'
    <3>1. \A w \in Started(until) :
            w.run = run /\ w.app \in AppsOf(run) /\ w.until <= now + longest /\ w.until \in Nat
      BY <1>0, Launched DEF Worker
    <3>2. \A w \in Started(until) : w.until < (now + APPDUR) + longest
      <4>1. now \in Nat /\ longest \in Nat /\ APPDUR \in Nat \ {0}
        BY <1>0 DEF Numbers
      <4> QED BY <3>1, <4>1
    <3> QED BY <1>1, <2>2, <3>1, <3>2 DEF OwnWorkers
  <2>4. \A a \in AppsOf(run) : Running(run, a)'
    <3>1. \A a \in AppsOf(run) : \E w \in Started(until) : w.run = run /\ w.app = a
      BY <1>0, Launched
    <3> QED BY <2>2, <3>1 DEF Running
  <2>5. OwnFiles'
    BY <2>2, <2>4 DEF OwnFiles
  <2>6. Collected'
    BY <1>0, <1>2, <1>4, <2>2 DEF Launch, Collected, Numbers
  <2> QED BY <2>3, <2>5, <2>6
<1>10. CASE LaunchFails
  <2>1. /\ workers' = {} /\ run' = run /\ pc = "launch" /\ pc' = "perf"
        /\ launched' = launched /\ iters' = iters /\ run \notin launched
    BY <1>2, <1>10, NotYetLaunched DEF LaunchFails, boardVars, OwnWorkers
  <2> QED BY <1>2, <2>1 DEF OwnWorkers, OwnFiles, Collected
<1>5. CASE StartPerf
  BY <1>2, <1>5 DEF StartPerf, boardVars, OwnWorkers, OwnFiles, Collected, Running
<1>6. CASE EndPerf
  BY <1>2, <1>6 DEF EndPerf, boardVars, OwnWorkers, OwnFiles, Collected, Running
<1>7. CASE Collect
  <2>1. workers = {}
    BY <1>2, <1>7, Drained DEF Collect
  <2>2. run \in launched => it = Expected(run)
    <3>1. ASSUME run \in launched
          PROVE  \A a \in App : it[a] = IF a \in AppsOf(run) THEN run ELSE NoRun
      BY <1>2, <1>7, <2>1, <3>1 DEF Collect, OwnFiles, Running
    <3> QED BY <3>1 DEF Expected, Shape
  <2>3. /\ iters'[run] \in {it, Unread}
        /\ \A r \in Run : r # run => iters'[r] = iters[r]
    BY <1>0, <1>2, <1>7 DEF Collect, Collected, Shape, Numbers
  <2>4. workers' = {} /\ pc' \in {"monitor", "done"} /\ launched' = launched /\ launched \subseteq Run
    BY <1>7, <2>1 DEF Collect, boardVars, Shape
  <2>5. \A r \in Run : r < run' \/ pc' = "done" => r < run \/ r = run
    BY <1>0, <1>7 DEF Collect, Numbers
  <2>6. \A r \in Run : r > run' \/ (r = run' /\ pc' # "done") => r > run
    BY <1>0, <1>7 DEF Collect, Numbers
  <2>7. \A r \in launched : r < run' \/ pc' = "done" => iters'[r] \in {Expected(r), Unread}
    <3>1. ASSUME NEW r \in launched, r < run' \/ pc' = "done"
          PROVE  iters'[r] \in {Expected(r), Unread}
      <4>1. r \in Run /\ (r = run \/ (r < run /\ r # run))
        <5>1. r \in Run /\ r \in Nat /\ run \in Nat
          BY <1>0, <2>4 DEF Numbers
        <5>2. r < run \/ r = run
          BY <2>5, <3>1, <5>1
        <5> QED BY ONLY <5>1, <5>2
      <4>2. CASE r = run
        BY <2>2, <2>3, <4>2
      <4>3. CASE r < run /\ r # run
        BY <1>2, <2>3, <4>1, <4>3 DEF Collected
      <4> QED BY <4>1, <4>2, <4>3
    <3> QED BY <3>1
  <2>8. \A r \in Run : r > run' \/ (r = run' /\ pc' # "done") => iters'[r] = Unread
    <3>1. \A r \in Run : r > run => r # run
      <4>1. \A r \in Run : r \in Nat /\ run \in Nat
        BY <1>0 DEF Numbers
      <4> QED BY ONLY <4>1
    <3>2. \A r \in Run : r > run => iters[r] = Unread
      BY <1>2 DEF Collected
    <3> QED BY ONLY <2>3, <2>6, <3>1, <3>2
  <2>9. Collected'
    BY <2>4, <2>7, <2>8 DEF Collected, Expected, Unread
  <2> QED BY <2>4, <2>9 DEF OwnWorkers, OwnFiles
<1>8. ASSUME NEW w \in workers, IterationEnds(w)
      PROVE  OwnWorkers' /\ OwnFiles' /\ Collected'
  <2>1. UNCHANGED <<now, longest, run, pc, wake, started, bcuEnd, deadline, launched, iters>>
    BY <1>8, Iteration
  <2>2. pc \in {"perf", "window", "collect"} /\ run \in launched /\ w.run = run /\ w.app \in AppsOf(run) /\ w \in Worker
    BY <1>0, <1>2, <1>8 DEF OwnWorkers, Numbers, Position, Shape
  <2>3. CASE now < deadline[w.run]
    <3>1. it' = it
      BY <1>8, <2>3, Iteration
    <3>2. PICK len \in 1 .. longest :
            workers' = (workers \ {w}) \cup {[w EXCEPT !.until = now + len]}
      BY <1>8, <2>3, Iteration
    <3> DEFINE v == [w EXCEPT !.until = now + len]
    <3>3. v.run = run /\ v.app = w.app /\ v.until = now + len
      BY <1>0, <2>2, Again
    <3>4. v.until < deadline[run] + longest
      <4>1. now \in Nat /\ longest \in Nat /\ deadline[run] \in Nat
        BY <1>0 DEF Numbers, Shape
      <4>2. now < deadline[run] /\ len \in 1 .. longest
        BY <2>2, <2>3
      <4>3. now + len < deadline[run] + longest
        BY ONLY <4>1, <4>2
      <4> QED BY <3>3, <4>3
    <3>5. OwnWorkers'
      BY <1>2, <2>1, <2>2, <3>2, <3>3, <3>4 DEF OwnWorkers
    <3>6. \A a \in App : Running(run, a) => Running(run, a)'
      <4>1. \A u \in workers : u # w => u \in workers'
        BY <3>2
      <4>2. v \in workers' /\ v.run = w.run /\ v.app = w.app
        BY <2>2, <3>2, <3>3
      <4> HIDE DEF v
      <4> QED BY <2>1, <4>1, <4>2 DEF Running
    <3> QED BY <1>2, <2>1, <2>2, <3>1, <3>5, <3>6 DEF OwnFiles, Collected
  <2>4. CASE ~(now < deadline[w.run])
    <3>1. workers' = workers \ {w} /\ it' = [it EXCEPT ![w.app] = run]
      BY <1>8, <2>2, <2>4, Iteration
    <3>2. \A a \in App : Running(run, a) => Running(run, a)' \/ a = w.app
      BY <2>1, <3>1 DEF Running
    <3>3. OwnFiles'
      BY <1>2, <2>1, <2>2, <3>1, <3>2 DEF OwnFiles, Shape
    <3>4. OwnWorkers'
      BY <1>2, <2>1, <3>1 DEF OwnWorkers
    <3> QED BY <1>2, <2>1, <3>3, <3>4 DEF Collected
  <2> QED BY <2>3, <2>4
<1>9. CASE Tick \/ Finished \/ UNCHANGED vars
  BY <1>2, <1>9 DEF Tick, Finished, vars, boardVars, OwnWorkers, OwnFiles, Collected, Running
<1> QED BY <1>3, <1>4, <1>5, <1>6, <1>7, <1>8, <1>9, <1>10 DEF Next, Script

IInv == Shape /\ Timetable /\ AllRunning /\ OwnInv

(* The conjunction is inductive. *)
LEMMA Inductive ==
  /\ Init => IInv
  /\ IInv /\ [Next]_vars => IInv'
<1>1. Init => AllRunning
  BY DEF Init, AllRunning, Measuring
<1> QED
  BY <1>1, ShapeInit, ShapeStep, TimetableInit, TimetableStep, RunningStep, OwnInit, OwnStep
     DEF IInv

(* While perf counts, every application the run launched is running and    *)
(* the monitor records, and with short iterations nothing else runs.       *)
THEOREM Homogeneous == Spec => []HomogeneousPhase
<1>1. IInv => HomogeneousPhase
  <2> SUFFICES ASSUME IInv, pc = "window", perf = "counts" PROVE HomogeneousPhase
    BY DEF HomogeneousPhase
  <2> DEFINE mine == IF run \in launched THEN {run} \X AppsOf(run) ELSE {}
             running == {<<w.run, w.app>> : w \in workers}
  <2>1. run \in launched => \A a \in AppsOf(run) : \E w \in workers : w.run = run /\ w.app = a
    BY DEF IInv, AllRunning, Measuring, Running
  <2>2. mine \subseteq running
    BY <2>1
  <2>3. ShortIterations => running \subseteq mine
    BY DEF IInv, OwnInv, OwnWorkers
  <2>4. now <= started + CAP
    BY Constants, TimetableAssumption DEF IInv, Shape, Numbers, Timetable
  <2> QED BY <2>2, <2>3, <2>4 DEF HomogeneousPhase
<1> QED BY <1>1, Inductive, PTL DEF Spec

(* With short iterations each run whose launch got through reports one     *)
(* count of its own for each of its applications, or none at all.          *)
THEOREM CountsOwned == Spec => []CountsAreOwn
<1>1. IInv => CountsAreOwn
  BY DEF IInv, OwnInv, Collected, CountsAreOwn
<1> QED BY <1>1, Inductive, PTL DEF Spec
=============================================================================
