----------------------------- MODULE NetworkRun -----------------------------
(***************************************************************************)
(* The network power sweep: xcheck/run-network.sh on the host measures one *)
(* load after the other, xcheck/board_load.py on the board sends or        *)
(* receives at a target rate until a deadline, xcheck/host_ep.py on the    *)
(* host discards or supplies the bytes, with a thread per connection.      *)
(* Time is in units, and data in what the target rate carries in one unit; *)
(* the connection holds a bounded amount.  A call may take any time; the   *)
(* endpoint may die and be started again.                                  *)
(***************************************************************************)
EXTENDS Naturals, Sequences

CONSTANTS
  Sweep,         \* run |-> its mode, its chunk (CH, CHUNK) and its recv (1 MiB), in data
  PreRoll,       \* sleep before the load (3 s)
  Secs,          \* duration of a load (28 s)
  CAP,           \* `timeout` of the power monitor (40 s)
  Settle,        \* sleep after a run (2 s)
  Nap,           \* longest pacing sleep (0.02 s)
  MaxLatency,    \* bound: what an ssh call may take to act
  MaxClock,      \* bound: the clock does not count what a call or connecting takes beyond it
  Buffer,        \* bound: data in flight on a connection
  MaxDeaths      \* bound: times the endpoint dies

Run == DOMAIN Sweep

ASSUME NetworkAssumption ==
  /\ Sweep \in Seq([mode : {"idle", "tx", "rx"}, chunk : Nat \ {0}, recv : Nat \ {0}])
  /\ PreRoll \in Nat /\ CAP \in Nat /\ Settle \in Nat /\ Nap \in Nat
  /\ MaxLatency \in Nat /\ MaxClock \in Nat /\ Buffer \in Nat /\ MaxDeaths \in Nat
  /\ Secs \in Nat \ {0}
  /\ \A r \in Run : Sweep[r].chunk <= Buffer

VARIABLES
  run, pc,       \* the script's run, and where it or the load is
  now, wake,     \* time since the run's monitor started; when a sleep ends
  t0, sent,      \* board_load.py: start of the load, data moved
  dialAt,        \* history: when it began to connect
  callAt,        \* history: when its last call began
  conn,          \* run |-> its connection: both ends and the data in flight
  out,           \* the run's line: is there one, and its elapsed=
  endpoint,      \* is host_ep.py running
  deaths

vars == <<run, pc, now, wake, t0, sent, dialAt, callAt, conn, out, endpoint, deaths>>

script == <<run, pc, now, wake>>
load   == <<t0, sent, dialAt, callAt>>
host   == <<endpoint, deaths>>

Mode == Sweep[run].mode

(* `grep -h mode=` finds nothing: no output yet, or a traceback. *)
NoLine == [mode |-> FALSE, elapsed |-> 0]

Line(elapsed) == [mode |-> TRUE, elapsed |-> elapsed]

NoConn == [board |-> "none", host |-> "none", queued |-> 0]

Init ==
  /\ run = 1 /\ pc = "monitor" /\ now = 0 /\ wake = 0
  /\ t0 = 0 /\ sent = 0 /\ dialAt = 0 /\ callAt = 0
  /\ conn = [r \in Run |-> NoConn]
  /\ out = NoLine
  /\ endpoint = TRUE /\ deaths = 0

Due(position) == run \in Run /\ pc = position /\ now >= wake

Sleeps(position, units) == pc' = position /\ wake' = now + units

(* `wait` for the monitor, gone already if the load outlasted it, and the  *)
(* sleep after it.                                                         *)
Waits == pc' = "wait" /\ wake' = (IF now < CAP THEN CAP ELSE now) + Settle

-----------------------------------------------------------------------------
(* run() of run-network.sh; `wait` is for the monitor.                     *)

StartMonitor ==
  /\ Due("monitor")
  /\ IF Mode = "idle" THEN Sleeps("idling", PreRoll + Secs)
     ELSE \E d \in 0 .. MaxLatency : Sleeps("connect", PreRoll + d)
  /\ UNCHANGED <<run, now, load, conn, out, host>>

EndIdle ==
  /\ Due("idling")
  /\ out' = Line(Secs)
  /\ Waits
  /\ UNCHANGED <<run, now, load, conn, host>>

NextRun ==
  /\ Due("wait")
  /\ run' = run + 1 /\ pc' = "monitor" /\ now' = 0 /\ wake' = 0
  /\ t0' = 0 /\ sent' = 0 /\ dialAt' = 0 /\ callAt' = 0 /\ out' = NoLine
  /\ UNCHANGED <<conn, host>>

-----------------------------------------------------------------------------
(* board_load.py.                                                          *)

Elapsed == now - t0

Ends(line) ==
  /\ conn' = [conn EXCEPT ![run].board = "closed"]
  /\ out' = line
  /\ Waits

(* Mutant: a refused connection is tried again. *)
ConnectRetried ==
  /\ Due("connect") /\ endpoint
  /\ conn' = [conn EXCEPT ![run].board = "open", ![run].host = "backlog"]
  /\ pc' = "loop" /\ t0' = now /\ dialAt' = wake /\ callAt' = now
  /\ UNCHANGED <<run, now, wake, out, sent, host>>

(* Refused when nothing listens; otherwise in the listener's backlog, after *)
(* any time: it has no time-out of its own.                                *)
Connect ==
  /\ Due("connect")
  /\ IF endpoint
     THEN /\ conn' = [conn EXCEPT ![run].board = "open", ![run].host = "backlog"]
          /\ pc' = "loop" /\ t0' = now /\ dialAt' = wake /\ callAt' = now
          /\ UNCHANGED <<wake, out>>
     ELSE Ends(NoLine) /\ UNCHANGED <<t0, dialAt, callAt>>
  /\ UNCHANGED <<run, now, sent, host>>

(* Mutant: the deadline is looked at only until something was moved. *)
LoopUntimed ==
  /\ Due("loop")
  /\ IF Elapsed < Secs \/ sent > 0
     THEN pc' = "call" /\ callAt' = now /\ UNCHANGED <<wake, conn, out>>
     ELSE Ends(Line(Elapsed)) /\ UNCHANGED callAt
  /\ UNCHANGED <<run, now, t0, sent, dialAt, host>>

(* The deadline is looked at between calls only.                           *)
Loop ==
  /\ Due("loop")
  /\ IF Elapsed < Secs
     THEN pc' = "call" /\ callAt' = now /\ UNCHANGED <<wake, conn, out>>
     ELSE Ends(Line(Elapsed)) /\ UNCHANGED callAt
  /\ UNCHANGED <<run, now, t0, sent, dialAt, host>>

Moves(n, queued) ==
  /\ sent' = sent + n
  /\ conn' = [conn EXCEPT ![run].queued = queued]
  /\ pc' = "pace"
  /\ UNCHANGED <<run, now, wake, t0, dialAt, callAt, out, host>>

(* sendall() returns when all of the chunk is on its way.                  *)
SendAll ==
  /\ Due("call") /\ Mode = "tx"
  /\ conn[run].queued + Sweep[run].chunk <= Buffer
  /\ Moves(Sweep[run].chunk, conn[run].queued + Sweep[run].chunk)

Received(r) == IF conn[r].queued < Sweep[r].recv THEN conn[r].queued ELSE Sweep[r].recv

(* recv() returns what is there, up to its limit.                          *)
Recv ==
  /\ Due("call") /\ Mode = "rx" /\ conn[run].queued > 0
  /\ Moves(Received(run), conn[run].queued - Received(run))

(* Mutant: a failing send ends the loop as an empty receive does. *)
PeerClosedLine ==
  /\ Due("call") /\ conn[run].host = "closed"
  /\ Mode = "tx" \/ conn[run].queued = 0
  /\ Ends(Line(Elapsed))
  /\ UNCHANGED <<run, now, load, host>>

(* A send to a closed peer raises, at the latest when nothing more fits; a *)
(* receive returns nothing, so that the load reports what it had, or, if   *)
(* the connection was reset, raises.                                       *)
PeerClosed ==
  /\ Due("call") /\ conn[run].host = "closed"
  /\ \/ Mode = "tx" /\ Ends(NoLine)
     \/ Mode = "rx" /\ conn[run].queued = 0 /\ \E line \in {NoLine, Line(Elapsed)} : Ends(line)
  /\ UNCHANGED <<run, now, load, host>>

(* Mutant: a sleep of one unit after every call that was early. *)
PaceNap ==
  /\ Due("pace")
  /\ IF sent > Elapsed THEN Sleeps("loop", 1) ELSE pc' = "loop" /\ UNCHANGED wake
  /\ UNCHANGED <<run, now, load, conn, out, host>>

(* Ahead of the target: sleep the lead off, but no longer than Nap.        *)
Pace ==
  /\ Due("pace")
  /\ IF sent > Elapsed
     THEN Sleeps("loop", IF sent - Elapsed < Nap THEN sent - Elapsed ELSE Nap)
     ELSE pc' = "loop" /\ UNCHANGED wake
  /\ UNCHANGED <<run, now, load, conn, out, host>>

-----------------------------------------------------------------------------
(* host_ep.py: one listener and its threads.                               *)

Accept(r) ==
  /\ endpoint /\ conn[r].host = "backlog"
  /\ conn' = [conn EXCEPT ![r].host = "handler"]
  /\ UNCHANGED <<script, load, out, host>>

Closes(r) == conn' = [conn EXCEPT ![r].host = "closed"]

(* Mutant: an empty receive does not end the sink. *)
SinkForever(r) ==
  /\ conn[r].host = "handler" /\ Sweep[r].mode = "tx"
  /\ conn[r].queued > 0 /\ conn' = [conn EXCEPT ![r].queued = @ - Received(r)]
  /\ UNCHANGED <<script, load, out, host>>

(* The sink receives until there is nothing more to come.                  *)
Sink(r) ==
  /\ conn[r].host = "handler" /\ Sweep[r].mode = "tx"
  /\ \/ conn[r].queued > 0 /\ conn' = [conn EXCEPT ![r].queued = @ - Received(r)]
     \/ conn[r].queued = 0 /\ conn[r].board = "closed" /\ Closes(r)
  /\ UNCHANGED <<script, load, out, host>>

(* The source sends until the peer is gone.                                *)
Source(r) ==
  /\ conn[r].host = "handler" /\ Sweep[r].mode = "rx"
  /\ \/ /\ conn[r].board = "open" /\ conn[r].queued + Sweep[r].chunk <= Buffer
        /\ conn' = [conn EXCEPT ![r].queued = @ + Sweep[r].chunk]
     \/ conn[r].board = "closed" /\ Closes(r)
  /\ UNCHANGED <<script, load, out, host>>

EndpointDies ==
  /\ endpoint /\ deaths < MaxDeaths
  /\ endpoint' = FALSE /\ deaths' = deaths + 1
  /\ conn' = [r \in Run |-> IF conn[r].host \in {"backlog", "handler"}
                            THEN [conn[r] EXCEPT !.host = "closed"] ELSE conn[r]]
  /\ UNCHANGED <<script, load, out>>

EndpointStarts ==
  /\ ~endpoint /\ endpoint' = TRUE
  /\ UNCHANGED <<script, load, conn, out, deaths>>

-----------------------------------------------------------------------------
(* Only sleeps, waits and calls take time. *)
Tick ==
  /\ run \in Run
  /\ now < wake \/ (pc \in {"connect", "call"} /\ now < MaxClock)
  /\ now' = now + 1
  /\ UNCHANGED <<run, pc, wake, load, conn, out, host>>

Board ==
  \/ StartMonitor \/ EndIdle \/ NextRun \/ Connect \/ Loop
  \/ SendAll \/ Recv \/ PeerClosed \/ Pace

Handle(r) == Sink(r) \/ Source(r)

Done == run \notin Run /\ UNCHANGED vars

Next ==
  \/ Board \/ Tick \/ Done \/ EndpointDies \/ EndpointStarts
  \/ \E r \in Run : Accept(r) \/ Handle(r)

(* The script and the load run on, time passes, and the endpoint's threads *)
(* go on as long as it is alive.                                           *)
Fairness ==
  /\ WF_vars(Board) /\ WF_vars(Tick)
  /\ \A r \in Run : WF_vars(Accept(r)) /\ WF_vars(Handle(r))

Spec == Init /\ [][Next]_vars /\ Fairness

-----------------------------------------------------------------------------
Loading == pc \in {"loop", "call", "pace"}

(* What one call may move. *)
OneCall(r) == IF Sweep[r].mode = "tx" THEN Sweep[r].chunk ELSE Sweep[r].recv

(* "simple pacing to a target rate" (line 28): a load is never ahead of    *)
(* its rate by more than one call, if what one call moves is worth no more *)
(* than the longest sleep.                                                 *)
PaceHeld ==
  run \in Run /\ Loading /\ OneCall(run) <= Nap => sent <= Elapsed + OneCall(run)

(* A load is inside the monitor's capture, unless connecting and its last  *)
(* call together took what is left of the capture after the preroll, an    *)
(* ssh call and the load.                                                  *)
InsideCapture ==
  run \in Run /\ Loading /\ now > CAP =>
    (t0 - dialAt) + (now - callAt) > CAP - (PreRoll + MaxLatency + Secs)

(* A line whose load did not run for its duration is of a receiving load   *)
(* whose endpoint went away, and nothing but its elapsed= field tells.     *)
LineTrue ==
  run \in Run /\ out.mode /\ out.elapsed < Secs => Mode = "rx" /\ deaths > 0

(* The sweep ends, whatever the endpoint does but keep silent.             *)
SweepEnds == <>(run \notin Run)

(* No handler outlives its connection for ever.                            *)
HandlersEnd ==
  \A r \in Run : (conn[r].board = "closed") ~> (conn[r].host \notin {"backlog", "handler"})

(* Why they hold: a load dials within the preroll and an ssh call; it is   *)
(* not ahead when a call begins, and a sleep takes all of its lead; a      *)
(* connection is the current run's, and closes on the board's side first   *)
(* as long as the endpoint lives.                                          *)
Clock ==
  run \in Run =>
    /\ pc = "monitor" => now = 0 /\ wake = 0
    /\ pc = "connect" => wake <= PreRoll + MaxLatency
    /\ pc \in {"monitor", "connect"} => sent = 0
    /\ Loading => /\ t0 <= now /\ dialAt <= t0 /\ dialAt <= PreRoll + MaxLatency
                  /\ callAt < t0 + Secs

Lead ==
  run \in Run /\ OneCall(run) <= Nap =>
    /\ pc = "call" => sent <= now - t0
    /\ pc = "loop" => sent <= now - t0 \/ sent <= wake - t0
    /\ Loading => sent <= now - t0 + OneCall(run)

Conns ==
  /\ \A r \in Run : r > run => conn[r] = NoConn
  /\ run \in Run /\ pc \in {"monitor", "idling", "connect"} => conn[run] = NoConn
  /\ run \in Run /\ Loading => conn[run].board = "open"
  /\ \A r \in Run : conn[r].board # "closed" /\ conn[r].host = "closed" => deaths > 0
  /\ pc # "wait" => out = NoLine

(* The shape of the state. *)
Numbers ==
  /\ run \in Nat
  /\ now \in Nat /\ wake \in Nat
  /\ t0 \in Nat /\ sent \in Nat /\ dialAt \in Nat /\ callAt \in Nat

Connection == [board : {"none", "open", "closed"},
               host : {"none", "backlog", "handler", "closed"}, queued : 0 .. Buffer]

TypeOK ==
  /\ Numbers
  /\ run \in 1 .. Len(Sweep) + 1
  /\ pc \in {"monitor", "idling", "connect", "loop", "call", "pace", "wait"}
  /\ conn \in [Run -> Connection]
  /\ out \in [mode : BOOLEAN, elapsed : Nat]
  /\ endpoint \in BOOLEAN /\ deaths \in 0 .. MaxDeaths
=============================================================================
