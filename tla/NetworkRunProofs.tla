-------------------------- MODULE NetworkRunProofs --------------------------
(***************************************************************************)
(* Theorems about NetworkRun, for every sweep, rate and duration: the      *)
(* pacing of board_load.py, its place in the power capture, and what a     *)
(* line of its output stands for.                                          *)
(***************************************************************************)
EXTENDS NetworkRun, TLAPS

(* What the assumption says of the numbers, and of one run. *)
LEMMA Constants ==
  /\ PreRoll \in Nat /\ CAP \in Nat /\ Settle \in Nat /\ Nap \in Nat
  /\ MaxLatency \in Nat /\ MaxClock \in Nat /\ Buffer \in Nat /\ MaxDeaths \in Nat
  /\ Secs \in Nat \ {0}
  BY NetworkAssumption

(* The lines of the sweep, from the assumption on them. *)
LEMMA SweepType ==
  /\ Run = 1 .. Len(Sweep) /\ Len(Sweep) \in Nat
  /\ \A r \in Run : /\ Sweep[r].mode \in {"idle", "tx", "rx"}
                    /\ Sweep[r].chunk \in Nat \ {0} /\ Sweep[r].recv \in Nat \ {0}
                    /\ Sweep[r].chunk <= Buffer
<1> DEFINE R == [mode : {"idle", "tx", "rx"}, chunk : Nat \ {0}, recv : Nat \ {0}]
<1>1. Sweep \in Seq(R) /\ \A r \in Run : Sweep[r].chunk <= Buffer
  BY NetworkAssumption
<1>2. Len(Sweep) \in Nat /\ Run = 1 .. Len(Sweep)
  BY <1>1 DEF Run
<1>3. \A r \in 1 .. Len(Sweep) : Sweep[r] \in R
  <2> HIDE DEF R
  <2> QED BY <1>1
<1> QED BY <1>1, <1>2, <1>3

(* What a connection holds is a natural number. *)
LEMMA Queued ==
  ASSUME conn \in [Run -> Connection], NEW r \in Run
  PROVE  conn[r].queued \in Nat /\ conn[r].queued <= Buffer
<1>1. conn[r] \in Connection
  OBVIOUS
<1>2. conn[r].queued \in 0 .. Buffer
  BY <1>1 DEF Connection
<1> QED BY <1>2, Constants

(* Updating one field of one connection gives connections again. *)
LEMMA Updates ==
  ASSUME conn \in [Run -> Connection], NEW r \in Run
  PROVE  /\ \A b \in {"none", "open", "closed"} :
              [conn EXCEPT ![r].board = b] \in [Run -> Connection]
         /\ \A h \in {"none", "backlog", "handler", "closed"} :
              [conn EXCEPT ![r].host = h] \in [Run -> Connection]
         /\ \A q \in 0 .. Buffer : [conn EXCEPT ![r].queued = q] \in [Run -> Connection]
  BY DEF Connection

(* One call moves a natural number of data and leaves one in flight. *)
LEMMA Calls ==
  ASSUME conn \in [Run -> Connection], NEW r \in Run
  PROVE  /\ Received(r) \in Nat /\ Received(r) <= conn[r].queued /\ Received(r) <= Sweep[r].recv
         /\ conn[r].queued - Received(r) \in 0 .. Buffer
<1>1. conn[r].queued \in Nat /\ conn[r].queued <= Buffer
  BY Queued
<1>2. Sweep[r].recv \in Nat
  BY SweepType
<1> QED BY <1>1, <1>2, Constants DEF Received

(* No step of the connections or the host touches the rest. *)
LEMMA HostStep ==
  ASSUME NEW r \in Run, conn \in [Run -> Connection], Accept(r) \/ Handle(r)
  PROVE  UNCHANGED <<script, load, out, host>> /\ conn' \in [Run -> Connection]
<1>1. CASE Accept(r)
  BY <1>1, Updates DEF Accept
<1>2. CASE Sink(r)
  <2>1. [conn EXCEPT ![r].queued = conn[r].queued - Received(r)] \in [Run -> Connection]
    BY Updates, Calls
  <2>2. [conn EXCEPT ![r].host = "closed"] \in [Run -> Connection]
    BY Updates
  <2>3. \/ conn' = [conn EXCEPT ![r].queued = conn[r].queued - Received(r)]
        \/ conn' = [conn EXCEPT ![r].host = "closed"]
    BY <1>2 DEF Sink, Closes
  <2> QED BY <1>2, <2>1, <2>2, <2>3 DEF Sink
<1>3. CASE Source(r)
  <2>1. conn[r].queued + Sweep[r].chunk <= Buffer => conn[r].queued + Sweep[r].chunk \in 0 .. Buffer
    <3>1. conn[r].queued \in Nat /\ Sweep[r].chunk \in Nat
      BY Queued, SweepType
    <3> QED BY <3>1, Constants
  <2>2. [conn EXCEPT ![r].host = "closed"] \in [Run -> Connection]
    BY Updates
  <2>3. \/ /\ conn[r].queued + Sweep[r].chunk <= Buffer
           /\ conn' = [conn EXCEPT ![r].queued = conn[r].queued + Sweep[r].chunk]
        \/ conn' = [conn EXCEPT ![r].host = "closed"]
    BY <1>3 DEF Source, Closes
  <2>4. conn' \in [Run -> Connection]
    <3>1. \A q \in 0 .. Buffer : [conn EXCEPT ![r].queued = q] \in [Run -> Connection]
      BY Updates
    <3> QED BY <2>1, <2>2, <2>3, <3>1
  <2> QED BY <1>3, <2>4 DEF Source
<1> QED BY <1>1, <1>2, <1>3 DEF Handle

(* A load that ends leaves one of the two kinds of output. *)
LEMMA EndsType ==
  ASSUME conn \in [Run -> Connection], run \in Run, Numbers,
         NEW line \in {NoLine, Line(Elapsed)}, Ends(line), t0 <= now \/ line = NoLine
  PROVE  /\ conn' \in [Run -> Connection]
         /\ out' \in [mode : BOOLEAN, elapsed : Nat]
         /\ pc' = "wait" /\ wake' \in Nat
<1>1. Elapsed \in Nat \/ line = NoLine
  BY DEF Elapsed, Numbers
<1>2. line \in [mode : BOOLEAN, elapsed : Nat]
  <2>1. CASE line = NoLine
    BY <2>1 DEF NoLine
  <2>2. CASE line = Line(Elapsed) /\ Elapsed \in Nat
    BY <2>2 DEF Line
  <2> QED BY <1>1, <2>1, <2>2
<1>3. [conn EXCEPT ![run].board = "closed"] \in [Run -> Connection]
  BY Updates
<1>4. Waits => pc' = "wait" /\ wake' \in Nat
  BY Constants DEF Waits, Numbers
<1> QED BY <1>2, <1>3, <1>4 DEF Ends

(* The state keeps its shape, and the load its place in the capture. *)
LEMMA TypeClockInit == Init => TypeOK /\ Clock
<1> SUFFICES ASSUME Init PROVE TypeOK /\ Clock
  OBVIOUS
<1>1. NoConn \in Connection /\ NoLine \in [mode : BOOLEAN, elapsed : Nat]
  BY Constants DEF NoConn, NoLine, Connection
<1>2. conn \in [Run -> Connection]
  BY <1>1 DEF Init
<1> QED BY <1>1, <1>2, SweepType, Constants DEF Init, TypeOK, Numbers, Clock, Loading

(* Every step keeps the types. *)
LEMMA TypeStep ==
  ASSUME TypeOK, Clock, [Next]_vars
  PROVE  TypeOK'
<1> USE DEF script, load, host
<1>0. Numbers /\ conn \in [Run -> Connection] /\ Run = 1 .. Len(Sweep) /\ Len(Sweep) \in Nat
  BY SweepType DEF TypeOK
<1>1. CASE StartMonitor
  BY <1>0, <1>1, Constants DEF StartMonitor, Due, Sleeps, TypeOK, Numbers
<1>2. CASE EndIdle
  <2>1. pc' = "wait" /\ wake' \in Nat
    BY <1>0, <1>2, Constants DEF EndIdle, Waits, Numbers
  <2>2. out' \in [mode : BOOLEAN, elapsed : Nat]
    BY <1>2, Constants DEF EndIdle, Line
  <2> QED BY <1>0, <1>2, <2>1, <2>2 DEF EndIdle, TypeOK, Numbers
<1>3. CASE NextRun
  BY <1>0, <1>3, Constants DEF NextRun, Due, NoLine, TypeOK, Numbers
<1>4. CASE Connect
  <2>1. CASE endpoint
    <3>1. conn' \in [Run -> Connection]
      BY <1>0, <1>4, <2>1 DEF Connect, Due, Connection
    <3> QED BY <1>0, <1>4, <2>1, <3>1 DEF Connect, Due, TypeOK, Numbers
  <2>2. CASE ~endpoint
    BY <1>0, <1>4, <2>2, EndsType DEF Connect, Due, TypeOK, Numbers
  <2> QED BY <2>1, <2>2
<1>5. CASE Loop
  <2>1. CASE Elapsed < Secs
    BY <1>0, <1>5, <2>1 DEF Loop, Due, TypeOK, Numbers
  <2>2. CASE ~(Elapsed < Secs)
    <3>1. run \in Run /\ t0 <= now /\ Ends(Line(Elapsed))
      BY <1>5, <2>2 DEF Loop, Due, Clock, Loading
    <3>2. conn' \in [Run -> Connection] /\ out' \in [mode : BOOLEAN, elapsed : Nat]
          /\ pc' = "wait" /\ wake' \in Nat
      BY <1>0, <3>1, EndsType
    <3> QED BY <1>0, <1>5, <2>2, <3>2 DEF Loop, TypeOK, Numbers
  <2> QED BY <2>1, <2>2
<1>6. CASE SendAll
  <2>1. conn' \in [Run -> Connection] /\ sent' \in Nat
    <3>1. /\ run \in Run /\ conn[run].queued + Sweep[run].chunk <= Buffer
          /\ sent' = sent + Sweep[run].chunk
          /\ conn' = [conn EXCEPT ![run].queued = conn[run].queued + Sweep[run].chunk]
      BY <1>6 DEF SendAll, Due, Moves
    <3>2. conn[run].queued \in Nat /\ Sweep[run].chunk \in Nat
      BY <1>0, <3>1, Queued, SweepType
    <3>3. conn[run].queued + Sweep[run].chunk \in 0 .. Buffer /\ sent' \in Nat
      <4>1. Buffer \in Nat /\ sent \in Nat
        BY <1>0, Constants DEF Numbers
      <4>2. sent' = sent + Sweep[run].chunk /\ conn[run].queued + Sweep[run].chunk <= Buffer
        BY <3>1
      <4> QED BY ONLY <3>2, <4>1, <4>2
    <3> QED BY <1>0, <3>1, <3>3, Updates
  <2> QED BY <1>0, <1>6, <2>1 DEF SendAll, Moves, TypeOK, Numbers
<1>7. CASE Recv
  <2>1. conn' \in [Run -> Connection] /\ sent' \in Nat
    <3>1. /\ run \in Run /\ sent' = sent + Received(run)
          /\ conn' = [conn EXCEPT ![run].queued = conn[run].queued - Received(run)]
      BY <1>7 DEF Recv, Due, Moves
    <3>2. Received(run) \in Nat /\ conn[run].queued - Received(run) \in 0 .. Buffer
      BY <1>0, <3>1, Calls
    <3>3. conn' \in [Run -> Connection]
      BY <1>0, <3>1, <3>2, Updates
    <3> QED BY <1>0, <3>1, <3>2, <3>3 DEF Numbers
  <2> QED BY <1>0, <1>7, <2>1 DEF Recv, Moves, TypeOK, Numbers
<1>8. CASE PeerClosed
  <2>1. run \in Run /\ t0 <= now
    BY <1>8 DEF PeerClosed, Due, Clock, Loading
  <2>2. PICK line \in {NoLine, Line(Elapsed)} : Ends(line)
    BY <1>8 DEF PeerClosed
  <2>3. conn' \in [Run -> Connection] /\ out' \in [mode : BOOLEAN, elapsed : Nat]
        /\ pc' = "wait" /\ wake' \in Nat
    BY <1>0, <2>1, <2>2, EndsType
  <2> QED BY <1>0, <1>8, <2>3 DEF PeerClosed, TypeOK, Numbers
<1>9. CASE Pace
  <2>1. wake' \in Nat /\ pc' = "loop"
    BY <1>0, <1>9, Constants DEF Pace, Due, Sleeps, Elapsed, Numbers, Clock, Loading
  <2> QED BY <1>0, <1>9, <2>1 DEF Pace, TypeOK, Numbers
<1>10. CASE Tick
  BY <1>0, <1>10 DEF Tick, TypeOK, Numbers
<1>11. ASSUME NEW r \in Run, Accept(r) \/ Handle(r) PROVE TypeOK'
  BY <1>0, <1>11, HostStep DEF TypeOK, Numbers
<1>12. CASE EndpointDies
  <2>1. conn' \in [Run -> Connection]
    <3>1. \A r \in Run : [conn[r] EXCEPT !.host = "closed"] \in Connection
      BY <1>0 DEF Connection
    <3>2. conn' = [r \in Run |-> IF conn[r].host \in {"backlog", "handler"}
                                 THEN [conn[r] EXCEPT !.host = "closed"] ELSE conn[r]]
      BY <1>12 DEF EndpointDies
    <3>3. conn \in [Run -> Connection]
      BY <1>0
    <3> QED BY ONLY <3>1, <3>2, <3>3
  <2>2. deaths' \in 0 .. MaxDeaths
    BY <1>12, Constants DEF EndpointDies, TypeOK
  <2>3. UNCHANGED <<run, pc, now, wake, t0, sent, dialAt, callAt, out>> /\ endpoint' = FALSE
    BY <1>12 DEF EndpointDies
  <2> QED BY <2>1, <2>2, <2>3 DEF TypeOK, Numbers
<1>13. CASE EndpointStarts
  BY <1>0, <1>13 DEF EndpointStarts, TypeOK, Numbers
<1>14. CASE Done \/ UNCHANGED vars
  BY <1>14 DEF Done, vars, TypeOK, Numbers
<1> QED BY <1>1, <1>2, <1>3, <1>4, <1>5, <1>6, <1>7, <1>8, <1>9, <1>10, <1>11, <1>12, <1>13,
           <1>14 DEF Next, Board

(* Every step keeps each position within its time. *)
LEMMA ClockStep ==
  ASSUME TypeOK, Clock, [Next]_vars
  PROVE  Clock'
<1> USE DEF Clock, Loading, script, load, host
<1>0. Numbers /\ conn \in [Run -> Connection]
  BY DEF TypeOK
<1>1. CASE StartMonitor
  <2>1. PICK d \in 0 .. MaxLatency : pc' = "idling" \/ (pc' = "connect" /\ wake' = now + (PreRoll + d))
    BY <1>1, Constants DEF StartMonitor, Sleeps
  <2> QED BY <1>0, <1>1, <2>1, Constants DEF StartMonitor, Due, Numbers
<1>2. CASE EndIdle \/ NextRun
  BY <1>2 DEF EndIdle, Waits, NextRun, Due
<1>3. CASE Connect
  BY <1>0, <1>3, Constants DEF Connect, Due, Ends, Waits, Numbers
<1>4. CASE Loop
  BY <1>0, <1>4, Constants DEF Loop, Due, Ends, Waits, Elapsed, Numbers
<1>5. CASE SendAll \/ Recv
  BY <1>5 DEF SendAll, Recv, Due, Moves
<1>6. CASE PeerClosed
  BY <1>6 DEF PeerClosed, Due, Ends, Waits
<1>7. CASE Pace
  BY <1>7 DEF Pace, Due, Sleeps
<1>8. CASE Tick
  BY <1>0, <1>8 DEF Tick, Numbers
<1>9. ASSUME NEW r \in Run, Accept(r) \/ Handle(r) PROVE Clock'
  BY <1>0, <1>9, HostStep
<1>10. CASE EndpointDies \/ EndpointStarts \/ Done \/ UNCHANGED vars
  BY <1>10 DEF EndpointDies, EndpointStarts, Done, vars
<1> QED BY <1>1, <1>2, <1>3, <1>4, <1>5, <1>6, <1>7, <1>8, <1>9, <1>10 DEF Next, Board

(* The shape of the state, and the load's place in the capture: for every  *)
(* sweep.                                                                  *)
THEOREM TypeCorrect == Spec => [](TypeOK /\ Clock)
<1> QED BY TypeClockInit, TypeStep, ClockStep, PTL DEF Spec

(* A load connects within the preroll and an ssh call, and its calls begin *)
(* within its duration, so only a slow connection and a last, slow call    *)
(* leave the capture.                                                      *)
THEOREM CaptureHolds == Spec => []InsideCapture
<1>1. TypeOK /\ Clock => InsideCapture
  BY Constants DEF TypeOK, Numbers, Clock, InsideCapture
<1> QED BY <1>1, TypeCorrect, PTL

-----------------------------------------------------------------------------
(* The lead of a load over its rate. *)
LEMMA LeadStep ==
  ASSUME TypeOK, Clock, Lead, [Next]_vars
  PROVE  Lead'
<1> USE DEF Lead, Loading, script, load, host
<1>0. Numbers /\ conn \in [Run -> Connection]
  BY DEF TypeOK
<1>o. \A r \in Run : OneCall(r) \in Nat
  BY SweepType DEF OneCall
<1>1. CASE StartMonitor
  BY <1>1 DEF StartMonitor, Due, Sleeps
<1>2. CASE EndIdle \/ NextRun
  BY <1>2 DEF EndIdle, Waits, NextRun, Due
<1>3. CASE Connect
  <2>1. run \in Run /\ sent = 0 /\ sent' = 0 /\ run' = run /\ now' = now
        /\ (pc' = "wait" \/ (pc' = "loop" /\ t0' = now))
    BY <1>3 DEF Connect, Due, Ends, Waits, Clock
  <2> QED BY <1>0, <1>o, <2>1 DEF Numbers
<1>4. CASE Loop
  <2>1. /\ run \in Run /\ run' = run /\ now' = now /\ t0' = t0 /\ sent' = sent
        /\ pc = "loop" /\ now >= wake /\ pc' \in {"call", "wait"}
    BY <1>4 DEF Loop, Due, Ends, Waits
  <2> QED BY <1>0, <2>1, <1>o DEF Numbers
<1>5. CASE SendAll \/ Recv
  <2>1. run \in Run /\ pc = "call" /\ pc' = "pace" /\ run' = run /\ now' = now /\ t0' = t0
    BY <1>5 DEF SendAll, Recv, Due, Moves
  <2>2. sent' \in Nat /\ sent' <= sent + OneCall(run)
    <3>1. CASE SendAll
      BY <1>0, <2>1, <3>1, SweepType DEF SendAll, Moves, OneCall, Mode, Numbers
    <3>2. CASE Recv
      <4>1. Sweep[run].mode = "rx" /\ sent' = sent + Received(run)
        BY <3>2 DEF Recv, Moves, Mode
      <4>2. Received(run) \in Nat /\ Received(run) <= OneCall(run)
        BY <1>0, <2>1, <4>1, Calls DEF OneCall
      <4>3. sent \in Nat /\ OneCall(run) \in Nat
        BY <1>0, <1>o, <2>1 DEF Numbers
      <4> QED BY ONLY <4>1, <4>2, <4>3
    <3> QED BY <1>5, <3>1, <3>2
  <2> QED BY <1>0, <1>o, <2>1, <2>2 DEF Numbers, Clock
<1>6. CASE PeerClosed
  <2>1. run' = run /\ pc' = "wait"
    BY <1>6 DEF PeerClosed, Ends, Waits
  <2> QED BY <2>1
<1>7. CASE Pace
  <2>1. /\ run \in Run /\ run' = run /\ now' = now /\ t0' = t0 /\ sent' = sent
        /\ pc = "pace" /\ pc' = "loop" /\ t0 <= now
    BY <1>7 DEF Pace, Due, Sleeps, Clock
  <2>2. CASE sent > Elapsed
    <3>1. wake' = now + (IF sent - Elapsed < Nap THEN sent - Elapsed ELSE Nap)
      BY <1>7, <2>2 DEF Pace, Sleeps
    <3> QED BY <1>0, <1>o, <2>1, <2>2, <3>1, Constants DEF Elapsed, Numbers
  <2>3. CASE ~(sent > Elapsed)
    BY <1>0, <1>o, <2>1, <2>3 DEF Elapsed, Numbers
  <2> QED BY <2>2, <2>3
<1>8. CASE Tick
  BY <1>0, <1>o, <1>8 DEF Tick, Numbers, Clock
<1>9. ASSUME NEW r \in Run, Accept(r) \/ Handle(r) PROVE Lead'
  BY <1>0, <1>9, HostStep
<1>10. CASE EndpointDies \/ EndpointStarts \/ Done \/ UNCHANGED vars
  BY <1>10 DEF EndpointDies, EndpointStarts, Done, vars
<1> QED BY <1>1, <1>2, <1>3, <1>4, <1>5, <1>6, <1>7, <1>8, <1>9, <1>10 DEF Next, Board

(* The pacing of board_load.py holds its target to one call, at every rate *)
(* at which one call is worth no more than the longest sleep.              *)
THEOREM PacingHolds == Spec => []PaceHeld
<1>1. Init => Lead
  BY DEF Init, Lead, Loading
<1>2. TypeOK /\ Clock /\ Lead /\ [Next]_vars => Lead'
  BY LeadStep
<1>3. Lead => PaceHeld
  BY DEF Lead, PaceHeld, Elapsed
<1> QED BY <1>1, <1>2, <1>3, TypeCorrect, PTL DEF Spec

-----------------------------------------------------------------------------
(* Whose connection is open, and which line was printed. *)
LEMMA ConnsStep ==
  ASSUME TypeOK, Clock, Conns, LineTrue, [Next]_vars
  PROVE  Conns' /\ LineTrue'
<1> USE DEF Conns, LineTrue, Loading, NoLine, NoConn, Mode, script, load, host
<1>0. /\ Numbers /\ conn \in [Run -> Connection] /\ Run = 1 .. Len(Sweep) /\ deaths \in Nat
      /\ Len(Sweep) \in Nat
  BY SweepType, Constants DEF TypeOK
<1>1. CASE StartMonitor
  BY <1>1 DEF StartMonitor, Due, Sleeps
<1>2. CASE EndIdle
  BY <1>0, <1>2, Constants DEF EndIdle, Waits, Due, Line
<1>3. CASE NextRun
  BY <1>0, <1>3 DEF NextRun, Due, Numbers
<1>4. CASE Connect
  <2>1. run \in Run /\ pc = "connect" /\ UNCHANGED <<run, deaths>>
    BY <1>4 DEF Connect, Due
  <2>2. \/ /\ conn' = [conn EXCEPT ![run].board = "open", ![run].host = "backlog"]
           /\ pc' = "loop" /\ out' = out
        \/ /\ conn' = [conn EXCEPT ![run].board = "closed"]
           /\ pc' = "wait" /\ out' = NoLine
    <3>1. CASE endpoint
      BY <1>4, <3>1 DEF Connect
    <3>2. CASE ~endpoint
      BY <1>4, <3>2 DEF Connect, Ends, Waits
    <3> QED BY <3>1, <3>2
  <2>3. \A s \in Run \ {run} : conn'[s] = conn[s]
    BY <1>0, <2>1, <2>2
  <2>4. \/ conn'[run].board = "open" /\ conn'[run].host = "backlog" /\ pc' = "loop" /\ out' = NoLine
        \/ conn'[run].board = "closed" /\ pc' = "wait" /\ out' = NoLine
    <3>1. conn \in [Run -> Connection] /\ out = NoLine
      BY <1>0, <2>1
    <3>2. \A c \in Connection : /\ [c EXCEPT !.board = "open", !.host = "backlog"].board = "open"
                               /\ [c EXCEPT !.board = "open", !.host = "backlog"].host = "backlog"
                               /\ [c EXCEPT !.board = "closed"].board = "closed"
      BY DEF Connection
    <3>3. \/ /\ conn'[run] = [conn[run] EXCEPT !.board = "open", !.host = "backlog"]
             /\ pc' = "loop" /\ out' = NoLine
          \/ /\ conn'[run] = [conn[run] EXCEPT !.board = "closed"]
             /\ pc' = "wait" /\ out' = NoLine
      BY <2>1, <2>2, <3>1
    <3> QED BY <2>1, <3>1, <3>2, <3>3
  <2> QED BY <1>0, <2>1, <2>3, <2>4 DEF Numbers
<1>5. CASE Loop
  <2>1. CASE Elapsed < Secs
    BY <1>5, <2>1 DEF Loop, Due
  <2>2. CASE ~(Elapsed < Secs)
    <3>1. /\ run \in Run /\ run' = run /\ deaths' = deaths /\ pc' = "wait"
          /\ out' = Line(Elapsed) /\ conn' = [conn EXCEPT ![run].board = "closed"]
      BY <1>5, <2>2 DEF Loop, Due, Ends, Waits
    <3>2. /\ \A s \in Run \ {run} : conn'[s] = conn[s]
          /\ conn'[run].board = "closed"
      BY <1>0, <3>1 DEF Connection
    <3>3. ~(out'.elapsed < Secs)
      BY <2>2, <3>1 DEF Line
    <3> QED BY <1>0, <3>1, <3>2, <3>3 DEF Numbers
  <2> QED BY <2>1, <2>2
<1>6. CASE SendAll \/ Recv
  <2>1. UNCHANGED <<run, out, deaths>> /\ run \in Run /\ pc = "call" /\ pc' = "pace"
    BY <1>6 DEF SendAll, Recv, Due, Moves
  <2>2. \E q : conn' = [conn EXCEPT ![run].queued = q]
    BY <1>6 DEF SendAll, Recv, Moves
  <2>3. /\ \A s \in Run \ {run} : conn'[s] = conn[s]
        /\ conn'[run].board = conn[run].board /\ conn'[run].host = conn[run].host
    BY <1>0, <2>1, <2>2 DEF Connection
  <2> QED BY <1>0, <2>1, <2>3 DEF Numbers
<1>7. CASE PeerClosed
  <2>1. /\ run \in Run /\ pc = "call" /\ conn[run].board = "open" /\ conn[run].host = "closed"
        /\ run' = run /\ deaths' = deaths /\ deaths > 0
    BY <1>7 DEF PeerClosed, Due
  <2>2. PICK line : Ends(line) /\ (line = NoLine \/ Mode = "rx")
    BY <1>7 DEF PeerClosed
  <2> QED BY <1>0, <2>1, <2>2 DEF Ends, Waits, Numbers
<1>8. CASE Pace
  BY <1>8 DEF Pace, Due, Sleeps
<1>9. CASE Tick
  BY <1>9 DEF Tick
<1>10. ASSUME NEW r \in Run, Accept(r) \/ Handle(r) PROVE Conns' /\ LineTrue'
  <2>1. UNCHANGED <<run, pc, out, deaths>> /\ conn[r].host \in {"backlog", "handler"}
    BY <1>0, <1>10, HostStep DEF Accept, Handle, Sink, Source
  <2>2. /\ \A s \in Run \ {r} : conn'[s] = conn[s]
        /\ conn'[r].board = conn[r].board
        /\ conn'[r].host = "closed" => conn[r].board = "closed"
    BY <1>0, <1>10 DEF Accept, Handle, Sink, Source, Closes, Connection
  <2>3. conn[r] # NoConn
    BY <2>1
  <2> QED BY <1>0, <2>1, <2>2, <2>3
<1>11. CASE EndpointDies
  <2>1. UNCHANGED <<run, pc, out>> /\ deaths' > 0
    BY <1>0, <1>11 DEF EndpointDies
  <2>2. \A r \in Run : conn'[r].board = conn[r].board /\ (conn[r] = NoConn => conn'[r] = NoConn)
    BY <1>0, <1>11 DEF EndpointDies, Connection
  <2> QED BY <1>0, <2>1, <2>2
<1>12. CASE EndpointStarts \/ Done \/ UNCHANGED vars
  BY <1>12 DEF EndpointStarts, Done, vars
<1> QED BY <1>1, <1>2, <1>3, <1>4, <1>5, <1>6, <1>7, <1>8, <1>9, <1>10, <1>11, <1>12
        DEF Next, Board

(* Only a receiving load whose endpoint went away prints a line for less   *)
(* than its duration.                                                      *)
THEOREM LinesTell == Spec => []LineTrue
<1>1. Init => Conns /\ LineTrue
  BY SweepType DEF Init, Conns, LineTrue, Loading, NoLine, NoConn
<1>2. TypeOK /\ Clock /\ Conns /\ LineTrue /\ [Next]_vars => Conns' /\ LineTrue'
  BY ConnsStep
<1> QED BY <1>1, <1>2, TypeCorrect, PTL DEF Spec
=============================================================================
