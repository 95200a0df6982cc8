--------------------------- MODULE WorkloadProofs ---------------------------
(***************************************************************************)
(* Theorems about the two bare-metal workloads, which share the controller *)
(* and the timer of GicTimer.                                              *)
(*                                                                         *)
(* BenchDuty, for every number of windows, duty and execution speed: no    *)
(* halted phase is cut short, no active phase overruns by a chunk, and the *)
(* program is the sweep of DutyCycle.  WfiDiag, for every length of the    *)
(* poll and of the timer and on every board: the answers are those of the  *)
(* board, and explain every hang.                                          *)
(***************************************************************************)
EXTENDS BenchDuty, WfiDiag, TLAPS

-----------------------------------------------------------------------------
(* bench-duty.S.                                                           *)

USE BenchDutyAssumption

(* Every chunk takes at least a tick, and less than the longest one more.  *)
LEMMA ChunkRange == \A t \in ChunkTicks : t \in Nat /\ t >= 1 /\ t <= LongestChunk
  OBVIOUS

(* The idle phase of the assembler's arithmetic has a length. *)
LEMMA IdleNat == ASSUME duty \in Duties PROVE IdleTicks \in Nat
<1>1. duty \in 1 .. 100 /\ 100 - duty \in Nat
  OBVIOUS
<1>2. ActiveTicks * (100 - duty) \in Nat
  BY <1>1
<1> QED BY <1>1, <1>2 DEF IdleTicks

(* A step of the bring-up touches the controller and nothing else. *)
LEMMA BringUpOnly ==
  ASSUME GicType, BringUp
  PROVE  /\ GicType'
         /\ pc \in BringUpSteps /\ pc' \in BringUpSteps \cup {"ready"}
         /\ UNCHANGED <<board, now, cval, armed, pend>>
<1> USE DEF GicType, BringUpSteps, timerVars
<1>1. \A at, next, settings :
        Configure(at, settings, next) =>
          /\ GicType' /\ pc = at /\ pc' = next
          /\ UNCHANGED <<board, now, cval, armed, pend>>
  BY DEF Configure, Set, Boards
<1>2. CASE WakeRedistributor
  BY <1>2 DEF WakeRedistributor
<1>3. CASE PollAsleep
  BY <1>3 DEF PollAsleep, gicVars
<1>4. CASE RouteAffinity
  BY <1>1, <1>4 DEF RouteAffinity
<1>5. CASE EnableGroups
  BY <1>1, <1>5 DEF EnableGroups
<1>6. CASE SetGroup1
  BY <1>1, <1>6 DEF SetGroup1
<1>7. CASE EnablePpi
  BY <1>1, <1>7 DEF EnablePpi
<1>8. CASE SetPriority
  BY <1>1, <1>8 DEF SetPriority
<1>9. CASE UseSystemRegs
  BY <1>1, <1>9 DEF UseSystemRegs
<1>10. CASE Unmask
  BY <1>1, <1>10 DEF Unmask
<1>11. CASE EnableGroup1
  BY <1>1, <1>11 DEF EnableGroup1
<1> QED
  BY <1>2, <1>3, <1>4, <1>5, <1>6, <1>7, <1>8, <1>9, <1>10, <1>11 DEF BringUp

(* The shape of the state. *)
THEOREM DutyTypeCorrect == Spec => []TypeOK
<1>1. Init => TypeOK
  <2>1. GoodBoard \in Boards
    BY DEF GoodBoard, Boards
  <2>2. Init => GicType /\ board = GoodBoard
    <3> SUFFICES ASSUME Init PROVE GicType /\ board = GoodBoard
      OBVIOUS
    <3>1. board = GoodBoard /\ PowerOn
      BY DEF Init
    <3>2. gic \subseteq Settings /\ now \in Nat /\ cval \in Nat
      BY <3>1 DEF PowerOn
    <3>3. sleepAsked \in BOOLEAN /\ asleep \in BOOLEAN /\ armed \in BOOLEAN /\ pend \in BOOLEAN
      BY <3>1 DEF PowerOn
    <3> QED BY <2>1, <3>1, <3>2, <3>3 DEF GicType
  <2> QED BY <2>2 DEF Init, TypeOK, Steps, BringUpSteps
<1>2. TypeOK /\ [Next]_vars => TypeOK'
  <2> SUFFICES ASSUME TypeOK, [Next]_vars PROVE TypeOK'
    OBVIOUS
  <2>1. CASE Board
    <3> USE DEF programVars, history, gicVars, timerVars
    <3>1. CASE Sample
      BY <2>1, <3>1 DEF Board, Sample, Line, TypeOK, GicType, GoodBoard
    <3>2. CASE ChildrenWake
      BY <2>1, <3>2 DEF Board, ChildrenWake, TypeOK, GicType
    <3>3. CASE HaltedTick
      BY <2>1, <3>3 DEF Board, HaltedTick, Elapse, TypeOK, GicType
    <3> QED BY <2>1, <3>1, <3>2, <3>3 DEF Board
  <2>2. CASE BringUp /\ UNCHANGED <<programVars, history>>
    BY <2>2, BringUpOnly DEF TypeOK, programVars, history, Steps, BringUpSteps
  <2>3. CASE Start \/ PowerOff
    BY <2>3 DEF Start, PowerOff, TypeOK, GicType, Steps, BringUpSteps, history, gicVars, timerVars
  <2>4. CASE BeginWindow
    BY <2>4 DEF BeginWindow, TypeOK, GicType, Steps, gicVars, timerVars
  <2>5. CASE Burst
    BY <2>5, ChunkRange
       DEF Burst, Elapse, TypeOK, GicType, Steps, programVars, history, gicVars, timerVars
  <2>6. CASE CheckDeadline
    BY <2>6 DEF CheckDeadline, TypeOK, GicType, Steps, programVars, gicVars, timerVars
  <2>7. CASE SetTimer
    BY <2>7, IdleNat
       DEF SetTimer, SetCompare, TypeOK, GicType, Steps, programVars, gicVars
  <2>8. CASE EnableTimer
    BY <2>8 DEF EnableTimer, Enable, TypeOK, GicType, Steps, programVars, history, gicVars
  <2>9. CASE Wake
    BY <2>9 DEF Wake, TypeOK, GicType, Steps, programVars, history, gicVars, timerVars
  <2>10. CASE Disarm
    BY <2>10 DEF Disarm, Disarmed, TypeOK, GicType, Steps, programVars, history, gicVars
  <2>11. CASE NextWindow
    BY <2>11 DEF NextWindow, TypeOK, GicType, Steps, history, gicVars, timerVars
  <2>12. CASE UNCHANGED vars
    BY <2>12 DEF vars, boardVars, TypeOK, GicType, programVars, history, gicVars, timerVars
  <2> QED
    BY <2>1, <2>2, <2>3, <2>4, <2>5, <2>6, <2>7, <2>8, <2>9, <2>10, <2>11, <2>12
       DEF Next, Core, Finished
<1> QED BY <1>1, <1>2, PTL DEF Spec

(* While the timer is off, its line is low, so the counter advances only   *)
(* with no interrupt pending: each window starts its halted phase quiet.   *)
THEOREM QuietInvariant == Spec => []QuietInv
<1>1. Init => QuietInv
  BY DEF Init, PowerOn, QuietInv
<1>2. TypeOK /\ QuietInv /\ [Next]_vars => QuietInv'
  <2> SUFFICES ASSUME TypeOK, QuietInv, [Next]_vars PROVE QuietInv'
    OBVIOUS
  <2> USE DEF QuietInv
  <2>0. now \in Nat /\ cval \in Nat /\ board.runs = TRUE /\ IdleTicks \in Nat
    BY IdleNat DEF TypeOK, GicType, GoodBoard
  <2>1. CASE Board
    <3>1. UNCHANGED <<pc, armed, cval, idleFrom, duty>>
      BY <2>1 DEF Board, Sample, ChildrenWake, HaltedTick, timerVars, programVars, history
    <3>2. IdleTicks' = IdleTicks
      BY <3>1 DEF IdleTicks
    <3>3. CASE Sample
      <4>1. now' = now /\ pend' = (armed /\ now >= cval)
        BY <2>0, <3>3 DEF Sample, Line
      <4> QED BY <2>0, <3>1, <3>2, <4>1
    <3>4. CASE ChildrenWake
      <4>1. now' = now /\ pend' = pend
        BY <3>4 DEF ChildrenWake
      <4> QED BY <3>1, <3>2, <4>1
    <3>5. CASE HaltedTick
      <4>1. now' = now + 1 /\ pend' = pend /\ pc = "wfi" /\ now < cval
        BY <3>5 DEF HaltedTick, Elapse
      <4> QED BY <2>0, <3>1, <3>2, <4>1
    <3> QED BY <2>1, <3>3, <3>4, <3>5 DEF Board
  <2>2. CASE BringUp /\ UNCHANGED <<programVars, history>>
    <3>1. /\ pc \in BringUpSteps /\ pc' \in BringUpSteps \cup {"ready"}
          /\ UNCHANGED <<now, cval, armed, pend>>
      BY <2>2, BringUpOnly DEF TypeOK
    <3>2. ~armed /\ ~armed'
      BY <3>1 DEF BringUpSteps
    <3> QED BY <3>1, <3>2 DEF BringUpSteps
  <2>3. CASE Start \/ BeginWindow \/ NextWindow \/ PowerOff
    <3>1. /\ pc \notin {"wfi", "disarm"} /\ armed' = armed
          /\ pc' \in {"distributor", "burst", "finish", "ready", "off"}
      BY <2>3 DEF Start, BeginWindow, NextWindow, PowerOff, timerVars
    <3> QED BY <3>1
  <2>4. CASE Burst
    <3>1. /\ pc = "burst" /\ pc' = "check" /\ armed' = armed /\ pend' = pend
          /\ pend = Line
      BY <2>4 DEF Burst, Elapse, Settled, timerVars
    <3> QED BY <3>1 DEF Line
  <2>5. CASE CheckDeadline
    <3>1. /\ pc = "check" /\ pc' \in {"burst", "tval", "next"}
          /\ armed' = armed /\ pend' = pend
      BY <2>5 DEF CheckDeadline, timerVars
    <3> QED BY <3>1
  <2>6. CASE SetTimer
    <3>1. /\ pc = "tval" /\ pc' = "enableTimer" /\ armed' = armed /\ pend' = pend
          /\ cval' = now + IdleTicks /\ idleFrom' = now /\ duty' = duty
      BY <2>6 DEF SetTimer, SetCompare, programVars
    <3>2. IdleTicks' = IdleTicks
      BY <3>1 DEF IdleTicks
    <3> QED BY <3>1, <3>2
  <2>7. CASE EnableTimer
    <3>1. /\ pc = "enableTimer" /\ pc' = "wfi" /\ armed' = TRUE /\ pend' = pend
          /\ UNCHANGED <<cval, idleFrom, duty>>
      BY <2>7 DEF EnableTimer, Enable, programVars, history
    <3>2. IdleTicks' = IdleTicks
      BY <3>1 DEF IdleTicks
    <3> QED BY <3>1, <3>2
  <2>8. CASE Wake
    <3>1. /\ pc = "wfi" /\ pc' = "disarm" /\ pend
          /\ UNCHANGED <<armed, pend, now, cval, idleFrom, duty>>
      BY <2>8 DEF Wake, Delivered, timerVars, programVars, history
    <3>2. IdleTicks' = IdleTicks
      BY <3>1 DEF IdleTicks
    <3> QED BY <3>1, <3>2
  <2>9. CASE Disarm
    <3>1. pc' = "next" /\ ~armed'
      BY <2>9 DEF Disarm, Disarmed
    <3> QED BY <3>1
  <2>10. CASE UNCHANGED vars
    BY <2>10 DEF vars, boardVars, programVars, history, timerVars, IdleTicks
  <2> QED
    BY <2>1, <2>2, <2>3, <2>4, <2>5, <2>6, <2>7, <2>8, <2>9, <2>10
       DEF Next, Core, Finished
<1> QED BY <1>1, <1>2, DutyTypeCorrect, PTL DEF Spec

(* No window's WFI ends before its idle ticks have passed. *)
THEOREM HaltsInFull == Spec => []NeverWokenEarly
<1>1. TypeOK /\ QuietInv => NeverWokenEarly
  <2> SUFFICES ASSUME TypeOK, QuietInv, pc = "disarm" PROVE now - idleFrom >= IdleTicks
    BY DEF NeverWokenEarly
  <2>1. now \in Nat /\ idleFrom \in Nat /\ IdleTicks \in Nat
    BY IdleNat DEF TypeOK, GicType
  <2>2. cval = idleFrom + IdleTicks /\ now >= cval
    BY DEF QuietInv
  <2> QED BY <2>1, <2>2
<1> QED BY <1>1, DutyTypeCorrect, QuietInvariant, PTL

(* No active phase is short, and none overruns by a chunk or more. *)
THEOREM ActiveInvariant == Spec => []ActiveInv
<1>1. Init => ActiveInv
  BY DEF Init, ActiveInv, ActiveBounded
<1>2. TypeOK /\ QuietInv /\ ActiveInv /\ [Next]_vars => ActiveInv'
  <2> SUFFICES ASSUME TypeOK, QuietInv, ActiveInv, [Next]_vars PROVE ActiveInv'
    OBVIOUS
  <2> USE DEF ActiveInv, ActiveBounded
  <2>0. now \in Nat /\ deadline \in Nat /\ began \in Nat /\ active \in Int
    BY DEF TypeOK, GicType
  <2>1. CASE Board
    <3>1. UNCHANGED <<pc, deadline, began, active>> /\ (now' = now \/ pc = "wfi")
      BY <2>1 DEF Board, Sample, ChildrenWake, HaltedTick, programVars, history
    <3> QED BY <3>1
  <2>2. CASE BringUp /\ UNCHANGED <<programVars, history>>
    <3>1. pc' \in BringUpSteps \cup {"ready"} /\ active' = active
      BY <2>2, BringUpOnly DEF TypeOK, history
    <3> QED BY <3>1 DEF BringUpSteps
  <2>3. CASE BeginWindow
    BY <2>0, <2>3 DEF BeginWindow
  <2>4. CASE Burst
    <3>1. PICK ticks \in ChunkTicks : now' = now + ticks
      BY <2>4 DEF Burst, Elapse
    <3>2. /\ pc = "burst" /\ pc' = "check"
          /\ UNCHANGED <<deadline, began, active>>
      BY <2>4 DEF Burst, programVars, history
    <3> QED BY <2>0, <3>1, <3>2, ChunkRange
  <2>5. CASE CheckDeadline
    BY <2>0, <2>5 DEF CheckDeadline, programVars
  <2>6. CASE \/ Start \/ SetTimer \/ EnableTimer \/ Wake
             \/ Disarm \/ NextWindow \/ PowerOff
    <3>1. active' = active /\ pc' \notin {"burst", "check"}
      BY <2>6 DEF Start, SetTimer, SetCompare, EnableTimer, Enable, Wake, Disarm, Disarmed,
                  NextWindow, PowerOff, history
    <3> QED BY <3>1
  <2>7. CASE UNCHANGED vars
    BY <2>7 DEF vars, boardVars, programVars, history
  <2> QED BY <2>1, <2>2, <2>3, <2>4, <2>5, <2>6, <2>7 DEF Next, Core, Finished
<1> QED BY <1>1, <1>2, DutyTypeCorrect, QuietInvariant, PTL DEF Spec

(* The assembler's quotient is the last tick at which the core may rest:   *)
(* with one more, the duty cycle would fall below DUTY percent.            *)
LEMMA QuotientBounds ==
  ASSUME NEW a \in Nat, NEW d \in Nat \ {0}, NEW k \in Nat
  PROVE  k < a \div d <=> d * (k + 1) <= a
<1> DEFINE q == a \div d
<1>1. q \in Nat /\ d * q <= a /\ a < d * (q + 1)
  OBVIOUS
<1> HIDE DEF q
<1>2. \A m, n \in Nat : m <= n => d * m <= d * n
  <2> SUFFICES ASSUME NEW m \in Nat, NEW n \in Nat, m <= n PROVE d * m <= d * n
    OBVIOUS
  <2>1. n - m \in Nat /\ n = m + (n - m)
    OBVIOUS
  <2>2. d * n = d * m + d * (n - m) /\ d * (n - m) \in Nat /\ d * m \in Nat
    BY <2>1
  <2> QED BY <2>2
<1>3. CASE k < q
  <2>1. d * (k + 1) <= d * q
    BY <1>1, <1>2, <1>3
  <2> QED BY <1>1, <1>3, <2>1 DEF q
<1>4. CASE q <= k
  <2>1. d * (q + 1) <= d * (k + 1)
    BY <1>1, <1>2, <1>4
  <2> QED BY <1>1, <1>4, <2>1 DEF q
<1> QED BY <1>1, <1>3, <1>4

(* IDLE_TICKS, a quotient, is the number of halted ticks that leave the    *)
(* duty cycle at DUTY percent or above.                                    *)
LEMMA RestLasts ==
  ASSUME duty \in Duties, NEW k \in Nat
  PROVE  k < IdleTicks <=> 100 * ActiveTicks >= duty * (ActiveTicks + k + 1)
<1>1. duty \in Nat \ {0} /\ 100 - duty \in Nat
  OBVIOUS
<1> DEFINE work == ActiveTicks * (100 - duty)
<1>2. work \in Nat
  BY <1>1
<1>3. k < IdleTicks <=> duty * (k + 1) <= work
  BY <1>1, <1>2, QuotientBounds DEF IdleTicks
<1>4. work = 100 * ActiveTicks - duty * ActiveTicks
  BY <1>1
<1>5. duty * (ActiveTicks + k + 1) = duty * ActiveTicks + duty * (k + 1)
  BY <1>1
<1>6. duty * (k + 1) \in Nat /\ duty * ActiveTicks \in Nat /\ 100 * ActiveTicks \in Nat
  BY <1>1
<1> HIDE DEF work
<1> QED BY <1>2, <1>3, <1>4, <1>5, <1>6

(* The halted phase is measured from the moment the timer was set. *)
RestInv == pc \in {"enableTimer", "wfi", "disarm"} => now >= idleFrom

(* The counter is never behind the moment the halted phase began.          *)
THEOREM RestInvariant == Spec => []RestInv
<1>1. Init => RestInv
  BY DEF Init, RestInv
<1>2. TypeOK /\ RestInv /\ [Next]_vars => RestInv'
  <2> SUFFICES ASSUME TypeOK, RestInv, [Next]_vars PROVE RestInv'
    OBVIOUS
  <2> USE DEF RestInv
  <2>0. now \in Nat /\ idleFrom \in Nat
    BY DEF TypeOK, GicType
  <2>1. CASE Board
    <3>1. UNCHANGED <<pc, idleFrom>> /\ now' \in {now, now + 1}
      BY <2>1 DEF Board, Sample, ChildrenWake, HaltedTick, Elapse, history
    <3> QED BY <2>0, <3>1
  <2>2. CASE BringUp /\ UNCHANGED <<programVars, history>>
    <3>1. pc' \in BringUpSteps \cup {"ready"}
      BY <2>2, BringUpOnly DEF TypeOK
    <3> QED BY <3>1 DEF BringUpSteps
  <2>3. CASE SetTimer
    <3>1. now' = now /\ idleFrom' = now
      BY <2>3 DEF SetTimer, SetCompare
    <3> QED BY <2>0, <3>1
  <2>4. CASE EnableTimer \/ Wake \/ Disarm
    <3>1. /\ pc \in {"enableTimer", "wfi", "disarm"}
          /\ UNCHANGED <<now, idleFrom>>
      BY <2>4 DEF EnableTimer, Enable, Wake, Disarm, Disarmed, history
    <3> QED BY <3>1
  <2>5. CASE Start \/ BeginWindow \/ Burst \/ CheckDeadline \/ NextWindow \/ PowerOff
    <3>1. pc' \notin {"enableTimer", "wfi", "disarm"}
      BY <2>5 DEF Start, BeginWindow, Burst, CheckDeadline, NextWindow, PowerOff
    <3> QED BY <3>1
  <2>6. CASE UNCHANGED vars
    BY <2>6 DEF vars, boardVars, history
  <2> QED BY <2>1, <2>2, <2>3, <2>4, <2>5, <2>6 DEF Next, Core, Finished
<1> QED BY <1>1, <1>2, DutyTypeCorrect, PTL DEF Spec

(* What the position says of the sweep. *)
LEMMA Position ==
  /\ pc \in {"burst", "check"} => Phase = "active" /\ Spent = now - began
  /\ pc \in {"tval", "enableTimer", "wfi", "disarm"} => Phase = "halted"
  /\ pc = "tval" => Spent = 0
  /\ pc \in {"enableTimer", "wfi", "disarm"} => Spent = now - idleFrom
  /\ pc = "off" => Phase = "off" /\ Spent = 0
  /\ pc \in BringUpSteps \cup {"start", "ready", "next", "finish"} =>
       Phase = "between" /\ Spent = 0
  /\ WindowsLeft = IF pc = "next" THEN left - 1 ELSE left
  BY DEF Phase, Spent, WindowsLeft, BringUpSteps

(* Position, of the state after a step. *)
LEMMA PositionNext ==
  /\ pc' \in {"burst", "check"} => Phase' = "active" /\ Spent' = now' - began'
  /\ pc' \in {"tval", "enableTimer", "wfi", "disarm"} => Phase' = "halted"
  /\ pc' = "tval" => Spent' = 0
  /\ pc' \in {"enableTimer", "wfi", "disarm"} => Spent' = now' - idleFrom'
  /\ pc' = "off" => Phase' = "off" /\ Spent' = 0
  /\ pc' \in BringUpSteps \cup {"start", "ready", "next", "finish"} =>
       Phase' = "between" /\ Spent' = 0
  /\ WindowsLeft' = IF pc' = "next" THEN left' - 1 ELSE left'
  BY DEF Phase, Spent, WindowsLeft, BringUpSteps

(* The workload is the sweep its header promises: each chunk of the burst  *)
(* is a piece of work, each tick of the counter in the WFI one of rest,    *)
(* and everything else that the controller, the timer and the program do   *)
(* is either the end of a phase or hidden.                                 *)
THEOREM DutyKept == Spec => KeepsDuty
<1>1. Init => Sweep!Init
  <2> SUFFICES ASSUME Init PROVE Sweep!Init
    OBVIOUS
  <2>1. pc = "start" /\ left = Windows /\ duty \in Duties
    BY DEF Init
  <2> QED BY <2>1, Position DEF Sweep!Init
<1>2. TypeOK /\ QuietInv /\ ActiveInv /\ RestInv /\ [Next]_vars => [Sweep!Next]_(Sweep!vars)
  <2> SUFFICES ASSUME TypeOK, QuietInv, ActiveInv, RestInv, [Next]_vars
               PROVE  Sweep!Next \/ UNCHANGED <<duty, WindowsLeft, Phase, Spent>>
    BY DEF Sweep!vars
  <2> DEFINE Hidden == UNCHANGED <<duty, WindowsLeft, Phase, Spent>>
  <2>0. /\ now \in Nat /\ began \in Nat /\ idleFrom \in Nat /\ cval \in Nat
        /\ deadline \in Nat /\ left \in 0 .. Windows
        /\ (left = 0 <=> pc \in {"finish", "off"})
        /\ duty \in Duties /\ duty \in 1 .. 100 /\ IdleTicks \in Nat
    BY IdleNat DEF TypeOK, GicType
  <2>1. CASE Board
    <3>1. UNCHANGED <<pc, duty, left, began, idleFrom>>
      BY <2>1 DEF Board, Sample, ChildrenWake, HaltedTick, programVars, history
    <3>2. CASE Sample \/ ChildrenWake
      <4>1. now' = now
        BY <3>2 DEF Sample, ChildrenWake
      <4>2. Hidden
        BY <3>1, <4>1 DEF Phase, Spent, WindowsLeft
      <4> QED BY <4>2
    <3>3. CASE HaltedTick
      <4>1. pc = "wfi" /\ now < cval /\ now' = now + 1
        BY <3>3 DEF HaltedTick, Elapse
      <4>2. cval = idleFrom + IdleTicks /\ now >= idleFrom
        BY <4>1 DEF QuietInv, RestInv
      <4>3. /\ Phase = "halted" /\ Phase' = Phase /\ WindowsLeft' = WindowsLeft
            /\ Spent = now - idleFrom /\ Spent' = now + 1 - idleFrom
        <5>1. pc' = "wfi" /\ left' = left /\ idleFrom' = idleFrom
          BY <3>1, <4>1
        <5>2. Phase = "halted" /\ Spent = now - idleFrom /\ WindowsLeft = left
          BY <4>1, Position
        <5>3. Phase' = "halted" /\ Spent' = now' - idleFrom' /\ WindowsLeft' = left'
          BY <5>1, PositionNext
        <5> QED BY <2>0, <4>1, <5>1, <5>2, <5>3
      <4>4. Spent \in Nat /\ Spent < IdleTicks /\ Spent' = Spent + 1
        BY <2>0, <4>1, <4>2, <4>3
      <4>5. Sweep!MayRest
        BY <2>0, <4>4, RestLasts DEF Sweep!MayRest
      <4>6. Sweep!Rest
        BY <3>1, <4>3, <4>4, <4>5 DEF Sweep!Rest
      <4> QED BY <4>6 DEF Sweep!Next
    <3> QED BY <2>1, <3>2, <3>3 DEF Board
  <2>2. CASE BringUp /\ UNCHANGED <<programVars, history>>
    <3>1. /\ pc \in BringUpSteps /\ pc' \in BringUpSteps \cup {"ready"}
          /\ UNCHANGED <<duty, left>>
      BY <2>2, BringUpOnly DEF TypeOK, programVars
    <3>2. Phase = "between" /\ Phase' = "between" /\ Spent = 0 /\ Spent' = 0
      BY <3>1, Position, PositionNext
    <3>3. WindowsLeft = left /\ WindowsLeft' = left'
      BY <3>1 DEF WindowsLeft, BringUpSteps
    <3> QED BY <3>1, <3>2, <3>3
  <2>3. CASE Start
    <3>1. pc = "start" /\ pc' = "distributor" /\ UNCHANGED <<duty, left>>
      BY <2>3 DEF Start
    <3>2. Hidden
      BY <3>1, Position, PositionNext DEF BringUpSteps
    <3> QED BY <3>2
  <2>4. CASE BeginWindow
    <3>1. pc = "ready" /\ pc' = "burst" /\ began' = now /\ UNCHANGED <<duty, left, now>>
      BY <2>4 DEF BeginWindow
    <3>2. /\ Phase = "between" /\ WindowsLeft = left /\ left > 0
          /\ Phase' = "active" /\ Spent' = now - now /\ WindowsLeft' = WindowsLeft
      BY <2>0, <3>1, Position, PositionNext
    <3>3. Sweep!BeginWindow
      BY <2>0, <3>1, <3>2 DEF Sweep!BeginWindow
    <3> QED BY <3>3 DEF Sweep!Next
  <2>5. CASE Burst
    <3>1. PICK ticks \in ChunkTicks : now' = now + ticks
      BY <2>5 DEF Burst, Elapse
    <3>2. pc = "burst" /\ pc' = "check" /\ UNCHANGED <<duty, left, began>>
      BY <2>5 DEF Burst, programVars, history
    <3>3. deadline = began + ActiveTicks /\ now < deadline
      BY <3>2 DEF ActiveInv
    <3>4. /\ Phase = "active" /\ Phase' = Phase /\ WindowsLeft' = WindowsLeft
          /\ Spent = now - began /\ Spent' = now + ticks - began
      <4>1. Phase = "active" /\ Spent = now - began /\ WindowsLeft = left
        BY <3>2, Position
      <4>2. Phase' = "active" /\ Spent' = now' - began' /\ WindowsLeft' = left'
        BY <3>2, PositionNext
      <4> QED BY <2>0, ChunkRange, <3>1, <3>2, <4>1, <4>2
    <3>5. Spent < ActiveTicks /\ Spent' = Spent + ticks /\ ticks \in 1 .. LongestChunk
      BY <2>0, <3>1, <3>3, <3>4, ChunkRange
    <3>6. Sweep!Work
      BY <3>2, <3>4, <3>5 DEF Sweep!Work
    <3> QED BY <3>6 DEF Sweep!Next
  <2>6. CASE CheckDeadline
    <3>1. pc = "check" /\ UNCHANGED <<duty, left, now, began>>
      BY <2>6 DEF CheckDeadline, programVars
    <3>2. Phase = "active" /\ Spent = now - began /\ WindowsLeft = left
      BY <3>1, Position
    <3>3. CASE now < deadline
      <4>1. pc' = "burst"
        BY <2>6, <3>3 DEF CheckDeadline
      <4>2. Phase' = "active" /\ Spent' = now - began /\ WindowsLeft' = left
        BY <3>1, <4>1, PositionNext
      <4> QED BY <3>1, <3>2, <4>2
    <3>4. CASE ~(now < deadline)
      <4>1. pc' = IF duty < 100 THEN "tval" ELSE "next"
        BY <2>6, <3>4 DEF CheckDeadline
      <4>2. deadline = began + ActiveTicks
        BY <3>1 DEF ActiveInv
      <4>3. Sweep!Worked
        BY <2>0, <3>2, <3>4, <4>2 DEF Sweep!Worked
      <4>4. CASE duty < 100
        <5>1. Phase' = "halted" /\ Spent' = 0 /\ WindowsLeft' = left
          BY <3>1, <4>1, <4>4, PositionNext
        <5>2. Sweep!Halt
          BY <3>1, <3>2, <4>3, <4>4, <5>1 DEF Sweep!Halt
        <5> QED BY <5>2 DEF Sweep!Next
      <4>5. CASE ~(duty < 100)
        <5>1. Phase' = "between" /\ Spent' = 0 /\ WindowsLeft' = left - 1
          BY <3>1, <4>1, <4>5, PositionNext
        <5>2. duty = 100
          BY <2>0, <4>5
        <5>3. Sweep!EndWindow
          BY <3>1, <3>2, <4>3, <5>1, <5>2 DEF Sweep!EndWindow
        <5> QED BY <5>3 DEF Sweep!Next
      <4> QED BY <4>4, <4>5
    <3> QED BY <3>3, <3>4
  <2>7. CASE SetTimer
    <3>1. /\ pc = "tval" /\ pc' = "enableTimer" /\ idleFrom' = now
          /\ UNCHANGED <<duty, left, now>>
      BY <2>7 DEF SetTimer, SetCompare, programVars
    <3>2. /\ Phase = "halted" /\ Spent = 0 /\ WindowsLeft = left
          /\ Phase' = "halted" /\ Spent' = now - now /\ WindowsLeft' = left
      BY <3>1, Position, PositionNext
    <3> QED BY <2>0, <3>1, <3>2
  <2>8. CASE EnableTimer \/ Wake
    <3>1. /\ pc \in {"enableTimer", "wfi"} /\ pc' \in {"wfi", "disarm"}
          /\ UNCHANGED <<duty, left, now, idleFrom>>
      BY <2>8 DEF EnableTimer, Enable, Wake, programVars, history
    <3>2. Hidden
      BY <3>1, Position, PositionNext
    <3> QED BY <3>2
  <2>9. CASE Disarm
    <3>1. pc = "disarm" /\ pc' = "next" /\ UNCHANGED <<duty, left>>
      BY <2>9 DEF Disarm, Disarmed, programVars
    <3>2. cval = idleFrom + IdleTicks /\ now >= cval /\ now >= idleFrom
      BY <3>1 DEF QuietInv, RestInv
    <3>3. /\ Phase = "halted" /\ Spent = now - idleFrom /\ WindowsLeft = left
          /\ Phase' = "between" /\ Spent' = 0 /\ WindowsLeft' = left - 1
      BY <3>1, Position, PositionNext
    <3>4. Spent \in Nat /\ ~(Spent < IdleTicks)
      BY <2>0, <3>2, <3>3
    <3>5. Sweep!Rested
      BY <2>0, <3>3, <3>4, RestLasts DEF Sweep!Rested, Sweep!MayRest
    <3>6. Sweep!EndWindow
      BY <3>1, <3>3, <3>5 DEF Sweep!EndWindow
    <3> QED BY <3>6 DEF Sweep!Next
  <2>10. CASE NextWindow
    <3>1. pc = "next" /\ pc' \in {"ready", "finish"} /\ left' = left - 1 /\ duty' = duty
      BY <2>10 DEF NextWindow
    <3>2. Hidden
      BY <3>1, Position, PositionNext
    <3> QED BY <3>2
  <2>11. CASE PowerOff
    <3>1. pc = "finish" /\ pc' = "off" /\ UNCHANGED <<duty, left>>
      BY <2>11 DEF PowerOff
    <3>2. /\ Phase = "between" /\ Spent = 0 /\ WindowsLeft = 0
          /\ Phase' = "off" /\ Spent' = 0 /\ WindowsLeft' = WindowsLeft
      BY <2>0, <3>1, Position, PositionNext
    <3>3. Sweep!SwitchOff
      BY <3>1, <3>2 DEF Sweep!SwitchOff
    <3> QED BY <3>3 DEF Sweep!Next
  <2>12. CASE UNCHANGED vars
    BY <2>12 DEF vars, boardVars, programVars, history, Phase, Spent, WindowsLeft
  <2> QED
    BY <2>1, <2>2, <2>3, <2>4, <2>5, <2>6, <2>7, <2>8, <2>9, <2>10, <2>11, <2>12
       DEF Next, Core, Finished
<1> QED
  BY <1>1, <1>2, DutyTypeCorrect, QuietInvariant, ActiveInvariant, RestInvariant, PTL
     DEF Spec, KeepsDuty, Sweep!Spec

-----------------------------------------------------------------------------
(* bench-wfi-diag.S.                                                       *)

HIDE BenchDutyAssumption
USE WfiDiagAssumption

Asleep == {"start", "distributor", "groups", "waker", "pollAsleep"}
DiagSteps  == {"start", "ready", "tval", "enableTimer", "poll", "disarm", "tvalAgain",
           "enableAgain", "wfi", "off"} \cup BringUpSteps

Shape == GicType /\ board \in Boards /\ pc \in DiagSteps /\ polls \in Int

(* The settings the bring-up has yet to write. *)
Unwritten ==
  CASE pc \in {"start", "distributor"} -> Settings
    [] pc = "groups" -> Settings \ {"AffinityRouting"}
    [] pc \in {"waker", "pollAsleep", "group1"} -> Settings \ {"AffinityRouting", "Groups"}
    [] pc = "enable"   -> {"Enabled", "Priority", "SystemRegisters", "Unmasked", "IGRPEN1"}
    [] pc = "priority" -> {"Priority", "SystemRegisters", "Unmasked", "IGRPEN1"}
    [] pc = "sre"      -> {"SystemRegisters", "Unmasked", "IGRPEN1"}
    [] pc = "pmr"      -> {"Unmasked", "IGRPEN1"}
    [] pc = "igrpen1"  -> {"IGRPEN1"}
    [] OTHER           -> {}

(* The controller has taken what has been written and sticks, and the      *)
(* redistributor is awake past its poll.                                   *)
GicInv ==
  /\ gic = board.sticks \ Unwritten
  /\ pc \notin Asleep => ~asleep

(* The poll counts one iteration per tick, and has more of them than the   *)
(* timer takes.                                                            *)
TimerInv ==
  /\ armed <=> pc \in {"poll", "disarm", "wfi", "off"}
  /\ pc \in BringUpSteps \cup {"start", "ready", "tval", "enableTimer"} => polls = PollLimit
  /\ pc = "enableTimer" => cval = now + ArmTicks
  /\ pc = "poll" => polls >= 1 /\ now + polls = cval - ArmTicks + PollLimit

(* What has been asked has been answered. *)
AnswerInv ==
  /\ AnswersTrue
  /\ pc \notin BringUpSteps \cup {"start", "ready"} =>
       \A register \in Registers : Answered(register)
  /\ pc \in {"disarm", "tvalAgain", "enableAgain", "wfi", "off"} => Answered("ISTATUS")

DiagInv == Shape /\ GicInv /\ TimerInv /\ AnswerInv

(* The invariant holds when the board starts the image. *)
LEMMA InitInv == DiagInit => DiagInv
<1> SUFFICES ASSUME DiagInit PROVE DiagInv
  OBVIOUS
<1>1. board \in Boards /\ board.sticks \subseteq Settings
  BY DEF DiagInit, Boards
<1>2. Shape
  <2>1. /\ gic \subseteq Settings /\ now \in Nat /\ cval \in Nat
        /\ sleepAsked \in BOOLEAN /\ asleep \in BOOLEAN /\ armed \in BOOLEAN /\ pend \in BOOLEAN
    BY DEF DiagInit, PowerOn
  <2> QED BY <1>1, <2>1 DEF DiagInit, Shape, GicType, DiagSteps
<1>3. GicInv /\ TimerInv
  BY <1>1 DEF DiagInit, PowerOn, GicInv, TimerInv, Unwritten, Asleep
<1>4. AnswerInv
  BY DEF DiagInit, AnswerInv, AnswersTrue
<1> QED BY <1>2, <1>3, <1>4 DEF DiagInv

(* A step of the bring-up writes its settings, and touches nothing else.   *)
LEMMA BringUpInv ==
  ASSUME Shape, GicInv, BringUp
  PROVE  /\ GicType' /\ GicInv'
         /\ pc \in BringUpSteps /\ pc' \in BringUpSteps \cup {"ready"}
         /\ UNCHANGED <<board, now, cval, armed, pend>>
<1> USE DEF Shape, GicType, GicInv, Configure, Set, Asleep, BringUpSteps, timerVars
<1>0. board.sticks \subseteq Settings
  BY DEF Boards
<1>1. CASE WakeRedistributor
  BY <1>1 DEF WakeRedistributor, Unwritten
<1>2. CASE PollAsleep
  BY <1>2 DEF PollAsleep, Unwritten, gicVars
<1>3. CASE RouteAffinity
  BY <1>0, <1>3 DEF RouteAffinity, Unwritten, Settings
<1>4. CASE EnableGroups
  BY <1>0, <1>4 DEF EnableGroups, Unwritten, Settings
<1>5. CASE SetGroup1
  BY <1>0, <1>5 DEF SetGroup1, Unwritten, Settings
<1>6. CASE EnablePpi
  BY <1>0, <1>6 DEF EnablePpi, Unwritten, Settings
<1>7. CASE SetPriority
  BY <1>0, <1>7 DEF SetPriority, Unwritten, Settings
<1>8. CASE UseSystemRegs
  BY <1>0, <1>8 DEF UseSystemRegs, Unwritten, Settings
<1>9. CASE Unmask
  BY <1>0, <1>9 DEF Unmask, Unwritten, Settings
<1>10. CASE EnableGroup1
  BY <1>0, <1>10 DEF EnableGroup1, Unwritten, Settings
<1> QED BY <1>1, <1>2, <1>3, <1>4, <1>5, <1>6, <1>7, <1>8, <1>9, <1>10 DEF BringUp

(* The timer's line is up or down. *)
LEMMA LineBoolean == Shape => Line \in BOOLEAN
<1>1. (armed /\ board.runs /\ now >= cval) \in BOOLEAN
  OBVIOUS
<1> QED BY <1>1 DEF Line

(* Every step keeps the types. *)
LEMMA ShapeStep ==
  ASSUME DiagInv, [DiagNext]_diagVars
  PROVE  Shape'
<1> USE DEF DiagInv, Shape, GicType, DiagSteps, gicVars, timerVars
<1>1. CASE BoardStep
  <2>1. Sample => pend' \in BOOLEAN
    BY LineBoolean DEF Sample
  <2>2. polls' = polls
    BY <1>1 DEF BoardStep
  <2>3. CASE Sample
    BY <2>1, <2>2, <2>3 DEF Sample
  <2>4. CASE ChildrenWake
    BY <2>2, <2>4 DEF ChildrenWake
  <2>5. CASE HaltedTick
    BY <2>2, <2>5 DEF HaltedTick, Elapse
  <2> QED BY <1>1, <2>3, <2>4, <2>5 DEF BoardStep
<1>2. CASE DiagStart \/ ReadBack
  BY <1>2 DEF DiagStart, ReadBack, BringUpSteps
<1>3. CASE GicBringUp
  BY <1>3, BringUpInv DEF GicBringUp
<1>4. CASE SetPollTimer \/ SetTimerAgain \/ EnablePollTimer \/ EnableAgain \/ AnnounceWfi
  <2>1. CASE SetPollTimer \/ SetTimerAgain
    BY <2>1 DEF SetPollTimer, SetTimerAgain, SetCompare
  <2>2. CASE EnablePollTimer \/ EnableAgain
    BY <2>2 DEF EnablePollTimer, EnableAgain, Enable
  <2>3. CASE AnnounceWfi
    BY <2>3 DEF AnnounceWfi, Disarmed
  <2> QED BY <1>4, <2>1, <2>2, <2>3
<1>5. CASE PollClear \/ PollSet
  BY <1>5 DEF PollClear, PollSet, Elapse
<1>6. CASE WakeAndPrint \/ DiagFinished \/ UNCHANGED diagVars
  BY <1>6 DEF WakeAndPrint, DiagFinished, diagVars, boardVars
<1> QED BY <1>1, <1>2, <1>3, <1>4, <1>5, <1>6 DEF DiagNext, DiagCore

(* Each write of the bring-up makes its setting, if the board takes it.    *)
LEMMA GicStep ==
  ASSUME DiagInv, [DiagNext]_diagVars
  PROVE  GicInv'
<1> USE DEF DiagInv, GicInv, Unwritten, Asleep, gicVars, timerVars
<1>1. CASE BoardStep
  BY <1>1 DEF BoardStep, Sample, ChildrenWake, HaltedTick, Elapse
<1>2. CASE DiagStart \/ ReadBack
  BY <1>2 DEF DiagStart, ReadBack
<1>3. CASE GicBringUp
  BY <1>3, BringUpInv DEF GicBringUp
<1>4. CASE SetPollTimer \/ SetTimerAgain \/ EnablePollTimer \/ EnableAgain \/ AnnounceWfi
  <2>1. CASE SetPollTimer \/ SetTimerAgain
    BY <2>1 DEF SetPollTimer, SetTimerAgain, SetCompare
  <2>2. CASE EnablePollTimer \/ EnableAgain
    BY <2>2 DEF EnablePollTimer, EnableAgain, Enable
  <2>3. CASE AnnounceWfi
    BY <2>3 DEF AnnounceWfi, Disarmed
  <2> QED BY <1>4, <2>1, <2>2, <2>3
<1>5. CASE PollClear \/ PollSet
  BY <1>5 DEF PollClear, PollSet
<1>6. CASE WakeAndPrint \/ DiagFinished \/ UNCHANGED diagVars
  BY <1>6 DEF WakeAndPrint, DiagFinished, diagVars, boardVars
<1> QED BY <1>1, <1>2, <1>3, <1>4, <1>5, <1>6 DEF DiagNext, DiagCore

(* Each iteration of the poll is a tick of the counter. *)
LEMMA TimerStep ==
  ASSUME DiagInv, [DiagNext]_diagVars
  PROVE  TimerInv'
<1> USE DEF DiagInv, Shape, GicType, TimerInv, BringUpSteps, gicVars, timerVars
<1>1. CASE BoardStep
  BY <1>1 DEF BoardStep, Sample, ChildrenWake, HaltedTick, Elapse
<1>2. CASE DiagStart \/ ReadBack
  BY <1>2 DEF DiagStart, ReadBack
<1>3. CASE GicBringUp
  BY <1>3, BringUpInv DEF GicBringUp
<1>4. CASE SetPollTimer \/ SetTimerAgain
  BY <1>4 DEF SetPollTimer, SetTimerAgain, SetCompare
<1>5. CASE EnablePollTimer \/ EnableAgain
  BY <1>5 DEF EnablePollTimer, EnableAgain, Enable
<1>6. CASE AnnounceWfi
  BY <1>6 DEF AnnounceWfi, Disarmed
<1>7. CASE PollClear
  BY <1>7 DEF PollClear, Elapse
<1>8. CASE PollSet
  BY <1>8 DEF PollSet
<1>9. CASE WakeAndPrint \/ DiagFinished \/ UNCHANGED diagVars
  BY <1>9 DEF WakeAndPrint, DiagFinished, diagVars, boardVars
<1> QED BY <1>1, <1>2, <1>3, <1>4, <1>5, <1>6, <1>7, <1>8, <1>9 DEF DiagNext, DiagCore

(* More answers keep the old ones. *)
LEMMA Grows ==
  ASSUME answers \subseteq answers', NEW question, Answered(question)
  PROVE  Answered(question)'
  BY DEF Answered

(* An answer is printed of what was read back, and stays. *)
LEMMA AnswerStep ==
  ASSUME DiagInv, [DiagNext]_diagVars
  PROVE  AnswerInv'
<1> USE DEF Prints
<1>0. board' = board /\ answers \subseteq answers' /\ board.runs \in BOOLEAN
  <2>1. GicBringUp => board' = board /\ answers' = answers
    BY BringUpInv DEF DiagInv, GicBringUp
  <2> QED
    BY <2>1 DEF DiagInv, Shape, GicType, Boards, DiagNext, DiagCore, BoardStep, Sample, ChildrenWake, HaltedTick,
       DiagStart, ReadBack, SetPollTimer, SetTimerAgain, SetCompare, EnablePollTimer, EnableAgain, Enable,
       PollClear, PollSet, AnnounceWfi, Disarmed, WakeAndPrint, DiagFinished, diagVars, boardVars
<1>1. CASE answers' = answers /\ (pc' = pc \/ pc' \in BringUpSteps \cup {"ready"}
             \/ <<pc, pc'>> \in {<<"tval", "enableTimer">>, <<"enableTimer", "poll">>,
                                 <<"tvalAgain", "enableAgain">>, <<"enableAgain", "wfi">>})
  <2>1. AnswersTrue'
    BY <1>0, <1>1 DEF DiagInv, AnswerInv, AnswersTrue
  <2>2. \A question : Answered(question)' <=> Answered(question)
    BY <1>1 DEF Answered
  <2> QED BY <1>1, <2>1, <2>2 DEF DiagInv, AnswerInv, BringUpSteps
<1>2. CASE ReadBack
  <2>1. \A register \in Registers : (register \in gic) <=> (register \in board.sticks)
    BY <1>2 DEF ReadBack, DiagInv, GicInv, Unwritten
  <2>2. AnswersTrue'
    BY <1>0, <1>2, <2>1 DEF ReadBack, DiagInv, AnswerInv, AnswersTrue, Registers
  <2>3. \A register \in Registers : Answered(register)'
    <3> SUFFICES ASSUME NEW register \in Registers PROVE Answered(register)'
      OBVIOUS
    <3>1. <<register, register \in gic>> \in answers'
      BY <1>2, Zenon DEF ReadBack
    <3>2. (register \in gic) = TRUE \/ (register \in gic) = FALSE
      OBVIOUS
    <3> QED BY <3>1, <3>2, Zenon DEF Answered
  <2> QED BY <1>2, <2>2, <2>3 DEF ReadBack, AnswerInv
<1>3. CASE PollSet \/ (PollClear /\ polls <= 1)
  <2>1. PICK answer \in BOOLEAN :
          answer = board.runs /\ answers' = answers \cup {<<"ISTATUS", answer>>}
    <3>1. CASE PollSet
      BY <3>1 DEF PollSet, Line
    <3>2. CASE PollClear /\ polls <= 1
      <4>1. now >= cval
        BY <3>2 DEF PollClear, DiagInv, Shape, GicType, TimerInv
      <4>2. ~board.runs
        BY <3>2, <4>1 DEF PollClear, Line, DiagInv, TimerInv
      <4>3. ~(polls > 1)
        BY <3>2 DEF DiagInv, Shape
      <4>4. answers' = answers \cup {<<"ISTATUS", FALSE>>}
        BY <3>2, <4>3, Zenon DEF PollClear
      <4> QED BY <1>0, <4>2, <4>4, Zenon
    <3> QED BY <1>3, <3>1, <3>2
  <2>2. AnswersTrue'
    BY <1>0, <2>1 DEF DiagInv, AnswerInv, AnswersTrue, Registers
  <2>3. Answered("ISTATUS")'
    BY <2>1 DEF Answered
  <2>4. pc = "poll" /\ pc' = "disarm"
    <3>1. polls <= 1 => ~(polls > 1)
      BY DEF DiagInv, Shape
    <3> QED BY <1>3, <3>1, Zenon DEF PollSet, PollClear
  <2> QED BY <1>0, <2>2, <2>3, <2>4, Grows DEF DiagInv, AnswerInv, BringUpSteps
<1>4. CASE AnnounceWfi
  <2>1. AnswersTrue'
    BY <1>0, <1>4 DEF AnnounceWfi, DiagInv, AnswerInv, AnswersTrue, Registers
  <2>2. pc = "disarm" /\ pc' = "tvalAgain"
    BY <1>4 DEF AnnounceWfi, Disarmed
  <2> QED BY <1>0, <2>1, <2>2, Grows DEF DiagInv, AnswerInv, BringUpSteps
<1>5. CASE WakeAndPrint
  <2>1. AnswersTrue'
    BY <1>0, <1>5 DEF WakeAndPrint, DiagInv, AnswerInv, AnswersTrue, Questions, Registers
  <2>2. pc = "wfi" /\ pc' = "off"
    BY <1>5 DEF WakeAndPrint
  <2> QED BY <1>0, <2>1, <2>2, Grows DEF DiagInv, AnswerInv, BringUpSteps
<1>6. CASE BoardStep \/ DiagStart \/ GicBringUp \/ SetPollTimer \/ SetTimerAgain \/ EnablePollTimer
          \/ EnableAgain \/ DiagFinished \/ UNCHANGED diagVars
  <2>1. GicBringUp => pc' \in BringUpSteps \cup {"ready"} /\ answers' = answers
    BY BringUpInv DEF DiagInv, GicBringUp
  <2> QED
    BY <1>1, <1>6, <2>1
       DEF BoardStep, Sample, ChildrenWake, HaltedTick, DiagStart, SetPollTimer, SetTimerAgain, SetCompare,
           EnablePollTimer, EnableAgain, Enable, DiagFinished, diagVars, boardVars, BringUpSteps
<1>7. CASE PollClear /\ polls > 1
  BY <1>1, <1>7 DEF PollClear
<1> QED BY <1>2, <1>3, <1>4, <1>5, <1>6, <1>7 DEF DiagNext, DiagCore, DiagInv, Shape

(* The conjunction is inductive. *)
LEMMA StepInv == DiagInv /\ [DiagNext]_diagVars => DiagInv'
  BY ShapeStep, GicStep, TimerStep, AnswerStep DEF DiagInv

(* Whatever board it runs on, what the program prints is so. *)
THEOREM AnswersAreTrue == DiagSpec => []AnswersTrue
<1>1. DiagInv => AnswersTrue
  BY DEF DiagInv, AnswerInv
<1> QED BY <1>1, InitInv, StepInv, PTL DEF DiagSpec

(* A WFI that never ends is the board's doing: the program has written     *)
(* every setting, woken the redistributor and armed the timer.             *)
THEOREM HangsAreTheBoards == DiagSpec => [](HaltedForGood => board # GoodBoard)
<1>1. DiagInv => (HaltedForGood => board # GoodBoard)
  <2> SUFFICES ASSUME DiagInv, HaltedForGood, board = GoodBoard PROVE FALSE
    OBVIOUS
  <2>1. /\ pc = "wfi" /\ pend = Line /\ now >= cval
        /\ armed /\ ~asleep /\ gic = board.sticks
    BY DEF HaltedForGood, Settled, DiagInv, GicInv, TimerInv, Unwritten, Asleep, BringUpSteps,
           Shape, GicType, Boards
  <2>2. board.runs = TRUE /\ board.sticks = Settings
    BY DEF GoodBoard
  <2>3. pend /\ gic = Settings
    BY <2>1, <2>2 DEF Line
  <2> QED BY <2>1, <2>3 DEF HaltedForGood, Delivered
<1> QED BY <1>1, InitInv, StepInv, PTL DEF DiagSpec
=============================================================================
