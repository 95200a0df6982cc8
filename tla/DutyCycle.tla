------------------------------ MODULE DutyCycle ------------------------------
(***************************************************************************)
(* What the header of workloads/bench-duty.S promises (lines 11-15, 34-52):*)
(* windows of an active and a genuinely halted phase, both measured on the *)
(* counter, with U = ACTIVE_TICKS / (ACTIVE_TICKS + IDLE_TICKS) as close   *)
(* to DUTY percent as whole ticks allow, at any execution speed; then the  *)
(* board is switched off.  No word on the timer, the interrupt controller  *)
(* or the loop that looks at the counter.                                  *)
(***************************************************************************)
EXTENDS Integers

CONSTANTS
  Windows, ActiveTicks, Duties,
  LongestChunk    \* how much work may pass between two looks at the counter

VARIABLES
  duty,
  left,           \* windows still to run
  phase,          \* "between", "active", "halted" or "off"
  spent           \* ticks of this phase so far

vars == <<duty, left, phase, spent>>

(* One more halted tick leaves the duty cycle at DUTY percent or above.    *)
MayRest == 100 * ActiveTicks >= duty * (ActiveTicks + spent + 1)

Worked == phase = "active" /\ spent >= ActiveTicks
Rested == phase = "halted" /\ ~MayRest

Init ==
  /\ duty \in Duties /\ left = Windows
  /\ phase = "between" /\ spent = 0

BeginWindow ==
  /\ phase = "between" /\ left > 0
  /\ phase' = "active" /\ spent' = 0
  /\ UNCHANGED <<duty, left>>

Work ==
  /\ phase = "active" /\ spent < ActiveTicks
  /\ \E ticks \in 1 .. LongestChunk : spent' = spent + ticks
  /\ UNCHANGED <<duty, left, phase>>

Halt ==
  /\ Worked /\ duty < 100
  /\ phase' = "halted" /\ spent' = 0
  /\ UNCHANGED <<duty, left>>

Rest ==
  /\ phase = "halted" /\ MayRest
  /\ spent' = spent + 1
  /\ UNCHANGED <<duty, left, phase>>

EndWindow ==
  /\ Rested \/ (Worked /\ duty = 100)
  /\ left' = left - 1
  /\ phase' = "between" /\ spent' = 0
  /\ UNCHANGED duty

SwitchOff ==
  /\ phase = "between" /\ left = 0
  /\ phase' = "off"
  /\ UNCHANGED <<duty, left, spent>>

Next == BeginWindow \/ Work \/ Halt \/ Rest \/ EndWindow \/ SwitchOff

Spec == Init /\ [][Next]_vars
=============================================================================
