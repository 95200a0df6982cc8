------------------------------ MODULE BenchDuty ------------------------------
(***************************************************************************)
(* workloads/bench-duty.S: windows of an active phase, bounded by the      *)
(* counter, and a halted one, ended by the EL2 timer's interrupt.          *)
(***************************************************************************)
EXTENDS GicTimer, FiniteSets

CONSTANTS
  Windows,        \* WINDOWS
  ActiveTicks,    \* ACTIVE_TICKS
  Duties,         \* values of DUTY a binary is assembled with
  ChunkTicks,     \* ticks a chunk of the burst may take: the execution speed
  LongestChunk    \* the largest of them

ASSUME BenchDutyAssumption ==
  /\ Windows \in Nat \ {0} /\ ActiveTicks \in Nat \ {0}
  /\ Duties \subseteq 1 .. 100
  /\ LongestChunk \in Nat \ {0}
  /\ ChunkTicks \subseteq 1 .. LongestChunk

VARIABLES
  duty,           \* DUTY
  left,           \* x19: windows still to run
  deadline,       \* x24
  began,          \* when the active phase began           (history)
  active,         \* length of the last active phase       (history)
  idleFrom,       \* when the timer was last set           (history)
  console         \* the messages printed

programVars == <<duty, left, deadline, console>>
history     == <<began, active, idleFrom>>
vars        == <<boardVars, programVars, history>>

(* Mutant: the share of the window is taken of the active phase.           *)
IdleShare == (ActiveTicks * (100 - duty)) \div 100

IdleTicks == (ActiveTicks * (100 - duty)) \div duty

Init ==
  /\ pc = "start" /\ board = GoodBoard /\ PowerOn
  /\ duty \in Duties
  /\ left = Windows
  /\ deadline = 0 /\ began = 0 /\ active = ActiveTicks /\ idleFrom = 0
  /\ console = {}

Start ==
  /\ pc = "start"
  /\ console' = console \cup {"START"}
  /\ pc' = "distributor"
  /\ UNCHANGED <<board, gicVars, now, timerVars, pend, duty, left, deadline, history>>

BeginWindow ==
  /\ pc = "ready"
  /\ deadline' = now + ActiveTicks
  /\ began' = now
  /\ pc' = "burst"
  /\ UNCHANGED <<board, gicVars, now, timerVars, pend, duty, left, console, active, idleFrom>>

(* CHUNK iterations of ALU work, then the counter is read. *)
Burst ==
  /\ pc = "burst"
  /\ \E ticks \in ChunkTicks : Elapse(ticks)
  /\ pc' = "check"
  /\ UNCHANGED <<board, gicVars, timerVars, pend, programVars, history>>

(* Mutant: the comparison is turned round. *)
CheckDeadlineLow ==
  /\ pc = "check"
  /\ IF now > deadline
     THEN pc' = "burst" /\ UNCHANGED active
     ELSE pc' = (IF duty < 100 THEN "tval" ELSE "next") /\ active' = now - began
  /\ UNCHANGED <<board, gicVars, now, timerVars, pend, programVars, began, idleFrom>>

CheckDeadline ==
  /\ pc = "check"
  /\ IF now < deadline
     THEN pc' = "burst" /\ UNCHANGED active
     ELSE pc' = (IF duty < 100 THEN "tval" ELSE "next") /\ active' = now - began
  /\ UNCHANGED <<board, gicVars, now, timerVars, pend, programVars, began, idleFrom>>

SetTimer ==
  /\ SetCompare("tval", IdleTicks, "enableTimer")
  /\ idleFrom' = now
  /\ UNCHANGED <<programVars, began, active>>

EnableTimer == Enable("enableTimer", "wfi") /\ UNCHANGED <<programVars, history>>

(* WFI ends as soon as an interrupt is delivered; nothing else is checked. *)
Wake ==
  /\ pc = "wfi"
  /\ Delivered
  /\ pc' = "disarm"
  /\ UNCHANGED <<board, gicVars, now, timerVars, pend, programVars, history>>

(* Mutant: the timer is left armed during the next active phase. *)
DisarmNothing ==
  /\ pc = "disarm"
  /\ pc' = "next"
  /\ UNCHANGED <<board, gicVars, now, timerVars, pend, programVars, history>>

Disarm == Disarmed("disarm", "next") /\ UNCHANGED <<programVars, history>>

(* Mutant: the counter is tested before it is decremented. *)
NextWindowLate ==
  /\ pc = "next"
  /\ left' = left - 1
  /\ pc' = IF left = 0 THEN "finish" ELSE "ready"
  /\ UNCHANGED <<board, gicVars, now, timerVars, pend, duty, deadline, console, history>>

NextWindow ==
  /\ pc = "next"
  /\ left' = left - 1
  /\ pc' = IF left = 1 THEN "finish" ELSE "ready"
  /\ UNCHANGED <<board, gicVars, now, timerVars, pend, duty, deadline, console, history>>

PowerOff ==
  /\ pc = "finish"
  /\ console' = console \cup {"DONE"}
  /\ pc' = "off"
  /\ UNCHANGED <<board, gicVars, now, timerVars, pend, duty, left, deadline, history>>

Finished == pc = "off" /\ UNCHANGED vars

Board == (Sample \/ ChildrenWake \/ HaltedTick) /\ UNCHANGED <<programVars, history>>

Core ==
  \/ Start
  \/ BringUp /\ UNCHANGED <<programVars, history>>
  \/ BeginWindow \/ Burst \/ CheckDeadline \/ SetTimer \/ EnableTimer
  \/ Wake \/ Disarm \/ NextWindow \/ PowerOff

Next == Board \/ Core \/ Finished

Spec == Init /\ [][Next]_vars /\ WF_vars(Board) /\ WF_vars(Core)

-----------------------------------------------------------------------------
(* The shape of the state. *)
Steps == BringUpSteps \cup {"start", "ready", "burst", "check", "tval", "enableTimer",
                            "wfi", "disarm", "next", "finish", "off"}

TypeOK ==
  /\ GicType /\ board = GoodBoard
  /\ pc \in Steps
  /\ duty \in Duties
  /\ left \in 0 .. Windows /\ (left = 0 <=> pc \in {"finish", "off"})
  /\ deadline \in Nat /\ began \in Nat /\ active \in Int /\ idleFrom \in Nat
  /\ console \subseteq {"START", "DONE"}

(* "The core has to actually halt" (line 13): no window's WFI ends before  *)
(* its IDLE_TICKS have passed, on the pending interrupt of the window      *)
(* before or otherwise.                                                    *)
NeverWokenEarly == pc = "disarm" => now - idleFrom >= IdleTicks

(* Why: whenever the interrupt is pending, its line is up, or the timer    *)
(* has just been disarmed and not a tick has passed since.                 *)
QuietInv ==
  /\ armed => pc \in {"wfi", "disarm"}
  /\ pc \in {"check", "tval", "enableTimer"} => ~pend
  /\ pc \in {"enableTimer", "wfi", "disarm"} => cval = idleFrom + IdleTicks
  /\ pc = "wfi" => armed /\ (pend => now >= cval)
  /\ pc = "disarm" => now >= cval

(* "Both phases are bounded in GENERIC TIMER TICKS" (line 13): an active   *)
(* phase takes at least ACTIVE_TICKS, and overruns them by less than one   *)
(* chunk of the burst.                                                     *)
ActiveBounded ==
  /\ active >= ActiveTicks
  /\ active < ActiveTicks + LongestChunk

(* Why: the chunk that is running began before the deadline. *)
ActiveInv ==
  /\ ActiveBounded
  /\ pc \in {"burst", "check"} => deadline = began + ActiveTicks
  /\ pc = "burst" => now < deadline
  /\ pc = "check" => now < deadline + LongestChunk

(* The sweep that the header promises (lines 11-15): the halted phase,     *)
(* and with it the window, ends at the tick at which the duty cycle is     *)
(* DUTY percent, whatever the speed of the burst and whatever the timer    *)
(* still has pending.  A window is over at the end of its last phase, the  *)
(* counter of windows is one instruction behind.                           *)
Phase ==
  CASE pc \in {"burst", "check"} -> "active"
    [] pc \in {"tval", "enableTimer", "wfi", "disarm"} -> "halted"
    [] pc = "off" -> "off"
    [] OTHER -> "between"

Spent ==
  CASE pc \in {"burst", "check"} -> now - began
    [] pc \in {"enableTimer", "wfi", "disarm"} -> now - idleFrom
    [] OTHER -> 0

WindowsLeft == IF pc = "next" THEN left - 1 ELSE left

Sweep == INSTANCE DutyCycle WITH left <- WindowsLeft, phase <- Phase, spent <- Spent

KeepsDuty == Sweep!Spec

(* The run ends: with the controller brought up as it is, every WFI is     *)
(* woken and the board is switched off.                                    *)
Completes == <>(pc = "off")
=============================================================================
