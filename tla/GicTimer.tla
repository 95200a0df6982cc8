------------------------------ MODULE GicTimer ------------------------------
(***************************************************************************)
(* What the bare-metal workloads bench-duty.S and bench-wfi-diag.S share:  *)
(* the bring-up of the interrupt controller, register by register, and the *)
(* board it talks to.  The board (GIC-600, generic timer, firmware) is     *)
(* external.  It raises the timer's line when the counter reaches the      *)
(* compare value, and the redistributor takes up a change of that level-   *)
(* sensitive line later, but before the counter's next tick.               *)
(***************************************************************************)
EXTENDS Integers

VARIABLES
  pc,             \* the program's position
  board,          \* what this board does; never changes
  gic,            \* the settings the controller has taken
  sleepAsked,     \* GICR_WAKER.ProcessorSleep
  asleep,         \* GICR_WAKER.ChildrenAsleep
  now,            \* CNTVCT, and the counter behind CNTHP
  cval, armed,    \* CNTHP's compare value and its enable bit
  pend            \* the timer interrupt is pending at the redistributor

gicVars   == <<gic, sleepAsked, asleep>>
timerVars == <<cval, armed>>
boardVars == <<pc, board, gicVars, now, timerVars, pend>>

Settings == {"AffinityRouting", "Groups", "Group1", "Enabled", "Priority",
             "SystemRegisters", "Unmasked", "IGRPEN1"}

(* sticks: settings a write changes (firmware may own some); wakes: the    *)
(* redistributor leaves its sleep; runs: the timer counts at EL2.          *)
Boards == [sticks : SUBSET Settings, wakes : BOOLEAN, runs : BOOLEAN]

GoodBoard == [sticks |-> Settings, wakes |-> TRUE, runs |-> TRUE]

PowerOn ==
  /\ gic = {} /\ sleepAsked = TRUE /\ asleep = TRUE
  /\ now = 0 /\ cval = 0 /\ armed = FALSE /\ pend = FALSE

-----------------------------------------------------------------------------
(* The board.                                                              *)

Line == armed /\ board.runs /\ now >= cval

Settled == pend = Line

Sample ==
  /\ ~Settled
  /\ pend' = Line
  /\ UNCHANGED <<pc, board, gicVars, timerVars, now>>

ChildrenWake ==
  /\ asleep /\ ~sleepAsked /\ board.wakes
  /\ asleep' = FALSE
  /\ UNCHANGED <<pc, board, gic, sleepAsked, timerVars, now, pend>>

(* A pending interrupt reaches the core, and ends its WFI, only through a  *)
(* controller with every setting.                                          *)
Delivered == pend /\ ~asleep /\ gic = Settings

Elapse(ticks) == Settled /\ now' = now + ticks

(* The counter while the core is halted, up to the compare value.          *)
HaltedTick ==
  /\ pc = "wfi" /\ armed /\ now < cval
  /\ Elapse(1)
  /\ UNCHANGED <<pc, board, gicVars, timerVars, pend>>

-----------------------------------------------------------------------------
(* The bring-up, in the program's order.                                   *)

Set(settings) == gic' = gic \cup (settings \cap board.sticks)

Configure(at, settings, next) ==
  /\ pc = at
  /\ Set(settings)
  /\ pc' = next
  /\ UNCHANGED <<board, sleepAsked, asleep, timerVars, now, pend>>

RouteAffinity == Configure("distributor", {"AffinityRouting"}, "groups")
EnableGroups  == Configure("groups", {"Groups"}, "waker")

WakeRedistributor ==
  /\ pc = "waker"
  /\ sleepAsked' = FALSE
  /\ pc' = "pollAsleep"
  /\ UNCHANGED <<board, gic, asleep, timerVars, now, pend>>

(* The poll has no bound: it ends only when the redistributor is awake.    *)
PollAsleep ==
  /\ pc = "pollAsleep"
  /\ ~asleep
  /\ pc' = "group1"
  /\ UNCHANGED <<board, gicVars, timerVars, now, pend>>

(* Mutant: the interrupt stays in Group 0, *)
LeaveGroup0 == Configure("group1", {}, "enable")

SetGroup1     == Configure("group1", {"Group1"}, "enable")
EnablePpi     == Configure("enable", {"Enabled"}, "priority")
SetPriority   == Configure("priority", {"Priority"}, "sre")
UseSystemRegs == Configure("sre", {"SystemRegisters"}, "pmr")

(* Mutant: the priority mask is left as it was, *)
LeaveMasked == Configure("pmr", {}, "igrpen1")

Unmask        == Configure("pmr", {"Unmasked"}, "igrpen1")
EnableGroup1  == Configure("igrpen1", {"IGRPEN1"}, "ready")

BringUp ==
  \/ RouteAffinity \/ EnableGroups \/ WakeRedistributor \/ PollAsleep
  \/ SetGroup1 \/ EnablePpi \/ SetPriority \/ UseSystemRegs \/ Unmask \/ EnableGroup1

BringUpSteps == {"distributor", "groups", "waker", "pollAsleep", "group1", "enable",
                 "priority", "sre", "pmr", "igrpen1"}

Disarmed(at, next) ==
  /\ pc = at
  /\ armed' = FALSE
  /\ pc' = next
  /\ UNCHANGED <<board, gicVars, cval, now, pend>>

SetCompare(at, ticks, next) ==
  /\ pc = at
  /\ cval' = now + ticks
  /\ pc' = next
  /\ UNCHANGED <<board, gicVars, armed, now, pend>>

Enable(at, next) ==
  /\ pc = at
  /\ armed' = TRUE
  /\ pc' = next
  /\ UNCHANGED <<board, gicVars, cval, now, pend>>

(* The shape of the board's state. *)
GicType ==
  /\ board \in Boards
  /\ gic \subseteq Settings
  /\ sleepAsked \in BOOLEAN /\ asleep \in BOOLEAN
  /\ now \in Nat /\ cval \in Nat
  /\ armed \in BOOLEAN /\ pend \in BOOLEAN
=============================================================================
