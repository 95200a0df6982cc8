------------------------------- MODULE WfiDiag -------------------------------
(***************************************************************************)
(* workloads/bench-wfi-diag.S: asks a board, one question at a time, why   *)
(* a WFI of bench-duty does not wake on it, and prints each answer as soon *)
(* as it has it.  The board may refuse any setting, keep its redistributor *)
(* asleep, or have no running timer.                                       *)
(***************************************************************************)
EXTENDS GicTimer

CONSTANTS
  ArmTicks,       \* ARM_TICKS
  PollLimit       \* POLL_LIMIT; one iteration takes a tick

ASSUME WfiDiagAssumption ==
  /\ ArmTicks \in Nat \ {0}
  /\ PollLimit \in Nat /\ PollLimit > ArmTicks

VARIABLES
  polls,          \* x19: iterations left of the bounded poll
  answers         \* what the console shows: <<question, answer>>

diagVars == <<boardVars, polls, answers>>

(* The registers read back, and the setting each of them shows. *)
Registers == {"Group1", "Enabled", "IGRPEN1", "SystemRegisters"}

Questions == Registers \cup {"ISTATUS", "executing WFI"}

Prints(lines) == answers' = answers \cup lines
Answered(question) == \E answer \in BOOLEAN : <<question, answer>> \in answers

DiagInit ==
  /\ pc = "start" /\ board \in Boards /\ PowerOn
  /\ polls = PollLimit /\ answers = {}

DiagStart ==
  /\ pc = "start"
  /\ pc' = "distributor"
  /\ UNCHANGED <<board, gicVars, now, timerVars, pend, polls, answers>>

GicBringUp == BringUp /\ UNCHANGED <<polls, answers>>

(* Mutant: what was written is printed, not what is read back. *)
PrintWritten ==
  /\ pc = "ready"
  /\ Prints({<<register, TRUE>> : register \in Registers})
  /\ pc' = "tval"
  /\ UNCHANGED <<board, gicVars, now, timerVars, pend, polls>>

ReadBack ==
  /\ pc = "ready"
  /\ Prints({<<register, register \in gic>> : register \in Registers})
  /\ pc' = "tval"
  /\ UNCHANGED <<board, gicVars, now, timerVars, pend, polls>>

SetPollTimer == SetCompare("tval", ArmTicks, "enableTimer") /\ UNCHANGED <<polls, answers>>

EnablePollTimer == Enable("enableTimer", "poll") /\ UNCHANGED <<polls, answers>>

(* Mutant: the poll has no bound. *)
PollNever ==
  /\ pc = "poll" /\ ~Line
  /\ Elapse(1)
  /\ now < 2 * PollLimit
  /\ UNCHANGED <<pc, polls, answers, board, gicVars, timerVars, pend>>

(* ISTATUS is clear: count one iteration, and give up after the last. *)
PollClear ==
  /\ pc = "poll" /\ ~Line
  /\ Elapse(1)
  /\ polls' = polls - 1
  /\ IF polls > 1
     THEN UNCHANGED <<pc, answers>>
     ELSE Prints({<<"ISTATUS", FALSE>>}) /\ pc' = "disarm"
  /\ UNCHANGED <<board, gicVars, timerVars, pend>>

PollSet ==
  /\ pc = "poll" /\ Line
  /\ Prints({<<"ISTATUS", TRUE>>})
  /\ pc' = "disarm"
  /\ UNCHANGED <<board, gicVars, now, timerVars, pend, polls>>

(* The message before the WFI, then the timer is disarmed and armed again. *)
AnnounceWfi ==
  /\ Disarmed("disarm", "tvalAgain")
  /\ Prints({<<"executing WFI", TRUE>>})
  /\ UNCHANGED polls

SetTimerAgain == SetCompare("tvalAgain", ArmTicks, "enableAgain") /\ UNCHANGED <<polls, answers>>

EnableAgain == Enable("enableAgain", "wfi") /\ UNCHANGED <<polls, answers>>

WakeAndPrint ==
  /\ pc = "wfi"
  /\ Delivered
  /\ Prints({<<"woke", TRUE>>})
  /\ pc' = "off"
  /\ UNCHANGED <<board, gicVars, now, timerVars, pend, polls>>

(* The timer has fired, and there is nothing left to end the WFI. *)
HaltedForGood == pc = "wfi" /\ Settled /\ now >= cval /\ ~Delivered

(* The program is over, or halted in its WFI or its first poll for good. *)
DiagFinished ==
  /\ \/ pc = "off"
     \/ HaltedForGood
     \/ pc = "pollAsleep" /\ ~board.wakes
  /\ UNCHANGED diagVars

BoardStep == (Sample \/ ChildrenWake \/ HaltedTick) /\ UNCHANGED <<polls, answers>>

DiagCore ==
  \/ DiagStart \/ GicBringUp \/ ReadBack \/ SetPollTimer \/ EnablePollTimer \/ PollClear \/ PollSet
  \/ AnnounceWfi \/ SetTimerAgain \/ EnableAgain \/ WakeAndPrint

DiagNext == BoardStep \/ DiagCore \/ DiagFinished

DiagSpec == DiagInit /\ [][DiagNext]_diagVars /\ WF_diagVars(BoardStep) /\ WF_diagVars(DiagCore)

-----------------------------------------------------------------------------
(* The shape of the state. *)
DiagTypeOK ==
  /\ GicType
  /\ polls \in 0 .. PollLimit
  /\ answers \subseteq (Questions \cup {"woke"}) \X BOOLEAN

(* What the answers say is so: a setting is reported missing on exactly    *)
(* the boards that refuse it, the timer not running on exactly those where *)
(* it does not, and nobody sees both answers to one question.              *)
AnswersTrue ==
  \A question \in Questions, answer \in BOOLEAN :
    <<question, answer>> \in answers =>
      CASE question \in Registers -> answer = (question \in board.sticks)
        [] question = "ISTATUS"   -> answer = board.runs
        [] OTHER                  -> answer

(* "must never spin forever" (line 27): past the bring-up, every board     *)
(* reaches the WFI.                                                        *)
ReachesWfi == board.wakes ~> pc \in {"wfi", "off"}

(* "a hang here means WFI never wakes" (line 180), and no mistake of the   *)
(* program's own: on a board without fault both armings of the timer, the  *)
(* poll and the WFI come to an end.                                        *)
HangMeansBoard == board = GoodBoard ~> pc = "off"
=============================================================================
