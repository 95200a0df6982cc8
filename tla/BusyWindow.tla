----------------------------- MODULE BusyWindow -----------------------------
(***************************************************************************)
(* xcheck/busywin.py: the window of a power capture in which the workload  *)
(* ran, and the power of each rail in it.  A bin is busy when it exceeds   *)
(* the threshold; window() scans the bins once for the longest run of busy *)
(* bins and trims one bin at each edge; busy_power() takes the medians of  *)
(* the rails' samples in what is left.  One step of the scan is one        *)
(* iteration of its loop.                                                  *)
(***************************************************************************)
EXTENDS RailCapture

VARIABLES
  capture,       \* the rows of the file
  bins,          \* position |-> median power
  thr,           \* the threshold
  i,             \* the loop's position
  cur,           \* start of the run the scan is in, or None
  best0, best1,  \* best, the longest run closed so far: from best0 up to best1
  t0, t1,        \* the window returned
  power,         \* rail |-> its busy power
  pc

vars == <<capture, bins, thr, i, cur, best0, best1, t0, t1, power, pc>>

input  == <<capture, bins, thr>>
answer == <<t0, t1, power>>

(* b > thr *)
Busy(j) == 100 * bins[j] > thr

Init ==
  /\ capture \in Captures
  /\ bins = [j \in Bin |-> 0] /\ thr = 0
  /\ i = 0 /\ cur = None
  /\ best0 = None /\ best1 = None
  /\ t0 = None /\ t1 = None /\ power = None
  /\ pc = "read"

(* An empty bin has no median: StatisticsError. *)
Read ==
  /\ pc = "read"
  /\ IF TooShort(capture)
     THEN pc' = "StatisticsError" /\ UNCHANGED <<bins, thr>>
     ELSE /\ bins' = Bins(capture) /\ thr' = Threshold(bins')
          /\ pc' = "scan"
  /\ UNCHANGED <<capture, i, cur, best0, best1, answer>>

(* Mutant: a run as long as the best one replaces it. *)
LongerOrEqual(end) == best0 = None \/ end - cur >= best1 - best0

(* A run up to end replaces best only when it is strictly longer. *)
Longer(end) == best0 = None \/ end - cur > best1 - best0

Close(end) ==
  IF cur # None /\ Longer(end)
  THEN best0' = cur /\ best1' = end
  ELSE UNCHANGED <<best0, best1>>

(* Mutant: the bin after a busy one is skipped. *)
ScanBusySkips ==
  /\ pc = "scan" /\ i < NumBins /\ Busy(i)
  /\ cur' = IF cur = None THEN i ELSE cur
  /\ i' = i + 2
  /\ UNCHANGED <<input, best0, best1, answer, pc>>

ScanBusy ==
  /\ pc = "scan" /\ i < NumBins /\ Busy(i)
  /\ cur' = IF cur = None THEN i ELSE cur
  /\ i' = i + 1
  /\ UNCHANGED <<input, best0, best1, answer, pc>>

ScanIdle ==
  /\ pc = "scan" /\ i < NumBins /\ ~Busy(i)
  /\ Close(i)
  /\ cur' = None
  /\ i' = i + 1
  /\ UNCHANGED <<input, answer, pc>>

(* Mutant: a run that reaches the end of the capture is forgotten. *)
ScanEndForgets ==
  /\ pc = "scan" /\ i = NumBins
  /\ pc' = "trim"
  /\ UNCHANGED <<input, i, cur, best0, best1, answer>>

(* The loop is over: a run still open ends at the end of the capture. *)
ScanEnd ==
  /\ pc = "scan" /\ i = NumBins
  /\ Close(NumBins)
  /\ pc' = "trim"
  /\ UNCHANGED <<input, i, cur, answer>>

NoPlateau ==
  /\ pc = "trim" /\ best0 = None
  /\ pc' = "ValueError"
  /\ UNCHANGED <<input, i, cur, best0, best1, answer>>

(* Mutant: short runs are trimmed as well. *)
TrimAlways ==
  /\ pc = "trim" /\ best0 # None
  /\ t0' = best0 + 1 /\ t1' = best1 - 1
  /\ pc' = "returned"
  /\ UNCHANGED <<input, i, cur, best0, best1, power>>

Trim ==
  /\ pc = "trim" /\ best0 # None
  /\ t0' = Trimmed(best0, best1)[1] /\ t1' = Trimmed(best0, best1)[2]
  /\ pc' = "returned"
  /\ UNCHANGED <<input, i, cur, best0, best1, power>>

(* busy_power(): both rails, by the samples of the window. *)
BusyPower ==
  /\ pc = "returned"
  /\ power' = [vdd_arm |-> ArmMedian(capture, t0, t1), vdd_soc |-> SocMedian(capture, t0, t1)]
  /\ pc' = "done"
  /\ UNCHANGED <<input, i, cur, best0, best1, t0, t1>>

Finished == pc \in {"done", "ValueError", "StatisticsError"} /\ UNCHANGED vars

Next ==
  \/ Read
  \/ ScanBusy \/ ScanIdle \/ ScanEnd \/ NoPlateau \/ Trim
  \/ BusyPower \/ Finished

Spec == Init /\ [][Next]_vars

-----------------------------------------------------------------------------
Returned == pc \in {"returned", "done"}

(* The shape of what the scan works on. *)
ScanType ==
  /\ i \in 0 .. NumBins
  /\ cur \in 0 .. NumBins \cup {None}
  /\ best0 \in 0 .. NumBins \cup {None}
  /\ best1 \in 0 .. NumBins \cup {None}
  /\ pc \in {"read", "scan", "trim", "returned", "done", "ValueError", "StatisticsError"}

(* The bins from a up to b are all busy. *)
BusyRun(a, b) ==
  /\ a \in 0 .. NumBins /\ b \in 0 .. NumBins /\ a < b
  /\ \A j \in a .. b - 1 : Busy(j)

(* best is at least as long as the run from a to b, and longer than an     *)
(* earlier one.                                                            *)
Beats(a, b) ==
  /\ b - a <= best1 - best0
  /\ a < best0 => b - a < best1 - best0

(* "take the LONGEST contiguous above-threshold run" (line 14), and the    *)
(* first of several as long: one pass with cur and best finds it, the run  *)
(* that reaches the end of the capture included.                           *)
LongestRun ==
  Returned =>
    /\ BusyRun(best0, best1)
    /\ \A a, b \in 0 .. NumBins : BusyRun(a, b) => Beats(a, b)

(* Why LongestRun holds: the run in progress is busy from cur on and was   *)
(* preceded by an idle bin, and best is the longest of the runs that end   *)
(* at or before Closed.                                                    *)
Unscanned == pc \in {"read", "StatisticsError"}

Closed ==
  IF Unscanned THEN 0 ELSE IF pc # "scan" THEN NumBins ELSE IF cur = None THEN i ELSE cur

ScanInv ==
  /\ Unscanned => i = 0 /\ cur = None /\ best0 = None
  /\ pc = "scan" /\ cur # None =>
       BusyRun(cur, i) /\ (cur > 0 => ~Busy(cur - 1))
  /\ pc = "scan" /\ cur = None /\ i > 0 => ~Busy(i - 1)
  /\ best0 # None => BusyRun(best0, best1) /\ best1 <= Closed
  /\ \A a, b \in 0 .. NumBins :
       BusyRun(a, b) /\ b <= Closed => best0 # None /\ Beats(a, b)
  /\ Returned => best0 # None

(* The window returned is a non-empty part of the plateau, and ramp bins   *)
(* enter it only when the plateau is shorter than five bins.               *)
WindowInPlateau ==
  Returned =>
    /\ t0 >= best0 /\ t0 < t1 /\ t1 <= best1
    /\ best1 - best0 >= 5 => t0 > best0 /\ t1 < best1

(* The two rails' busy powers are of the same rows of the capture, "the    *)
(* SAME window" (line 19), as long as no row before the window's end had a *)
(* readable arm and an unreadable soc: such a row leaves arm one sample    *)
(* ahead of soc from there on.                                             *)
HalfRead(k) == ArmRead(capture[k]) /\ ~SocRead(capture[k])

RowsOf(rows) == {rows[k] : k \in Samples(capture, t0, t1)}

SameRows ==
  pc = "done" =>
    \/ RowsOf(ArmRows(capture)) = RowsOf(SocRows(capture))
    \/ \E k \in 1 .. Len(capture) :
         capture[k].wide /\ HalfRead(k) /\ \E s \in RowsOf(SocRows(capture)) : k < s

(* The scan implements the promise of one step. *)
Answer ==
  IF Returned THEN <<t0, t1>> ELSE IF pc \in {"ValueError", "StatisticsError"} THEN <<pc>> ELSE <<>>

Promise == INSTANCE BusyPlateau WITH answer <- Answer

FindsPlateau == Promise!Spec
=============================================================================
