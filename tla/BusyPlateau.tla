---------------------------- MODULE BusyPlateau ----------------------------
(***************************************************************************)
(* What window() of xcheck/busywin.py promises: "take the LONGEST          *)
(* contiguous above-threshold run, then drop one bin at each edge"         *)
(* (lines 14-15), the first of several as long; refuse a capture that is   *)
(* too short or has none.  One step, and no word on how the run is found.  *)
(***************************************************************************)
EXTENDS RailCapture

VARIABLES
  capture,
  answer         \* empty, an error, or the window

vars == <<capture, answer>>

BusyBins ==
  LET bins == Bins(capture)
      thr  == Threshold(bins)
  IN  {j \in Bin : 100 * bins[j] > thr}

IsRun(busy, a, b) == a < b /\ a .. b - 1 \subseteq busy

FirstLongest(busy, a, b) ==
  /\ IsRun(busy, a, b)
  /\ \A c, d \in 0 .. NumBins :
       IsRun(busy, c, d) => d - c < b - a \/ (d - c = b - a /\ c >= a)

Init == capture \in Captures /\ answer = <<>>

Refuse ==
  /\ answer = <<>>
  /\ \/ answer' = <<"StatisticsError">> /\ TooShort(capture)
     \/ answer' = <<"ValueError">> /\ ~TooShort(capture) /\ BusyBins = {}
  /\ UNCHANGED capture

Find ==
  /\ answer = <<>>
  /\ LET busy == BusyBins
     IN  \E a, b \in 0 .. NumBins : answer' = Trimmed(a, b) /\ FirstLongest(busy, a, b)
  /\ ~TooShort(capture)
  /\ UNCHANGED capture

Next == Refuse \/ Find

Spec == Init /\ [][Next]_vars
=============================================================================
