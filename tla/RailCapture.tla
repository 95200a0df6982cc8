---------------------------- MODULE RailCapture ----------------------------
(***************************************************************************)
(* What xcheck/busywin.py computes from a power capture before and after   *)
(* its scan: the samples of the two rails, the bins of a second with their *)
(* medians, the threshold.  A capture is the rows of a file after its      *)
(* header; a rail's reading is its voltage times its current, or None when *)
(* either does not parse.  Positions of bins are the code's, from 0;       *)
(* samples are numbered from 1.  All medians are doubled, so that the mean *)
(* of two samples is an integer; the threshold is a hundred times larger.  *)
(***************************************************************************)
EXTENDS Integers, Sequences, FiniteSets, Lists

CONSTANTS
  NumBins,       \* int(CAPTURE_S)
  Captures,      \* the captures read
  None           \* Python's None; a field that does not parse

Row == [wide : BOOLEAN, arm : Nat \cup {None}, soc : Nat \cup {None}]

ASSUME RailCaptureAssumption ==
  /\ NumBins \in Nat \ {0}
  /\ Captures \subseteq Seq(Row)
  /\ None \notin Int

Bin == 0 .. NumBins - 1

(* Mutant: a row of the wrong width is read as far as it goes. *)
ArmReadNarrow(row) == row.arm # None

(* What is appended for a row: nothing when it is not as wide as the       *)
(* header, else arm, then soc, up to the first that does not parse.        *)
ArmRead(row) == row.wide /\ row.arm # None
SocRead(row) == ArmRead(row) /\ row.soc # None

(* The rows the samples of a rail are of. *)
ArmRows(capture) == Appended({k \in 1 .. Len(capture) : ArmRead(capture[k])}, Len(capture))
SocRows(capture) == Appended({k \in 1 .. Len(capture) : SocRead(capture[k])}, Len(capture))

(* zip stops with the shorter list, which is that of soc. *)
NumSamples(capture) == Len(SocRows(capture))

(* The samples from second a up to second b: hz of them a second. *)
Samples(capture, a, b) ==
  (a * NumSamples(capture)) \div NumBins + 1 .. (b * NumSamples(capture)) \div NumBins

(* sorted(...)[k] of the values f takes on S. *)
Sorted(f, S, k) ==
  CHOOSE p \in {f[s] : s \in S} :
    /\ Cardinality({s \in S : f[s] < p}) <= k
    /\ Cardinality({s \in S : f[s] <= p}) > k

Median2(f, S) ==
  Sorted(f, S, (Cardinality(S) - 1) \div 2) + Sorted(f, S, Cardinality(S) \div 2)

(* A median of nothing is an error. *)
TooShort(capture) == NumSamples(capture) < NumBins

Bins(capture) ==
  LET arm == ArmRows(capture)
      soc == SocRows(capture)
      tot == [k \in 1 .. NumSamples(capture) |-> capture[arm[k]].arm + capture[soc[k]].soc]
  IN  [j \in Bin |-> Median2(tot, Samples(capture, j, j + 1))]

FloorIndex == NumBins \div 10
P90Index   == (9 * NumBins) \div 10   \* below NumBins, so min() keeps it

(* floor + 0.35 * (p90 - floor) *)
Threshold(bins) ==
  LET floor == Sorted(bins, Bin, FloorIndex)
      p90   == Sorted(bins, Bin, P90Index)
  IN  100 * floor + 35 * (p90 - floor)

(* One ramp bin is dropped at each edge unless fewer than 3 would remain. *)
Trimmed(a, b) == IF (b - 1) - (a + 1) < 3 THEN <<a, b>> ELSE <<a + 1, b - 1>>

(* A rail's samples in a window. *)
ArmMedian(capture, a, b) ==
  LET rows == ArmRows(capture)
  IN  Median2([k \in DOMAIN rows |-> capture[rows[k]].arm], Samples(capture, a, b))
SocMedian(capture, a, b) ==
  LET rows == SocRows(capture)
  IN  Median2([k \in DOMAIN rows |-> capture[rows[k]].soc], Samples(capture, a, b))
=============================================================================
