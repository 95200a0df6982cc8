-------------------------- MODULE ReportingProofs --------------------------
(***************************************************************************)
(* Theorems about the two programs of xcheck/ that turn measurements into  *)
(* what is reported, and build lists in loops to do so (Lists).            *)
(* BusyWindow: the one-pass scan finds the first of the longest runs of    *)
(* busy bins in every capture, of any length and power.  PowerDeck: an     *)
(* edited deck is whole, paged, in order and free of the old claims,       *)
(* however BASE was edited by hand, and however often.                     *)
(***************************************************************************)
EXTENDS BusyWindow, PowerDeck, FiniteSetTheorems, SequenceTheorems, WellFoundedInduction,
        TLAPS

-----------------------------------------------------------------------------
(* Induction over the naturals, for a set of them. *)
LEMMA SetInduction ==
  ASSUME NEW N, 0 \in N, \A n \in Nat : n \in N => n + 1 \in N
  PROVE  Nat \subseteq N
<1> SUFFICES ASSUME Nat \ N # {} PROVE FALSE
  OBVIOUS
<1> DEFINE T == Nat \ N
<1>1. IsWellFoundedOn(OpToRel(<, Nat), Nat)
  BY NatLessThanWellFounded
<1>2. PICK m \in T : \A k \in T : ~ (<<k, m>> \in OpToRel(<, Nat))
  BY <1>1, WFMin
<1>3. \A k \in T : ~ (k < m)
  BY <1>2 DEF OpToRel
<1>4. m # 0 /\ m - 1 \in Nat /\ m - 1 < m
  OBVIOUS
<1>5. m - 1 \in N
  BY <1>3, <1>4
<1> QED BY <1>4, <1>5

(* g[k] is the list after the first k passes of the appending loop. *)
Passes(g, S, n) ==
  g = [k \in 0 .. n |-> IF k = 0 THEN <<>>
                        ELSE IF k \in S THEN Append(g[k - 1], k) ELSE g[k - 1]]

(* One pass of the loop: the position is appended if it is wanted.         *)
LEMMA ListAt ==
  ASSUME NEW g, NEW S, NEW n \in Nat, Passes(g, S, n), NEW k \in 0 .. n
  PROVE  g[k] = IF k = 0 THEN <<>>
                ELSE IF k \in S THEN Append(g[k - 1], k) ELSE g[k - 1]
  BY DEF Passes

(* The loop has passes for every number of positions, by induction.        *)
LEMMA PassesExist ==
  ASSUME NEW S, NEW n \in Nat
  PROVE  \E g : Passes(g, S, n)
<1> DEFINE N == {m \in Nat : \E g : Passes(g, S, m)}
<1>1. 0 \in N
  <2> DEFINE g == [k \in 0 .. 0 |-> <<>>]
  <2>1. Passes(g, S, 0)
    BY DEF Passes
  <2> QED BY <2>1
<1>2. ASSUME NEW m \in Nat, m \in N
      PROVE  m + 1 \in N
  <2>1. PICK g : Passes(g, S, m)
    BY <1>2
  <2> DEFINE Pass(f, k) == IF k = 0 THEN <<>>
                           ELSE IF k \in S THEN Append(f[k - 1], k) ELSE f[k - 1]
             h == [k \in 0 .. m + 1 |-> Pass(g, k)]
  <2>2. \A k \in 0 .. m : h[k] = g[k]
    <3> TAKE k \in 0 .. m
    <3>1. g[k] = Pass(g, k)
      BY <2>1, ListAt
    <3>2. k \in 0 .. m + 1
      OBVIOUS
    <3> HIDE DEF Pass
    <3> QED BY <3>1, <3>2
  <2>3. \A k \in 0 .. m + 1 : Pass(h, k) = Pass(g, k)
    <3> TAKE k \in 0 .. m + 1
    <3>1. k # 0 => k - 1 \in 0 .. m
      OBVIOUS
    <3> HIDE DEF h
    <3> QED BY <2>2, <3>1
  <2>4. h = [k \in 0 .. m + 1 |-> Pass(h, k)]
    <3> HIDE DEF Pass
    <3> QED BY <2>3
  <2>5. Passes(h, S, m + 1)
    BY <2>4 DEF Passes
  <2> QED BY <2>5
<1>3. n \in N
  BY <1>1, <1>2, SetInduction
<1> QED BY <1>3

(* What Appended returns is the list after the last pass. *)
LEMMA AppendedUnfolded ==
  ASSUME NEW S, NEW n \in Nat
  PROVE  \E g : Passes(g, S, n) /\ Appended(S, n) = g[n]
<1> DEFINE g == CHOOSE h :
                  h = [k \in 0 .. n |-> IF k = 0 THEN <<>>
                                        ELSE IF k \in S THEN Append(h[k - 1], k) ELSE h[k - 1]]
<1>1. Passes(g, S, n)
  <2>1. PICK h : Passes(h, S, n)
    BY PassesExist
  <2> QED BY <2>1, Zenon DEF Passes
<1>2. Appended(S, n) = g[n]
  BY DEF Appended
<1> HIDE DEF g
<1> QED BY <1>1, <1>2

-----------------------------------------------------------------------------
(* BusyWindow.                                                             *)

(* All that the proofs need to know of the constants. *)
LEMMA ConstantsType == NumBins \in Nat \ {0} /\ None \notin Int
  BY RailCaptureAssumption

USE ConstantsType

(* The scan's variables keep their types. *)
LEMMA ScanTypeCorrect == Spec => []ScanType
<1>1. Init => ScanType
  BY DEF Init, ScanType
<1>2. ScanType /\ [Next]_vars => ScanType'
  BY DEF ScanType, Next, vars, Read, ScanBusy, ScanIdle, ScanEnd, Close, NoPlateau, Trim,
         BusyPower, Finished, input
<1> QED BY <1>1, <1>2, PTL DEF Spec

(* No step but the first changes which bins are busy. *)
LEMMA BusyFixed ==
  ASSUME [Next]_vars, ~Read
  PROVE  /\ \A j : Busy(j)' = Busy(j)
         /\ \A a, b : BusyRun(a, b)' = BusyRun(a, b)
<1>1. UNCHANGED input
  BY DEF Next, vars, ScanBusy, ScanIdle, ScanEnd, NoPlateau, Trim, BusyPower, Finished, input
<1>2. \A j : Busy(j)' = Busy(j)
  BY <1>1 DEF input, Busy
<1> QED BY <1>1, <1>2 DEF BusyRun, input, Busy

(* A run that ends where an idle bin follows lies on one side of it. *)
LEMMA RunSides ==
  ASSUME NEW a \in 0 .. NumBins, NEW b \in 0 .. NumBins, BusyRun(a, b),
         NEW k \in Nat, ~Busy(k)
  PROVE  b <= k \/ a > k
  BY DEF BusyRun

(* Closing the run in progress keeps best the longest of the closed runs.  *)
LEMMA CloseKeeps ==
  ASSUME ScanType, ScanInv, pc = "scan", NEW end \in Nat, end = i, Close(end),
         \A j : Busy(j)' = Busy(j), UNCHANGED input
  PROVE  /\ best0' # None => BusyRun(best0', best1') /\ best1' <= end
         /\ \A a, b \in 0 .. NumBins :
              BusyRun(a, b) /\ b <= end => best0' # None /\ Beats(a, b)'
<1> USE DEF ScanType
<1>1. CASE cur = None
  <2>1. best0' = best0 /\ best1' = best1
    BY <1>1 DEF Close
  <2>2. Closed = end
    BY <1>1 DEF Closed, Unscanned
  <2> QED BY <2>1, <2>2 DEF ScanInv, Beats
<1>2. CASE cur # None
  <2>1. cur \in 0 .. NumBins /\ BusyRun(cur, end) /\ cur < end /\ Closed = cur
    BY <1>2 DEF ScanInv, BusyRun, Closed, Unscanned
  <2>2. best0 # None => BusyRun(best0, best1) /\ best1 <= cur
    BY <2>1 DEF ScanInv
  <2>3. ASSUME NEW a \in 0 .. NumBins, NEW b \in 0 .. NumBins, BusyRun(a, b), b <= end
        PROVE  \/ b <= cur /\ best0 # None /\ Beats(a, b)
               \/ a >= cur
    <3>1. CASE b <= cur
      BY <2>1, <2>3, <3>1 DEF ScanInv
    <3>2. CASE b > cur
      <4>1. CASE cur = 0
        BY <4>1
      <4>2. CASE cur > 0
        <5>1. ~Busy(cur - 1) /\ cur - 1 \in Nat
          BY <1>2, <2>1, <4>2 DEF ScanInv
        <5> QED BY <2>1, <2>3, <3>2, <5>1, RunSides
      <4> QED BY <2>1, <4>1, <4>2
    <3> QED BY <2>1, <3>1, <3>2
  <2>4. CASE Longer(end)
    <3>1. best0' = cur /\ best1' = end
      BY <1>2, <2>4 DEF Close
    <3>2. BusyRun(best0', best1') /\ best1' <= end /\ best0' # None
      BY <2>1, <3>1
    <3>3. ASSUME NEW a \in 0 .. NumBins, NEW b \in 0 .. NumBins, BusyRun(a, b), b <= end
          PROVE  Beats(a, b)'
      <4>1. CASE b <= cur /\ best0 # None /\ Beats(a, b)
        <5>1. best0 \in Int /\ best1 \in Int
          BY <2>2, <4>1 DEF BusyRun
        <5> QED BY <2>1, <2>4, <3>1, <4>1, <5>1 DEF Beats, Longer
      <4>2. CASE a >= cur
        BY <2>1, <3>1, <3>3, <4>2 DEF Beats
      <4> QED BY <2>3, <3>3, <4>1, <4>2
    <3> QED BY <3>2, <3>3
  <2>5. CASE ~Longer(end)
    <3>1. best0' = best0 /\ best1' = best1 /\ best0 # None
      BY <2>5 DEF Close, Longer
    <3>2. BusyRun(best0, best1) /\ best1 <= cur /\ end - cur <= best1 - best0
      BY <2>1, <2>2, <2>5, <3>1 DEF Longer, BusyRun
    <3>3. ASSUME NEW a \in 0 .. NumBins, NEW b \in 0 .. NumBins, BusyRun(a, b), b <= end
          PROVE  Beats(a, b)'
      <4>1. CASE Beats(a, b)
        BY <3>1, <4>1 DEF Beats
      <4>2. CASE a >= cur
        <5>1. best0 < best1 /\ best0 \in Nat /\ best1 \in Nat
          BY <3>2 DEF BusyRun
        <5> QED BY <2>1, <3>1, <3>2, <3>3, <4>2, <5>1 DEF Beats
      <4> QED BY <2>3, <3>3, <4>1, <4>2
    <3> QED BY <2>1, <3>1, <3>2, <3>3
  <2> QED BY <2>4, <2>5
<1> QED BY <1>1, <1>2

(* Init establishes the scan's invariant. *)
LEMMA ScanInvInit == Init => ScanInv
  BY DEF Init, ScanInv, BusyRun, Closed, Unscanned, Returned

(* Every step keeps it. *)
LEMMA ScanInvStep ==
  ASSUME ScanType, ScanType', ScanInv, [Next]_vars
  PROVE  ScanInv'
<1> USE DEF ScanType
<1>0. CASE Read
  <2>1. /\ pc' \in {"scan", "StatisticsError"} /\ pc = "read"
        /\ i' = 0 /\ cur' = None /\ best0' = None
    BY <1>0 DEF Read, ScanInv, Unscanned
  <2>2. Closed' = 0 /\ ~Returned'
    BY <2>1 DEF Closed, Unscanned, Returned
  <2>3. \A a, b \in 0 .. NumBins : ~(BusyRun(a, b)' /\ b <= 0)
    BY DEF BusyRun
  <2> QED BY <2>1, <2>2, <2>3 DEF ScanInv
<1> SUFFICES ASSUME ~Read PROVE ScanInv'
  BY <1>0
<1>1. /\ \A j : Busy(j)' = Busy(j)
      /\ \A a, b : BusyRun(a, b)' = BusyRun(a, b)
  BY BusyFixed
<1>2. CASE ScanBusy
  <2>1. /\ pc = "scan" /\ pc' = "scan" /\ i < NumBins /\ Busy(i) /\ i' = i + 1
        /\ best0' = best0 /\ best1' = best1
        /\ cur' = IF cur = None THEN i ELSE cur
    BY <1>2 DEF ScanBusy
  <2>2. cur' # None /\ Closed' = Closed
    BY <2>1 DEF Closed, Unscanned
  <2>3. BusyRun(cur', i') /\ (cur' > 0 => ~Busy(cur' - 1))
    <3>1. CASE cur = None
      BY <2>1, <3>1 DEF ScanInv, BusyRun
    <3>2. CASE cur # None
      <4>1. BusyRun(cur, i) /\ (cur > 0 => ~Busy(cur - 1)) /\ cur' = cur
        BY <2>1, <3>2 DEF ScanInv
      <4> QED BY <2>1, <4>1 DEF BusyRun
    <3> QED BY <3>1, <3>2
  <2>4. \A a, b : Beats(a, b)' = Beats(a, b)
    BY <2>1 DEF Beats
  <2> QED BY <1>1, <2>1, <2>2, <2>3, <2>4 DEF ScanInv, Unscanned, Returned
<1>3. CASE ScanIdle
  <2>1. /\ pc = "scan" /\ pc' = "scan" /\ i < NumBins /\ ~Busy(i) /\ i' = i + 1
        /\ cur' = None /\ Close(i) /\ UNCHANGED input
    BY <1>3 DEF ScanIdle
  <2>2. i \in Nat
    OBVIOUS
  <2>3. /\ best0' # None => BusyRun(best0', best1') /\ best1' <= i
        /\ \A a, b \in 0 .. NumBins :
             BusyRun(a, b) /\ b <= i => best0' # None /\ Beats(a, b)'
    BY <1>1, <2>1, <2>2, CloseKeeps
  <2>4. Closed' = i + 1
    BY <2>1 DEF Closed, Unscanned
  <2>5. \A a, b \in 0 .. NumBins : BusyRun(a, b) /\ b <= i + 1 => b <= i
    BY <2>1 DEF BusyRun
  <2>6. i' - 1 = i
    BY <2>1
  <2>7. \A a, b \in 0 .. NumBins :
          BusyRun(a, b)' /\ b <= Closed' => best0' # None /\ Beats(a, b)'
    BY <1>1, <2>3, <2>4, <2>5
  <2>8. best0' # None => BusyRun(best0, best1)' /\ best1' <= Closed'
    <3>1. best0' # None => BusyRun(best0, best1)'
      BY <1>1, <2>1, <2>3 DEF BusyRun, input, Busy
    <3>2. best0' # None => best1' \in Nat /\ best1' <= i
      BY <2>3 DEF BusyRun
    <3> QED BY <2>2, <2>4, <3>1, <3>2
  <2>9. ~Busy(i' - 1)'
    BY <1>1, <2>1, <2>6 DEF Busy, input
  <2> QED BY <2>1, <2>7, <2>8, <2>9 DEF ScanInv
<1>4. CASE ScanEnd
  <2>1. /\ pc = "scan" /\ pc' = "trim" /\ i = NumBins
        /\ Close(NumBins) /\ UNCHANGED input
    BY <1>4 DEF ScanEnd
  <2>2. /\ best0' # None => BusyRun(best0', best1') /\ best1' <= NumBins
        /\ \A a, b \in 0 .. NumBins :
             BusyRun(a, b) /\ b <= NumBins => best0' # None /\ Beats(a, b)'
    BY <1>1, <2>1, CloseKeeps
  <2>3. Closed' = NumBins
    BY <2>1 DEF Closed, Unscanned
  <2>4. \A a, b \in 0 .. NumBins :
          BusyRun(a, b)' /\ b <= Closed' => best0' # None /\ Beats(a, b)'
    BY <1>1, <2>2, <2>3
  <2>5. best0' # None => BusyRun(best0, best1)' /\ best1' <= Closed'
    <3>1. best0' # None => BusyRun(best0, best1)'
      BY <1>1, <2>1, <2>2 DEF BusyRun, input, Busy
    <3> QED BY <2>2, <2>3, <3>1
  <2> QED BY <2>1, <2>4, <2>5 DEF ScanInv, Unscanned, Returned
<1>5. CASE NoPlateau \/ Trim \/ BusyPower \/ Finished \/ UNCHANGED vars
  <2>1. /\ best0' = best0 /\ best1' = best1 /\ i' = i /\ cur' = cur
        /\ pc = "scan" <=> pc' = "scan"
        /\ Unscanned <=> Unscanned'
        /\ Returned' => Returned \/ best0 # None
    BY <1>5 DEF NoPlateau, Trim, BusyPower, Finished, vars, Unscanned, Returned
  <2>2. Closed' = Closed
    BY <2>1 DEF Closed, Unscanned
  <2>3. \A a, b : Beats(a, b)' = Beats(a, b)
    BY <2>1 DEF Beats
  <2>4. BusyRun(best0, best1)' = BusyRun(best0, best1) /\ BusyRun(cur, i)' = BusyRun(cur, i)
    BY <1>1, <2>1 DEF BusyRun
  <2> QED BY <1>1, <2>1, <2>2, <2>3, <2>4 DEF ScanInv
<1> QED BY <1>2, <1>3, <1>4, <1>5 DEF Next

(* The scan's invariant holds at every step, in every capture. *)
THEOREM ScanInvariant == Spec => []ScanInv
<1>1. ScanType /\ ScanType' /\ ScanInv /\ [Next]_vars => ScanInv'
  BY ScanInvStep
<1> QED BY <1>1, ScanInvInit, ScanTypeCorrect, PTL DEF Spec

(* The scan of window() finds the first of the longest runs of busy bins,  *)
(* whatever the capture's length and power.                                *)
THEOREM LongestFound == Spec => []LongestRun
<1>1. ScanInv /\ ScanType => LongestRun
  <2> SUFFICES ASSUME ScanInv, ScanType, Returned PROVE LongestRun
    BY DEF LongestRun
  <2>1. Closed = NumBins
    BY DEF Closed, Unscanned, Returned
  <2> QED BY <2>1 DEF ScanInv, LongestRun
<1> QED BY <1>1, ScanInvariant, ScanTypeCorrect, PTL

(* The window returned is a non-empty part of the plateau, and loses its   *)
(* ramp bins whenever the plateau has five bins or more.                   *)
THEOREM WindowFound == Spec => []WindowInPlateau
<1>1. Init => WindowInPlateau
  BY DEF Init, WindowInPlateau, Returned
<1>2. ScanType /\ ScanInv /\ WindowInPlateau /\ [Next]_vars => WindowInPlateau'
  <2> SUFFICES ASSUME ScanType, ScanInv, WindowInPlateau, [Next]_vars
               PROVE  WindowInPlateau'
    OBVIOUS
  <2>1. CASE Trim
    <3>1. best0 \in Nat /\ best1 \in Nat /\ best0 < best1
      BY <2>1 DEF Trim, ScanInv, BusyRun
    <3>2. /\ best0' = best0 /\ best1' = best1
          /\ IF (best1 - 1) - (best0 + 1) < 3
             THEN t0' = best0 /\ t1' = best1
             ELSE t0' = best0 + 1 /\ t1' = best1 - 1
      BY <2>1 DEF Trim, Trimmed
    <3> QED BY <3>1, <3>2 DEF WindowInPlateau
  <2>2. CASE ~Returned'
    BY <2>2 DEF WindowInPlateau
  <2>3. CASE BusyPower \/ Finished \/ UNCHANGED vars
    BY <2>3 DEF BusyPower, Finished, vars, WindowInPlateau, Returned
  <2>4. Read \/ ScanBusy \/ ScanIdle \/ ScanEnd \/ NoPlateau => ~Returned'
    BY DEF Read, ScanBusy, ScanIdle, ScanEnd, NoPlateau, Returned
  <2> QED BY <2>1, <2>2, <2>3, <2>4 DEF Next
<1> QED BY <1>1, <1>2, ScanTypeCorrect, ScanInvariant, PTL DEF Spec

-----------------------------------------------------------------------------
(* What the scan works on is what the capture gives. *)
InputInv ==
  /\ pc = "StatisticsError" => TooShort(capture)
  /\ ~Unscanned => /\ ~TooShort(capture)
                   /\ bins = Bins(capture) /\ thr = Threshold(bins)
  /\ pc = "ValueError" => best0 = None

(* Every capture scanned is long enough, with its own bins and threshold.  *)
LEMMA InputCorrect == Spec => []InputInv
<1>1. Init => InputInv
  BY DEF Init, InputInv, Unscanned
<1>2. InputInv /\ [Next]_vars => InputInv'
  <2> SUFFICES ASSUME InputInv, [Next]_vars PROVE InputInv'
    OBVIOUS
  <2>1. CASE Read
    BY <2>1 DEF Read, InputInv, Unscanned
  <2>2. CASE ~Read
    <3>1. UNCHANGED <<capture, bins, thr>> /\ Unscanned' = Unscanned
          /\ (Unscanned => pc' = pc) /\ (pc' = "ValueError" => best0' = None)
      BY <2>2 DEF InputInv, Next, vars, ScanBusy, ScanIdle, ScanEnd, NoPlateau, Trim, BusyPower,
                  Finished, input, Unscanned
    <3>2. TooShort(capture)' = TooShort(capture) /\ Bins(capture)' = Bins(capture)
          /\ Threshold(bins)' = Threshold(bins)
      BY <3>1
    <3> QED BY <3>1, <3>2 DEF InputInv, Unscanned
  <2> QED BY <2>1, <2>2
<1> QED BY <1>1, <1>2, PTL DEF Spec

(* The promise reads a capture as the code does. *)
LEMMA SameReading ==
  /\ Promise!TooShort(capture) = TooShort(capture)
  /\ Promise!Bins(capture) = Bins(capture)
  /\ \A b : Promise!Threshold(b) = Threshold(b)
  /\ \A a, b : Promise!Trimmed(a, b) = Trimmed(a, b)
  /\ Promise!Bin = Bin
<1> USE DEF Promise!ArmRead, ArmRead, Promise!SocRead, SocRead
<1>card. \A S : Promise!Cardinality(S) = Cardinality(S)
  BY DEF Promise!Cardinality, Cardinality
<1>order. \A S, n : Promise!Appended(S, n) = Appended(S, n)
  BY DEF Promise!Appended, Appended
<1>1. Promise!ArmRows(capture) = ArmRows(capture) /\ Promise!SocRows(capture) = SocRows(capture)
  BY <1>order DEF Promise!ArmRows, ArmRows, Promise!SocRows, SocRows
<1>2. Promise!NumSamples(capture) = NumSamples(capture) /\ Promise!Bin = Bin
  BY <1>1 DEF Promise!NumSamples, NumSamples, Promise!Bin, Bin
<1>3. \A f, S, k : Promise!Sorted(f, S, k) = Sorted(f, S, k)
  <2> TAKE f, S, k
  <2> QED BY <1>card DEF Promise!Sorted, Sorted
<1>4. \A f, S : Promise!Median2(f, S) = Median2(f, S)
  <2> TAKE f, S
  <2> QED BY <1>3, <1>card DEF Promise!Median2, Median2
<1>5. \A a, b : Promise!Samples(capture, a, b) = Samples(capture, a, b)
  BY <1>2 DEF Promise!Samples, Samples
<1>6. Promise!Bins(capture) = Bins(capture)
  BY <1>1, <1>2, <1>4, <1>5 DEF Promise!Bins, Bins
<1>7. \A b : Promise!Threshold(b) = Threshold(b)
  BY <1>2, <1>3 DEF Promise!Threshold, Threshold, Promise!FloorIndex, FloorIndex,
                    Promise!P90Index, P90Index
<1> QED BY <1>2, <1>6, <1>7 DEF Promise!TooShort, TooShort, Promise!Trimmed, Trimmed

(* A bin is busy for the scan when it is for the promise. *)
LEMMA SameBusy ==
  ASSUME InputInv, ~Unscanned
  PROVE  /\ Promise!BusyBins = {j \in Bin : Busy(j)}
         /\ \A a, b \in 0 .. NumBins : Promise!IsRun(Promise!BusyBins, a, b) <=> BusyRun(a, b)
<1>1. Promise!BusyBins = {j \in Bin : Busy(j)}
  BY SameReading DEF InputInv, Promise!BusyBins, Busy
<1>2. ASSUME NEW a \in 0 .. NumBins, NEW b \in 0 .. NumBins
      PROVE  Promise!IsRun(Promise!BusyBins, a, b) <=> BusyRun(a, b)
  BY <1>1 DEF Promise!IsRun, BusyRun, Bin
<1> QED BY <1>1, <1>2

(* The scan of window() implements the one step that its docstring         *)
(* promises: every step of it is that step, or leaves the answer alone.    *)
THEOREM ScanFindsPlateau == Spec => FindsPlateau
<1>1. Init => Promise!Init
  BY DEF Init, Promise!Init, Answer, Returned
<1>2. ScanType /\ ScanInv /\ InputInv /\ [Next]_vars => [Promise!Next]_(Promise!vars)
  <2> SUFFICES ASSUME ScanType, ScanInv, InputInv, [Next]_vars
               PROVE  [Promise!Next]_(Promise!vars)
    OBVIOUS
  <2>1. CASE Read
    <3>1. Answer = <<>> /\ capture' = capture
      BY <2>1 DEF Read, Answer, Returned
    <3>2. CASE TooShort(capture)
      <4>1. Answer' = <<"StatisticsError">>
        BY <2>1, <3>2 DEF Read, Answer, Returned
      <4>2. Promise!Refuse
        BY <3>1, <3>2, <4>1, SameReading DEF Promise!Refuse
      <4> QED BY <4>2 DEF Promise!Next
    <3>3. CASE ~TooShort(capture)
      <4>1. Answer' = <<>>
        BY <2>1, <3>3 DEF Read, Answer, Returned
      <4> QED BY <3>1, <4>1 DEF Promise!vars
    <3> QED BY <3>2, <3>3
  <2>2. CASE ScanBusy \/ ScanIdle \/ ScanEnd
    BY <2>2 DEF ScanBusy, ScanIdle, ScanEnd, input, Answer, Returned, Promise!vars
  <2>3. CASE NoPlateau
    <3>1. /\ Answer = <<>> /\ Answer' = <<"ValueError">> /\ capture' = capture
          /\ pc = "trim" /\ best0 = None
      BY <2>3 DEF NoPlateau, Answer, Returned, input
    <3>2. \A a, b \in 0 .. NumBins : ~BusyRun(a, b)
      BY <3>1 DEF ScanInv, Closed, Unscanned
    <3>3. ~TooShort(capture) /\ ~Unscanned
      BY <3>1 DEF InputInv, Unscanned
    <3>4. \A j \in Bin : ~Busy(j)
      <4> SUFFICES ASSUME NEW j \in Bin, Busy(j) PROVE FALSE
        OBVIOUS
      <4>1. j \in 0 .. NumBins /\ j + 1 \in 0 .. NumBins /\ j .. j + 1 - 1 = {j}
        BY DEF Bin
      <4>2. BusyRun(j, j + 1)
        BY <4>1 DEF BusyRun
      <4> QED BY <3>2, <4>1, <4>2
    <3>5. Promise!BusyBins = {}
      BY <3>3, <3>4, SameBusy
    <3>6. Promise!Refuse
      BY <3>1, <3>3, <3>5, SameReading DEF Promise!Refuse
    <3> QED BY <3>6 DEF Promise!Next
  <2>4. CASE Trim
    <3>1. /\ Answer = <<>> /\ Answer' = Trimmed(best0, best1) /\ capture' = capture
          /\ pc = "trim" /\ best0 # None
      BY <2>4 DEF Trim, Trimmed, Answer, Returned, input
    <3>2. /\ best0 \in 0 .. NumBins /\ best1 \in 0 .. NumBins /\ BusyRun(best0, best1)
          /\ \A a, b \in 0 .. NumBins : BusyRun(a, b) => Beats(a, b)
      BY <3>1 DEF ScanInv, Closed, Unscanned, BusyRun
    <3>3. ~TooShort(capture) /\ ~Unscanned
      BY <3>1 DEF InputInv, Unscanned
    <3>4. Promise!FirstLongest(Promise!BusyBins, best0, best1)
      <4>1. ASSUME NEW c \in 0 .. NumBins, NEW d \in 0 .. NumBins,
                   Promise!IsRun(Promise!BusyBins, c, d)
            PROVE  d - c < best1 - best0 \/ (d - c = best1 - best0 /\ c >= best0)
        BY <3>2, <3>3, <4>1, SameBusy DEF Beats
      <4> QED BY <3>2, <3>3, <4>1, SameBusy DEF Promise!FirstLongest
    <3>5. Promise!Find
      BY <3>1, <3>2, <3>3, <3>4, SameReading DEF Promise!Find
    <3> QED BY <3>5 DEF Promise!Next
  <2>5. CASE BusyPower \/ Finished \/ UNCHANGED vars
    BY <2>5 DEF BusyPower, Finished, vars, input, Answer, Returned, Promise!vars
  <2> QED BY <2>1, <2>2, <2>3, <2>4, <2>5 DEF Next
<1> QED BY <1>1, <1>2, ScanTypeCorrect, ScanInvariant, InputCorrect, PTL
        DEF Spec, FindsPlateau, Promise!Spec

-----------------------------------------------------------------------------
(* Of two lists, one of more rows than the other, the entries are the same *)
(* up to the first row that only the longer one takes.                     *)
LEMMA SameUpTo ==
  ASSUME NEW n \in Nat, NEW A, NEW B, B \subseteq A
  PROVE  LET a == Appended(A, n)
             b == Appended(B, n)
         IN  /\ Len(b) \in Nat
             /\ \A j \in 1 .. Len(b) :
                  /\ b[j] \in 1 .. n /\ b[j] \in B
                  /\ (\A r \in 1 .. b[j] : r \in A => r \in B) => a[j] = b[j]
<1>1. PICK f : Passes(f, A, n) /\ Appended(A, n) = f[n]
  BY AppendedUnfolded
<1>2. PICK g : Passes(g, B, n) /\ Appended(B, n) = g[n]
  BY AppendedUnfolded
<1> DEFINE Alike(k) == \A r \in 1 .. k : r \in A => r \in B
           Entry(k, j) == /\ g[k][j] \in 1 .. k /\ g[k][j] \in B
                          /\ Alike(g[k][j]) => j <= Len(f[k]) /\ f[k][j] = g[k][j]
           Good(k) == /\ f[k] \in Seq(Nat) /\ g[k] \in Seq(Nat)
                      /\ Alike(k) => f[k] = g[k]
                      /\ \A j \in 1 .. Len(g[k]) : Entry(k, j)
           N == {k \in Nat : k <= n => Good(k)}
<1>3. 0 \in N
  <2>1. f[0] = <<>> /\ g[0] = <<>>
    BY <1>1, <1>2 DEF Passes
  <2>2. Good(0)
    BY <2>1
  <2> QED BY <2>2
<1>4. ASSUME NEW k \in Nat, k \in N
      PROVE  k + 1 \in N
  <2>1. ASSUME k + 1 <= n
        PROVE  Good(k + 1)
    <3> DEFINE m == k + 1
    <3>1. Good(k) /\ m \in 1 .. n /\ m - 1 = k
      <4>1. k <= n /\ m \in 1 .. n /\ m - 1 = k
        BY <2>1
      <4> HIDE DEF Good, m
      <4> QED BY <1>4, <4>1
    <3>2. /\ f[m] = IF m \in A THEN Append(f[k], m) ELSE f[k]
          /\ g[m] = IF m \in B THEN Append(g[k], m) ELSE g[k]
      <4>1. m \in 0 .. n /\ m # 0
        BY <3>1
      <4> HIDE DEF m
      <4>2. /\ f[m] = IF m \in A THEN Append(f[m - 1], m) ELSE f[m - 1]
            /\ g[m] = IF m \in B THEN Append(g[m - 1], m) ELSE g[m - 1]
        BY <1>1, <1>2, <4>1, ListAt
      <4> QED BY <3>1, <4>2
    <3> HIDE DEF m
    <3>3. f[m] \in Seq(Nat) /\ g[m] \in Seq(Nat)
      BY <3>1, <3>2
    <3>4. Alike(m) => f[m] = g[m]
      <4>1. Alike(m) => Alike(k) /\ (m \in A <=> m \in B)
        BY <3>1 DEF m
      <4> QED BY <3>1, <3>2, <4>1
    <3>5. ASSUME NEW j \in 1 .. Len(g[m])
          PROVE  Entry(m, j)
      <4>1. CASE j \in 1 .. Len(g[k])
        <5>1. g[m][j] = g[k][j]
          BY <3>1, <3>2, <4>1
        <5>2. Entry(k, j)
          BY <3>1, <4>1
        <5>3. j <= Len(f[k]) => j <= Len(f[m]) /\ f[m][j] = f[k][j]
          BY <3>1, <3>2, <4>1
        <5>4. g[k][j] \in 1 .. m
          BY <3>1, <5>2 DEF m
        <5> HIDE DEF Alike
        <5> QED BY <5>1, <5>2, <5>3, <5>4
      <4>2. CASE j \notin 1 .. Len(g[k])
        <5>1. m \in B /\ j = Len(g[k]) + 1 /\ g[m][j] = m
          BY <3>1, <3>2, <3>5, <4>2
        <5>2. m \in 1 .. m
          BY <3>1
        <5> HIDE DEF Alike
        <5>3. Alike(m) => j <= Len(f[m]) /\ f[m][j] = g[m][j]
          BY <3>3, <3>4, <3>5
        <5> QED BY <5>1, <5>2, <5>3
      <4> QED BY <4>1, <4>2
    <3> QED BY <3>3, <3>4, <3>5 DEF m
  <2> HIDE DEF Good
  <2> QED BY <2>1
<1>5. Good(n)
  <2>1. Nat \subseteq N
    BY <1>3, <1>4, SetInduction
  <2> QED BY <2>1
<1>6. Len(g[n]) \in Nat
  BY <1>5
<1> QED BY <1>1, <1>2, <1>5, <1>6

(* The window lies in the capture, which is one of those read. *)
WindowInv ==
  /\ capture \in Captures
  /\ Returned => t0 \in 0 .. NumBins /\ t1 \in 0 .. NumBins

(* Both hold at every step of window() and busy_power(). *)
LEMMA WindowType == Spec => []WindowInv
<1>1. Init => WindowInv
  BY DEF Init, WindowInv, Returned
<1>2. ScanInv /\ WindowInv /\ [Next]_vars => WindowInv'
  <2> SUFFICES ASSUME ScanInv, WindowInv, [Next]_vars PROVE WindowInv'
    OBVIOUS
  <2>1. CASE Trim
    <3>1. best0 \in 0 .. NumBins /\ best1 \in 0 .. NumBins /\ best0 < best1
      BY <2>1 DEF Trim, ScanInv, BusyRun
    <3>2. /\ capture' = capture
          /\ IF (best1 - 1) - (best0 + 1) < 3
             THEN t0' = best0 /\ t1' = best1
             ELSE t0' = best0 + 1 /\ t1' = best1 - 1
      BY <2>1 DEF Trim, Trimmed, input
    <3> QED BY <3>1, <3>2 DEF WindowInv
  <2>2. CASE Read \/ ScanBusy \/ ScanIdle \/ ScanEnd \/ NoPlateau
    BY <2>2 DEF Read, ScanBusy, ScanIdle, ScanEnd, NoPlateau, input, WindowInv, Returned
  <2>3. CASE BusyPower \/ Finished \/ UNCHANGED vars
    BY <2>3 DEF BusyPower, Finished, vars, input, WindowInv, Returned
  <2> QED BY <2>1, <2>2, <2>3 DEF Next
<1> QED BY <1>1, <1>2, ScanInvariant, PTL DEF Spec

(* A window of the capture has samples of the capture only. *)
LEMMA SamplesInRange ==
  ASSUME NumSamples(capture) \in Nat, NEW a \in 0 .. NumBins, NEW b \in 0 .. NumBins
  PROVE  Samples(capture, a, b) \subseteq 1 .. NumSamples(capture)
<1> DEFINE n == NumSamples(capture)
<1> SUFFICES ASSUME NEW k \in (a * n) \div NumBins + 1 .. (b * n) \div NumBins
             PROVE  k \in 1 .. n
  BY DEF Samples
<1>1. a * n \in Nat /\ b * n <= NumBins * n
  OBVIOUS
<1> QED BY <1>1

(* Both rails' busy powers are of the same rows, unless a row before the   *)
(* last of the window had a readable arm and an unreadable soc.            *)
THEOREM SameWindow == Spec => []SameRows
<1>1. WindowInv => SameRows
  <2> SUFFICES ASSUME WindowInv, pc = "done",
                      \A k \in 1 .. Len(capture) : HalfRead(k) =>
                        ~ \E s \in RowsOf(SocRows(capture)) : k < s
               PROVE  RowsOf(ArmRows(capture)) = RowsOf(SocRows(capture))
    BY DEF SameRows, HalfRead, ArmRead
  <2> DEFINE n == Len(capture)
             A == {k \in 1 .. n : ArmRead(capture[k])}
             B == {k \in 1 .. n : SocRead(capture[k])}
             a == ArmRows(capture)
             b == SocRows(capture)
             S == Samples(capture, t0, t1)
  <2>1. n \in Nat
    BY RailCaptureAssumption DEF WindowInv
  <2>2. B \subseteq A
    BY DEF SocRead
  <2>3. a = Appended(A, n) /\ b = Appended(B, n)
    BY DEF ArmRows, SocRows
  <2> HIDE DEF a, b, n
  <2>4. /\ Len(b) \in Nat
        /\ \A j \in 1 .. Len(b) :
             /\ b[j] \in 1 .. n /\ b[j] \in B
             /\ (\A r \in 1 .. b[j] : r \in A => r \in B) => a[j] = b[j]
    <3> HIDE DEF A, B
    <3> DEFINE l == Appended(A, n)
               m == Appended(B, n)
    <3>1. /\ Len(m) \in Nat
          /\ \A j \in 1 .. Len(m) :
               /\ m[j] \in 1 .. n /\ m[j] \in B
               /\ (\A r \in 1 .. m[j] : r \in A => r \in B) => l[j] = m[j]
      BY <2>1, <2>2, SameUpTo
    <3> HIDE DEF l, m
    <3>2. a = l /\ b = m
      BY <2>3 DEF l, m
    <3> QED BY <3>1, <3>2
  <2>5. S \subseteq 1 .. Len(b)
    BY <2>4, SamplesInRange DEF WindowInv, Returned, NumSamples, b
  <2>6. ASSUME NEW j \in S
        PROVE  a[j] = b[j]
    <3>1. b[j] \in RowsOf(b) /\ j \in 1 .. Len(b)
      BY <2>5 DEF RowsOf
    <3>2. ASSUME NEW r \in 1 .. b[j], r \in A
          PROVE  r \in B
      <4>1. CASE r = b[j]
        BY <2>4, <3>1, <4>1
      <4>2. CASE r # b[j]
        <5>1. r < b[j] /\ r \in 1 .. n
          BY <2>4, <3>1, <3>2, <4>2
        <5>2. ~HalfRead(r)
          BY <3>1, <5>1 DEF n, b
        <5> QED BY <3>2, <5>1, <5>2 DEF HalfRead
      <4> QED BY <4>1, <4>2
    <3> QED BY <2>4, <3>1, <3>2
  <2> QED BY <2>6 DEF RowsOf, a, b
<1> QED BY <1>1, WindowType, PTL

HIDE ConstantsType

-----------------------------------------------------------------------------
(* The claims that a slide of each title makes in the deltas' wording.     *)
Makes(title) ==
  CASE title = "TwoQuestions" -> {"alone", "overreports"}
    [] title \in {"SeesNot", "Licenses"} -> {"overreports"}
    [] title \in {"Edge", "RealisticEdge"} -> {"alone", "inference", "overreports"}
    [] title = "Means" -> {"estimated"}
    [] OTHER -> Claim

NewTitles == <<"Anatomy", "Replaces", "Corner", "Flat">>

(* A slide as the generator, the deltas and an editor make them, e edits   *)
(* having been made.                                                       *)
Sound(t, e) ==
  /\ t \in Slide /\ t.id < 30 + e /\ t.says \subseteq Makes(t.title)
  /\ t.id \in Inserted => t.title \in {"Anatomy", "Replaces", "Corner", "Flat"}

(* A presentation of such slides: only what deck_edit.py adds can be in it *)
(* more than once.                                                         *)
Distinct(s) ==
  \A q, j \in DOMAIN s : s[q].id = s[j].id /\ q # j => s[q].id \in Inserted

SoundDeck(s, e) ==
  s \in Seq(Slide) /\ (\A q \in DOMAIN s : Sound(s[q], e)) /\ Distinct(s)

SlidesInv ==
  /\ files \in [File -> Seq(Slide)] /\ edits \in Nat
  /\ \A f \in File : SoundDeck(files[f], edits)
  /\ SoundDeck(prs, edits) /\ SoundDeck(source, edits)

(* How far deck_edit.py is.                                                *)
Running == delta \notin {"idle", "copy", "save", "saving"}
AfterPrecise == Running /\ delta # "precise"
AfterRelabel == AfterPrecise /\ delta \notin {"anatomy", "replaces", "relabel"}
AfterMixes == AfterRelabel /\ delta # "retitle"
AfterBandwidth == AfterMixes /\ delta \notin {"fifty", "bandwidth"}
AfterRetire == AfterBandwidth /\ delta \notin {"corner", "retire"}

(* The slides it has added by then.                                        *)
Added ==
  CASE delta \in {"precise", "anatomy"} -> 0
    [] delta = "replaces" -> 1
    [] delta \in {"retire", "flat"} -> 3
    [] delta = "arrange" -> 4
    [] OTHER -> 2

New(j) == Plain(21 + j, NewTitles[j])

(* The slide t at position q comes from the slide o of BASE there.         *)
ComesFrom(t, o, q) ==
  /\ t.id = o.id
  /\ q - 1 \notin Touched => t = o
  /\ q \notin {5, 10} => t.title = o.title
  /\ t.title = o.title \/ t.title \in {"Bandwidth", "SeveralReal", "SeveralApps"}

(* What is left of the claims of the slide that stands at its position.    *)
Claims(q) ==
  CASE q = 2 /\ AfterRetire -> {}
    [] q = 2 /\ ~AfterRetire /\ AfterPrecise -> {"overreports"}
    [] q = 5 /\ AfterBandwidth -> {}
    [] q = 10 /\ AfterRetire -> {}
    [] q = 10 /\ ~AfterRetire /\ AfterRelabel -> {"overreports"}
    [] q = 10 /\ ~AfterRelabel /\ AfterPrecise -> {"inference", "overreports"}
    [] q = 11 /\ AfterRetire -> {}
    [] q = 12 /\ AfterPrecise -> {}
    [] OTHER -> Claim

(* What the slides of BASE say and are called by now. *)
Worded ==
  \A q \in DOMAIN source :
    /\ source[q].title \in Home(q - 1) => prs[q].says \subseteq Claims(q)
    /\ q = 5 /\ source[q].title = "SeesNot"
         => prs[q].title = IF AfterRetire THEN "Bandwidth" ELSE "SeesNot"
    /\ q = 10 /\ source[q].title = "Edge"
         => prs[q].title = IF AfterMixes THEN "SeveralApps" ELSE "Edge"

(* The presentation is BASE with the deltas so far.                        *)
EditInv ==
  Running =>
    /\ delta = "precise" => prs = source
    /\ AfterPrecise => Len(source) > 11
    /\ Len(prs) = Len(source) + Added
    /\ \A j \in 1 .. Added : prs[Len(source) + j] = New(j)
    /\ \A q \in DOMAIN source : ComesFrom(prs[q], source[q], q)
    /\ Worded

(* What the properties say of a finished edit d of a BASE.                 *)
WholeDeck(d, base) ==
  /\ \A id : Cardinality(Slides(d, id)) =
               Cardinality(Slides(base, id)) + (IF id \in Inserted THEN 1 ELSE 0)
  /\ \A q \in DOMAIN base : q - 1 \notin Touched =>
       \E k \in DOMAIN d : [d[k] EXCEPT !.page = 0] = [base[q] EXCEPT !.page = 0]

PagedDeck(d) == \A q \in DOMAIN d : d[q].box => d[q].page = q

RetiredDeck(d, base) ==
  \A q \in DOMAIN base : base[q].title \in Home(q - 1) =>
    \A k \in Slides(d, base[q].id) : d[k].says = {}

ClosedDeck(d, base) ==
  /\ \A c, q \in DOMAIN d :
       d[c].title = "Means" /\ First(d, c) /\ q # c => (q < c <=> Placed(d, q))
  /\ \A q, j \in DOMAIN d :
       /\ Placed(d, q) /\ d[q].title \in Part1
       /\ Placed(d, j) /\ d[j].title \in Part2
       => q < j
  /\ Complete(base) => d[Len(d)].title = "Means"

FinishedDeck(d, base) ==
  WholeDeck(d, base) /\ PagedDeck(d) /\ RetiredDeck(d, base) /\ ClosedDeck(d, base)

FinishedInv ==
  /\ delta = "copy" => source = files["base"]
  /\ delta \in {"save", "saving"} => FinishedDeck(prs, source)
  /\ Edited => FinishedDeck(Deck, source)
  /\ deckIs = "copy" => Deck = source
  /\ deckIs = "torn" => Deck = <<>>

-----------------------------------------------------------------------------
(* What the deltas' operators do to a presentation, slide by slide.        *)
LEMMA SlideKept ==
  ASSUME NEW t \in Slide
  PROVE  /\ \A x \in Title : [t EXCEPT !.title = x] \in Slide
         /\ \A x \in SUBSET Claim : [t EXCEPT !.says = x] \in Slide
         /\ \A x, y \in SUBSET Claim : [t EXCEPT !.says = x, !.own = y] \in Slide
         /\ \A x \in {"none", "original", "short", "relabelled", "perApp", "reads"} :
              [t EXCEPT !.table = x] \in Slide
         /\ \A x \in Nat : [t EXCEPT !.page = x] \in Slide
  BY DEF Slide

(* One slide of a presentation replaced by another. *)
LEMMA ChangedAt ==
  ASSUME NEW s \in Seq(Slide), NEW k \in Nat, NEW t,
         k \in DOMAIN s => t \in Slide
  PROVE  /\ [s EXCEPT ![k] = t] \in Seq(Slide)
         /\ Len([s EXCEPT ![k] = t]) = Len(s)
         /\ \A q \in DOMAIN s : [s EXCEPT ![k] = t][q] = IF q = k THEN t ELSE s[q]
<1>1. DOMAIN s = 1 .. Len(s) /\ Len(s) \in Nat /\ s \in [1 .. Len(s) -> Slide]
  OBVIOUS
<1>2. [s EXCEPT ![k] = t] \in [1 .. Len(s) -> Slide]
  BY <1>1
<1> QED BY <1>1, <1>2

(* t has the slides of s, each in its place. *)
Alike(t, s) ==
  t \in Seq(Slide) /\ Len(t) = Len(s) /\ \A q \in DOMAIN s : t[q].id = s[q].id

(* Of those, the one at k has lost claims, and nothing else changed.       *)
Reworded(t, s, k, gone) ==
  /\ Alike(t, s)
  /\ \A q \in DOMAIN s :
       /\ t[q].title = s[q].title
       /\ t[q].says = IF q = k THEN s[q].says \ gone ELSE s[q].says
       /\ q # k => t[q] = s[q]

(* The one at k has another title, if it was the one looked for.           *)
Retitled(t, s, k, old, new) ==
  /\ Alike(t, s)
  /\ \A q \in DOMAIN s :
       /\ t[q].says = s[q].says
       /\ t[q].title = IF q = k /\ s[q].title = old THEN new ELSE s[q].title
       /\ q # k => t[q] = s[q]

(* The one at k shows another table. *)
Tabled(t, s, k) ==
  /\ Alike(t, s)
  /\ \A q \in DOMAIN s :
       /\ t[q].says = s[q].says /\ t[q].title = s[q].title
       /\ q # k => t[q] = s[q]

(* Only page boxes changed, and each shows its slide's position.           *)
Paginated(t, s) ==
  /\ Alike(t, s)
  /\ \A q \in DOMAIN s :
       /\ t[q].title = s[q].title /\ t[q].says = s[q].says
       /\ [t[q] EXCEPT !.page = 0] = [s[q] EXCEPT !.page = 0]
       /\ t[q].box => t[q].page = q

(* replace_text() of a claim takes that claim from that slide only.        *)
LEMMA Replacing ==
  ASSUME NEW s \in Seq(Slide), NEW k \in Nat, NEW c
  PROVE  Reworded(Replace(s, k, c), s, k + 1, {c})
<1> DEFINE x == [s[k + 1] EXCEPT !.says = @ \ {c}]
           t == [s EXCEPT ![k + 1] = x]
<1>1. Replace(s, k, c) = t
  BY DEF Replace
<1>2. k + 1 \in DOMAIN s => x \in Slide
  <2>1. k + 1 \in DOMAIN s => s[k + 1] \in Slide
    OBVIOUS
  <2>2. k + 1 \in DOMAIN s => s[k + 1].says \ {c} \in SUBSET Claim
    BY <2>1 DEF Slide
  <2> QED BY <2>1, <2>2, SlideKept
<1>3. k + 1 \in DOMAIN s => /\ x.id = s[k + 1].id /\ x.title = s[k + 1].title
                            /\ x.says = s[k + 1].says \ {c}
  BY DEF Slide
<1>4. t \in Seq(Slide) /\ Len(t) = Len(s)
      /\ \A q \in DOMAIN s : t[q] = IF q = k + 1 THEN x ELSE s[q]
  BY <1>2, ChangedAt
<1> HIDE DEF x, t
<1> QED BY <1>1, <1>3, <1>4 DEF Reworded, Alike

(* replace_text() of a title changes that title only, where it is found.   *)
LEMMA Retitling ==
  ASSUME NEW s \in Seq(Slide), NEW k \in Nat, NEW old \in Title, NEW new \in Title
  PROVE  Retitled(Retitle(s, k, old, new), s, k + 1, old, new)
<1> DEFINE x == [s[k + 1] EXCEPT !.title = new]
           t == [s EXCEPT ![k + 1] = x]
<1>1. Retitle(s, k, old, new) = IF s[k + 1].title = old THEN t ELSE s
  BY DEF Retitle
<1>2. k + 1 \in DOMAIN s => x \in Slide
  <2>1. k + 1 \in DOMAIN s => s[k + 1] \in Slide
    OBVIOUS
  <2> QED BY <2>1, SlideKept
<1>3. k + 1 \in DOMAIN s => /\ x.id = s[k + 1].id /\ x.title = new
                            /\ x.says = s[k + 1].says
  BY DEF Slide
<1>4. t \in Seq(Slide) /\ Len(t) = Len(s)
      /\ \A q \in DOMAIN s : t[q] = IF q = k + 1 THEN x ELSE s[q]
  BY <1>2, ChangedAt
<1> HIDE DEF x, t
<1> QED BY <1>1, <1>3, <1>4 DEF Retitled, Alike

(* A delta that fills a slide's table leaves titles and claims alone.      *)
LEMMA Tabling ==
  ASSUME NEW s \in Seq(Slide), NEW k \in Nat,
         NEW shown \in {"none", "original", "short", "relabelled", "perApp", "reads"}
  PROVE  Tabled([s EXCEPT ![k].table = shown], s, k)
<1> DEFINE x == [s[k] EXCEPT !.table = shown]
           t == [s EXCEPT ![k] = x]
<1>2. k \in DOMAIN s => x \in Slide
  <2>1. k \in DOMAIN s => s[k] \in Slide
    OBVIOUS
  <2> QED BY <2>1, SlideKept
<1>3. k \in DOMAIN s => /\ x.id = s[k].id /\ x.title = s[k].title
                        /\ x.says = s[k].says
  BY DEF Slide
<1>4. t \in Seq(Slide) /\ Len(t) = Len(s)
      /\ \A q \in DOMAIN s : t[q] = IF q = k THEN x ELSE s[q]
  BY <1>2, ChangedAt
<1>5. t = [s EXCEPT ![k].table = shown]
  OBVIOUS
<1> HIDE DEF x, t
<1> QED BY <1>3, <1>4, <1>5 DEF Tabled, Alike

(* The verdicts' table is changed on the slide of its title only.          *)
LEMMA RetiringVerdicts ==
  ASSUME NEW s \in Seq(Slide)
  PROVE  Reworded(RetireVerdicts(s), s, 11,
                  IF s[11].title = "Licenses" THEN {"overreports"} ELSE {})
<1> DEFINE x == [s[11] EXCEPT !.says = @ \ {"overreports"}, !.own = @ \ {"overreports"}]
           t == [s EXCEPT ![11] = x]
<1>1. RetireVerdicts(s) = IF s[11].title = "Licenses" THEN t ELSE s
  BY DEF RetireVerdicts
<1>2. 11 \in DOMAIN s => x \in Slide
  <2>1. 11 \in DOMAIN s => s[11] \in Slide
    OBVIOUS
  <2>2. 11 \in DOMAIN s => /\ s[11].says \ {"overreports"} \in SUBSET Claim
                            /\ s[11].own \ {"overreports"} \in SUBSET Claim
    BY <2>1 DEF Slide
  <2> QED BY <2>1, <2>2, SlideKept
<1>3. 11 \in DOMAIN s => /\ x.id = s[11].id /\ x.title = s[11].title
                         /\ x.says = s[11].says \ {"overreports"}
  BY DEF Slide
<1>4. t \in Seq(Slide) /\ Len(t) = Len(s)
      /\ \A q \in DOMAIN s : t[q] = IF q = 11 THEN x ELSE s[q]
  BY <1>2, ChangedAt
<1> HIDE DEF x, t
<1> QED BY <1>1, <1>3, <1>4 DEF Reworded, Alike

(* Numbering changes page boxes only, and sets each to its position. *)
LEMMA Numbering ==
  ASSUME NEW s \in Seq(Slide)
  PROVE  Paginated(Numbered(s), s)
<1> DEFINE x(q) == [s[q] EXCEPT !.page = q]
           t == Numbered(s)
<1>1. DOMAIN s = 1 .. Len(s) /\ Len(s) \in Nat
  OBVIOUS
<1>2. ASSUME NEW q \in DOMAIN s
      PROVE  /\ s[q] \in Slide /\ x(q) \in Slide
             /\ x(q).id = s[q].id /\ x(q).title = s[q].title /\ x(q).says = s[q].says
             /\ x(q).page = q /\ [x(q) EXCEPT !.page = 0] = [s[q] EXCEPT !.page = 0]
  <2>1. s[q] \in Slide /\ q \in Nat
    BY <1>1
  <2>2. x(q) \in Slide
    BY <2>1, SlideKept
  <2> QED BY <2>1, <2>2 DEF Slide
<1>3. t = [q \in DOMAIN s |-> IF s[q].box THEN x(q) ELSE s[q]]
  BY DEF Numbered
<1> HIDE DEF x, t
<1>4. t \in [1 .. Len(s) -> Slide]
  BY <1>1, <1>2, <1>3
<1>5. t \in Seq(Slide) /\ Len(t) = Len(s)
  BY <1>1, <1>4
<1>6. \A q \in DOMAIN s : t[q] = IF s[q].box THEN x(q) ELSE s[q]
  BY <1>3
<1> QED BY <1>2, <1>5, <1>6 DEF Paginated, Alike, t

(* A plain slide is a slide, and makes no claim. *)
LEMMA PlainSlide ==
  ASSUME NEW id \in Nat, NEW title \in Title
  PROVE  /\ Plain(id, title) \in Slide /\ Plain(id, title).id = id
         /\ Plain(id, title).title = title /\ Plain(id, title).says = {}
<1> DEFINE b == title # "Counts"
<1>1. Plain(id, title) = [id |-> id, title |-> title, says |-> {}, own |-> {},
                          table |-> Tables(title), box |-> b, page |-> 0]
  BY Zenon DEF Plain
<1>2. b \in BOOLEAN /\ Tables(title) \in {"none", "original", "short"}
  BY DEF Tables
<1> HIDE DEF b
<1> QED BY <1>1, <1>2 DEF Slide

(* What a presentation is after a slide is added by hand. *)
LEMMA Inserting ==
  ASSUME NEW s \in Seq(Slide), NEW k \in 1 .. Len(s) + 1, NEW t \in Slide
  PROVE  /\ InsertAt(s, k, t) \in Seq(Slide) /\ Len(InsertAt(s, k, t)) = Len(s) + 1
         /\ \A q \in 1 .. Len(s) + 1 :
              InsertAt(s, k, t)[q] = IF q < k THEN s[q] ELSE IF q = k THEN t ELSE s[q - 1]
<1> DEFINE a == SubSeq(s, 1, k - 1)
           b == SubSeq(s, k, Len(s))
           c == a \o <<t>>
<1>1. a \in Seq(Slide) /\ Len(a) = k - 1 /\ \A q \in 1 .. k - 1 : a[q] = s[q]
  OBVIOUS
<1>2. b \in Seq(Slide) /\ Len(b) = Len(s) - k + 1
      /\ \A q \in 1 .. Len(s) - k + 1 : b[q] = s[k + q - 1]
  OBVIOUS
<1>3. InsertAt(s, k, t) = c \o b
  BY DEF InsertAt
<1> HIDE DEF a, b
<1>4. /\ c \in Seq(Slide) /\ Len(c) = k
      /\ \A q \in 1 .. k : c[q] = IF q < k THEN s[q] ELSE t
  BY <1>1
<1> HIDE DEF c
<1>5. /\ c \o b \in Seq(Slide) /\ Len(c \o b) = Len(c) + Len(b)
      /\ \A q \in 1 .. Len(c) + Len(b) : (c \o b)[q] = IF q <= Len(c) THEN c[q] ELSE b[q - Len(c)]
  BY <1>2, <1>4, ConcatProperties
<1>6. \A q \in 1 .. Len(s) + 1 : q > k => b[q - k] = s[q - 1]
  <2> TAKE q \in 1 .. Len(s) + 1
  <2> HAVE q > k
  <2>1. q - k \in 1 .. Len(s) - k + 1 /\ k + (q - k) - 1 = q - 1
    OBVIOUS
  <2> QED BY <1>2, <2>1
<1>7. Len(c) + Len(b) = Len(s) + 1
  BY <1>2, <1>4
<1>8. ASSUME NEW q \in 1 .. Len(s) + 1
      PROVE  (c \o b)[q] = IF q < k THEN s[q] ELSE IF q = k THEN t ELSE s[q - 1]
  <2>1. (c \o b)[q] = IF q <= k THEN c[q] ELSE b[q - k]
    BY <1>4, <1>5, <1>7
  <2>2. CASE q <= k
    BY <1>4, <2>1, <2>2
  <2>3. CASE q > k
    BY <1>6, <2>1, <2>3
  <2>4. q <= k \/ q > k
    OBVIOUS
  <2> QED BY <2>2, <2>3, <2>4
<1> QED BY <1>3, <1>5, <1>7, <1>8

(* What a presentation is after a slide is removed by hand. *)
LEMMA Removing ==
  ASSUME NEW s \in Seq(Slide), NEW k \in DOMAIN s
  PROVE  /\ RemoveAt(s, k) \in Seq(Slide) /\ Len(RemoveAt(s, k)) = Len(s) - 1
         /\ \A q \in 1 .. Len(s) - 1 :
              RemoveAt(s, k)[q] = IF q < k THEN s[q] ELSE s[q + 1]
<1> DEFINE a == SubSeq(s, 1, k - 1)
           b == SubSeq(s, k + 1, Len(s))
<1>0. k \in 1 .. Len(s) /\ Len(s) \in Nat
  OBVIOUS
<1>1. a \in Seq(Slide) /\ Len(a) = k - 1 /\ \A q \in 1 .. k - 1 : a[q] = s[q]
  OBVIOUS
<1>2. b \in Seq(Slide) /\ Len(b) = Len(s) - k
      /\ \A q \in 1 .. Len(s) - k : b[q] = s[k + q]
  OBVIOUS
<1>3. RemoveAt(s, k) = a \o b
  BY DEF RemoveAt
<1> HIDE DEF a, b
<1>4. /\ a \o b \in Seq(Slide) /\ Len(a \o b) = Len(a) + Len(b)
      /\ \A q \in 1 .. Len(a) + Len(b) : (a \o b)[q] = IF q <= Len(a) THEN a[q] ELSE b[q - Len(a)]
  BY <1>1, <1>2, ConcatProperties
<1>5. \A q \in 1 .. Len(s) - 1 : q >= k => b[q - Len(a)] = s[q + 1]
  <2> TAKE q \in 1 .. Len(s) - 1
  <2> HAVE q >= k
  <2>1. q - Len(a) \in 1 .. Len(s) - k /\ k + (q - Len(a)) = q + 1
    BY <1>0, <1>1
  <2> QED BY <1>2, <2>1
<1>6. Len(a) + Len(b) = Len(s) - 1 /\ Len(a) = k - 1 /\ k \in Int
  BY <1>0, <1>1, <1>2
<1>7. ASSUME NEW q \in 1 .. Len(s) - 1
      PROVE  (a \o b)[q] = IF q < k THEN s[q] ELSE s[q + 1]
  <2>1. (a \o b)[q] = IF q <= Len(a) THEN a[q] ELSE b[q - Len(a)]
    BY <1>4, <1>6
  <2>2. q <= Len(a) <=> q < k
    <3>1. q \in Int
      BY <1>0
    <3> QED BY <1>6, <3>1
  <2>3. CASE q < k
    <3>1. a[q] = s[q]
      BY <1>0, <1>1, <2>3
    <3> QED BY <2>1, <2>2, <2>3, <3>1
  <2>4. CASE q >= k
    <3>1. ~ (q < k)
      BY <1>0, <2>4
    <3>2. b[q - Len(a)] = s[q + 1]
      BY <1>5, <2>4
    <3> QED BY <2>1, <2>2, <3>1, <3>2
  <2>5. q < k \/ q >= k
    BY <1>0
  <2> QED BY <2>3, <2>4, <2>5
<1> QED BY <1>3, <1>4, <1>6, <1>7

-----------------------------------------------------------------------------
(* Soundness is kept by whatever the deltas and an editor do.              *)

(* A slide may get one of the titles that no delta looks for a claim under. *)
Renamed(t, o) ==
  \/ t.title = o.title
  \/ /\ o.title \in {"SeesNot", "Edge", "SeveralReal"}
     /\ t.title \in {"Bandwidth", "SeveralReal", "SeveralApps"}

(* Slides that lose claims, and take the deltas' titles, stay sound.       *)
LEMMA SoundKept ==
  ASSUME NEW e \in Nat, NEW s, SoundDeck(s, e), NEW t, Alike(t, s),
         \A q \in DOMAIN s : t[q].says \subseteq s[q].says /\ Renamed(t[q], s[q])
  PROVE  SoundDeck(t, e)
<1>1. DOMAIN t = DOMAIN s /\ t \in Seq(Slide) /\ s \in Seq(Slide)
  BY DEF Alike, SoundDeck
<1>2. ASSUME NEW q \in DOMAIN t
      PROVE  Sound(t[q], e)
  <2>1. Sound(s[q], e) /\ t[q] \in Slide /\ t[q].id = s[q].id /\ s[q] \in Slide
    BY <1>1 DEF SoundDeck, Alike
  <2>2. s[q].says \subseteq Makes(s[q].title)
    BY <2>1 DEF Sound
  <2>3. t[q].says \subseteq Makes(t[q].title)
    <3>1. CASE t[q].title = s[q].title
      BY <1>1, <2>2, <3>1
    <3>2. CASE t[q].title \in {"Bandwidth", "SeveralReal", "SeveralApps"}
      <4>1. Makes(t[q].title) = Claim
        BY <3>2 DEF Makes
      <4> QED BY <2>1, <4>1 DEF Slide
    <3> QED BY <1>1, <3>1, <3>2 DEF Renamed
  <2>4. t[q].id \in Inserted => t[q].title \in {"Anatomy", "Replaces", "Corner", "Flat"}
    BY <1>1, <2>1 DEF Sound, Renamed
  <2> QED BY <2>1, <2>3, <2>4 DEF Sound
<1>3. Distinct(t)
  BY <1>1 DEF SoundDeck, Distinct, Alike
<1> QED BY <1>1, <1>2, <1>3 DEF SoundDeck

(* A sound presentation stays sound when another file is edited.           *)
LEMMA SoundLater ==
  ASSUME NEW e \in Nat, NEW s, SoundDeck(s, e)
  PROVE  SoundDeck(s, e + 1)
<1>1. ASSUME NEW t, Sound(t, e)
      PROVE  Sound(t, e + 1)
  <2>1. t.id \in Nat
    BY <1>1 DEF Sound, Slide
  <2> QED BY <1>1, <2>1 DEF Sound
<1> QED BY <1>1 DEF SoundDeck

(* Slides taken from a sound presentation, none of them twice. *)
Takes(t, s, n, p) ==
  /\ n \in Nat /\ t \in [1 .. n -> Slide] /\ p \in [1 .. n -> DOMAIN s]
  /\ \A q, j \in 1 .. n : p[q] = p[j] => q = j
  /\ \A q \in 1 .. n : t[q] = s[p[q]]

(* Slides taken from a sound presentation are a sound one. *)
LEMMA SoundTaken ==
  ASSUME NEW e \in Nat, NEW s, SoundDeck(s, e), NEW n, NEW t, NEW p, Takes(t, s, n, p)
  PROVE  SoundDeck(t, e)
<1>1. t \in Seq(Slide) /\ DOMAIN t = 1 .. n
  BY DEF Takes
<1>2. \A q \in DOMAIN t : Sound(t[q], e)
  BY <1>1 DEF SoundDeck, Takes
<1>3. Distinct(t)
  BY <1>1 DEF Distinct, SoundDeck, Takes
<1> QED BY <1>1, <1>2, <1>3 DEF SoundDeck

(* A sound presentation stays sound when a delta adds its slide.           *)
LEMMA SoundAppended ==
  ASSUME NEW e \in Nat, NEW s, SoundDeck(s, e), NEW t, Sound(t, e), t.id \in Inserted
  PROVE  SoundDeck(Append(s, t), e)
<1>1. s \in Seq(Slide) /\ t \in Slide
  BY DEF SoundDeck, Sound
<1>2. /\ Append(s, t) \in Seq(Slide) /\ DOMAIN Append(s, t) = 1 .. Len(s) + 1
      /\ \A q \in 1 .. Len(s) + 1 : Append(s, t)[q] = IF q <= Len(s) THEN s[q] ELSE t
  BY <1>1
<1>3. DOMAIN s = 1 .. Len(s) /\ Len(s) \in Nat
  BY <1>1
<1>4. \A q \in 1 .. Len(s) + 1 : Sound(Append(s, t)[q], e)
  BY <1>2, <1>3 DEF SoundDeck
<1>5. Distinct(Append(s, t))
  <2> SUFFICES ASSUME NEW q \in 1 .. Len(s) + 1, NEW j \in 1 .. Len(s) + 1,
                      Append(s, t)[q].id = Append(s, t)[j].id, q # j
               PROVE  Append(s, t)[q].id \in Inserted
    BY <1>2 DEF Distinct
  <2>1. CASE q <= Len(s) /\ j <= Len(s)
    BY <1>2, <1>3, <2>1 DEF SoundDeck, Distinct
  <2>2. CASE q > Len(s) \/ j > Len(s)
    BY <1>2, <1>3, <2>2
  <2> QED BY <1>3, <2>1, <2>2
<1> QED BY <1>2, <1>4, <1>5 DEF SoundDeck

(* Every edit by hand of a sound presentation leaves a sound one.          *)
LEMMA SoundByHand ==
  ASSUME edits \in Nat, NEW s, SoundDeck(s, edits), NEW t \in ByHand(s)
  PROVE  SoundDeck(t, edits + 1)
<1>0. s \in Seq(Slide) /\ DOMAIN s = 1 .. Len(s) /\ Len(s) \in Nat /\ edits + 1 \in Nat
  BY DEF SoundDeck
<1>l. SoundDeck(s, edits + 1)
  BY SoundLater
<1>1. ASSUME NEW k \in 1 .. Len(s) + 1, NEW box \in BOOLEAN, t = InsertAt(s, k, HandMade(box))
      PROVE  SoundDeck(t, edits + 1)
  <2> DEFINE h == HandMade(box)
  <2> HIDE DEF h
  <2>1. h \in Slide /\ h.id = 30 + edits /\ h.says = {} /\ h.title = "Own"
    <3> DEFINE own == Plain(30 + edits, "Own")
    <3>0. 30 + edits \in Nat
      OBVIOUS
    <3>1. own \in Slide /\ own.id = 30 + edits /\ own.says = {} /\ own.title = "Own"
      BY <3>0, PlainSlide DEF Title
    <3>2. h = [own EXCEPT !.box = box]
      BY DEF HandMade, h
    <3> HIDE DEF own
    <3> QED BY <3>1, <3>2 DEF Slide
  <2>2. Sound(h, edits + 1)
    BY <2>1 DEF Sound, Inserted
  <2>3. /\ t \in Seq(Slide) /\ DOMAIN t = 1 .. Len(s) + 1
        /\ \A q \in 1 .. Len(s) + 1 : t[q] = IF q < k THEN s[q] ELSE IF q = k THEN h ELSE s[q - 1]
    <3>1. t = InsertAt(s, k, h)
      BY <1>1 DEF h
    <3>2. /\ InsertAt(s, k, h) \in Seq(Slide) /\ Len(InsertAt(s, k, h)) = Len(s) + 1
          /\ \A q \in 1 .. Len(s) + 1 :
               InsertAt(s, k, h)[q] = IF q < k THEN s[q] ELSE IF q = k THEN h ELSE s[q - 1]
      BY <1>0, <2>1, Inserting, SMTT(30)
    <3> QED BY <1>0, <3>1, <3>2
  <2>4. \A q \in DOMAIN s : s[q].id \in Nat /\ s[q].id < 30 + edits
    BY <1>0 DEF SoundDeck, Sound, Slide
  <2>5. \A q \in DOMAIN t : Sound(t[q], edits + 1)
    <3> TAKE q \in DOMAIN t
    <3>1. CASE q < k
      BY <1>0, <1>l, <2>3, <3>1 DEF SoundDeck
    <3>2. CASE q = k
      BY <2>2, <2>3, <3>2
    <3>3. CASE q > k
      <4>1. q - 1 \in DOMAIN s /\ t[q] = s[q - 1]
        BY <1>0, <2>3, <3>3
      <4> QED BY <1>l, <4>1 DEF SoundDeck
    <3> QED BY <2>3, <3>1, <3>2, <3>3
  <2>6. Distinct(t)
    <3> DEFINE from(q) == IF q < k THEN q ELSE q - 1
    <3>1. \A q \in DOMAIN t : q # k => from(q) \in DOMAIN s /\ t[q] = s[from(q)]
      BY <1>0, <2>3
    <3>2. \A q, j \in DOMAIN t : q # k /\ j # k /\ q # j => from(q) # from(j)
      BY <1>0, <2>3
    <3>3. t[k].id = 30 + edits /\ k \in DOMAIN t
      BY <2>1, <2>3
    <3> HIDE DEF from
    <3>4. \A q \in DOMAIN t : q # k => t[q].id # t[k].id
      BY <2>4, <3>1, <3>3
    <3>5. \A q, j \in DOMAIN t : q # k /\ j # k /\ q # j /\ t[q].id = t[j].id => t[q].id \in Inserted
      BY <3>1, <3>2 DEF SoundDeck, Distinct
    <3> QED BY <3>4, <3>5 DEF Distinct
  <2> QED BY <2>3, <2>5, <2>6 DEF SoundDeck
<1>2. ASSUME NEW k \in DOMAIN s, t = RemoveAt(s, k)
      PROVE  SoundDeck(t, edits + 1)
  <2> DEFINE n == Len(s) - 1
             p == [q \in 1 .. n |-> IF q < k THEN q ELSE q + 1]
  <2>1. n \in Nat /\ p \in [1 .. n -> DOMAIN s] /\ \A q, j \in 1 .. n : p[q] = p[j] => q = j
    BY <1>0
  <2>2. t \in Seq(Slide) /\ Len(t) = n
        /\ \A q \in 1 .. n : t[q] = IF q < k THEN s[q] ELSE s[q + 1]
    BY <1>0, <1>2, Removing
  <2>3. \A q \in 1 .. n : t[q] = s[p[q]]
    BY <2>2
  <2> HIDE DEF p, n
  <2>4. t \in [1 .. n -> Slide]
    BY <2>1, <2>2
  <2>5. Takes(t, s, n, p)
    BY <2>1, <2>3, <2>4 DEF Takes
  <2> QED BY <1>0, <1>l, <2>5, SoundTaken
<1>3. ASSUME NEW k \in 1 .. Len(s) - 1, t = Swapped(s, k)
      PROVE  SoundDeck(t, edits + 1)
  <2> DEFINE n == Len(s)
             p == [q \in 1 .. n |-> IF q = k THEN k + 1 ELSE IF q = k + 1 THEN k ELSE q]
  <2>1. n \in Nat /\ p \in [1 .. n -> DOMAIN s] /\ \A q, j \in 1 .. n : p[q] = p[j] => q = j
    BY <1>0
  <2>2. \A q \in 1 .. n : t[q] = s[p[q]]
    BY <1>0, <1>3 DEF Swapped
  <2>3. DOMAIN t = 1 .. n /\ t = [q \in 1 .. n |-> t[q]]
    BY <1>0, <1>3 DEF Swapped
  <2> HIDE DEF p, n
  <2>4. \A q \in 1 .. n : s[p[q]] \in Slide
    BY <1>0, <2>1
  <2>5. t \in [1 .. n -> Slide]
    BY <2>2, <2>3, <2>4
  <2>6. Takes(t, s, n, p)
    BY <2>1, <2>2, <2>5 DEF Takes
  <2> QED BY <1>0, <1>l, <2>6, SoundTaken
<1>4. ASSUME NEW k \in DOMAIN s, NEW c \in s[k].says, t = InOtherWords(s, k, c)
      PROVE  SoundDeck(t, edits + 1)
  <2> DEFINE x == [s[k] EXCEPT !.says = @ \ {c}, !.own = @ \cup {c}]
  <2>1. s[k] \in Slide
    BY <1>0
  <2>2. s[k].says \ {c} \in SUBSET Claim /\ s[k].own \cup {c} \in SUBSET Claim
    BY <2>1 DEF Slide
  <2>3. x \in Slide
    BY <2>1, <2>2, SlideKept
  <2>4. x.id = s[k].id /\ x.title = s[k].title /\ x.says \subseteq s[k].says
    BY <2>1 DEF Slide
  <2>5. t = [s EXCEPT ![k] = x]
    BY <1>4 DEF InOtherWords
  <2> HIDE DEF x
  <2>6. t \in Seq(Slide) /\ Len(t) = Len(s) /\ \A q \in DOMAIN s : t[q] = IF q = k THEN x ELSE s[q]
    BY <1>0, <2>3, <2>5, ChangedAt
  <2>7. Alike(t, s) /\ \A q \in DOMAIN s : t[q].says \subseteq s[q].says /\ Renamed(t[q], s[q])
    BY <2>4, <2>6 DEF Alike, Renamed
  <2> QED BY <1>0, <1>l, <2>7, SoundKept
<1>5. \/ \E k \in 1 .. Len(s) + 1, box \in BOOLEAN : t = InsertAt(s, k, HandMade(box))
      \/ \E k \in DOMAIN s : t = RemoveAt(s, k)
      \/ \E k \in 1 .. Len(s) - 1 : t = Swapped(s, k)
      \/ \E k \in DOMAIN s : \E c \in s[k].says : t = InOtherWords(s, k, c)
  BY DEF ByHand
<1> QED BY <1>1, <1>2, <1>3, <1>4, <1>5

(* The appending loop returns the positions in S, each once, in order. *)
Ascending(l, S, n) ==
  /\ l \in Seq(1 .. n)
  /\ \A j, k \in DOMAIN l : j < k => l[j] < l[k]
  /\ \A k \in DOMAIN l : l[k] \in S
  /\ \A x \in 1 .. n : x \in S => \E k \in DOMAIN l : l[k] = x

(* It does so for every set of positions, by induction on the passes.      *)
LEMMA AppendedAscends ==
  ASSUME NEW S, NEW n \in Nat
  PROVE  Ascending(Appended(S, n), S, n)
<1>1. PICK g : Passes(g, S, n) /\ Appended(S, n) = g[n]
  BY AppendedUnfolded
<1> DEFINE N == {m \in Nat : m <= n => Ascending(g[m], S, m)}
<1>2. 0 \in N
  <2>1. g[0] = <<>>
    BY <1>1, ListAt
  <2>2. <<>> \in Seq(1 .. 0) /\ DOMAIN <<>> = {} /\ 1 .. 0 = {}
    OBVIOUS
  <2>3. Ascending(<<>>, S, 0)
    BY <2>2 DEF Ascending
  <2> QED BY <2>1, <2>3
<1>3. ASSUME NEW m \in Nat, m \in N
      PROVE  m + 1 \in N
  <2> SUFFICES ASSUME m + 1 <= n
               PROVE  Ascending(g[m + 1], S, m + 1)
    OBVIOUS
  <2>1. Ascending(g[m], S, m)
    BY <1>3
  <2>2. g[m + 1] = IF m + 1 \in S THEN Append(g[m], m + 1) ELSE g[m]
    <3>1. m + 1 \in 0 .. n /\ m + 1 # 0 /\ (m + 1) - 1 = m
      OBVIOUS
    <3> QED BY <1>1, <3>1, ListAt
  <2> DEFINE l == g[m]
             h == g[m + 1]
  <2>3. /\ l \in Seq(1 .. m) /\ Len(l) \in Nat /\ DOMAIN l = 1 .. Len(l)
        /\ \A k \in DOMAIN l : l[k] \in 1 .. m
    BY <2>1 DEF Ascending
  <2>4. CASE m + 1 \notin S
    <3>1. h = l
      BY <2>2, <2>4
    <3>2. l \in Seq(1 .. m + 1)
      BY <2>3, SeqMonotonic
    <3> HIDE DEF l, h
    <3> QED BY <2>1, <2>4, <3>1, <3>2 DEF Ascending, l, h
  <2>5. CASE m + 1 \in S
    <3>1. h = Append(l, m + 1)
      BY <2>2, <2>5
    <3> HIDE DEF l, h
    <3>2. l \in Seq(1 .. m + 1)
      BY <2>3, SeqMonotonic
    <3>3. /\ h \in Seq(1 .. m + 1) /\ DOMAIN h = 1 .. Len(l) + 1
          /\ \A k \in DOMAIN h : h[k] = IF k <= Len(l) THEN l[k] ELSE m + 1
      BY <2>3, <3>1, <3>2
    <3>4. \A j, k \in DOMAIN h : j < k => h[j] < h[k]
      <4> SUFFICES ASSUME NEW j \in DOMAIN h, NEW k \in DOMAIN h, j < k
                   PROVE  h[j] < h[k]
        OBVIOUS
      <4>1. j \in DOMAIN l /\ h[j] = l[j]
        BY <2>3, <3>3
      <4>2. CASE k <= Len(l)
        BY <2>1, <2>3, <3>3, <4>1, <4>2 DEF Ascending, l
      <4>3. CASE k > Len(l)
        BY <2>3, <3>3, <4>1, <4>3
      <4> QED BY <2>3, <3>3, <4>2, <4>3
    <3>5. \A k \in DOMAIN h : h[k] \in S
      <4> SUFFICES ASSUME NEW k \in DOMAIN h
                   PROVE  h[k] \in S
        OBVIOUS
      <4>1. CASE k <= Len(l)
        <5>1. k \in DOMAIN l /\ h[k] = l[k]
          BY <2>3, <3>3, <4>1
        <5> QED BY <2>1, <5>1 DEF Ascending, l
      <4>2. CASE k > Len(l)
        BY <2>3, <2>5, <3>3, <4>2
      <4> QED BY <2>3, <3>3, <4>1, <4>2
    <3>6. \A x \in 1 .. m + 1 : x \in S => \E k \in DOMAIN h : h[k] = x
      <4> SUFFICES ASSUME NEW x \in 1 .. m + 1, x \in S
                   PROVE  \E k \in DOMAIN h : h[k] = x
        OBVIOUS
      <4>1. CASE x = m + 1
        <5>1. Len(l) + 1 \in DOMAIN h /\ h[Len(l) + 1] = m + 1
          BY <2>3, <3>3
        <5> QED BY <4>1, <5>1
      <4>2. CASE x # m + 1
        <5>1. PICK k \in DOMAIN l : l[k] = x
          BY <2>1, <4>2 DEF Ascending, l
        <5>2. k \in DOMAIN h /\ h[k] = x
          BY <2>3, <3>3, <5>1
        <5> QED BY <5>2
      <4> QED BY <4>1, <4>2
    <3> QED BY <3>3, <3>4, <3>5, <3>6 DEF Ascending, h
  <2> QED BY <2>4, <2>5
<1> HIDE DEF N
<1>4. n \in N
  BY <1>2, <1>3, SetInduction
<1> QED BY <1>1, <1>4 DEF N

(* The least of the positions of a set. *)
LEMMA LeastOf ==
  ASSUME NEW S \in SUBSET Nat, S # {}
  PROVE  Min(S) \in S /\ \A k \in S : Min(S) <= k
<1> DEFINE N == {m \in Nat : \A k \in S : k > m}
<1>1. \E m \in S : \A k \in S : m <= k
  <2> SUFFICES ASSUME \A m \in S : \E k \in S : k < m
               PROVE  FALSE
    OBVIOUS
  <2>1. 0 \in N
    OBVIOUS
  <2>2. ASSUME NEW n \in Nat, n \in N
        PROVE  n + 1 \in N
    BY <2>2
  <2> HIDE DEF N
  <2>3. Nat \subseteq N
    BY <2>1, <2>2, SetInduction
  <2>4. PICK x \in S : x \in Nat
    OBVIOUS
  <2>5. x \in N
    BY <2>3, <2>4
  <2> QED BY <2>4, <2>5 DEF N
<1> QED BY <1>1 DEF Min

-----------------------------------------------------------------------------
(* Reordering loses no slide and repeats none.                             *)
LEMMA OrderDistinct ==
  /\ DOMAIN Order = 1 .. 16 /\ Len(Order) = 16
  /\ \A q, j \in 1 .. 16 : Order[q] = Order[j] => q = j
<1>1. DOMAIN Order = 1 .. 16 /\ Len(Order) = 16
  BY DEF Order
<1>2. \A q, j \in 1 .. 16 : Order[q] = Order[j] => q = j
  <2> DEFINE T == [Counts |-> 1, TwoQuestions |-> 2, WhatWeDid |-> 3, SeesWork |-> 4,
                   Bandwidth |-> 5, Corner |-> 6, Models |-> 7, Finding |-> 8, BlindTest |-> 9,
                   AllFifty |-> 10, SeveralApps |-> 11, Licenses |-> 12, Anatomy |-> 13,
                   Replaces |-> 14, Flat |-> 15, Means |-> 16]
  <2>1. \A q \in 1 .. 16 : T[Order[q]] = q
    BY DEF Order
  <2> HIDE DEF T
  <2> QED BY <2>1
<1> QED BY <1>1, <1>2

(* reorder() finds, in the order of its list, the first slide of each      *)
(* title that is there, and no slide twice.                                *)
LEMMA FoundOnce ==
  ASSUME NEW s \in Seq(Slide)
  PROVE  /\ Ascending(Wanted(s), {w \in 1 .. 16 : Titled(s, Order[w]) # {}}, 16)
         /\ Found(s) \in Seq(DOMAIN s) /\ DOMAIN Found(s) = DOMAIN Wanted(s)
         /\ \A k \in DOMAIN Found(s) : s[Found(s)[k]].title = Order[Wanted(s)[k]]
         /\ \A j, k \in DOMAIN Found(s) : Found(s)[j] = Found(s)[k] => j = k
<1> DEFINE W == {w \in 1 .. 16 : Titled(s, Order[w]) # {}}
           w == Wanted(s)
           f == Found(s)
<1>1. Ascending(w, W, 16)
  BY OrderDistinct, AppendedAscends DEF Wanted
<1>2. f = [k \in DOMAIN w |-> Min(Titled(s, Order[w[k]]))]
  BY DEF Found
<1> HIDE DEF w, f
<1>3. /\ w \in Seq(1 .. 16) /\ DOMAIN w = 1 .. Len(w) /\ Len(w) \in Nat
      /\ \A k \in DOMAIN w : w[k] \in W /\ w[k] \in 1 .. 16
  BY <1>1 DEF Ascending
<1>4. ASSUME NEW k \in DOMAIN w
      PROVE  f[k] \in DOMAIN s /\ s[f[k]].title = Order[w[k]]
  <2> DEFINE T == Titled(s, Order[w[k]])
  <2>1. T # {} /\ T \in SUBSET Nat
    BY <1>3 DEF Titled
  <2>2. f[k] = Min(T)
    BY <1>2
  <2> HIDE DEF T
  <2>3. f[k] \in T
    BY <2>1, <2>2, LeastOf
  <2> QED BY <2>3 DEF T, Titled
<1>5. DOMAIN f = DOMAIN w
  BY <1>2
<1>6. f \in Seq(DOMAIN s)
  <2>1. f \in [1 .. Len(w) -> DOMAIN s]
    BY <1>2, <1>3, <1>4
  <2> QED BY <1>3, <2>1
<1>7. ASSUME NEW j \in DOMAIN w, NEW k \in DOMAIN w, f[j] = f[k]
      PROVE  j = k
  <2>1. Order[w[j]] = Order[w[k]]
    BY <1>4, <1>7
  <2>2. w[j] = w[k]
    BY <1>3, <2>1, OrderDistinct
  <2>3. \A a, b \in DOMAIN w : a < b => w[a] < w[b]
    BY <1>1 DEF Ascending
  <2>4. w[j] \in 1 .. 16 /\ w[k] \in 1 .. 16 /\ j \in 1 .. Len(w) /\ k \in 1 .. Len(w)
    BY <1>3
  <2> QED BY <2>2, <2>3, <2>4
<1> QED BY <1>1, <1>4, <1>5, <1>6, <1>7 DEF w, f

(* reorder() is a permutation of the slides, whatever their titles: those  *)
(* it finds and the others, together, are every slide once.                *)
LEMMA Reordering ==
  ASSUME NEW s \in Seq(Slide)
  PROVE  LET p == Found(s) \o Others(s)
         IN  /\ Takes(Reordered(s), s, Len(s), p)
             /\ \A q \in DOMAIN s : \E j \in DOMAIN s : p[j] = q
<1> DEFINE n == Len(s)
           f == Found(s)
           o == Others(s)
           p == f \o o
<1>1. n \in Nat /\ DOMAIN s = 1 .. n /\ s \in [1 .. n -> Slide]
  OBVIOUS
<1>2. /\ f \in Seq(1 .. n) /\ Len(f) \in Nat /\ DOMAIN f = 1 .. Len(f)
      /\ \A j, k \in 1 .. Len(f) : f[j] = f[k] => j = k
  <2>1. f \in Seq(1 .. n) /\ \A j, k \in DOMAIN f : f[j] = f[k] => j = k
    BY <1>1, FoundOnce
  <2> HIDE DEF f
  <2> QED BY <2>1
<1>3. Ascending(o, DOMAIN s \ ToSet(f), n)
  BY <1>1, AppendedAscends DEF Others
<1>4. Reordered(s) = [j \in 1 .. n |-> s[p[j]]]
  BY <1>1 DEF Reordered
<1> HIDE DEF n, f, o
<1>5. /\ o \in Seq(1 .. n) /\ Len(o) \in Nat /\ DOMAIN o = 1 .. Len(o)
      /\ \A k \in 1 .. Len(o) : o[k] \in 1 .. n /\ o[k] \notin ToSet(f)
      /\ \A x \in 1 .. n : x \notin ToSet(f) => \E k \in 1 .. Len(o) : o[k] = x
  BY <1>1, <1>3 DEF Ascending
<1>6. \A j, k \in 1 .. Len(o) : o[j] = o[k] => j = k
  <2>1. \A j, k \in 1 .. Len(o) : j < k => o[j] < o[k]
    BY <1>3, <1>5 DEF Ascending
  <2> QED BY <1>1, <1>5, <2>1
<1>7. \A k \in 1 .. Len(f) : f[k] \in 1 .. n /\ f[k] \in ToSet(f)
  <2>1. \A k \in 1 .. Len(f) : f[k] \in 1 .. n
    BY <1>2, ElementOfSeq
  <2> QED BY <1>2, <2>1 DEF ToSet
<1> DEFINE m == Len(f) + Len(o)
<1>8. /\ p \in Seq(1 .. n) /\ Len(p) = m
      /\ \A q \in 1 .. m : p[q] = IF q <= Len(f) THEN f[q] ELSE o[q - Len(f)]
  BY <1>2, <1>5, ConcatProperties
<1>9. m \in Nat /\ p \in [1 .. m -> 1 .. n]
  <2>1. m \in Nat
    BY <1>2, <1>5
  <2> HIDE DEF p, m
  <2> QED BY <1>8, <2>1, LenProperties
<1> HIDE DEF p, m
<1>10. ASSUME NEW q \in 1 .. m, NEW j \in 1 .. m, p[q] = p[j]
       PROVE  q = j
  <2>1. \A x \in 1 .. m : x > Len(f) => x - Len(f) \in 1 .. Len(o)
    BY <1>2, <1>5 DEF m
  <2>2. \A x \in 1 .. m : x <= Len(f) => x \in 1 .. Len(f)
    BY <1>2, <1>9
  <2>3. CASE q <= Len(f) /\ j <= Len(f)
    BY <1>2, <1>8, <1>10, <2>2, <2>3
  <2>4. CASE q > Len(f) /\ j > Len(f)
    <3>1. o[q - Len(f)] = o[j - Len(f)]
      BY <1>2, <1>8, <1>10, <2>4
    <3> QED BY <1>2, <1>6, <2>1, <2>4, <3>1
  <2>5. CASE (q <= Len(f)) # (j <= Len(f))
    <3>1. ASSUME NEW a \in 1 .. m, NEW b \in 1 .. m, a <= Len(f), b > Len(f)
          PROVE  p[a] # p[b]
      <4>1. p[a] = f[a] /\ f[a] \in ToSet(f)
        BY <1>7, <1>8, <2>2, <3>1
      <4>2. p[b] = o[b - Len(f)] /\ b - Len(f) \in 1 .. Len(o)
        BY <1>2, <1>8, <2>1, <3>1
      <4> QED BY <1>5, <4>1, <4>2
    <3> QED BY <1>2, <1>9, <1>10, <2>5, <3>1
  <2> QED BY <1>2, <2>3, <2>4, <2>5
<1>11. ASSUME NEW x \in 1 .. n
       PROVE  \E q \in 1 .. m : p[q] = x
  <2>1. CASE x \in ToSet(f)
    <3>1. PICK k \in 1 .. Len(f) : f[k] = x
      BY <1>2, <2>1 DEF ToSet
    <3>2. k \in 1 .. m /\ k <= Len(f)
      BY <1>2, <1>5 DEF m
    <3> QED BY <1>8, <3>1, <3>2
  <2>2. CASE x \notin ToSet(f)
    <3>1. PICK k \in 1 .. Len(o) : o[k] = x
      BY <1>5, <2>2
    <3>2. k + Len(f) \in 1 .. m /\ ~ (k + Len(f) <= Len(f)) /\ (k + Len(f)) - Len(f) = k
      BY <1>2, <1>5 DEF m
    <3> QED BY <1>8, <3>1, <3>2
  <2> QED BY <2>1, <2>2
<1>12. m = n
  <2>1. p \in Bijection(1 .. m, 1 .. n)
    BY <1>9, <1>10, <1>11 DEF Bijection, Injection, Surjection, IsInjective
  <2>2. ExistsBijection(1 .. m, 1 .. n)
    BY <2>1 DEF ExistsBijection
  <2>3. IsFiniteSet(1 .. m) /\ Cardinality(1 .. m) = m /\ Cardinality(1 .. n) = n
    <3>1. m >= 0 /\ n >= 0 /\ m - 1 + 1 = m /\ n - 1 + 1 = n /\ 1 \in Int /\ m \in Int /\ n \in Int
      BY <1>1, <1>9
    <3>2. \A k \in Nat : IsFiniteSet(1 .. k) /\ Cardinality(1 .. k) = IF 1 > k THEN 0 ELSE k - 1 + 1
      BY FS_Interval
    <3> QED BY <1>1, <1>9, <3>1, <3>2 DEF n
  <2> QED BY <2>2, <2>3, FS_Bijection
<1>13. Takes(Reordered(s), s, n, p)
  <2>1. \A j \in 1 .. n : p[j] \in DOMAIN s /\ s[p[j]] \in Slide
    BY <1>1, <1>9, <1>12 DEF n
  <2>2. Reordered(s) \in [1 .. n -> Slide] /\ \A j \in 1 .. n : Reordered(s)[j] = s[p[j]]
    BY <1>4, <2>1
  <2>3. n \in Nat /\ p \in [1 .. n -> DOMAIN s]
    BY <1>1, <1>9, <1>12 DEF n
  <2> QED BY <1>10, <1>12, <2>2, <2>3 DEF Takes
<1> QED BY <1>1, <1>11, <1>12, <1>13 DEF p, n, f, o

-----------------------------------------------------------------------------
(* The slides that a finished edit has.                                    *)

(* Moving slides about keeps the number of those of each identity. *)
LEMMA SameCount ==
  ASSUME NEW s \in Seq(Slide), NEW t, NEW p, Takes(t, s, Len(s), p),
         \A q \in DOMAIN s : \E j \in DOMAIN s : p[j] = q,
         NEW id
  PROVE  /\ IsFiniteSet(Slides(s, id))
         /\ Cardinality(Slides(t, id)) = Cardinality(Slides(s, id))
<1> DEFINE A == Slides(t, id)
           B == Slides(s, id)
           b == [j \in A |-> p[j]]
<1>1. DOMAIN s = 1 .. Len(s) /\ Len(s) \in Nat /\ DOMAIN t = DOMAIN s
  BY DEF Takes
<1>2. \A j \in A : p[j] \in B
  BY <1>1 DEF Takes, Slides
<1>3. \A j, k \in A : p[j] = p[k] => j = k
  BY <1>1 DEF Takes, Slides
<1>4. \A q \in B : \E j \in A : p[j] = q
  BY <1>1 DEF Takes, Slides
<1>5. IsFiniteSet(A) /\ IsFiniteSet(B)
  <2>1. IsFiniteSet(1 .. Len(s))
    BY <1>1, FS_Interval
  <2>2. A \in SUBSET (1 .. Len(s)) /\ B \in SUBSET (1 .. Len(s))
    BY <1>1 DEF Slides
  <2> QED BY <2>1, <2>2, FS_Subset
<1> HIDE DEF A, B
<1>6. b \in Bijection(A, B)
  BY <1>2, <1>3, <1>4 DEF Bijection, Injection, Surjection, IsInjective
<1>7. ExistsBijection(A, B)
  BY <1>6 DEF ExistsBijection
<1> QED BY <1>5, <1>7, FS_Bijection DEF A, B

(* The four slides that the deltas add: their identities and titles.       *)
LEMMA NewSlides ==
  \A j \in 1 .. 4 : /\ New(j) \in Slide /\ New(j).id = 21 + j /\ New(j).says = {}
                    /\ New(j).title = NewTitles[j]
<1> SUFFICES ASSUME NEW j \in 1 .. 4
             PROVE  /\ New(j) \in Slide /\ New(j).id = 21 + j /\ New(j).says = {}
                    /\ New(j).title = NewTitles[j]
  OBVIOUS
<1>1. 21 + j \in Nat /\ NewTitles[j] \in Title
  BY DEF NewTitles, Title
<1> QED BY <1>1, PlainSlide DEF New

(* The presentation before it is rearranged. *)
LEMMA EditedAtEnd ==
  ASSUME SlidesInv, EditInv, delta = "arrange"
  PROVE  /\ prs \in Seq(Slide) /\ source \in Seq(Slide)
         /\ Len(source) \in Nat /\ DOMAIN source = 1 .. Len(source) /\ Len(source) > 11
         /\ Len(prs) = Len(source) + 4 /\ DOMAIN prs = 1 .. Len(source) + 4
         /\ \A j \in 1 .. 4 : /\ prs[Len(source) + j].id = 21 + j
                              /\ prs[Len(source) + j].says = {}
                              /\ prs[Len(source) + j].title = NewTitles[j]
         /\ \A q \in DOMAIN source :
              /\ ComesFrom(prs[q], source[q], q)
              /\ source[q].title \in Home(q - 1) => prs[q].says = {}
              /\ q = 5 /\ source[q].title = "SeesNot" => prs[q].title = "Bandwidth"
              /\ q = 10 /\ source[q].title = "Edge" => prs[q].title = "SeveralApps"
<1>1. /\ Running /\ AfterPrecise /\ AfterRelabel /\ AfterMixes /\ AfterBandwidth /\ AfterRetire
      /\ Added = 4
  BY DEF Running, AfterPrecise, AfterRelabel, AfterMixes, AfterBandwidth, AfterRetire, Added
<1>2. prs \in Seq(Slide) /\ source \in Seq(Slide)
  BY DEF SlidesInv, SoundDeck
<1>3. \A q \in DOMAIN source : source[q].title \in Home(q - 1) => Claims(q) = {}
  BY <1>1, <1>2 DEF Home, Claims
<1>4. Len(source) > 11 /\ Len(prs) = Len(source) + 4
  BY <1>1 DEF EditInv
<1>5. \A j \in 1 .. 4 : prs[Len(source) + j] = New(j)
  BY <1>1 DEF EditInv
<1>6. \A q \in DOMAIN source :
        /\ ComesFrom(prs[q], source[q], q)
        /\ source[q].title \in Home(q - 1) => prs[q].says \subseteq Claims(q)
        /\ q = 5 /\ source[q].title = "SeesNot" => prs[q].title = "Bandwidth"
        /\ q = 10 /\ source[q].title = "Edge" => prs[q].title = "SeveralApps"
  BY <1>1 DEF EditInv, Worded
<1>7. Len(source) \in Nat /\ DOMAIN source = 1 .. Len(source) /\ DOMAIN prs = 1 .. Len(source) + 4
  BY <1>2, <1>4
<1> QED BY <1>2, <1>3, <1>4, <1>5, <1>6, <1>7, NewSlides

(* Every slide of BASE is in it once, and those that are added. *)
LEMMA CountAtEnd ==
  ASSUME SlidesInv, EditInv, delta = "arrange", NEW id
  PROVE  Cardinality(Slides(prs, id)) =
           Cardinality(Slides(source, id)) + (IF id \in Inserted THEN 1 ELSE 0)
<1> DEFINE n == Len(source)
           A == Slides(source, id)
<1>1. /\ n \in Nat /\ DOMAIN source = 1 .. n /\ DOMAIN prs = 1 .. n + 4
      /\ \A q \in 1 .. n : prs[q].id = source[q].id
      /\ \A j \in 1 .. 4 : prs[n + j].id = 21 + j
  BY EditedAtEnd DEF ComesFrom
<1>2. IsFiniteSet(A)
  <2>1. IsFiniteSet(1 .. n)
    BY <1>1, FS_Interval
  <2>2. A \in SUBSET (1 .. n)
    BY <1>1 DEF Slides
  <2> QED BY <2>1, <2>2, FS_Subset
<1> HIDE DEF n
<1>3. \A q \in 1 .. n + 4 : q \in 1 .. n \/ \E j \in 1 .. 4 : q = n + j
  <2> TAKE q \in 1 .. n + 4
  <2>1. q \notin 1 .. n => q - n \in 1 .. 4 /\ q = n + (q - n)
    BY <1>1
  <2> QED BY <2>1
<1>4. \A j \in 1 .. 4 : n + j \in 1 .. n + 4 /\ n + j \notin 1 .. n
  BY <1>1
<1>5. CASE id \in Inserted
  <2>1. PICK j \in 1 .. 4 : id = 21 + j
    <3>1. \/ id = 21 + 1 \/ id = 21 + 2 \/ id = 21 + 3 \/ id = 21 + 4
      BY <1>5 DEF Inserted
    <3> QED BY <3>1
  <2>2. \A k \in 1 .. 4 : prs[n + k].id = id <=> k = j
    BY <1>1, <2>1
  <2>3. Slides(prs, id) = A \cup {n + j}
    <3>1. ASSUME NEW q \in Slides(prs, id)
          PROVE  q \in A \cup {n + j}
      <4>1. q \in 1 .. n + 4 /\ prs[q].id = id
        BY <1>1 DEF Slides
      <4>2. CASE q \in 1 .. n
        BY <1>1, <4>1, <4>2 DEF Slides
      <4>3. CASE q \notin 1 .. n
        BY <1>3, <2>2, <4>1, <4>3
      <4> QED BY <4>2, <4>3
    <3>2. A \subseteq Slides(prs, id)
      BY <1>1 DEF Slides
    <3>3. n + j \in Slides(prs, id)
      BY <1>1, <1>4, <2>2 DEF Slides
    <3> HIDE DEF A
    <3> QED BY <3>1, <3>2, <3>3
  <2>4. n + j \notin A
    BY <1>1, <1>4 DEF Slides
  <2>5. Cardinality(A \cup {n + j}) = Cardinality(A) + 1
    BY <1>2, <2>4, FS_AddElement
  <2> QED BY <1>5, <2>3, <2>5
<1>6. CASE id \notin Inserted
  <2>1. \A k \in 1 .. 4 : 21 + k \in Inserted
    BY DEF Inserted
  <2>2. \A k \in 1 .. 4 : prs[n + k].id # id
    BY <1>1, <1>6, <2>1
  <2>3. Slides(prs, id) = A
    BY <1>1, <1>3, <1>4, <2>2 DEF Slides
  <2>4. Cardinality(A) \in Nat
    BY <1>2, FS_CardinalityType
  <2> QED BY <1>6, <2>3, <2>4
<1> QED BY <1>5, <1>6

-----------------------------------------------------------------------------
(* The order of the edited deck.                                           *)
Titles12 ==
  <<"Counts", "TwoQuestions", "WhatWeDid", "SeesWork", "SeesNot", "Models", "Finding",
    "BlindTest", "AllFifty", "Edge", "Licenses", "Means">>

(* The titles of BASE as committed, in its order. *)
LEMMA CommittedTitles == \A q \in 1 .. 12 : Committed[q].title = Titles12[q]
<1> SUFFICES ASSUME NEW q \in 1 .. 12
             PROVE  Committed[q].title = Titles12[q]
  OBVIOUS
<1> QED BY DEF Committed, CommittedSlides, Numbered, Saying, Plain, Titles12

(* Twelve slides with twelve titles have each of them once. *)
LEMMA CompleteOnce ==
  ASSUME Complete(source), source \in Seq(Slide)
  PROVE  /\ DOMAIN source = 1 .. 12
         /\ \A q, j \in 1 .. 12 : source[q].title = source[j].title => q = j
         /\ \A q \in 1 .. 12 : \E j \in 1 .. 12 : source[q].title = Titles12[j]
         /\ \A j \in 1 .. 12 : \E q \in 1 .. 12 : source[q].title = Titles12[j]
<1> DEFINE T == {Titles12[q] : q \in 1 .. 12}
           f == [q \in 1 .. 12 |-> source[q].title]
           b == [q \in 1 .. 12 |-> Titles12[q]]
<1>1. DOMAIN source = 1 .. 12 /\ {source[q].title : q \in 1 .. 12} = T
  <2>1. {Committed[q].title : q \in 1 .. 12} = T
    BY CommittedTitles
  <2>2. DOMAIN source = 1 .. 12
    BY DEF Complete
  <2> HIDE DEF T
  <2>3. {source[q].title : q \in DOMAIN source} = T
    BY <2>1, Zenon DEF Complete
  <2> QED BY <2>2, <2>3
<1>2. \A q, j \in 1 .. 12 : Titles12[q] = Titles12[j] => q = j
  <2> DEFINE N == [Counts |-> 1, TwoQuestions |-> 2, WhatWeDid |-> 3, SeesWork |-> 4,
                   SeesNot |-> 5, Models |-> 6, Finding |-> 7, BlindTest |-> 8,
                   AllFifty |-> 9, Edge |-> 10, Licenses |-> 11, Means |-> 12]
  <2>1. \A q \in 1 .. 12 : N[Titles12[q]] = q
    BY DEF Titles12
  <2> HIDE DEF N
  <2> QED BY <2>1
<1>3. b \in Bijection(1 .. 12, T)
  BY <1>2 DEF Bijection, Injection, Surjection, IsInjective
<1>4. IsFiniteSet(T) /\ IsFiniteSet(1 .. 12) /\ Cardinality(1 .. 12) = Cardinality(T)
  <2>1. ExistsBijection(1 .. 12, T)
    BY <1>3 DEF ExistsBijection
  <2>2. IsFiniteSet(1 .. 12)
    <3>1. \A k \in Nat : IsFiniteSet(1 .. k)
      BY FS_Interval
    <3> QED BY <3>1
  <2> HIDE DEF T
  <2> QED BY <2>1, <2>2, FS_Bijection
<1>5. \A q \in 1 .. 12 : f[q] \in T
  BY <1>1
<1>6. \A x \in T : \E q \in 1 .. 12 : f[q] = x
  BY <1>1
<1>7. f \in Surjection(1 .. 12, T)
  <2> HIDE DEF T
  <2> QED BY <1>5, <1>6 DEF Surjection
<1>8. f \in Injection(1 .. 12, T)
  <2> HIDE DEF T, f
  <2> QED BY <1>4, <1>7, FS_SurjSameCardinalityImpliesInj
<1>9. \A q, j \in 1 .. 12 : source[q].title = source[j].title => q = j
  BY <1>8 DEF Injection, IsInjective
<1>10. /\ \A q \in 1 .. 12 : \E j \in 1 .. 12 : source[q].title = Titles12[j]
       /\ \A j \in 1 .. 12 : \E q \in 1 .. 12 : source[q].title = Titles12[j]
  BY <1>1
<1> QED BY <1>1, <1>9, <1>10

(* Then each of the sixteen slides has a title of the order, its own. *)
LEMMA TitlesAtEnd ==
  ASSUME SlidesInv, EditInv, delta = "arrange", Complete(source)
  PROVE  /\ prs \in Seq(Slide) /\ Len(prs) = 16 /\ DOMAIN prs = 1 .. 16
         /\ \A q \in 1 .. 16 : \E w \in 1 .. 16 : prs[q].title = Order[w]
         /\ \A q, j \in 1 .. 16 : prs[q].title = prs[j].title => q = j
         /\ \E q \in 1 .. 16 : prs[q].title = "Means"
<1>1. source \in Seq(Slide) /\ prs \in Seq(Slide)
  BY DEF SlidesInv, SoundDeck
<1>2. Len(source) = 12 /\ source[5].title = "SeesNot" /\ source[10].title = "Edge"
  BY DEF Complete
<1>d. DOMAIN source = 1 .. 12
  BY <1>1, <1>2
<1>once. \A q, j \in 1 .. 12 : source[q].title = source[j].title => q = j
  BY <1>1, CompleteOnce
<1>known. \A q \in 1 .. 12 : \E j \in 1 .. 12 : source[q].title = Titles12[j]
  BY <1>1, CompleteOnce
<1>there. \A j \in 1 .. 12 : \E q \in 1 .. 12 : source[q].title = Titles12[j]
  BY <1>1, CompleteOnce
<1>e. /\ Len(prs) = Len(source) + 4 /\ DOMAIN prs = 1 .. Len(source) + 4
      /\ \A j \in 1 .. 4 : prs[Len(source) + j].title = NewTitles[j]
  BY EditedAtEnd
<1>f. \A q \in DOMAIN source :
        /\ ComesFrom(prs[q], source[q], q)
        /\ q = 5 /\ source[q].title = "SeesNot" => prs[q].title = "Bandwidth"
        /\ q = 10 /\ source[q].title = "Edge" => prs[q].title = "SeveralApps"
  BY EditedAtEnd
<1>3. Len(prs) = 16 /\ DOMAIN prs = 1 .. 16
  BY <1>2, <1>e
<1>4. /\ prs[5].title = "Bandwidth" /\ prs[10].title = "SeveralApps"
      /\ \A q \in 1 .. 12 : q # 5 /\ q # 10 => prs[q].title = source[q].title
      /\ prs[13].title = "Anatomy" /\ prs[14].title = "Replaces"
      /\ prs[15].title = "Corner" /\ prs[16].title = "Flat"
  <2>1. \A j \in 1 .. 4 : prs[12 + j].title = NewTitles[j]
    BY <1>2, <1>e
  <2>2. prs[12 + 1].title = "Anatomy" /\ prs[12 + 2].title = "Replaces"
        /\ prs[12 + 3].title = "Corner" /\ prs[12 + 4].title = "Flat"
    BY <2>1 DEF NewTitles
  <2>3. prs[5].title = "Bandwidth" /\ prs[10].title = "SeveralApps"
    BY <1>2, <1>d, <1>f
  <2>4. \A q \in 1 .. 12 : q # 5 /\ q # 10 => prs[q].title = source[q].title
    BY <1>d, <1>f DEF ComesFrom
  <2> QED BY <2>2, <2>3, <2>4
(* The ten titles that stay. *)
<1> DEFINE Stay == {"Counts", "TwoQuestions", "WhatWeDid", "SeesWork", "Models", "Finding",
                    "BlindTest", "AllFifty", "Licenses", "Means"}
<1>5. \A q \in 1 .. 12 : q # 5 /\ q # 10 => prs[q].title \in Stay
  <2> SUFFICES ASSUME NEW q \in 1 .. 12, q # 5, q # 10
               PROVE  source[q].title \in Stay
    BY <1>4
  <2>1. source[q].title # "SeesNot" /\ source[q].title # "Edge"
    <3>1. source[q].title # source[5].title /\ source[q].title # source[10].title
      BY <1>once
    <3> QED BY <1>2, <3>1
  <2>2. PICK j \in 1 .. 12 : source[q].title = Titles12[j]
    BY <1>known
  <2> QED BY <2>1, <2>2 DEF Titles12
<1>6. \A t \in Stay : \E w \in 1 .. 16 : t = Order[w]
  <2>1. /\ Order[1] = "Counts" /\ Order[2] = "TwoQuestions" /\ Order[3] = "WhatWeDid"
        /\ Order[4] = "SeesWork" /\ Order[7] = "Models" /\ Order[8] = "Finding"
        /\ Order[9] = "BlindTest" /\ Order[10] = "AllFifty" /\ Order[12] = "Licenses"
        /\ Order[16] = "Means"
    BY DEF Order
  <2> QED BY <2>1
<1>7. /\ Order[5] = "Bandwidth" /\ Order[11] = "SeveralApps" /\ Order[13] = "Anatomy"
      /\ Order[14] = "Replaces" /\ Order[6] = "Corner" /\ Order[15] = "Flat"
  BY DEF Order
<1>8. \A q \in 1 .. 16 : \E w \in 1 .. 16 : prs[q].title = Order[w]
  <2> SUFFICES ASSUME NEW q \in 1 .. 16
               PROVE  \E w \in 1 .. 16 : prs[q].title = Order[w]
    OBVIOUS
  <2>1. CASE q <= 12 /\ q # 5 /\ q # 10
    <3> HIDE DEF Stay
    <3>1. q \in 1 .. 12
      BY <2>1
    <3> QED BY <1>5, <1>6, <2>1, <3>1
  <2>2. CASE q \in {5, 10, 13, 14, 15, 16}
    BY <1>4, <1>7, <2>2
  <2> QED BY <2>1, <2>2
<1>9. ASSUME NEW q \in 1 .. 16, NEW j \in 1 .. 16, prs[q].title = prs[j].title
      PROVE  q = j
  <2> DEFINE Kept(k) == k \in 1 .. 12 /\ k # 5 /\ k # 10
  <2>1. CASE Kept(q) /\ Kept(j)
    <3>1. source[q].title = source[j].title
      BY <1>4, <1>9, <2>1
    <3> QED BY <1>once, <2>1, <3>1
  <2>2. ASSUME NEW a \in 1 .. 16, NEW c \in 1 .. 16, Kept(a), ~Kept(c)
        PROVE  prs[a].title # prs[c].title
    <3>1. c \in {5, 10, 13, 14, 15, 16}
      BY <2>2
    <3>2. prs[c].title \notin Stay
      BY <1>4, <3>1
    <3> QED BY <1>5, <2>2, <3>2
  <2>3. CASE ~Kept(q) /\ ~Kept(j)
    <3>1. q \in {5, 10, 13, 14, 15, 16} /\ j \in {5, 10, 13, 14, 15, 16}
      BY <2>3
    <3> QED BY <1>4, <1>9, <3>1
  <2> HIDE DEF Kept
  <2> QED BY <1>9, <2>1, <2>2, <2>3
<1>10. \E q \in 1 .. 16 : prs[q].title = "Means"
  <2>1. Titles12[12] = "Means"
    BY DEF Titles12
  <2>2. PICK q \in 1 .. 12 : source[q].title = "Means"
    BY <1>there, <2>1
  <2>3. q # 5 /\ q # 10 /\ q \in 1 .. 16
    BY <1>2, <2>2
  <2> QED BY <1>4, <2>2, <2>3
<1> QED BY <1>1, <1>3, <1>8, <1>9, <1>10

(* A function on 1 .. n is a sequence of length n. *)
LEMMA Spans ==
  ASSUME NEW S, NEW n \in Nat, NEW f
  PROVE  /\ f \in [1 .. n -> S] => f \in Seq(S) /\ Len(f) = n
         /\ f \in Seq(S) /\ DOMAIN f = 1 .. n => Len(f) = n /\ \A k \in 1 .. n : f[k] \in S
<1>1. f \in [1 .. n -> S] => f \in Seq(S) /\ Len(f) = n
  OBVIOUS
<1>2. ASSUME f \in Seq(S), DOMAIN f = 1 .. n
      PROVE  Len(f) = n /\ \A k \in 1 .. n : f[k] \in S
  <2>1. f \in [1 .. Len(f) -> S]
    BY <1>2, LenProperties
  <2>2. f \in [1 .. n -> S]
    BY <1>2, <2>1
  <2> QED BY <1>1, <2>2
<1> QED BY <1>1, <1>2

(* The titles that have a place are those of the list, one place each.     *)
LEMMA PlacesInOrder ==
  /\ \A x \in 1 .. 16 : Order[x] \in Places
  /\ \A t \in Places : \E x \in 1 .. 16 : Order[x] = t
  /\ Order[16] = "Means"
  /\ \A x \in 1 .. 16 : /\ Order[x] \in Part1 => x < 7
                        /\ Order[x] \in Part2 => x >= 7
<1>1. /\ Order[1] = "Counts" /\ Order[2] = "TwoQuestions" /\ Order[3] = "WhatWeDid"
      /\ Order[4] = "SeesWork" /\ Order[5] = "Bandwidth" /\ Order[6] = "Corner"
      /\ Order[7] = "Models" /\ Order[8] = "Finding" /\ Order[9] = "BlindTest"
      /\ Order[10] = "AllFifty" /\ Order[11] = "SeveralApps" /\ Order[12] = "Licenses"
      /\ Order[13] = "Anatomy" /\ Order[14] = "Replaces" /\ Order[15] = "Flat"
      /\ Order[16] = "Means"
  BY DEF Order
<1>2. \A t \in Places : \E x \in 1 .. 16 : Order[x] = t
  BY <1>1 DEF Places
<1>3. \A x \in 1 .. 16 : Order[x] \in Places
  BY <1>1 DEF Places
<1>4. \A x \in 1 .. 16 : Order[x] \in Part1 => x < 7
  BY <1>1 DEF Part1
<1>5. \A x \in 1 .. 16 : Order[x] \in Part2 => x >= 7
  BY <1>1 DEF Part2
<1> QED BY <1>1, <1>2, <1>3, <1>4, <1>5

(* Arranging takes every slide once, under its title. *)
LEMMA ArrangedTitles ==
  ASSUME NEW s \in Seq(Slide)
  PROVE  LET p == Found(s) \o Others(s)
         IN  /\ DOMAIN Arranged(s) = 1 .. Len(s) /\ Len(Arranged(s)) = Len(s)
             /\ \A j \in 1 .. Len(s) : /\ p[j] \in 1 .. Len(s)
                                       /\ Arranged(s)[j].title = s[p[j]].title
             /\ \A q, j \in 1 .. Len(s) : p[q] = p[j] => q = j
             /\ \A q \in 1 .. Len(s) : \E j \in 1 .. Len(s) : p[j] = q
<1> DEFINE p == Found(s) \o Others(s)
           n == Len(s)
           t == Reordered(s)
           d == Arranged(s)
<1>1. n \in Nat /\ DOMAIN s = 1 .. n
  OBVIOUS
<1>2. Takes(t, s, n, p) /\ \A q \in DOMAIN s : \E j \in DOMAIN s : p[j] = q
  BY Reordering
<1> HIDE DEF p, n
<1>3. t \in Seq(Slide) /\ DOMAIN t = 1 .. n
  <2>1. t \in [1 .. n -> Slide]
    BY <1>2 DEF Takes
  <2> HIDE DEF t
  <2> QED BY <1>1, <2>1
<1>4. Paginated(d, t)
  BY <1>3, Numbering DEF Arranged
<1> HIDE DEF d, t
<1>5. Len(d) = n /\ DOMAIN d = 1 .. n /\ \A j \in 1 .. n : d[j].title = t[j].title
  <2>1. d \in Seq(Slide) /\ Len(d) = Len(t) /\ Len(t) = n
    BY <1>1, <1>3, <1>4 DEF Paginated, Alike
  <2>2. DOMAIN d = 1 .. n
    BY <2>1
  <2>3. \A j \in 1 .. n : d[j].title = t[j].title
    BY <1>3, <1>4 DEF Paginated
  <2> QED BY <2>1, <2>2, <2>3
<1>6. \A j \in 1 .. n : p[j] \in 1 .. n /\ t[j] = s[p[j]]
  BY <1>1, <1>2 DEF Takes
<1>7. \A q, j \in 1 .. n : p[q] = p[j] => q = j
  BY <1>2 DEF Takes
<1> QED BY <1>1, <1>2, <1>5, <1>6, <1>7 DEF d, n, p

(* The slides that have a place come first, in the order of the list.      *)
LEMMA PlacedFirst ==
  ASSUME NEW s \in Seq(Slide)
  PROVE  \E m \in 0 .. Len(s), w \in Seq(1 .. 16) :
           /\ DOMAIN w = 1 .. m
           /\ \A j, k \in 1 .. m : j < k => w[j] < w[k]
           /\ \A j \in 1 .. m : Arranged(s)[j].title = Order[w[j]]
           /\ \A j \in 1 .. Len(s) : Placed(Arranged(s), j) <=> j <= m
<1> DEFINE n == Len(s)
           f == Found(s)
           o == Others(s)
           w == Wanted(s)
           p == f \o o
           d == Arranged(s)
           m == Len(f)
<1>1. /\ Ascending(w, {x \in 1 .. 16 : Titled(s, Order[x]) # {}}, 16)
      /\ f \in Seq(DOMAIN s) /\ DOMAIN f = DOMAIN w
      /\ \A k \in DOMAIN f : s[f[k]].title = Order[w[k]]
  BY FoundOnce
<1>2. /\ DOMAIN d = 1 .. n
      /\ \A j \in 1 .. n : p[j] \in 1 .. n /\ d[j].title = s[p[j]].title
      /\ \A q, j \in 1 .. n : p[q] = p[j] => q = j
      /\ \A q \in 1 .. n : \E j \in 1 .. n : p[j] = q
  BY ArrangedTitles
<1>3. n \in Nat /\ DOMAIN s = 1 .. n /\ Takes(Reordered(s), s, n, p)
  BY Reordering
<1>4. Ascending(o, DOMAIN s \ ToSet(f), n)
  BY <1>3, AppendedAscends DEF Others
<1> HIDE DEF n, f, o, w, d
<1>5. /\ w \in Seq(1 .. 16)
      /\ \A j, k \in DOMAIN w : j < k => w[j] < w[k]
      /\ \A k \in DOMAIN w : w[k] \in 1 .. 16
      /\ \A x \in 1 .. 16 : Titled(s, Order[x]) # {} => \E k \in DOMAIN w : w[k] = x
  <2> DEFINE W == {k \in 1 .. 16 : Titled(s, Order[k]) # {}}
  <2>1. \A x \in 1 .. 16 : Titled(s, Order[x]) # {} => x \in W
    OBVIOUS
  <2>2. Ascending(w, W, 16) /\ W \in SUBSET (1 .. 16)
    BY <1>1
  <2> HIDE DEF W
  <2> QED BY <2>1, <2>2 DEF Ascending
<1>6. m \in Nat /\ DOMAIN f = 1 .. m /\ DOMAIN w = 1 .. m
  BY <1>1
<1>7. /\ Len(o) \in Nat /\ o \in Seq(1 .. n) /\ Len(p) = m + Len(o)
      /\ \A q \in 1 .. m + Len(o) : p[q] = IF q <= m THEN f[q] ELSE o[q - m]
  <2>1. o \in Seq(1 .. n) /\ f \in Seq(1 .. n)
    BY <1>1, <1>3, <1>4 DEF Ascending
  <2> QED BY <2>1, ConcatProperties
<1>8. n = m + Len(o)
  <2>1. DOMAIN p = 1 .. n
    BY <1>3 DEF Takes
  <2>2. p \in Seq(1 .. n)
    BY <1>1, <1>3, <1>7
  <2> HIDE DEF p
  <2>3. Len(p) = n
    BY <1>3, <2>1, <2>2, Spans
  <2> QED BY <1>7, <2>3
<1> HIDE DEF m, p
<1>9. \A j \in 1 .. m : j \in 1 .. n /\ d[j].title = Order[w[j]]
  <2> TAKE j \in 1 .. m
  <2>1. j \in 1 .. n /\ p[j] = f[j]
    BY <1>6, <1>7, <1>8
  <2>2. s[f[j]].title = Order[w[j]]
    BY <1>1, <1>6
  <2>3. d[j].title = s[p[j]].title
    BY <1>2, <2>1
  <2> QED BY <2>1, <2>2, <2>3
<1>10. ASSUME NEW j \in 1 .. n, j <= m
       PROVE  Placed(d, j)
  <2>1. j \in 1 .. m /\ w[j] \in 1 .. 16
    BY <1>5, <1>6, <1>10
  <2>2. d[j].title \in Places
    BY <1>9, <2>1, PlacesInOrder
  <2>3. ASSUME NEW k \in 1 .. j - 1
        PROVE  d[k].title # d[j].title
    <3>1. k \in 1 .. m /\ k < j
      BY <1>6, <2>1
    <3>2. w[k] < w[j] /\ w[k] \in 1 .. 16
      BY <1>5, <1>6, <2>1, <3>1
    <3>3. Order[w[k]] # Order[w[j]]
      BY <2>1, <3>2, OrderDistinct
    <3> QED BY <1>9, <2>1, <3>1, <3>3
  <2> QED BY <2>2, <2>3 DEF Placed, First
<1>11. ASSUME NEW j \in 1 .. n, j > m
       PROVE  ~ Placed(d, j)
  <2> SUFFICES ASSUME d[j].title \in Places
               PROVE  ~ First(d, j)
    BY DEF Placed
  <2>1. PICK x \in 1 .. 16 : Order[x] = d[j].title
    BY PlacesInOrder
  <2>2. p[j] \in Titled(s, Order[x])
    BY <1>2, <1>3, <2>1 DEF Titled
  <2>3. PICK k \in 1 .. m : w[k] = x
    BY <1>5, <1>6, <2>2
  <2>4. d[k].title = d[j].title /\ k \in 1 .. j - 1
    BY <1>6, <1>9, <1>11, <2>1, <2>3
  <2> QED BY <2>4 DEF First
<1>12. \A j \in 1 .. n : Placed(d, j) <=> j <= m
  <2> TAKE j \in 1 .. n
  <2>1. j <= m \/ j > m
    BY <1>3, <1>6
  <2> QED BY <1>3, <1>6, <1>10, <1>11, <2>1
<1>13. m \in 0 .. n
  BY <1>3, <1>6, <1>7, <1>8
<1> QED BY <1>5, <1>6, <1>9, <1>12, <1>13 DEF n, d

(* reorder() puts behind the closing slide those without a place, and only *)
(* them, and part 1 before part 2; from twelve slides, the two retitled    *)
(* ones where the deltas look for them, it puts none behind it.            *)
LEMMA ClosedAtEnd ==
  ASSUME SlidesInv, EditInv, delta = "arrange"
  PROVE  ClosedDeck(Arranged(prs), source)
<1> DEFINE d == Arranged(prs)
           n == Len(prs)
<1>1. prs \in Seq(Slide) /\ n \in Nat
  BY DEF SlidesInv, SoundDeck
<1>2. DOMAIN d = 1 .. n /\ Len(d) = n
  BY <1>1, ArrangedTitles
<1>3. PICK m \in 0 .. n, w \in Seq(1 .. 16) :
        /\ DOMAIN w = 1 .. m
        /\ \A j, k \in 1 .. m : j < k => w[j] < w[k]
        /\ \A j \in 1 .. m : d[j].title = Order[w[j]]
        /\ \A j \in 1 .. n : Placed(d, j) <=> j <= m
  BY <1>1, PlacedFirst
<1>e. ASSUME Complete(source)
      PROVE  /\ n \in Nat \ {0}
             /\ \A j \in 1 .. n : Placed(d, j)
             /\ \E c \in 1 .. n : d[c].title = "Means"
  <2> DEFINE p == Found(prs) \o Others(prs)
  <2>1. /\ n = 16
        /\ \A q \in 1 .. 16 : \E x \in 1 .. 16 : prs[q].title = Order[x]
        /\ \A q, j \in 1 .. 16 : prs[q].title = prs[j].title => q = j
        /\ \E q \in 1 .. 16 : prs[q].title = "Means"
    BY <1>e, TitlesAtEnd
  <2>2. /\ \A j \in 1 .. n : p[j] \in 1 .. n /\ d[j].title = prs[p[j]].title
        /\ \A q, j \in 1 .. n : p[q] = p[j] => q = j
        /\ \A q \in 1 .. n : \E j \in 1 .. n : p[j] = q
    BY <1>1, ArrangedTitles
  <2> HIDE DEF p, d, n
  <2>0. n = 16
    BY ONLY <2>1
  <2>3. ASSUME NEW j \in 1 .. n
        PROVE  Placed(d, j)
    <3>1. p[j] \in 1 .. 16 /\ d[j].title = prs[p[j]].title
      BY <2>1, <2>2
    <3>2. PICK x \in 1 .. 16 : prs[p[j]].title = Order[x]
      BY <2>1, <3>1
    <3>3. d[j].title \in Places
      BY <3>1, <3>2, PlacesInOrder
    <3>4. ASSUME NEW k \in 1 .. j - 1
          PROVE  d[k].title # d[j].title
      <4>1. k \in 1 .. n /\ k # j
        BY ONLY <2>0, <3>4, j \in 1 .. n
      <4> DEFINE a == p[k]
                 b == p[j]
      <4>2. a \in 1 .. 16 /\ a # b /\ d[k].title = prs[a].title
        BY <2>1, <2>2, <4>1
      <4>3. b \in 1 .. 16 /\ d[j].title = prs[b].title
        BY <3>1
      <4> HIDE DEF a, b
      <4>4. prs[a].title # prs[b].title
        BY <2>1, <4>2, <4>3
      <4> QED BY <4>2, <4>3, <4>4
    <3> QED BY <3>3, <3>4 DEF Placed, First
  <2>4. \E c \in 1 .. n : d[c].title = "Means"
    <3>1. PICK q \in 1 .. n : prs[q].title = "Means"
      BY <2>1
    <3>2. PICK c \in 1 .. n : p[c] = q
      BY <2>2
    <3>3. d[c].title = prs[p[c]].title
      BY <2>2, <3>2
    <3> QED BY <3>1, <3>2, <3>3
  <2>5. n \in Nat \ {0}
    BY ONLY <2>0
  <2> QED BY ONLY <2>3, <2>4, <2>5
<1> HIDE DEF d, n
<1>4. \A j \in 1 .. m : w[j] \in 1 .. 16
  BY <1>3, Spans
<1>5. ASSUME NEW c \in 1 .. n, d[c].title = "Means", First(d, c)
      PROVE  c = m
  <2>1. Placed(d, c)
    <3>1. "Means" \in Places
      BY DEF Places
    <3> QED BY <1>5, <3>1 DEF Placed
  <2>2. c \in 1 .. m
    BY <1>1, <1>3, <2>1
  <2>3. w[c] = 16
    <3>1. Order[w[c]] = Order[16] /\ w[c] \in 1 .. 16
      BY <1>3, <1>4, <1>5, <2>2, PlacesInOrder
    <3> QED BY <3>1, OrderDistinct
  <2>4. m \in 1 .. m /\ w[m] \in 1 .. 16 /\ (c < m => w[c] < w[m])
    BY <1>1, <1>3, <1>4, <2>2
  <2>5. m \in Nat /\ c <= m
    BY ONLY <1>1, <2>2, m \in 0 .. n
  <2> QED BY ONLY <2>2, <2>3, <2>4, <2>5
<1>6. ASSUME NEW c \in 1 .. n, NEW q \in 1 .. n,
             d[c].title = "Means", First(d, c), q # c
      PROVE  q < c <=> Placed(d, q)
  <2>1. c = m /\ (Placed(d, q) <=> q <= m)
    BY <1>3, <1>5, <1>6
  <2> QED BY <1>1, <1>6, <2>1
<1>7. ASSUME NEW q \in 1 .. n, NEW j \in 1 .. n, Placed(d, q), d[q].title \in Part1,
             Placed(d, j), d[j].title \in Part2
      PROVE  q < j
  <2>1. q \in 1 .. m /\ j \in 1 .. m
    BY <1>1, <1>3, <1>7
  <2> DEFINE a == w[q]
             b == w[j]
  <2>2. a \in 1 .. 16 /\ b \in 1 .. 16 /\ a < 7 /\ b >= 7
    BY <1>3, <1>4, <1>7, <2>1, PlacesInOrder
  <2>3. (j < q => b < a) /\ (j = q => a = b)
    BY <1>3, <2>1
  <2> HIDE DEF a, b
  <2>4. a # b /\ ~ (b < a)
    BY <2>2
  <2> QED BY <1>1, <2>3, <2>4
<1>8. ASSUME Complete(source)
      PROVE  d[n].title = "Means"
  <2>1. n \in 1 .. n /\ Placed(d, n) /\ \A j \in 1 .. n : Placed(d, j)
    BY <1>8, <1>e
  <2>2. PICK c \in 1 .. n : d[c].title = "Means"
    BY <1>8, <1>e
  <2>3. c = m /\ n <= m
    BY <1>3, <1>5, <2>1, <2>2 DEF Placed
  <2> QED BY <1>1, <2>2, <2>3
<1> QED BY <1>2, <1>6, <1>7, <1>8 DEF ClosedDeck, d

(* What is saved is sound and has all the properties. *)
LEMMA FinishedAtEnd ==
  ASSUME SlidesInv, EditInv, delta = "arrange"
  PROVE  SoundDeck(Arranged(prs), edits) /\ FinishedDeck(Arranged(prs), source)
<1> DEFINE p == Found(prs) \o Others(prs)
           n == Len(source)
           m == Len(prs)
           t == Reordered(prs)
           d == Arranged(prs)
<1>1. /\ prs \in Seq(Slide) /\ n \in Nat /\ DOMAIN source = 1 .. n /\ n > 11
      /\ m = n + 4 /\ DOMAIN prs = 1 .. m
      /\ \A j \in 1 .. 4 : prs[n + j].id = 21 + j
      /\ \A q \in DOMAIN source :
           /\ ComesFrom(prs[q], source[q], q)
           /\ source[q].title \in Home(q - 1) => prs[q].says = {}
  BY EditedAtEnd
<1>2. Takes(t, prs, m, p) /\ \A q \in DOMAIN prs : \E j \in DOMAIN prs : p[j] = q
  BY <1>1, Reordering
<1> HIDE DEF p
<1>3. t \in Seq(Slide) /\ DOMAIN t = 1 .. m /\ Len(t) = m
  <2>1. t \in [1 .. m -> Slide] /\ m \in Nat
    BY <1>2 DEF Takes
  <2> HIDE DEF t, m
  <2> QED BY <2>1
<1>4. \A j \in 1 .. m : p[j] \in 1 .. m /\ t[j] = prs[p[j]]
  BY <1>1, <1>2 DEF Takes
<1>5. Paginated(d, t)
  BY <1>3, Numbering DEF Arranged
<1> HIDE DEF d, t
<1>6. /\ d \in Seq(Slide) /\ DOMAIN d = 1 .. m /\ Alike(d, t)
      /\ \A j \in 1 .. m : /\ d[j].id = t[j].id /\ d[j].title = t[j].title /\ d[j].says = t[j].says
                           /\ [d[j] EXCEPT !.page = 0] = [t[j] EXCEPT !.page = 0]
                           /\ d[j].box => d[j].page = j
  <2>1. Alike(d, t) /\ d \in Seq(Slide) /\ Len(d) = m /\ \A j \in 1 .. m : d[j].id = t[j].id
    BY <1>3, <1>5 DEF Paginated, Alike
  <2>2. DOMAIN d = 1 .. m
    BY <2>1
  <2> QED BY <1>3, <1>5, <2>1, <2>2 DEF Paginated
<1> HIDE DEF n, m
<1>7. SoundDeck(d, edits)
  <2>1. edits \in Nat /\ SoundDeck(prs, edits)
    BY DEF SlidesInv
  <2>2. SoundDeck(t, edits)
    BY <1>2, <2>1, SoundTaken
  <2>3. \A j \in DOMAIN t : d[j].says \subseteq t[j].says /\ Renamed(d[j], t[j])
    BY <1>3, <1>6 DEF Renamed
  <2> QED BY <1>6, <2>1, <2>2, <2>3, SoundKept
<1>8. WholeDeck(d, source)
  <2>1. ASSUME NEW id
        PROVE  Cardinality(Slides(d, id)) =
                 Cardinality(Slides(source, id)) + (IF id \in Inserted THEN 1 ELSE 0)
    <3>1. Slides(d, id) = Slides(t, id)
      BY <1>3, <1>6 DEF Slides
    <3>2. Cardinality(Slides(t, id)) = Cardinality(Slides(prs, id))
      <4>1. prs \in Seq(Slide) /\ Takes(t, prs, Len(prs), p)
        BY <1>1, <1>2 DEF m
      <4>2. \A j \in DOMAIN prs : \E k \in DOMAIN prs : p[k] = j
        BY <1>2
      <4> QED BY <4>1, <4>2, SameCount
    <3> QED BY <3>1, <3>2, CountAtEnd
  <2>2. ASSUME NEW q \in DOMAIN source, q - 1 \notin Touched
        PROVE  \E k \in DOMAIN d : [d[k] EXCEPT !.page = 0] = [source[q] EXCEPT !.page = 0]
    <3>1. prs[q] = source[q] /\ q \in 1 .. m
      BY <1>1, <2>2 DEF ComesFrom
    <3>2. PICK j \in 1 .. m : p[j] = q
      BY <1>1, <1>2, <3>1
    <3>3. [d[j] EXCEPT !.page = 0] = [source[q] EXCEPT !.page = 0]
      BY <1>4, <1>6, <3>1, <3>2
    <3> QED BY <1>6, <3>3
  <2> QED BY <2>1, <2>2 DEF WholeDeck
<1>9. PagedDeck(d)
  BY <1>6 DEF PagedDeck
<1>10. RetiredDeck(d, source)
  <2> SUFFICES ASSUME NEW q \in DOMAIN source, source[q].title \in Home(q - 1),
                      NEW k \in Slides(d, source[q].id)
               PROVE  d[k].says = {}
    BY DEF RetiredDeck
  <2>1. source[q].id \notin Inserted
    <3>1. source[q].title \notin {"Anatomy", "Replaces", "Corner", "Flat"}
      BY <1>1 DEF Home
    <3>2. Sound(source[q], edits)
      BY DEF SlidesInv, SoundDeck
    <3> QED BY <3>1, <3>2 DEF Sound
  <2>2. k \in 1 .. m /\ d[k].says = prs[p[k]].says /\ prs[p[k]].id = source[q].id /\ p[k] \in 1 .. m
    <3>1. k \in 1 .. m /\ d[k].id = source[q].id
      BY <1>6 DEF Slides
    <3>2. t[k] = prs[p[k]] /\ p[k] \in 1 .. m
      BY <1>4, <3>1
    <3>3. d[k].id = t[k].id /\ d[k].says = t[k].says
      BY <1>6, <3>1
    <3> QED BY <3>1, <3>2, <3>3
  <2>3. p[k] \in 1 .. n
    <3> SUFFICES ASSUME p[k] \notin 1 .. n
                 PROVE  FALSE
      OBVIOUS
    <3>1. p[k] - n \in 1 .. 4 /\ p[k] = n + (p[k] - n)
      <4> DEFINE x == p[k]
      <4>1. x \in 1 .. m /\ x \notin 1 .. n /\ m = n + 4 /\ n \in Nat
        BY <1>1, <2>2
      <4> HIDE DEF x
      <4>2. x - n \in 1 .. 4 /\ x = n + (x - n)
        BY <4>1
      <4> QED BY <4>2 DEF x
    <3>2. \A j \in 1 .. 4 : 21 + j \in Inserted
      BY DEF Inserted
    <3> DEFINE y == p[k] - n
    <3>3. y \in 1 .. 4 /\ p[k] = n + y
      BY <3>1
    <3> HIDE DEF y
    <3>4. prs[n + y].id = 21 + y /\ 21 + y \in Inserted
      BY <1>1, <3>2, <3>3
    <3>5. prs[n + y].id = source[q].id
      BY <2>2, <3>3
    <3> QED BY <2>1, <3>4, <3>5
  <2>4. source[p[k]].id = source[q].id
    BY <1>1, <2>2, <2>3 DEF ComesFrom
  <2>5. p[k] = q
    BY <1>1, <2>1, <2>3, <2>4 DEF SlidesInv, SoundDeck, Distinct
  <2> QED BY <1>1, <2>2, <2>5
<1>11. ClosedDeck(d, source)
  BY ClosedAtEnd DEF d
<1> QED BY <1>7, <1>8, <1>9, <1>10, <1>11 DEF FinishedDeck, d

-----------------------------------------------------------------------------
(* The presentations that are committed and generated are sound.           *)
LEMMA SoundPlain ==
  ASSUME NEW id \in 0 .. 21, NEW title \in Title
  PROVE  Sound(Plain(id, title), 0) /\ Plain(id, title).id = id
<1> DEFINE t == Plain(id, title)
<1>1. t \in Slide /\ t.id = id /\ t.title = title /\ t.says = {}
  BY PlainSlide
<1> HIDE DEF t
<1>2. id \notin Inserted
  BY DEF Inserted
<1> QED BY <1>1, <1>2 DEF Sound, t

(* Titles of the slides that make_power_deck.py generates plain.           *)
LEMMA TitleNames ==
  /\ "Counts" \in Title /\ "TwoQuestions" \in Title /\ "WhatWeDid" \in Title
  /\ "SeesWork" \in Title /\ "Models" \in Title /\ "Finding" \in Title
  /\ "BlindTest" \in Title /\ "AllFifty" \in Title /\ "Means" \in Title
  BY DEF Title

(* Sound, of the slides that the deltas add or the generator foresaw.      *)
LEMMA SoundAdded ==
  ASSUME NEW id \in 22 .. 25, NEW title \in {"Anatomy", "Replaces", "Corner", "Flat"}
  PROVE  Sound(Plain(id, title), 0) /\ Plain(id, title).id = id
<1> DEFINE t == Plain(id, title)
<1>1. title \in Title
  BY DEF Title
<1>2. t \in Slide /\ t.id = id /\ t.title = title /\ t.says = {}
  BY <1>1, PlainSlide
<1> HIDE DEF t
<1> QED BY <1>2 DEF Sound, t

(* Sound, of a slide generated with the claims that its title makes.       *)
LEMMA SoundSaying ==
  ASSUME NEW id \in 0 .. 21, NEW title \in Title, NEW claims \in SUBSET Claim,
         claims \subseteq Makes(title)
  PROVE  Sound(Saying(id, title, claims), 0) /\ Saying(id, title, claims).id = id
<1> DEFINE t == Plain(id, title)
           u == Saying(id, title, claims)
<1>1. t \in Slide /\ t.id = id /\ t.title = title
  BY PlainSlide
<1>2. u = [t EXCEPT !.says = claims]
  BY DEF Saying
<1> HIDE DEF t
<1>3. [t EXCEPT !.says = claims] \in Slide
  BY <1>1, SlideKept
<1>4. u \in Slide /\ u.id = id /\ u.title = title /\ u.says = claims
  BY <1>1, <1>2, <1>3 DEF Slide
<1> HIDE DEF u
<1>5. id \notin Inserted
  BY DEF Inserted
<1> QED BY <1>4, <1>5 DEF Sound, u

IdsIn(s, A) == \A q \in DOMAIN s : s[q].id \in A

(* Two sound presentations without a slide in common, joined, are one.     *)
LEMMA SoundJoined ==
  ASSUME NEW s, NEW t, NEW A, NEW B, SoundDeck(s, 0), SoundDeck(t, 0),
         IdsIn(s, A), IdsIn(t, B), A \cap B = {}
  PROVE  SoundDeck(s \o t, 0) /\ IdsIn(s \o t, A \cup B)
<1> DEFINE u == s \o t
<1>1. s \in Seq(Slide) /\ t \in Seq(Slide) /\ DOMAIN s = 1 .. Len(s) /\ DOMAIN t = 1 .. Len(t)
      /\ Len(s) \in Nat /\ Len(t) \in Nat
  BY DEF SoundDeck
<1>2. /\ u \in Seq(Slide) /\ Len(u) = Len(s) + Len(t)
      /\ \A q \in 1 .. Len(s) + Len(t) : u[q] = IF q <= Len(s) THEN s[q] ELSE t[q - Len(s)]
  BY <1>1, ConcatProperties
<1> HIDE DEF u
<1>3. DOMAIN u = 1 .. Len(s) + Len(t)
  BY <1>1, <1>2
<1>4. \A q \in DOMAIN u : \/ q \in DOMAIN s /\ u[q] = s[q] /\ q <= Len(s)
                          \/ /\ q > Len(s) /\ q - Len(s) \in DOMAIN t
                             /\ u[q] = t[q - Len(s)]
  BY <1>1, <1>2, <1>3
<1>5. \A q \in DOMAIN u : Sound(u[q], 0)
  BY <1>4 DEF SoundDeck
<1>6. IdsIn(u, A \cup B)
  BY <1>4 DEF IdsIn
<1>7. ASSUME NEW q \in DOMAIN u, NEW j \in DOMAIN u, u[q].id = u[j].id, q # j
      PROVE  u[q].id \in Inserted
  <2>1. CASE q <= Len(s) /\ j <= Len(s)
    BY <1>1, <1>3, <1>4, <1>7, <2>1 DEF SoundDeck, Distinct
  <2>2. CASE q > Len(s) /\ j > Len(s)
    <3>1. q - Len(s) # j - Len(s)
      BY <1>1, <1>3, <1>7
    <3> QED BY <1>1, <1>3, <1>4, <1>7, <2>2, <3>1 DEF SoundDeck, Distinct
  <2>3. CASE (q <= Len(s)) # (j <= Len(s))
    BY <1>1, <1>3, <1>4, <1>7, <2>3 DEF IdsIn
  <2> QED BY <1>1, <1>3, <2>1, <2>2, <2>3
<1> QED BY <1>2, <1>5, <1>6, <1>7 DEF SoundDeck, Distinct, u

(* A list of slides whose identities ascend. *)
LEMMA SoundList ==
  ASSUME NEW n \in Nat, NEW s, DOMAIN s = 1 .. n, s = [q \in 1 .. n |-> s[q]],
         \A q \in 1 .. n : Sound(s[q], 0),
         \A q, j \in 1 .. n : q < j => s[q].id < s[j].id
  PROVE  SoundDeck(s, 0)
<1>1. s \in Seq(Slide)
  <2>1. s \in [1 .. n -> Slide]
    BY DEF Sound
  <2> QED BY <2>1, Spans
<1>2. Distinct(s)
  <2>1. \A q \in 1 .. n : s[q].id \in Nat
    BY DEF Sound, Slide
  <2> QED BY <2>1 DEF Distinct
<1> QED BY <1>1, <1>2 DEF SoundDeck

(* BASE as committed is sound. *)
LEMMA SoundCommitted == SoundDeck(Committed, 0)
<1> DEFINE s == CommittedSlides
<1>1. DOMAIN s = 1 .. 12 /\ s = [q \in 1 .. 12 |-> s[q]]
  BY DEF CommittedSlides
<1>2. \A q \in 1 .. 12 : Sound(s[q], 0) /\ s[q].id = q - 1
  <2>1. /\ s[1] = Plain(0, "Counts") /\ s[2] = Saying(1, "TwoQuestions", {"alone", "overreports"})
        /\ s[3] = Plain(2, "WhatWeDid") /\ s[4] = Plain(3, "SeesWork")
        /\ s[5] = Saying(4, "SeesNot", {"overreports"}) /\ s[6] = Plain(5, "Models")
        /\ s[7] = Plain(6, "Finding") /\ s[8] = Plain(7, "BlindTest")
        /\ s[9] = Plain(8, "AllFifty")
        /\ s[10] = Saying(9, "Edge", {"alone", "inference", "overreports"})
        /\ s[11] = Saying(10, "Licenses", {"overreports"})
        /\ s[12] = Saying(11, "Means", {"estimated"})
    BY DEF CommittedSlides
  <2> HIDE DEF s
  <2>2. \A q \in {1, 3, 4, 6, 7, 8, 9} : Sound(s[q], 0) /\ s[q].id = q - 1
    BY <2>1, SoundPlain, TitleNames
  <2>3. \A q \in {2, 5, 10, 11, 12} : Sound(s[q], 0) /\ s[q].id = q - 1
    BY <2>1, SoundSaying DEF Title, Claim, Makes
  <2> QED BY <2>2, <2>3
<1> HIDE DEF s
<1>3. SoundDeck(s, 0)
  <2>1. \A q, j \in 1 .. 12 : q < j => s[q].id < s[j].id
    BY <1>2
  <2> QED BY <1>1, <1>2, <2>1, SoundList
<1>4. Paginated(Committed, s)
  BY <1>3, Numbering DEF SoundDeck, Committed, s
<1>5. \A q \in DOMAIN s : Committed[q].says \subseteq s[q].says /\ Renamed(Committed[q], s[q])
  BY <1>4 DEF Paginated, Renamed
<1> QED BY <1>3, <1>4, <1>5, SoundKept DEF Paginated

(* What make_power_deck.py writes is sound: its parts are, and share no    *)
(* slide.                                                                  *)
LEMMA SoundGenerated == SoundDeck(Generated, 0)
<1>1. SoundDeck(GeneratedOpening, 0) /\ IdsIn(GeneratedOpening, 0 .. 2)
  <2> DEFINE s == GeneratedOpening
             t == [Plain(1, "TwoQuestions") EXCEPT !.own = {"overreports"}]
  <2>1. /\ DOMAIN s = 1 .. 3 /\ s = [q \in 1 .. 3 |-> s[q]]
        /\ s[1] = Plain(0, "Counts") /\ s[2] = t /\ s[3] = Plain(2, "WhatWeDid")
    BY DEF GeneratedOpening
  <2>2. Sound(t, 0) /\ t.id = 1
    <3> DEFINE p == Plain(1, "TwoQuestions")
    <3>1. Sound(p, 0) /\ p.id = 1
      BY SoundPlain, TitleNames
    <3> HIDE DEF p
    <3>2. t = [p EXCEPT !.own = {"overreports"}]
      BY DEF p
    <3> HIDE DEF t
    <3> QED BY <3>1, <3>2 DEF Sound, Slide, Claim
  <2> HIDE DEF s, t
  <2>3. \A q \in {1, 3} : Sound(s[q], 0) /\ s[q].id = q - 1
    BY <2>1, SoundPlain, TitleNames
  <2>4. \A q \in 1 .. 3 : Sound(s[q], 0) /\ s[q].id = q - 1
    BY <2>1, <2>2, <2>3
  <2>5. \A q, j \in 1 .. 3 : q < j => s[q].id < s[j].id
    BY <2>4
  <2>6. SoundDeck(s, 0)
    BY <2>1, <2>4, <2>5, SoundList
  <2> QED BY <2>1, <2>4, <2>6 DEF IdsIn, s
<1>2. SoundDeck(GeneratedPart1, 0) /\ IdsIn(GeneratedPart1, 3 .. 4)
  <2> DEFINE s == GeneratedPart1
  <2>1. /\ DOMAIN s = 1 .. 2 /\ s = [q \in 1 .. 2 |-> s[q]]
        /\ s[1] = Plain(3, "SeesWork") /\ s[2] = Saying(4, "SeesNot", {"overreports"})
    BY DEF GeneratedPart1
  <2> HIDE DEF s
  <2>2. Sound(s[1], 0) /\ s[1].id = 3
    BY <2>1, SoundPlain, TitleNames
  <2>3. Sound(s[2], 0) /\ s[2].id = 4
    BY <2>1, SoundSaying DEF Title, Claim, Makes
  <2>4. \A q \in 1 .. 2 : Sound(s[q], 0) /\ s[q].id = q + 2
    BY <2>2, <2>3
  <2>5. \A q, j \in 1 .. 2 : q < j => s[q].id < s[j].id
    BY <2>4
  <2>6. SoundDeck(s, 0)
    BY <2>1, <2>4, <2>5, SoundList
  <2> QED BY <2>1, <2>4, <2>6 DEF IdsIn, s
<1>3. SoundDeck(GeneratedPart2, 0) /\ IdsIn(GeneratedPart2, 5 .. 8)
  <2> DEFINE s == GeneratedPart2
  <2>1. /\ DOMAIN s = 1 .. 4 /\ s = [q \in 1 .. 4 |-> s[q]]
        /\ s[1] = Plain(5, "Models") /\ s[2] = Plain(6, "Finding")
        /\ s[3] = Plain(7, "BlindTest") /\ s[4] = Plain(8, "AllFifty")
    BY DEF GeneratedPart2
  <2> HIDE DEF s
  <2>4. \A q \in 1 .. 4 : Sound(s[q], 0) /\ s[q].id = q + 4
    BY <2>1, SoundPlain, TitleNames
  <2>5. \A q, j \in 1 .. 4 : q < j => s[q].id < s[j].id
    BY <2>4
  <2>6. SoundDeck(s, 0)
    BY <2>1, <2>4, <2>5, SoundList
  <2> QED BY <2>1, <2>4, <2>6 DEF IdsIn, s
<1>4. SoundDeck(GeneratedMixes, 0) /\ IdsIn(GeneratedMixes, 9 .. 9)
  <2> DEFINE s == GeneratedMixes
  <2>1. /\ DOMAIN s = 1 .. 1 /\ s = [q \in 1 .. 1 |-> s[q]]
        /\ s[1] = Saying(9, "RealisticEdge", {"inference", "overreports"})
    BY DEF GeneratedMixes
  <2> HIDE DEF s
  <2>4. \A q \in 1 .. 1 : Sound(s[q], 0) /\ s[q].id = 9
    BY <2>1, SoundSaying DEF Title, Claim, Makes
  <2>6. SoundDeck(s, 0)
    <3>1. \A q, j \in 1 .. 1 : ~ (q < j)
      OBVIOUS
    <3> QED BY <2>1, <2>4, <3>1, SoundList
  <2> QED BY <2>1, <2>4, <2>6 DEF IdsIn, s
<1>5. SoundDeck(GeneratedClosing, 0) /\ IdsIn(GeneratedClosing, 10 .. 23)
  <2> DEFINE s == GeneratedClosing
  <2>1. /\ DOMAIN s = 1 .. 4 /\ s = [q \in 1 .. 4 |-> s[q]]
        /\ s[1] = Saying(10, "Licenses", {"overreports"}) /\ s[2] = Plain(22, "Anatomy")
        /\ s[3] = Plain(23, "Replaces") /\ s[4] = Plain(11, "Means")
    BY DEF GeneratedClosing
  <2> HIDE DEF s
  <2>2. Sound(s[1], 0) /\ s[1].id = 10
    BY <2>1, SoundSaying DEF Title, Claim, Makes
  <2>3. Sound(s[2], 0) /\ s[2].id = 22 /\ Sound(s[3], 0) /\ s[3].id = 23
        /\ Sound(s[4], 0) /\ s[4].id = 11
    <3>1. Sound(s[4], 0) /\ s[4].id = 11
      BY <2>1, SoundPlain, TitleNames
    <3> QED BY <2>1, <3>1, SoundAdded
  <2>4. s \in Seq(Slide) /\ \A q \in DOMAIN s : Sound(s[q], 0)
    <3>1. s \in [1 .. 4 -> Slide]
      BY <2>1, <2>2, <2>3 DEF Sound
    <3> QED BY <2>1, <2>2, <2>3, <3>1, Spans
  <2>5. Distinct(s)
    BY <2>1, <2>2, <2>3 DEF Distinct
  <2> QED BY <2>1, <2>2, <2>3, <2>4, <2>5 DEF SoundDeck, IdsIn, s
<1>6. SoundDeck(GeneratedSlides, 0)
  <2>1. /\ SoundDeck(GeneratedOpening \o GeneratedPart1, 0)
        /\ IdsIn(GeneratedOpening \o GeneratedPart1, (0 .. 2) \cup (3 .. 4))
    <3>1. (0 .. 2) \cap (3 .. 4) = {}
      OBVIOUS
    <3> QED BY <1>1, <1>2, <3>1, SoundJoined
  <2> DEFINE a == GeneratedOpening \o GeneratedPart1
  <2> HIDE DEF a
  <2>2. IdsIn(a, 0 .. 4)
    BY <2>1 DEF IdsIn, a
  <2>3. SoundDeck(a \o GeneratedPart2, 0) /\ IdsIn(a \o GeneratedPart2, (0 .. 4) \cup (5 .. 8))
    <3>1. (0 .. 4) \cap (5 .. 8) = {}
      OBVIOUS
    <3> QED BY <1>3, <2>1, <2>2, <3>1, SoundJoined DEF a
  <2> DEFINE b == a \o GeneratedPart2
  <2> HIDE DEF b
  <2>4. IdsIn(b, 0 .. 8)
    BY <2>3 DEF IdsIn, b
  <2>5. SoundDeck(b \o GeneratedMixes, 0) /\ IdsIn(b \o GeneratedMixes, (0 .. 8) \cup (9 .. 9))
    <3>1. (0 .. 8) \cap (9 .. 9) = {}
      OBVIOUS
    <3> QED BY <1>4, <2>3, <2>4, <3>1, SoundJoined DEF b
  <2> DEFINE c == b \o GeneratedMixes
  <2> HIDE DEF c
  <2>6. IdsIn(c, 0 .. 9)
    BY <2>5 DEF IdsIn, c
  <2>7. SoundDeck(c \o GeneratedClosing, 0)
    <3>1. (0 .. 9) \cap (10 .. 23) = {}
      OBVIOUS
    <3> QED BY <1>5, <2>5, <2>6, <3>1, SoundJoined DEF c
  <2>8. GeneratedSlides = c \o GeneratedClosing
    BY Zenon DEF GeneratedSlides, a, b, c
  <2> QED BY <2>7, <2>8
<1> DEFINE s == GeneratedSlides
<1> HIDE DEF s
<1>7. Paginated(Generated, s)
  BY <1>6, Numbering DEF SoundDeck, Generated, s
<1>8. \A q \in DOMAIN s : Generated[q].says \subseteq s[q].says /\ Renamed(Generated[q], s[q])
  BY <1>7 DEF Paginated, Renamed
<1> QED BY <1>6, <1>7, <1>8, SoundKept DEF Paginated, s

-----------------------------------------------------------------------------
(* Every step leaves sound presentations.                                  *)
LEMMA SoundFromStart ==
  ASSUME NEW s, SoundDeck(s, 0), NEW e \in Nat
  PROVE  SoundDeck(s, e)
<1>1. ASSUME NEW t, Sound(t, 0)
      PROVE  Sound(t, e)
  <2>1. t.id \in Nat
    BY <1>1 DEF Sound, Slide
  <2> QED BY <1>1, <2>1 DEF Sound
<1> QED BY <1>1 DEF SoundDeck

(* A file that is not there yet is sound. *)
LEMMA SoundNone == \A e : SoundDeck(<<>>, e)
<1>1. <<>> \in Seq(Slide) /\ DOMAIN <<>> = {}
  OBVIOUS
<1> QED BY <1>1 DEF SoundDeck, Distinct

(* The presentation after a delta that changes slides in their places: it  *)
(* is enough to look at the claims and at the two titles that change.      *)
InPlace(t, s) ==
  /\ Alike(t, s)
  /\ \A q \in DOMAIN s :
       /\ q - 1 \notin Touched => t[q] = s[q]
       /\ \/ t[q].title = s[q].title
          \/ /\ q \in {5, 10}
             /\ t[q].title \in {"Bandwidth", "SeveralReal", "SeveralApps"}

(* A delta that edits slides in place keeps EditInv: what is left to show  *)
(* is what it makes of the titles and claims.                              *)
LEMMA Editing ==
  ASSUME SlidesInv, EditInv, Running, Running', source' = source, Len(source) > 11,
         Added' = Added, delta' # "precise", InPlace(prs', prs), Worded'
  PROVE  EditInv'
<1>1. /\ prs \in Seq(Slide) /\ source \in Seq(Slide) /\ prs' \in Seq(Slide)
      /\ Len(source) \in Nat /\ DOMAIN source = 1 .. Len(source)
      /\ Len(prs') = Len(prs) /\ Added \in Nat
  BY DEF SlidesInv, SoundDeck, InPlace, Alike, Added
<1>2. /\ Len(prs) = Len(source) + Added
      /\ \A j \in 1 .. Added : prs[Len(source) + j] = New(j)
      /\ \A q \in DOMAIN source : ComesFrom(prs[q], source[q], q)
  BY DEF EditInv
<1>3. DOMAIN prs = 1 .. Len(source) + Added
  BY <1>1, <1>2
<1>4. ASSUME NEW j \in 1 .. Added
      PROVE  prs'[Len(source) + j] = New(j)
  <2> DEFINE q == Len(source) + j
  <2>1. q \in DOMAIN prs /\ q - 1 \notin Touched
    BY <1>1, <1>3 DEF Touched
  <2>2. prs[q] = New(j)
    BY <1>2
  <2> HIDE DEF q
  <2>3. prs'[q] = prs[q]
    BY <2>1 DEF InPlace
  <2> QED BY <2>2, <2>3 DEF q
<1>5. ASSUME NEW q \in DOMAIN source
      PROVE  ComesFrom(prs'[q], source[q], q)
  <2>1. q \in DOMAIN prs /\ ComesFrom(prs[q], source[q], q)
    BY <1>1, <1>2, <1>3
  <2>2. prs'[q].id = prs[q].id
    BY <2>1 DEF InPlace, Alike
  <2> QED BY <2>1, <2>2 DEF InPlace, ComesFrom
<1>6. /\ Len(prs') = Len(source') + Added'
      /\ \A j \in 1 .. Added' : prs'[Len(source') + j] = New(j)
      /\ \A q \in DOMAIN source' : ComesFrom(prs'[q], source'[q], q)
  BY <1>1, <1>2, <1>4, <1>5
<1> QED BY <1>6 DEF EditInv

(* The presentation after a delta that adds a slide.                       *)
LEMMA Adding ==
  ASSUME SlidesInv, EditInv, Running, Running', source' = source, AfterPrecise,
         Added \in 0 .. 3, Added' = Added + 1, delta' # "precise",
         prs' = Append(prs, New(Added + 1)),
         AfterMixes' = AfterMixes, AfterRetire' = AfterRetire, \A q : Claims(q)' = Claims(q)
  PROVE  EditInv'
<1>1. /\ prs \in Seq(Slide) /\ source \in Seq(Slide) /\ New(Added + 1) \in Slide
      /\ Len(source) \in Nat /\ DOMAIN source = 1 .. Len(source)
  BY NewSlides DEF SlidesInv, SoundDeck
<1>2. /\ Len(prs) = Len(source) + Added /\ Len(source) > 11
      /\ \A j \in 1 .. Added : prs[Len(source) + j] = New(j)
  BY DEF EditInv
<1>3. /\ Len(prs') = Len(prs) + 1 /\ prs'[Len(prs) + 1] = New(Added + 1)
      /\ \A q \in 1 .. Len(prs) : prs'[q] = prs[q]
  BY <1>1
<1>4. \A q \in DOMAIN source : prs'[q] = prs[q]
  BY <1>1, <1>2, <1>3
<1>5. ASSUME NEW j \in 1 .. Added + 1
      PROVE  prs'[Len(source) + j] = New(j)
  <2>1. CASE j \in 1 .. Added
    <3>1. Len(source) + j \in 1 .. Len(prs)
      BY <1>1, <1>2, <2>1
    <3> QED BY <1>2, <1>3, <2>1, <3>1
  <2>2. CASE j = Added + 1
    <3>1. Len(source) + j = Len(prs) + 1
      BY <1>1, <1>2, <2>2
    <3> QED BY <1>3, <2>2, <3>1
  <2>3. j \in 1 .. Added \/ j = Added + 1
    OBVIOUS
  <2> QED BY <2>1, <2>2, <2>3
<1>6. (\A q \in DOMAIN source : ComesFrom(prs'[q], source[q], q)) /\ Worded'
  BY <1>4 DEF EditInv, Worded
<1>7. Len(prs') = Len(source') + Added'
  BY ONLY <1>1, <1>2, <1>3, Added \in 0 .. 3, Added' = Added + 1, source' = source
<1>8. \A j \in 1 .. Added' : prs'[Len(source') + j] = New(j)
  BY <1>5
<1> QED BY <1>2, <1>6, <1>7, <1>8 DEF EditInv

(* new_slide() adds the slides that EditInv expects, in their order.       *)
LEMMA NewAdded ==
  /\ NewSlide(22, "Anatomy") = Append(prs, New(1))
  /\ NewSlide(23, "Replaces") = Append(prs, New(2))
  /\ NewSlide(24, "Corner") = Append(prs, New(3))
  /\ NewSlide(25, "Flat") = Append(prs, New(4))
<1>1. /\ 21 + 1 = 22 /\ 21 + 2 = 23 /\ 21 + 3 = 24 /\ 21 + 4 = 25
      /\ NewTitles[1] = "Anatomy" /\ NewTitles[2] = "Replaces"
      /\ NewTitles[3] = "Corner" /\ NewTitles[4] = "Flat"
  BY DEF NewTitles
<1> QED BY <1>1, Zenon DEF New, NewSlide

(* They are sound. *)
LEMMA SoundNew ==
  ASSUME NEW j \in 1 .. 4, NEW e \in Nat
  PROVE  Sound(New(j), e) /\ New(j).id \in Inserted
<1>1. New(j) \in Slide /\ New(j).id = 21 + j /\ New(j).says = {} /\ New(j).title = NewTitles[j]
  BY NewSlides
<1>2. NewTitles[j] \in {"Anatomy", "Replaces", "Corner", "Flat"} /\ 21 + j \in Inserted /\ 21 + j < 30 + e
  BY DEF NewTitles, Inserted
<1> QED BY <1>1, <1>2 DEF Sound

(* A delta that cannot be done ends the program. *)
LEMMA Failing ==
  ASSUME SlidesInv, UNCHANGED <<files, edits, source>>, prs' = <<>>,
         delta' \in {"idle", "save"}
  PROVE  SlidesInv' /\ EditInv'
<1>1. SoundDeck(prs', edits') /\ ~ Running'
  BY SoundNone DEF Running
<1> QED BY <1>1 DEF SlidesInv, SoundDeck, Distinct, Sound, EditInv

(* A step of deck_edit.py that leaves a sound presentation in memory, and  *)
(* the files alone, keeps SlidesInv.                                       *)
LEMMA SoundStep ==
  ASSUME SlidesInv, UNCHANGED <<files, edits, source>>, NEW s, prs' = s, SoundDeck(s, edits)
  PROVE  SlidesInv'
  BY DEF SlidesInv, SoundDeck, Distinct, Sound

-----------------------------------------------------------------------------
(* The deltas that add a slide.                                            *)
LEMMA AnatomyKeeps == SlidesInv /\ EditInv /\ Anatomy => SlidesInv' /\ EditInv'
<1> SUFFICES ASSUME SlidesInv, EditInv, Anatomy
             PROVE  SlidesInv' /\ EditInv'
  OBVIOUS
<1>1. delta = "anatomy" /\ UNCHANGED <<files, edits, source>> /\ delta' = "replaces"
      /\ prs' = Append(prs, New(1))
  BY NewAdded DEF Anatomy, Delta
<1>2. SoundDeck(Append(prs, New(1)), edits)
  BY SoundAppended, SoundNew DEF SlidesInv
<1>3. /\ Running /\ Running' /\ AfterPrecise /\ Added = 0 /\ Added' = 1
      /\ AfterMixes' = AfterMixes /\ AfterRetire' = AfterRetire
      /\ \A q : Claims(q)' = Claims(q)
  BY <1>1 DEF Running, AfterPrecise, AfterRelabel, AfterMixes, AfterBandwidth, AfterRetire,
              Added, Claims
<1>4. SlidesInv'
  BY <1>1, <1>2, SoundStep
<1>5. EditInv'
  BY <1>1, <1>3, Adding
<1> QED BY <1>4, <1>5

(* Delta 3, which adds the second. *)
LEMMA WhatItReplacesKeeps == SlidesInv /\ EditInv /\ WhatItReplaces => SlidesInv' /\ EditInv'
<1> SUFFICES ASSUME SlidesInv, EditInv, WhatItReplaces
             PROVE  SlidesInv' /\ EditInv'
  OBVIOUS
<1>1. delta = "replaces" /\ UNCHANGED <<files, edits, source>> /\ delta' = "relabel"
      /\ prs' = Append(prs, New(2))
  BY NewAdded DEF WhatItReplaces, Delta
<1>2. SoundDeck(Append(prs, New(2)), edits)
  BY SoundAppended, SoundNew DEF SlidesInv
<1>3. /\ Running /\ Running' /\ AfterPrecise /\ Added = 1 /\ Added' = 2
      /\ AfterMixes' = AfterMixes /\ AfterRetire' = AfterRetire
      /\ \A q : Claims(q)' = Claims(q)
  BY <1>1 DEF Running, AfterPrecise, AfterRelabel, AfterMixes, AfterBandwidth, AfterRetire,
              Added, Claims
<1>4. SlidesInv'
  BY <1>1, <1>2, SoundStep
<1>5. EditInv'
  BY <1>1, <1>3, Adding
<1> QED BY <1>4, <1>5

(* Delta 10, which adds the third, or ends the program for want of         *)
(* results.                                                                *)
LEMMA CornerKeeps == SlidesInv /\ EditInv /\ Corner => SlidesInv' /\ EditInv'
<1> SUFFICES ASSUME SlidesInv, EditInv, Corner
             PROVE  SlidesInv' /\ EditInv'
  OBVIOUS
<1>0. CASE ~ (csv = "bandwidth")
  BY <1>0, Failing DEF Corner, Delta
<1> SUFFICES ASSUME csv = "bandwidth"
             PROVE  SlidesInv' /\ EditInv'
  BY <1>0
<1>1. delta = "corner" /\ UNCHANGED <<files, edits, source>> /\ delta' = "retire"
      /\ prs' = Append(prs, New(3))
  BY NewAdded DEF Corner, Delta
<1>2. SoundDeck(Append(prs, New(3)), edits)
  BY SoundAppended, SoundNew DEF SlidesInv
<1>3. /\ Running /\ Running' /\ AfterPrecise /\ Added = 2 /\ Added' = 3
      /\ AfterMixes' = AfterMixes /\ AfterRetire' = AfterRetire
      /\ \A q : Claims(q)' = Claims(q)
  BY <1>1 DEF Running, AfterPrecise, AfterRelabel, AfterMixes, AfterBandwidth, AfterRetire,
              Added, Claims
<1>4. SlidesInv'
  BY <1>1, <1>2, SoundStep
<1>5. EditInv'
  BY <1>1, <1>3, Adding
<1> QED BY <1>4, <1>5

(* Delta 12, which adds the fourth. *)
LEMMA AgainstFlatKeeps == SlidesInv /\ EditInv /\ AgainstFlat => SlidesInv' /\ EditInv'
<1> SUFFICES ASSUME SlidesInv, EditInv, AgainstFlat
             PROVE  SlidesInv' /\ EditInv'
  OBVIOUS
<1>1. delta = "flat" /\ UNCHANGED <<files, edits, source>> /\ delta' = "arrange"
      /\ prs' = Append(prs, New(4))
  BY NewAdded DEF AgainstFlat, Delta
<1>2. SoundDeck(Append(prs, New(4)), edits)
  BY SoundAppended, SoundNew DEF SlidesInv
<1>3. /\ Running /\ Running' /\ AfterPrecise /\ Added = 3 /\ Added' = 4
      /\ AfterMixes' = AfterMixes /\ AfterRetire' = AfterRetire
      /\ \A q : Claims(q)' = Claims(q)
  BY <1>1 DEF Running, AfterPrecise, AfterRelabel, AfterMixes, AfterBandwidth, AfterRetire,
              Added, Claims
<1>4. SlidesInv'
  BY <1>1, <1>2, SoundStep
<1>5. EditInv'
  BY <1>1, <1>3, Adding
<1> QED BY <1>4, <1>5

-----------------------------------------------------------------------------
(* The deltas that change slides in their places.                          *)
LEMMA SoundChanged ==
  ASSUME NEW e \in Nat, NEW s, SoundDeck(s, e), NEW t, NEW k \in Nat
  PROVE  /\ \A gone : Reworded(t, s, k, gone) => SoundDeck(t, e)
         /\ Tabled(t, s, k) => SoundDeck(t, e)
         /\ \A old \in {"SeesNot", "Edge", "SeveralReal"},
               new \in {"Bandwidth", "SeveralReal", "SeveralApps"} :
              Retitled(t, s, k, old, new) => SoundDeck(t, e)
<1>1. ASSUME NEW gone, Reworded(t, s, k, gone)
      PROVE  SoundDeck(t, e)
  <2>1. Alike(t, s) /\ \A q \in DOMAIN s : t[q].says \subseteq s[q].says /\ Renamed(t[q], s[q])
    BY <1>1 DEF Reworded, Renamed
  <2> QED BY <2>1, SoundKept
<1>2. ASSUME Tabled(t, s, k)
      PROVE  SoundDeck(t, e)
  <2>1. Alike(t, s) /\ \A q \in DOMAIN s : t[q].says \subseteq s[q].says /\ Renamed(t[q], s[q])
    BY <1>2 DEF Tabled, Renamed
  <2> QED BY <2>1, SoundKept
<1>3. ASSUME NEW old \in {"SeesNot", "Edge", "SeveralReal"},
             NEW new \in {"Bandwidth", "SeveralReal", "SeveralApps"}, Retitled(t, s, k, old, new)
      PROVE  SoundDeck(t, e)
  <2>1. Alike(t, s) /\ \A q \in DOMAIN s : t[q].says \subseteq s[q].says /\ Renamed(t[q], s[q])
    BY <1>3 DEF Retitled, Renamed
  <2> QED BY <2>1, SoundKept
<1> QED BY <1>1, <1>2, <1>3

(* Changes in place, one after the other, are changes in place. *)
LEMMA AlikeChain ==
  ASSUME NEW s, NEW t, NEW u, s \in Seq(Slide), Alike(t, s), Alike(u, t)
  PROVE  Alike(u, s) /\ DOMAIN t = DOMAIN s
<1>1. DOMAIN s = 1 .. Len(s) /\ DOMAIN t = 1 .. Len(t) /\ Len(t) = Len(s)
  BY DEF Alike
<1> QED BY <1>1 DEF Alike

(* The positions that were written for a slide. *)
LEMMA Homes ==
  ASSUME NEW s \in Seq(Slide), NEW q \in DOMAIN s, s[q].title \in Home(q - 1)
  PROVE  q \in {2, 5, 10, 11, 12}
<1>1. q \in Nat /\ q > 0
  OBVIOUS
<1>2. q - 1 \in {1, 4, 9, 10, 11}
  BY DEF Home
<1> QED BY <1>1, <1>2

(* The positions that no delta changes are none of these. *)
LEMMA Untouched ==
  ASSUME NEW s \in Seq(Slide), NEW q \in DOMAIN s, q - 1 \notin Touched
  PROVE  q \notin {2, 5, 9, 10, 11, 12}
  BY DEF Touched

(* Each change at a position the deltas touch is one in place. *)
LEMMA InPlaceEach ==
  ASSUME NEW s \in Seq(Slide), NEW t, NEW k \in {2, 5, 9, 10, 11, 12}
  PROVE  /\ \A gone : Reworded(t, s, k, gone) => InPlace(t, s)
         /\ Tabled(t, s, k) => InPlace(t, s)
         /\ \A old, new : /\ k \in {5, 10} /\ new \in {"Bandwidth", "SeveralReal", "SeveralApps"}
                          /\ Retitled(t, s, k, old, new)
                          => InPlace(t, s)
<1>1. \A q \in DOMAIN s : q - 1 \notin Touched => q # k
  BY Untouched
<1> QED BY <1>1 DEF Reworded, Tabled, Retitled, InPlace

(* So are two of them in a row. *)
LEMMA InPlaceChain ==
  ASSUME NEW s \in Seq(Slide), NEW t, NEW u, InPlace(t, s), InPlace(u, t)
  PROVE  InPlace(u, s) /\ DOMAIN t = DOMAIN s
<1>1. Alike(u, s) /\ DOMAIN t = DOMAIN s
  BY AlikeChain DEF InPlace
<1>2. ASSUME NEW q \in DOMAIN s
      PROVE  /\ q - 1 \notin Touched => u[q] = s[q]
             /\ \/ u[q].title = s[q].title
                \/ /\ q \in {5, 10}
                   /\ u[q].title \in {"Bandwidth", "SeveralReal", "SeveralApps"}
  BY <1>1 DEF InPlace
<1> QED BY <1>1, <1>2 DEF InPlace

(* The titles that the deltas exchange are titles. *)
LEMMA TitleChanges ==
  {"SeesNot", "Edge", "SeveralReal", "Bandwidth", "SeveralReal", "SeveralApps"} \subseteq Title
  BY DEF Title

(* A slide of BASE in the presentation, before a delta. *)
LEMMA EditedSlide ==
  ASSUME SlidesInv, EditInv, Running, NEW q \in DOMAIN source
  PROVE  /\ q \in DOMAIN prs /\ prs[q].says \subseteq Makes(prs[q].title)
         /\ q \notin {5, 10} => prs[q].title = source[q].title
         /\ source[q].title \in Home(q - 1)
              => q \in {2, 5, 10, 11, 12} /\ prs[q].says \subseteq Claims(q)
         /\ q = 5 /\ source[q].title = "SeesNot"
              => prs[q].title = IF AfterRetire THEN "Bandwidth" ELSE "SeesNot"
         /\ q = 10 /\ source[q].title = "Edge"
              => prs[q].title = IF AfterMixes THEN "SeveralApps" ELSE "Edge"
<1>1. /\ prs \in Seq(Slide) /\ source \in Seq(Slide) /\ Len(source) \in Nat
      /\ DOMAIN source = 1 .. Len(source) /\ Added \in Nat
  BY DEF SlidesInv, SoundDeck, Added
<1>2. Len(prs) = Len(source) + Added /\ ComesFrom(prs[q], source[q], q) /\ Worded
  BY DEF EditInv
<1>3. q \in DOMAIN prs
  BY <1>1, <1>2
<1>4. prs[q].says \subseteq Makes(prs[q].title)
  BY <1>3 DEF SlidesInv, SoundDeck, Sound
<1>5. source[q].title \in Home(q - 1) => q \in {2, 5, 10, 11, 12}
  BY <1>1, Homes
<1> QED BY <1>2, <1>3, <1>4, <1>5 DEF ComesFrom, Worded

(* Delta 5: a table's rows renamed, and a claim replaced. *)
LEMMA RelabelKeeps == SlidesInv /\ EditInv /\ Relabel => SlidesInv' /\ EditInv'
<1> SUFFICES ASSUME SlidesInv, EditInv, Relabel
             PROVE  SlidesInv' /\ EditInv'
  OBVIOUS
<1> DEFINE possible == HasTable(9) /\ prs[10].table # "short"
<1>0. CASE ~ possible
  BY <1>0, Failing DEF Relabel, Delta
<1> SUFFICES ASSUME possible
             PROVE  SlidesInv' /\ EditInv'
  BY <1>0
<1> DEFINE t == [prs EXCEPT ![10].table = "relabelled"]
           u == Replace(t, 9, "inference")
<1>1. delta = "relabel" /\ UNCHANGED <<files, edits, source>> /\ delta' = "retitle" /\ prs' = u
  BY DEF Relabel, Delta
<1>2. /\ Running /\ Running' /\ Added' = Added /\ AfterPrecise /\ Len(source) > 11
      /\ ~ AfterMixes /\ ~ AfterMixes' /\ ~ AfterRetire /\ ~ AfterRetire'
      /\ \A q : Claims(q)' = IF q = 10 THEN {"overreports"} ELSE Claims(q)
      /\ Claims(10) = {"inference", "overreports"}
  BY <1>1 DEF Running, AfterPrecise, AfterRelabel, AfterMixes, AfterBandwidth, AfterRetire,
              Added, Claims, EditInv
<1>3. SoundDeck(prs, edits) /\ edits \in Nat /\ prs \in Seq(Slide)
  BY DEF SlidesInv, SoundDeck
<1>4. Tabled(t, prs, 10)
  BY <1>3, Tabling
<1> HIDE DEF t
<1>5. SoundDeck(t, edits) /\ t \in Seq(Slide) /\ InPlace(t, prs)
  BY <1>3, <1>4, SoundChanged, InPlaceEach DEF SoundDeck
<1>6. Reworded(u, t, 10, {"inference"})
  BY <1>5, Replacing
<1> HIDE DEF u
<1>7. SoundDeck(u, edits) /\ u \in Seq(Slide) /\ InPlace(u, t)
  BY <1>5, <1>3, <1>6, SoundChanged, InPlaceEach DEF SoundDeck
<1>8. InPlace(u, prs) /\ DOMAIN t = DOMAIN prs
  BY <1>3, <1>5, <1>7, InPlaceChain
<1>9. ASSUME NEW q \in DOMAIN source
      PROVE  /\ source[q].title \in Home(q - 1) => u[q].says \subseteq Claims(q)'
             /\ q = 5 /\ source[q].title = "SeesNot" => u[q].title = "SeesNot"
             /\ q = 10 /\ source[q].title = "Edge" => u[q].title = "Edge"
  <2>1. /\ u[q].title = prs[q].title
        /\ u[q].says = IF q = 10 THEN prs[q].says \ {"inference"} ELSE prs[q].says
    <3>1. q \in DOMAIN prs
      BY <1>2, EditedSlide
    <3>2. t[q].title = prs[q].title /\ t[q].says = prs[q].says
      BY <1>4, <3>1 DEF Tabled
    <3>3. /\ u[q].title = t[q].title
          /\ u[q].says = IF q = 10 THEN t[q].says \ {"inference"} ELSE t[q].says
      BY <1>6, <1>8, <3>1 DEF Reworded
    <3> QED BY <3>2, <3>3
  <2> QED BY <1>2, <2>1, EditedSlide
<1>10. EditInv'
  <2>1. Worded'
    BY <1>1, <1>2, <1>9 DEF Worded
  <2> QED BY <1>1, <1>2, <1>8, <2>1, Editing
<1> QED BY <1>1, <1>7, <1>10, SoundStep

(* Deltas 6 and 7: the slide of the mixes retitled, twice. *)
LEMMA RetitleMixesKeeps == SlidesInv /\ EditInv /\ RetitleMixes => SlidesInv' /\ EditInv'
<1> SUFFICES ASSUME SlidesInv, EditInv, RetitleMixes
             PROVE  SlidesInv' /\ EditInv'
  OBVIOUS
<1> DEFINE t == Retitle(prs, 9, "Edge", "SeveralReal")
           u == Retitle(t, 9, "SeveralReal", "SeveralApps")
<1>1. delta = "retitle" /\ UNCHANGED <<files, edits, source>> /\ delta' = "fifty" /\ prs' = u
  BY DEF RetitleMixes, Delta
<1>2. /\ Running /\ Running' /\ Added' = Added /\ AfterPrecise /\ Len(source) > 11
      /\ ~ AfterMixes /\ AfterMixes' /\ ~ AfterRetire /\ ~ AfterRetire'
      /\ \A q : Claims(q)' = Claims(q)
  BY <1>1 DEF Running, AfterPrecise, AfterRelabel, AfterMixes, AfterBandwidth, AfterRetire,
              Added, Claims, EditInv
<1>3. SoundDeck(prs, edits) /\ edits \in Nat /\ prs \in Seq(Slide)
  BY DEF SlidesInv, SoundDeck
<1>4. Retitled(t, prs, 10, "Edge", "SeveralReal")
  BY <1>3, Retitling, TitleChanges
<1> HIDE DEF t
<1>5. SoundDeck(t, edits) /\ t \in Seq(Slide) /\ InPlace(t, prs)
  BY <1>3, <1>4, SoundChanged, InPlaceEach DEF SoundDeck
<1>6. Retitled(u, t, 10, "SeveralReal", "SeveralApps")
  BY <1>5, Retitling, TitleChanges
<1> HIDE DEF u
<1>7. SoundDeck(u, edits) /\ u \in Seq(Slide) /\ InPlace(u, t)
  BY <1>5, <1>3, <1>6, SoundChanged, InPlaceEach DEF SoundDeck
<1>8. InPlace(u, prs) /\ DOMAIN t = DOMAIN prs
  BY <1>3, <1>5, <1>7, InPlaceChain
<1>9. ASSUME NEW q \in DOMAIN source
      PROVE  /\ source[q].title \in Home(q - 1) => u[q].says \subseteq Claims(q)'
             /\ q = 5 /\ source[q].title = "SeesNot" => u[q].title = "SeesNot"
             /\ q = 10 /\ source[q].title = "Edge" => u[q].title = "SeveralApps"
  <2>1. /\ q # 10 => u[q].title = prs[q].title
        /\ q = 10 /\ prs[q].title = "Edge" => u[q].title = "SeveralApps"
        /\ u[q].says = prs[q].says
    BY <1>4, <1>6, <1>8, EditedSlide, <1>2 DEF Tabled, Reworded, Retitled
  <2> QED BY <1>2, <2>1, EditedSlide
<1>10. EditInv'
  <2>1. Worded'
    BY <1>1, <1>2, <1>9 DEF Worded
  <2> QED BY <1>1, <1>2, <1>8, <2>1, Editing
<1> QED BY <1>1, <1>7, <1>10, SoundStep

(* Delta 8: the table per application, which needs the reads' column.      *)
LEMMA PerAppKeeps == SlidesInv /\ EditInv /\ PerApp => SlidesInv' /\ EditInv'
<1> SUFFICES ASSUME SlidesInv, EditInv, PerApp
             PROVE  SlidesInv' /\ EditInv'
  OBVIOUS
<1>0. CASE ~ (csv # "combined")
  BY <1>0, Failing DEF PerApp, Delta
<1> SUFFICES ASSUME csv # "combined"
             PROVE  SlidesInv' /\ EditInv'
  BY <1>0
<1> DEFINE t == [prs EXCEPT ![9].table = "perApp"]
<1>1. delta = "fifty" /\ UNCHANGED <<files, edits, source>> /\ delta' = "bandwidth" /\ prs' = t
  BY DEF PerApp, Delta
<1>2. /\ Running /\ Running' /\ Added' = Added /\ AfterPrecise /\ Len(source) > 11
      /\ AfterMixes /\ AfterMixes' /\ ~ AfterRetire /\ ~ AfterRetire'
      /\ \A q : Claims(q)' = Claims(q)
  BY <1>1 DEF Running, AfterPrecise, AfterRelabel, AfterMixes, AfterBandwidth, AfterRetire,
              Added, Claims, EditInv
<1>3. SoundDeck(prs, edits) /\ edits \in Nat /\ prs \in Seq(Slide)
  BY DEF SlidesInv, SoundDeck
<1>4. Tabled(t, prs, 9)
  BY <1>3, Tabling
<1> HIDE DEF t
<1>5. SoundDeck(t, edits) /\ t \in Seq(Slide) /\ InPlace(t, prs)
  BY <1>3, <1>4, SoundChanged, InPlaceEach DEF SoundDeck
<1>6. ASSUME NEW q \in DOMAIN source
      PROVE  /\ source[q].title \in Home(q - 1) => t[q].says \subseteq Claims(q)'
             /\ q = 5 /\ source[q].title = "SeesNot" => t[q].title = "SeesNot"
             /\ q = 10 /\ source[q].title = "Edge" => t[q].title = "SeveralApps"
  <2>1. t[q].title = prs[q].title /\ t[q].says = prs[q].says
    BY <1>4, <1>5, EditedSlide, <1>2 DEF Tabled, Reworded, Retitled
  <2> QED BY <1>2, <2>1, EditedSlide
<1>7. EditInv'
  <2>1. Worded'
    BY <1>1, <1>2, <1>6 DEF Worded
  <2> QED BY <1>1, <1>2, <1>5, <2>1, Editing
<1> QED BY <1>1, <1>5, <1>7, SoundStep

(* Delta 9: the bandwidth slide's claim and table replaced. *)
LEMMA BandwidthKeeps == SlidesInv /\ EditInv /\ Bandwidth => SlidesInv' /\ EditInv'
<1> SUFFICES ASSUME SlidesInv, EditInv, Bandwidth
             PROVE  SlidesInv' /\ EditInv'
  OBVIOUS
<1> DEFINE t == [prs EXCEPT ![5].table = "reads"]
           u == Replace(t, 4, "overreports")
<1>1. delta = "bandwidth" /\ UNCHANGED <<files, edits, source>> /\ delta' = "corner" /\ prs' = u
  BY DEF Bandwidth, Delta
<1>2. /\ Running /\ Running' /\ Added' = Added /\ AfterPrecise /\ Len(source) > 11
      /\ AfterMixes /\ AfterMixes' /\ ~ AfterRetire /\ ~ AfterRetire'
      /\ \A q : Claims(q)' = IF q = 5 THEN {} ELSE Claims(q)
  BY <1>1 DEF Running, AfterPrecise, AfterRelabel, AfterMixes, AfterBandwidth, AfterRetire,
              Added, Claims, EditInv
<1>3. SoundDeck(prs, edits) /\ edits \in Nat /\ prs \in Seq(Slide)
  BY DEF SlidesInv, SoundDeck
<1>4. Tabled(t, prs, 5)
  BY <1>3, Tabling
<1> HIDE DEF t
<1>5. SoundDeck(t, edits) /\ t \in Seq(Slide) /\ InPlace(t, prs)
  BY <1>3, <1>4, SoundChanged, InPlaceEach DEF SoundDeck
<1>6. Reworded(u, t, 5, {"overreports"})
  BY <1>5, Replacing
<1> HIDE DEF u
<1>7. SoundDeck(u, edits) /\ u \in Seq(Slide) /\ InPlace(u, t)
  BY <1>5, <1>3, <1>6, SoundChanged, InPlaceEach DEF SoundDeck
<1>8. InPlace(u, prs) /\ DOMAIN t = DOMAIN prs
  BY <1>3, <1>5, <1>7, InPlaceChain
<1>9. ASSUME NEW q \in DOMAIN source
      PROVE  /\ source[q].title \in Home(q - 1) => u[q].says \subseteq Claims(q)'
             /\ q = 5 /\ source[q].title = "SeesNot" => u[q].title = "SeesNot"
             /\ q = 10 /\ source[q].title = "Edge" => u[q].title = "SeveralApps"
  <2>1. /\ u[q].title = prs[q].title
        /\ u[q].says = IF q = 5 THEN prs[q].says \ {"overreports"} ELSE prs[q].says
    <3>1. q \in DOMAIN prs
      BY <1>2, EditedSlide
    <3>2. t[q].title = prs[q].title /\ t[q].says = prs[q].says
      BY <1>4, <3>1 DEF Tabled
    <3>3. /\ u[q].title = t[q].title
          /\ u[q].says = IF q = 5 THEN t[q].says \ {"overreports"} ELSE t[q].says
      BY <1>6, <1>8, <3>1 DEF Reworded
    <3> QED BY <3>2, <3>3
  <2>2. q = 5 /\ source[q].title \in Home(q - 1) => prs[q].says \subseteq {"overreports"}
    <3>1. q = 5 /\ source[q].title \in Home(q - 1) => source[q].title = "SeesNot"
      BY DEF Home
    <3>2. Makes("SeesNot") = {"overreports"}
      BY DEF Makes
    <3> QED BY <1>2, <3>1, <3>2, EditedSlide
  <2> QED BY <1>2, <2>1, <2>2, EditedSlide
<1>10. EditInv'
  <2>1. Worded'
    BY <1>1, <1>2, <1>9 DEF Worded
  <2> QED BY <1>1, <1>2, <1>8, <2>1, Editing
<1> QED BY <1>1, <1>7, <1>10, SoundStep

(* Delta 11: the last claims retired, and the bandwidth slide retitled.    *)
LEMMA RetireKeeps == SlidesInv /\ EditInv /\ Retire => SlidesInv' /\ EditInv'
<1> SUFFICES ASSUME SlidesInv, EditInv, Retire
             PROVE  SlidesInv' /\ EditInv'
  OBVIOUS
<1>0. CASE ~ (HasTable(10))
  BY <1>0, Failing DEF Retire, Delta
<1> SUFFICES ASSUME HasTable(10)
             PROVE  SlidesInv' /\ EditInv'
  BY <1>0
<1> DEFINE t == Replace(prs, 1, "overreports")
           u == RetireVerdicts(t)
           v == Replace(u, 9, "overreports")
           w == Retitle(v, 4, "SeesNot", "Bandwidth")
<1>1. delta = "retire" /\ UNCHANGED <<files, edits, source>> /\ delta' = "flat" /\ prs' = w
  BY DEF Retire, Delta
<1>2. /\ Running /\ Running' /\ Added' = Added /\ AfterPrecise /\ Len(source) > 11
      /\ AfterMixes /\ AfterMixes' /\ ~ AfterRetire /\ AfterRetire'
      /\ \A q : Claims(q)' = IF q \in {2, 10, 11} THEN {} ELSE Claims(q)
      /\ Claims(2) = {"overreports"} /\ Claims(10) = {"overreports"}
  BY <1>1 DEF Running, AfterPrecise, AfterRelabel, AfterMixes, AfterBandwidth, AfterRetire,
              Added, Claims, EditInv
<1>3. SoundDeck(prs, edits) /\ edits \in Nat /\ prs \in Seq(Slide)
  BY DEF SlidesInv, SoundDeck
<1>4. Reworded(t, prs, 2, {"overreports"})
  BY <1>3, Replacing
<1> HIDE DEF t
<1>5. SoundDeck(t, edits) /\ t \in Seq(Slide) /\ InPlace(t, prs)
  BY <1>3, <1>4, SoundChanged, InPlaceEach DEF SoundDeck
<1>6. Reworded(u, t, 11, IF t[11].title = "Licenses" THEN {"overreports"} ELSE {})
  BY <1>5, RetiringVerdicts
<1> HIDE DEF u
<1>7. SoundDeck(u, edits) /\ u \in Seq(Slide) /\ InPlace(u, t)
  BY <1>5, <1>3, <1>6, SoundChanged, InPlaceEach DEF SoundDeck
<1>8. Reworded(v, u, 10, {"overreports"})
  BY <1>7, Replacing
<1> HIDE DEF v
<1>9. SoundDeck(v, edits) /\ v \in Seq(Slide) /\ InPlace(v, u)
  BY <1>7, <1>3, <1>8, SoundChanged, InPlaceEach DEF SoundDeck
<1>10. Retitled(w, v, 5, "SeesNot", "Bandwidth")
  BY <1>9, Retitling, TitleChanges
<1> HIDE DEF w
<1>11. SoundDeck(w, edits) /\ w \in Seq(Slide) /\ InPlace(w, v)
  BY <1>9, <1>3, <1>10, SoundChanged, InPlaceEach DEF SoundDeck
<1>12. InPlace(w, prs) /\ DOMAIN t = DOMAIN prs /\ DOMAIN u = DOMAIN prs /\ DOMAIN v = DOMAIN prs
  <2>1. InPlace(u, prs) /\ DOMAIN t = DOMAIN prs
    BY <1>3, <1>5, <1>7, InPlaceChain
  <2>2. InPlace(v, prs) /\ DOMAIN u = DOMAIN prs
    BY <1>3, <2>1, <1>9, InPlaceChain
  <2>3. InPlace(w, prs) /\ DOMAIN v = DOMAIN prs
    BY <1>3, <2>2, <1>11, InPlaceChain
  <2> QED BY <2>1, <2>2, <2>3
<1>13. ASSUME NEW q \in DOMAIN source
      PROVE  /\ source[q].title \in Home(q - 1) => w[q].says \subseteq Claims(q)'
             /\ q = 5 /\ source[q].title = "SeesNot" => w[q].title = "Bandwidth"
             /\ q = 10 /\ source[q].title = "Edge" => w[q].title = "SeveralApps"
  <2>1. q \in DOMAIN prs
    BY <1>2, EditedSlide
  <2>2. /\ t[q].title = prs[q].title
        /\ t[q].says = IF q = 2 THEN prs[q].says \ {"overreports"} ELSE prs[q].says
    BY <1>4, <2>1 DEF Reworded
  <2>3. /\ u[q].title = t[q].title /\ u[q].says \subseteq t[q].says
        /\ q = 11 /\ t[q].title = "Licenses" => u[q].says = t[q].says \ {"overreports"}
    BY <1>6, <1>12, <2>1 DEF Reworded
  <2>4. /\ v[q].title = u[q].title
        /\ v[q].says = IF q = 10 THEN u[q].says \ {"overreports"} ELSE u[q].says
    BY <1>8, <1>12, <2>1 DEF Reworded
  <2>5. /\ w[q].says = v[q].says
        /\ w[q].title = IF q = 5 /\ v[q].title = "SeesNot" THEN "Bandwidth" ELSE v[q].title
    BY <1>10, <1>12, <2>1 DEF Retitled
  <2>6. q = 11 /\ source[q].title \in Home(q - 1)
          => prs[q].title = "Licenses" /\ prs[q].says \subseteq {"overreports"}
    <3>1. q = 11 /\ source[q].title \in Home(q - 1) => source[q].title = "Licenses"
      BY DEF Home
    <3>2. Makes("Licenses") = {"overreports"}
      BY DEF Makes
    <3> QED BY <1>2, <3>1, <3>2, EditedSlide
  <2>7. /\ w[q].says \subseteq prs[q].says
        /\ q \in {2, 10} => w[q].says \subseteq prs[q].says \ {"overreports"}
        /\ q = 11 /\ prs[q].title = "Licenses" => w[q].says \subseteq prs[q].says \ {"overreports"}
    BY <2>2, <2>3, <2>4, <2>5
  <2>8. /\ q = 5 /\ prs[q].title = "SeesNot" => w[q].title = "Bandwidth"
        /\ q = 10 => w[q].title = prs[q].title
    BY <2>2, <2>3, <2>4, <2>5
  <2> QED BY <1>2, <2>6, <2>7, <2>8, EditedSlide
<1>14. EditInv'
  <2>1. Worded'
    BY <1>1, <1>2, <1>13 DEF Worded
  <2> QED BY <1>1, <1>2, <1>12, <2>1, Editing
<1> QED BY <1>1, <1>11, <1>14, SoundStep

(* Delta 1: the wording made precise on three slides, or the program ended *)
(* on a deck without the last of them.                                     *)
LEMMA PreciseKeeps == SlidesInv /\ EditInv /\ Precise => SlidesInv' /\ EditInv'
<1> SUFFICES ASSUME SlidesInv, EditInv, Precise
             PROVE  SlidesInv' /\ EditInv'
  OBVIOUS
<1>0. CASE ~ (Len(prs) > 11)
  BY <1>0, Failing DEF Precise, Delta
<1> SUFFICES ASSUME Len(prs) > 11
             PROVE  SlidesInv' /\ EditInv'
  BY <1>0
<1> DEFINE t == Replace(prs, 1, "alone")
           u == Replace(t, 9, "alone")
           v == Replace(u, 11, "estimated")
<1>1. delta = "precise" /\ UNCHANGED <<files, edits, source>> /\ delta' = "anatomy" /\ prs' = v
  BY DEF Precise, Delta
<1>2. /\ Running /\ Running' /\ Added' = Added /\ Len(source) > 11
      /\ ~ AfterMixes /\ ~ AfterMixes' /\ ~ AfterRetire /\ ~ AfterRetire' /\ prs = source
      /\ \A q : q \notin {2, 10, 12} => Claims(q)' = Claims(q)
      /\ Claims(2)' = {"overreports"} /\ Claims(10)' = {"inference", "overreports"}
  BY <1>1 DEF Running, AfterPrecise, AfterRelabel, AfterMixes, AfterBandwidth, AfterRetire,
              Added, Claims, EditInv
<1>3. SoundDeck(prs, edits) /\ edits \in Nat /\ prs \in Seq(Slide)
  BY DEF SlidesInv, SoundDeck
<1>4. Reworded(t, prs, 2, {"alone"})
  BY <1>3, Replacing
<1> HIDE DEF t
<1>5. SoundDeck(t, edits) /\ t \in Seq(Slide) /\ InPlace(t, prs)
  BY <1>3, <1>4, SoundChanged, InPlaceEach DEF SoundDeck
<1>6. Reworded(u, t, 10, {"alone"})
  BY <1>5, Replacing
<1> HIDE DEF u
<1>7. SoundDeck(u, edits) /\ u \in Seq(Slide) /\ InPlace(u, t)
  BY <1>5, <1>3, <1>6, SoundChanged, InPlaceEach DEF SoundDeck
<1>8. Reworded(v, u, 12, {"estimated"})
  BY <1>7, Replacing
<1> HIDE DEF v
<1>9. SoundDeck(v, edits) /\ v \in Seq(Slide) /\ InPlace(v, u)
  BY <1>7, <1>3, <1>8, SoundChanged, InPlaceEach DEF SoundDeck
<1>10. InPlace(v, prs) /\ DOMAIN t = DOMAIN prs /\ DOMAIN u = DOMAIN prs
  <2>1. InPlace(u, prs) /\ DOMAIN t = DOMAIN prs
    BY <1>3, <1>5, <1>7, InPlaceChain
  <2>2. InPlace(v, prs) /\ DOMAIN u = DOMAIN prs
    BY <1>3, <2>1, <1>9, InPlaceChain
  <2> QED BY <2>1, <2>2
<1>11. ASSUME NEW q \in DOMAIN source
      PROVE  /\ source[q].title \in Home(q - 1) => v[q].says \subseteq Claims(q)'
             /\ q = 5 /\ source[q].title = "SeesNot" => v[q].title = "SeesNot"
             /\ q = 10 /\ source[q].title = "Edge" => v[q].title = "Edge"
  <2>1. q \in DOMAIN prs
    BY <1>2, EditedSlide
  <2>2. /\ t[q].title = prs[q].title
        /\ t[q].says = IF q = 2 THEN prs[q].says \ {"alone"} ELSE prs[q].says
    BY <1>4, <2>1 DEF Reworded
  <2>3. /\ u[q].title = t[q].title
        /\ u[q].says = IF q = 10 THEN t[q].says \ {"alone"} ELSE t[q].says
    BY <1>6, <1>10, <2>1 DEF Reworded
  <2>4. /\ v[q].title = u[q].title
        /\ v[q].says = IF q = 12 THEN u[q].says \ {"estimated"} ELSE u[q].says
    BY <1>8, <1>10, <2>1 DEF Reworded
  <2>5. /\ v[q].says \subseteq prs[q].says /\ v[q].title = prs[q].title
        /\ q \in {2, 10} => v[q].says \subseteq prs[q].says \ {"alone"}
        /\ q = 12 => v[q].says \subseteq prs[q].says \ {"estimated"}
    BY <2>2, <2>3, <2>4
  <2>6. source[q].title \in Home(q - 1) =>
          /\ q = 2 => prs[q].says \subseteq {"alone", "overreports"}
          /\ q = 10 => prs[q].says \subseteq {"alone", "inference", "overreports"}
          /\ q = 12 => prs[q].says \subseteq {"estimated"}
    <3>1. source[q].title \in Home(q - 1) =>
            /\ q = 2 => source[q].title = "TwoQuestions"
            /\ q = 10 => source[q].title \in {"Edge", "RealisticEdge"}
            /\ q = 12 => source[q].title = "Means"
      BY DEF Home
    <3>2. /\ Makes("TwoQuestions") = {"alone", "overreports"}
          /\ Makes("Edge") = {"alone", "inference", "overreports"}
          /\ Makes("RealisticEdge") = {"alone", "inference", "overreports"}
          /\ Makes("Means") = {"estimated"}
      BY DEF Makes
    <3>3. prs[q].says \subseteq Makes(source[q].title)
      BY <1>2, EditedSlide
    <3> QED BY <3>1, <3>2, <3>3
  <2> QED BY <1>2, <2>5, <2>6, EditedSlide
<1>12. EditInv'
  <2>1. Worded'
    BY <1>1, <1>2, <1>11 DEF Worded
  <2> QED BY <1>1, <1>2, <1>10, <2>1, Editing
<1> QED BY <1>1, <1>9, <1>12, SoundStep

-----------------------------------------------------------------------------
(* The invariant.                                                          *)
Bounds ==
  /\ csv \in {"combined", "split", "bandwidth"} /\ edits <= MaxEdits
  /\ deckIs \in {"none", "torn", "copy", "edit", "hand"}

DeckInv == SlidesInv /\ EditInv /\ FinishedInv /\ Bounds

(* The repository as committed, and as it was before, satisfies DeckInv.   *)
LEMMA DeckStart == DeckInit => DeckInv
<1> SUFFICES ASSUME DeckInit
             PROVE  DeckInv
  OBVIOUS
<1>1. delta = "idle" /\ prs = <<>> /\ edits = 0 /\ source = <<>> /\ deckIs = "none"
      /\ csv \in {"combined", "split", "bandwidth"}
  BY DEF DeckInit
<1>2. SoundDeck(<<>>, 0) /\ SoundDeck(Committed, 0)
  BY SoundNone, SoundCommitted
<1>3. DOMAIN files = File /\ \A f \in File : files[f] \in {<<>>, Committed}
  BY DEF DeckInit
<1>4. files = [f \in File |-> files[f]]
  BY DEF DeckInit
<1>5. SlidesInv
  BY <1>1, <1>2, <1>3, <1>4 DEF SlidesInv, SoundDeck
<1>6. EditInv /\ FinishedInv
  BY <1>1 DEF EditInv, Running, FinishedInv, Edited
<1>7. Bounds
  BY <1>1, PowerDeckAssumption DEF Bounds
<1> QED BY <1>5, <1>6, <1>7 DEF DeckInv

(* Steps of the deltas leave what is finished, but for the last. *)
LEMMA FinishedKept ==
  ASSUME FinishedInv, UNCHANGED <<files, source, deckIs>>, delta' \notin {"copy", "saving"},
         delta' = "save" => FinishedDeck(prs', source)
  PROVE  FinishedInv'
<1>1. delta' \in {"save", "saving"} => FinishedDeck(prs', source')
  OBVIOUS
<1>2. Edited' = Edited /\ Deck' = Deck
  BY DEF Edited, Deck
<1>3. Edited' => FinishedDeck(Deck', source')
  BY <1>2 DEF FinishedInv
<1>4. /\ deckIs' = "copy" => Deck' = source'
      /\ deckIs' = "torn" => Deck' = <<>>
  BY <1>2 DEF FinishedInv
<1> QED BY <1>1, <1>3, <1>4 DEF FinishedInv

(* A step that leaves DECK alone, and does not finish an edit, keeps it.   *)
LEMMA OtherFile ==
  ASSUME FinishedInv, delta' = "idle" \/ UNCHANGED <<delta, prs, files["base"]>>,
         source' = source, deckIs' = deckIs, Deck' = Deck
  PROVE  FinishedInv'
<1>1. delta' \in {"save", "saving"} => FinishedDeck(prs', source')
  BY DEF FinishedInv
<1>2. Edited' => FinishedDeck(Deck', source')
  BY DEF FinishedInv, Edited
<1>3. /\ deckIs' = "copy" => Deck' = source'
      /\ deckIs' = "torn" => Deck' = <<>>
  BY DEF FinishedInv
<1>4. delta' = "copy" => source' = files'["base"]
  BY DEF FinishedInv
<1> QED BY <1>1, <1>2, <1>3, <1>4 DEF FinishedInv

(* A step that leaves the presentation in memory alone keeps EditInv.      *)
LEMMA EditUnmoved ==
  ASSUME EditInv, UNCHANGED <<delta, prs, source>>
  PROVE  EditInv'
<1>1. Running' = Running /\ AfterPrecise' = AfterPrecise /\ AfterMixes' = AfterMixes
      /\ AfterRetire' = AfterRetire /\ Added' = Added /\ \A k : Claims(k)' = Claims(k)
  BY DEF Running, AfterPrecise, AfterRelabel, AfterMixes, AfterBandwidth, AfterRetire, Added,
         Claims
<1>2. Worded' <=> Worded
  BY <1>1 DEF Worded
<1> QED BY <1>1, <1>2 DEF EditInv

(* A sound presentation saved by hand under any name keeps SlidesInv.      *)
LEMMA FileReplaced ==
  ASSUME SlidesInv, NEW f \in File, NEW s, SoundDeck(s, edits + 1),
         files' = [files EXCEPT ![f] = s], edits' = edits + 1, UNCHANGED <<prs, source>>
  PROVE  SlidesInv'
<1>1. edits \in Nat /\ s \in Seq(Slide) /\ files \in [File -> Seq(Slide)]
  BY DEF SlidesInv, SoundDeck
<1>2. files' \in [File -> Seq(Slide)] /\ edits' \in Nat
  BY <1>1
<1>3. \A g \in File : SoundDeck(files'[g], edits + 1)
  BY <1>1, SoundLater DEF SlidesInv
<1>4. SoundDeck(prs, edits + 1) /\ SoundDeck(source, edits + 1)
  BY <1>1, SoundLater DEF SlidesInv
<1> QED BY <1>2, <1>3, <1>4 DEF SlidesInv, SoundDeck

(* Reordering and numbering: the edit is finished, and as promised.        *)
LEMMA ArrangeKeeps == DeckInv /\ Arrange => SlidesInv' /\ EditInv' /\ FinishedInv'
<1> SUFFICES ASSUME DeckInv, Arrange
             PROVE  SlidesInv' /\ EditInv' /\ FinishedInv'
  OBVIOUS
<1>1. delta = "arrange" /\ UNCHANGED <<files, edits, source, deckIs>> /\ delta' = "save"
      /\ prs' = Arranged(prs)
  BY DEF Arrange, Delta
<1>2. SoundDeck(Arranged(prs), edits) /\ FinishedDeck(Arranged(prs), source)
  BY <1>1, FinishedAtEnd DEF DeckInv
<1>3. SlidesInv'
  BY <1>1, <1>2, SoundStep DEF DeckInv
<1>4. EditInv'
  BY <1>1 DEF EditInv, Running
<1>5. FinishedInv'
  BY <1>1, <1>2, FinishedKept DEF DeckInv
<1> QED BY <1>3, <1>4, <1>5

(* No delta touches DECK before prs.save. *)
LEMMA DeltaLeaves ==
  ASSUME DeckInv, NEW from, NEW to, NEW possible, NEW slides,
         to # "copy", to # "save", to # "saving", Delta(from, to, possible, slides)
  PROVE  FinishedInv' /\ Bounds'
<1>1. UNCHANGED <<files, csv, edits, source, deckIs>> /\ delta' \notin {"copy", "save", "saving"}
  BY DEF Delta
<1>2. FinishedInv'
  BY <1>1, FinishedKept DEF DeckInv
<1>3. Bounds'
  BY <1>1 DEF DeckInv, Bounds
<1> QED BY <1>2, <1>3

(* Every step of deck_edit.py, its failures and interruption included,     *)
(* keeps DeckInv.                                                          *)
LEMMA EditStep == DeckInv /\ DeckEdit => DeckInv'
<1> SUFFICES ASSUME DeckInv, DeckEdit
             PROVE  DeckInv'
  OBVIOUS
<1>q. SlidesInv /\ EditInv /\ FinishedInv /\ Bounds /\ edits \in Nat
  BY DEF DeckInv, SlidesInv
<1>0. CASE BeginCopy
  <2>1. /\ delta = "idle" /\ delta' = "copy" /\ source' = files["base"] /\ deckIs' = "torn"
        /\ files' = [files EXCEPT !["deck"] = <<>>] /\ UNCHANGED <<csv, prs, edits>>
    BY <1>0 DEF BeginCopy
  <2>2. /\ SoundDeck(files["base"], edits) /\ SoundDeck(<<>>, edits)
        /\ "base" \in File /\ "deck" \in File
    BY <1>q, SoundNone DEF SlidesInv, File
  <2>3. SlidesInv'
    <3>1. files' \in [File -> Seq(Slide)]
      BY <1>q, <2>1, <2>2 DEF SlidesInv
    <3>2. \A f \in File : SoundDeck(files'[f], edits)
      BY <1>q, <2>1, <2>2 DEF SlidesInv
    <3> QED BY <1>q, <2>1, <2>2, <3>1, <3>2 DEF SlidesInv, SoundDeck
  <2>4. EditInv'
    BY <2>1 DEF EditInv, Running
  <2>5. FinishedInv'
    <3>1. Deck' = <<>> /\ files'["base"] = files["base"]
      BY <1>q, <2>1, <2>2 DEF Deck, SlidesInv
    <3> QED BY <2>1, <3>1 DEF FinishedInv, Edited
  <2> QED BY <1>q, <2>1, <2>3, <2>4, <2>5 DEF DeckInv, Bounds
<1>1. CASE Copy
  <2>1. /\ prs' = files["base"] /\ source' = files["base"] /\ delta' = "precise"
        /\ deckIs' = "copy" /\ csv' = csv /\ edits' = edits
        /\ files' = [files EXCEPT !["deck"] = files["base"]]
    BY <1>q, <1>1 DEF Copy, FinishedInv
  <2>2. SoundDeck(files["base"], edits) /\ "base" \in File /\ "deck" \in File
    BY <1>q DEF SlidesInv, File
  <2>3. SlidesInv'
    <3>1. files' \in [File -> Seq(Slide)]
      BY <1>q, <2>1, <2>2 DEF SlidesInv
    <3>2. \A f \in File : SoundDeck(files'[f], edits)
      BY <1>q, <2>1, <2>2 DEF SlidesInv
    <3> QED BY <1>q, <2>1, <2>2, <3>1, <3>2 DEF SlidesInv, SoundDeck
  <2>4. EditInv'
    <3>1. ~ AfterPrecise' /\ Added' = 0 /\ ~ AfterRetire' /\ ~ AfterMixes'
          /\ \A k : Claims(k)' = Claim
      BY <2>1 DEF AfterPrecise, AfterRelabel, AfterMixes, AfterBandwidth, AfterRetire, Running,
                  Added, Claims
    <3>2. \A k \in DOMAIN source' : ComesFrom(prs'[k], source'[k], k)
      BY <2>1 DEF ComesFrom
    <3>3. \A k \in DOMAIN source' : prs'[k].says \subseteq Claim
      BY <2>1, <2>2 DEF SoundDeck, Sound, Slide
    <3>4. Worded'
      BY <2>1, <3>1, <3>3 DEF Worded
    <3>5. Len(prs') = Len(source') + Added'
      BY <2>1, <2>2, <3>1 DEF SoundDeck
    <3>6. 1 .. Added' = {}
      BY <3>1
    <3> QED BY <2>1, <3>1, <3>2, <3>4, <3>5, <3>6 DEF EditInv
  <2>5. FinishedInv'
    <3>1. Deck' = source'
      BY <1>q, <2>1, <2>2 DEF Deck, SlidesInv
    <3> QED BY <2>1, <3>1 DEF FinishedInv, Edited
  <2> QED BY <1>q, <2>1, <2>3, <2>4, <2>5 DEF DeckInv, Bounds
<1>2. CASE Precise
  BY <1>q, <1>2, PreciseKeeps, DeltaLeaves DEF DeckInv, Precise
<1>3. CASE Anatomy
  BY <1>q, <1>3, AnatomyKeeps, DeltaLeaves DEF DeckInv, Anatomy
<1>4. CASE WhatItReplaces
  BY <1>q, <1>4, WhatItReplacesKeeps, DeltaLeaves DEF DeckInv, WhatItReplaces
<1>5. CASE Relabel
  BY <1>q, <1>5, RelabelKeeps, DeltaLeaves DEF DeckInv, Relabel
<1>6. CASE RetitleMixes
  BY <1>q, <1>6, RetitleMixesKeeps, DeltaLeaves DEF DeckInv, RetitleMixes
<1>7. CASE PerApp
  BY <1>q, <1>7, PerAppKeeps, DeltaLeaves DEF DeckInv, PerApp
<1>8. CASE Bandwidth
  BY <1>q, <1>8, BandwidthKeeps, DeltaLeaves DEF DeckInv, Bandwidth
<1>9. CASE Corner
  BY <1>q, <1>9, CornerKeeps, DeltaLeaves DEF DeckInv, Corner
<1>10. CASE Retire
  BY <1>q, <1>10, RetireKeeps, DeltaLeaves DEF DeckInv, Retire
<1>11. CASE AgainstFlat
  BY <1>q, <1>11, AgainstFlatKeeps, DeltaLeaves DEF DeckInv, AgainstFlat
<1>12. CASE Arrange
  <2>1. Bounds'
    BY <1>q, <1>12 DEF Arrange, Delta, Bounds
  <2> QED BY <1>12, <2>1, ArrangeKeeps DEF DeckInv
<1>s. CASE BeginSave
  <2>1. /\ delta = "save" /\ files' = [files EXCEPT !["deck"] = <<>>] /\ deckIs' = "torn"
        /\ delta' = "saving" /\ UNCHANGED <<csv, prs, edits, source>>
    BY <1>s DEF BeginSave
  <2>2. "deck" \in File /\ SoundDeck(<<>>, edits)
    BY <1>q, SoundNone DEF File
  <2>3. SlidesInv'
    <3>1. files' \in [File -> Seq(Slide)]
      BY <1>q, <2>1, <2>2 DEF SlidesInv, SoundDeck
    <3>2. \A f \in File : SoundDeck(files'[f], edits)
      BY <1>q, <2>1, <2>2 DEF SlidesInv
    <3> QED BY <1>q, <2>1, <2>2, <3>1, <3>2 DEF SlidesInv, SoundDeck
  <2>4. EditInv'
    BY <2>1 DEF EditInv, Running
  <2>5. FinishedInv'
    <3>1. Deck' = <<>>
      BY <1>q, <2>1, <2>2 DEF Deck, SlidesInv
    <3>2. FinishedDeck(prs', source')
      BY <1>q, <2>1 DEF FinishedInv
    <3> QED BY <2>1, <3>1, <3>2 DEF FinishedInv, Edited
  <2> QED BY <1>q, <2>1, <2>3, <2>4, <2>5 DEF DeckInv, Bounds
<1>13. CASE Save
  <2>1. /\ delta = "saving" /\ files' = [files EXCEPT !["deck"] = prs] /\ deckIs' = "edit"
        /\ delta' = "idle" /\ prs' = <<>> /\ UNCHANGED <<csv, edits, source>>
    BY <1>13 DEF Save
  <2>2. "deck" \in File /\ SoundDeck(prs, edits) /\ SoundDeck(<<>>, edits)
    BY <1>q, SoundNone DEF SlidesInv, File
  <2>3. SlidesInv'
    <3>1. files' \in [File -> Seq(Slide)]
      BY <1>q, <2>1, <2>2 DEF SlidesInv, SoundDeck
    <3>2. \A f \in File : SoundDeck(files'[f], edits)
      BY <1>q, <2>1, <2>2 DEF SlidesInv
    <3> QED BY <1>q, <2>1, <2>2, <3>1, <3>2 DEF SlidesInv, SoundDeck
  <2>4. EditInv'
    BY <2>1 DEF EditInv, Running
  <2>5. FinishedInv'
    <3>1. Deck' = prs
      BY <1>q, <2>1, <2>2 DEF Deck, SlidesInv
    <3>2. FinishedDeck(prs, source)
      BY <1>q, <2>1 DEF FinishedInv
    <3> QED BY <2>1, <3>1, <3>2 DEF FinishedInv, Edited
  <2> QED BY <1>q, <2>1, <2>3, <2>4, <2>5 DEF DeckInv, Bounds
<1>14. CASE Killed
  <2>1. delta' = "idle" /\ prs' = <<>> /\ UNCHANGED <<files, csv, edits, source, deckIs>>
    BY <1>14 DEF Killed
  <2>2. SlidesInv' /\ EditInv'
    BY <1>q, <2>1, Failing
  <2>3. FinishedInv'
    BY <1>q, <2>1, FinishedKept
  <2> QED BY <1>q, <2>1, <2>2, <2>3 DEF DeckInv, Bounds
<1> QED
  BY <1>0, <1>1, <1>2, <1>3, <1>4, <1>5, <1>6, <1>7, <1>8, <1>9, <1>10, <1>11, <1>12, <1>s,
     <1>13, <1>14
     DEF DeckEdit

(* Generating, new results and editing by hand, between the deltas where   *)
(* they may come there, keep DeckInv.                                      *)
LEMMA MaintainerStep == DeckInv /\ Maintainer => DeckInv'
<1> SUFFICES ASSUME DeckInv, Maintainer
             PROVE  DeckInv'
  OBVIOUS
<1>q. SlidesInv /\ EditInv /\ FinishedInv /\ Bounds /\ edits \in Nat
      /\ files \in [File -> Seq(Slide)] /\ "base" \in File /\ "deck" \in File
      /\ "wattson-power" \in File
  BY DEF DeckInv, SlidesInv, File
<1>1. CASE Generate
  <2>1. /\ files' = [files EXCEPT !["wattson-power"] = Generated]
        /\ UNCHANGED <<csv, delta, prs, edits, source, deckIs>>
    BY <1>1 DEF Generate
  <2>2. SoundDeck(Generated, edits)
    BY <1>q, SoundGenerated, SoundFromStart
  <2>3. SlidesInv'
    <3>1. files' \in [File -> Seq(Slide)]
      BY <1>q, <2>1, <2>2 DEF SoundDeck
    <3>2. \A f \in File : SoundDeck(files'[f], edits)
      BY <1>q, <2>1, <2>2 DEF SlidesInv
    <3> QED BY <1>q, <2>1, <3>1, <3>2 DEF SlidesInv, SoundDeck
  <2>4. EditInv'
    BY <1>q, <2>1, EditUnmoved
  <2>5. FinishedInv'
    <3>1. Deck' = Deck /\ files'["base"] = files["base"]
      BY <1>q, <2>1 DEF Deck
    <3> QED BY <1>q, <2>1, <3>1, OtherFile
  <2> QED BY <1>q, <2>1, <2>3, <2>4, <2>5 DEF DeckInv, Bounds
<1>2. CASE MoreResults
  <2>1. UNCHANGED <<files, delta, prs, edits, source, deckIs>>
        /\ csv' \in {"combined", "split", "bandwidth"}
    BY <1>2 DEF MoreResults
  <2>2. SlidesInv'
    BY <1>q, <2>1 DEF SlidesInv, SoundDeck
  <2>3. EditInv'
    BY <1>q, <2>1, EditUnmoved
  <2>4. FinishedInv'
    <3>1. Deck' = Deck
      BY <2>1 DEF Deck
    <3> QED BY <1>q, <2>1, <3>1, OtherFile
  <2> QED BY <1>q, <2>1, <2>2, <2>3, <2>4 DEF DeckInv, Bounds
<1>3. ASSUME NEW f \in File, HandEdit(f)
      PROVE  DeckInv'
  <2>1. PICK s \in ByHand(files[f]) : files' = [files EXCEPT ![f] = s]
    BY <1>3 DEF HandEdit
  <2>2. /\ delta = "idle" /\ edits < MaxEdits /\ edits' = edits + 1
        /\ deckIs' = IF f = "deck" THEN "hand" ELSE deckIs
        /\ UNCHANGED <<csv, delta, prs, source>>
    BY <1>3 DEF HandEdit
  <2>3. SoundDeck(s, edits + 1)
    BY <1>q, <2>1, SoundByHand DEF SlidesInv
  <2>4. SlidesInv'
    BY <1>q, <2>1, <2>2, <2>3, FileReplaced
  <2>5. EditInv' /\ delta' = "idle"
    BY <2>2 DEF EditInv, Running
  <2>6. FinishedInv'
    <3>1. CASE f = "deck"
      BY <2>2, <3>1 DEF FinishedInv, Edited
    <3>2. CASE f # "deck"
      <4>1. Deck' = Deck
        BY <1>q, <2>1, <3>2 DEF Deck
      <4> QED BY <1>q, <2>2, <2>5, <3>2, <4>1, OtherFile
    <3> QED BY <3>1, <3>2
  <2>7. Bounds'
    BY <1>q, <2>2, PowerDeckAssumption DEF Bounds
  <2> QED BY <2>4, <2>5, <2>6, <2>7 DEF DeckInv
<1>4. ASSUME NEW f \in File, Adopt(f)
      PROVE  DeckInv'
  <2>1. /\ delta = "idle" /\ edits < MaxEdits /\ edits' = edits + 1
        /\ files' = [files EXCEPT !["base"] = files[f]]
        /\ UNCHANGED <<csv, delta, prs, source, deckIs>>
    BY <1>4 DEF Adopt
  <2>2. SoundDeck(files[f], edits + 1)
    BY <1>q, SoundLater DEF SlidesInv
  <2>3. SlidesInv'
    BY <1>q, <2>1, <2>2, FileReplaced
  <2>4. EditInv'
    BY <2>1 DEF EditInv, Running
  <2>5. FinishedInv'
    <3>1. Deck' = Deck
      BY <1>q, <2>1 DEF Deck
    <3> QED BY <1>q, <2>1, <3>1, OtherFile
  <2>6. Bounds'
    BY <1>q, <2>1, PowerDeckAssumption DEF Bounds
  <2> QED BY <2>3, <2>4, <2>5, <2>6 DEF DeckInv
<1> QED BY <1>1, <1>2, <1>3, <1>4 DEF Maintainer

(* The inductive invariant of the presentations, whatever BASE becomes by  *)
(* hand and wherever deck_edit.py fails or is interrupted: slides are      *)
(* sound and distinct, the presentation in memory is BASE with the deltas  *)
(* so far, and a finished one is as the properties say.                    *)
THEOREM DeckInvariant == DeckSpec => []DeckInv
<1>1. DeckInit => DeckInv
  BY DeckStart
<1>2. DeckInv /\ [DeckNext]_deckVars => DeckInv'
  <2> SUFFICES ASSUME DeckInv, [DeckNext]_deckVars
               PROVE  DeckInv'
    OBVIOUS
  <2>1. CASE DeckEdit
    BY <2>1, EditStep
  <2>2. CASE Maintainer
    BY <2>2, MaintainerStep
  <2>3. CASE UNCHANGED deckVars
    <3>1. UNCHANGED <<files, csv, delta, prs, edits, source, deckIs>>
      BY <2>3 DEF deckVars
    <3>2. SlidesInv' /\ Bounds'
      BY <3>1 DEF DeckInv, SlidesInv, SoundDeck, Bounds
    <3>3. EditInv'
      BY <3>1, EditUnmoved DEF DeckInv
    <3>4. FinishedInv'
      <4>1. Deck' = Deck
        BY <3>1 DEF Deck
      <4> QED BY <3>1, <4>1, OtherFile DEF DeckInv
    <3> QED BY <3>2, <3>3, <3>4 DEF DeckInv
  <2> QED BY <2>1, <2>2, <2>3 DEF DeckNext
<1> QED BY <1>1, <1>2, PTL DEF DeckSpec

(* The files, the presentation in memory and BASE's copy are lists of      *)
(* slides, and the counters in their bounds, at every step.                *)
THEOREM DeckTyped == DeckSpec => []TypeOK
<1>1. DeckInv => TypeOK
  <2> SUFFICES ASSUME DeckInv
               PROVE  TypeOK
    OBVIOUS
  <2>1. \A s \in Seq(Slide) : ToSet(s) \subseteq Slide
    BY DEF ToSet
  <2>2. /\ files \in [File -> Seq(Slide)] /\ prs \in Seq(Slide) /\ source \in Seq(Slide)
        /\ edits \in Nat
    BY DEF DeckInv, SlidesInv, SoundDeck
  <2>3. edits \in 0 .. MaxEdits
    BY <2>2, PowerDeckAssumption DEF DeckInv, Bounds
  <2> QED BY <2>1, <2>2, <2>3 DEF TypeOK, DeckInv, Bounds
<1> QED BY <1>1, DeckInvariant, PTL

(* DECK is empty while it is written and after a run that was stopped      *)
(* then; otherwise it is the copy of BASE it was made from or a whole edit *)
(* of it: every slide of BASE once, the untouched ones unchanged but for   *)
(* the page, and the four added slides once more, for any BASE and any     *)
(* number of edits of it.                                                  *)
THEOREM DeckIsWhole == DeckSpec => []DeckWhole
<1>1. DeckInv => DeckWhole
  <2> SUFFICES ASSUME DeckInv
               PROVE  DeckWhole
    OBVIOUS
  <2>1. /\ deckIs = "copy" => Deck = source
        /\ deckIs = "torn" => Deck = <<>>
        /\ Edited => WholeDeck(Deck, source)
    BY DEF DeckInv, FinishedInv, FinishedDeck
  <2>2. \A k \in DOMAIN Deck : Deck[k] \in ToSet(Deck)
    BY DEF ToSet
  <2> QED BY <2>1, <2>2 DEF DeckWhole, WholeDeck
<1> QED BY <1>1, DeckInvariant, PTL

(* In every edited deck each page box shows the position of its slide:     *)
(* renumber() comes after reorder(), and reorder() loses no slide.         *)
THEOREM PagesShowPositions == DeckSpec => []PagesRight
<1>1. DeckInv => PagesRight
  BY DEF DeckInv, FinishedInv, FinishedDeck, PagedDeck, PagesRight
<1> QED BY <1>1, DeckInvariant, PTL

(* No edited deck still makes, in the wording looked for, a claim on a     *)
(* slide that stood in BASE where the deltas were written for it.          *)
THEOREM OldClaimsRetired == DeckSpec => []ClaimsRetired
<1>1. DeckInv => ClaimsRetired
  BY DEF DeckInv, FinishedInv, FinishedDeck, RetiredDeck, ClaimsRetired
<1> QED BY <1>1, DeckInvariant, PTL

(* Whatever BASE was, the slides of an edited deck that have a place stand *)
(* before the closing one, part 1 before part 2, and all others behind it; *)
(* from the twelve slides, the two retitled ones where the deltas look for *)
(* them, the closing slide is the last.                                    *)
THEOREM ClosingSlideLast == DeckSpec => []ClosingLast
<1>1. DeckInv => ClosingLast
  BY DEF DeckInv, FinishedInv, FinishedDeck, ClosedDeck, ClosingLast
<1> QED BY <1>1, DeckInvariant, PTL

=============================================================================
