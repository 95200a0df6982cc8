-------------------------- MODULE ActivityRunProofs --------------------------
(***************************************************************************)
(* Theorems about ActivityRun, for every number of vCPUs and every image   *)
(* and power model: the vector is what the machine did, and an estimate    *)
(* without a warning charges every term for it.                            *)
(***************************************************************************)
EXTENDS ActivityRun, FiniteSetTheorems, WellFoundedInduction, TLAPS

USE ActivityAssumption

-----------------------------------------------------------------------------
(* Sums: the function that the fold chooses, and its values.               *)

(* Induction over the naturals, for a set of them. *)
LEMMA SetInduction ==
  ASSUME NEW N, 0 \in N, \A n \in Nat : n \in N => n + 1 \in N
  PROVE  Nat \subseteq N
<1> SUFFICES ASSUME Nat \ N # {} PROVE FALSE
  OBVIOUS
<1> DEFINE T == Nat \ N
<1>1. IsWellFoundedOn(OpToRel(<, Nat), Nat)
  BY NatLessThanWellFounded
<1>2. PICK m \in T : \A k \in T : ~ (<<k, m>> \in OpToRel(<, Nat))
  BY <1>1, WFMin
<1>3. \A k \in T : ~ (k < m)
  BY <1>2 DEF OpToRel
<1>4. m # 0 /\ m - 1 \in Nat /\ m - 1 < m
  OBVIOUS
<1>5. m - 1 \in N
  BY <1>3, <1>4
<1> QED BY <1>4, <1>5

(* The point that the fold takes out of a set first. *)
Pick(s) == CHOOSE x \in s : TRUE

(* g is the sum of f over the sets of at most n of its points, one chosen  *)
(* point taken out at a time, as the fold does.                            *)
SumsUpTo(g, f, n) ==
  g = [s \in {t \in SUBSET DOMAIN f : Cardinality(t) <= n} |->
         IF s = {} THEN 0 ELSE f[Pick(s)] + g[s \ {Pick(s)}]]

Sums(g, f) ==
  g = [s \in SUBSET DOMAIN f |-> IF s = {} THEN 0 ELSE f[Pick(s)] + g[s \ {Pick(s)}]]

(* The point taken out is in the set, which is then one point smaller.     *)
LEMMA Picked ==
  ASSUME NEW S, IsFiniteSet(S), NEW s \in SUBSET S, s # {}
  PROVE  /\ Pick(s) \in s /\ s \ {Pick(s)} \in SUBSET S
         /\ Cardinality(s) \in Nat \ {0}
         /\ Cardinality(s \ {Pick(s)}) = Cardinality(s) - 1
<1>1. Pick(s) \in s
  BY DEF Pick
<1>2. IsFiniteSet(s)
  BY FS_Subset
<1>3. Cardinality(s) \in Nat /\ Cardinality(s \ {Pick(s)}) = Cardinality(s) - 1
  BY <1>1, <1>2, FS_CardinalityType, FS_RemoveElement
<1>4. Cardinality(s) # 0
  BY <1>2, FS_EmptySet
<1> QED BY <1>1, <1>3, <1>4

(* A set of no points is empty. *)
LEMMA NoneSmaller ==
  ASSUME NEW S, IsFiniteSet(S), NEW s \in SUBSET S, Cardinality(s) <= 0
  PROVE  s = {}
<1>1. s # {} => Cardinality(s) \in Nat \ {0}
  BY Picked
<1> QED BY <1>1

(* The recursive function the fold chooses exists, one size after another. *)
LEMMA SumExists ==
  ASSUME NEW f, IsFiniteSet(DOMAIN f)
  PROVE  \E g : Sums(g, f)
<1> DEFINE Upto(n) == {t \in SUBSET DOMAIN f : Cardinality(t) <= n}
           N == {n \in Nat : \E g : SumsUpTo(g, f, n)}
<1>0. \A t \in SUBSET DOMAIN f : Cardinality(t) \in Nat /\ Cardinality(t) <= Cardinality(DOMAIN f)
  BY FS_Subset, FS_CardinalityType
<1>1. 0 \in N
  <2> DEFINE g == [s \in Upto(0) |-> 0]
  <2>1. \A s \in Upto(0) : s = {}
    BY NoneSmaller
  <2>2. SumsUpTo(g, f, 0)
    BY <2>1 DEF SumsUpTo
  <2> QED BY <2>2
<1>2. ASSUME NEW n \in Nat, n \in N
      PROVE  n + 1 \in N
  <2>1. PICK g : SumsUpTo(g, f, n)
    BY <1>2
  <2> DEFINE h == [s \in Upto(n + 1) |-> IF s = {} THEN 0 ELSE f[Pick(s)] + g[s \ {Pick(s)}]]
  <2>2. \A s \in Upto(n) : h[s] = g[s]
    <3>1. \A s \in Upto(n) : s \in Upto(n + 1)
      BY <1>0
    <3> QED BY <2>1, <3>1 DEF SumsUpTo
  <2>3. \A s \in Upto(n + 1) : s # {} => s \ {Pick(s)} \in Upto(n)
    BY Picked
  <2>4. h = [s \in Upto(n + 1) |-> IF s = {} THEN 0 ELSE f[Pick(s)] + h[s \ {Pick(s)}]]
    <3>1. \A s \in Upto(n + 1) : s # {} => h[s \ {Pick(s)}] = g[s \ {Pick(s)}]
      BY <2>2, <2>3
    <3> HIDE DEF Upto
    <3> QED BY <3>1
  <2>5. SumsUpTo(h, f, n + 1)
    BY <2>4 DEF SumsUpTo
  <2> QED BY <2>5
<1>3. Cardinality(DOMAIN f) \in N
  <2>1. Nat \subseteq N
    BY <1>1, <1>2, SetInduction
  <2> QED BY <1>0, <2>1
<1>4. PICK g : SumsUpTo(g, f, Cardinality(DOMAIN f))
  BY <1>3
<1>5. Upto(Cardinality(DOMAIN f)) = SUBSET DOMAIN f
  BY <1>0
<1>6. Sums(g, f)
  BY <1>4, <1>5 DEF SumsUpTo, Sums
<1> QED BY <1>6

(* Total folds with such a function. *)
LEMMA TotalUnfolded ==
  ASSUME NEW f, IsFiniteSet(DOMAIN f)
  PROVE  \E g : Sums(g, f) /\ Total(f) = g[DOMAIN f]
<1> DEFINE g == CHOOSE h : h = [s \in SUBSET DOMAIN f |->
                        IF s = {} THEN 0 ELSE f[Pick(s)] + h[s \ {Pick(s)}]]
<1>1. Sums(g, f)
  BY SumExists DEF Sums
<1>2. Total(f) = g[DOMAIN f]
  BY DEF Total, FoldFunction, FoldFunctionOnSet, MapThenFoldSet, Pick
<1> HIDE DEF g
<1> QED BY <1>1, <1>2

(* A sum of naturals over a finite set is a natural. *)
LEMMA TotalNat ==
  ASSUME NEW S, IsFiniteSet(S), NEW f \in [S -> Nat]
  PROVE  Total(f) \in Nat
<1>0. DOMAIN f = S
  OBVIOUS
<1>1. PICK F : Sums(F, f) /\ Total(f) = F[S]
  BY <1>0, TotalUnfolded
<1> DEFINE N == {n \in Nat : \A s \in SUBSET S : Cardinality(s) = n => F[s] \in Nat}
<1>2. 0 \in N
  <2> SUFFICES ASSUME NEW s \in SUBSET S, Cardinality(s) = 0 PROVE F[s] \in Nat
    OBVIOUS
  <2>1. s = {}
    BY NoneSmaller
  <2> QED BY <1>0, <1>1, <2>1 DEF Sums
<1>3. ASSUME NEW n \in Nat, n \in N
      PROVE  n + 1 \in N
  <2> SUFFICES ASSUME NEW s \in SUBSET S, Cardinality(s) = n + 1 PROVE F[s] \in Nat
    OBVIOUS
  <2>1. s # {}
    <3>1. s = {} => Cardinality(s) = 0
      BY FS_EmptySet
    <3>2. n + 1 # 0
      OBVIOUS
    <3> QED BY <3>1, <3>2
  <2>2. Pick(s) \in S /\ s \ {Pick(s)} \in SUBSET S /\ Cardinality(s \ {Pick(s)}) = n
    BY <2>1, Picked
  <2>3. F[s \ {Pick(s)}] \in Nat /\ f[Pick(s)] \in Nat
    BY <1>3, <2>2
  <2>4. F[s] = f[Pick(s)] + F[s \ {Pick(s)}]
    BY <1>0, <1>1, <2>1 DEF Sums
  <2> QED BY <2>3, <2>4
<1>4. Nat \subseteq N
  BY <1>2, <1>3, SetInduction
<1>5. Cardinality(S) \in Nat
  BY FS_CardinalityType
<1>6. F[S] \in Nat
  BY <1>4, <1>5
<1> QED BY <1>1, <1>6

(* A sum over one point is its value. *)
LEMMA TotalOfOne ==
  ASSUME NEW x, NEW f, DOMAIN f = {x}, f[x] \in Nat
  PROVE  Total(f) = f[x]
<1>1. IsFiniteSet({x})
  BY FS_Singleton
<1>2. PICK F : Sums(F, f) /\ Total(f) = F[{x}]
  BY <1>1, TotalUnfolded
<1>3. Pick({x}) = x /\ {x} \ {x} = {}
  BY DEF Pick
<1>5. {x} \in SUBSET {x} /\ {} \in SUBSET {x} /\ {x} # {}
  OBVIOUS
<1>6. F = [s \in SUBSET {x} |-> IF s = {} THEN 0 ELSE f[Pick(s)] + F[s \ {Pick(s)}]]
  BY <1>2 DEF Sums
<1>4. F[{x}] = f[x] + F[{}] /\ F[{}] = 0
  BY <1>3, <1>5, <1>6
<1> QED BY <1>2, <1>4

(* There are as many vCPUs as QEMU was given. *)
LEMMA CpuFinite ==
  /\ IsFiniteSet(Cpu) /\ Cardinality(Cpu) = NumCpus
  /\ \A S \in SUBSET Cpu : IsFiniteSet(S)
<1>0. NumCpus \in Nat \ {0}
  OBVIOUS
<1> DEFINE last == NumCpus - 1
<1>2. last \in Int /\ last - 0 + 1 = NumCpus /\ ~ (0 > last)
  BY <1>0
<1> HIDE DEF last
<1>3. IsFiniteSet(0 .. last) /\ Cardinality(0 .. last) = NumCpus
  BY ONLY <1>2, FS_Interval
<1>1. IsFiniteSet(Cpu) /\ Cardinality(Cpu) = NumCpus
  BY <1>3 DEF Cpu, last
<1> QED BY <1>1, FS_Subset

(* So is every sum over the vCPUs. *)
LEMMA SumNat ==
  ASSUME NEW f \in [Cpu -> Nat]
  PROVE  SumOver(f, Cpu) \in Nat
<1>1. Restrict(f, Cpu) \in [Cpu -> Nat]
  BY DEF Restrict
<1> QED BY <1>1, CpuFinite, TotalNat DEF SumOver

(* And each of the four counts of any vCPUs' caches is over one field. *)
LEMMA CountsNat ==
  ASSUME cached \in [Cpu -> [Counted -> Nat]]
  PROVE  CountsOf(Cpu) \in [Counted -> Nat]
<1>1. ASSUME NEW k \in Counted
      PROVE  SumOver([c \in Cpu |-> cached[c][k]], Cpu) \in Nat
  <2>1. [c \in Cpu |-> cached[c][k]] \in [Cpu -> Nat]
    OBVIOUS
  <2> QED BY <2>1, SumNat
<1> QED BY <1>1 DEF CountsOf

-----------------------------------------------------------------------------
(* What the plugins have printed.                                          *)

Both == {"libinsn", "libcache"}

Shape ==
  /\ image \in Images /\ cacheCores \in 1 .. NumCpus
  /\ retired \in [Cpu -> Nat] /\ cached \in [Cpu -> [Counted -> Nat]]
  /\ silent \subseteq Both

(* The log is the lines of the plugins that are not silent any more; they  *)
(* print when the counts do not change any more.                           *)
LogInv ==
  /\ qemu \in {"absent", "running"} => silent = Both
  /\ log = (IF "libinsn" \in silent THEN {} ELSE InsnLines)
             \cup (IF "libcache" \in silent THEN {} ELSE CacheLines)

(* The script parses the log of a machine that is gone and has printed its *)
(* instructions.                                                           *)
ScriptInv ==
  /\ pc = "start" => qemu = "absent"
  /\ exit = "0" => pc = "ended"
  /\ pc = "parse" \/ exit = "0" => qemu = "gone" /\ "libinsn" \notin silent

DidKeys ==
  {"cores.count_seen", "cores.count_active", "cores.total_insns"}
    \cup IF "libcache" \in silent THEN {} ELSE MemoryKeys

(* Every quantity of the vector is the machine's. *)
VectorInv ==
  exit = "0" =>
    /\ DOMAIN vector.quantity = DidKeys
    /\ \A key \in DidKeys : vector.quantity[key] = Did(key)
    /\ vector.byCpu = [c \in {d \in Cpu : retired[d] > 0} |-> retired[c]]

EstimateInv ==
  /\ estimate = NoEstimate \/ exit = "0"
  /\ EstimateTrue

(* Every step keeps the types. *)
LEMMA ShapeStep ==
  ASSUME Shape, [Next]_vars
  PROVE  Shape'
<1> USE DEF Shape, inputs, counts, Machine
<1>1. ASSUME NEW c \in Cpu, Retire(c)
      PROVE  Shape'
  <2>1. retired' \in [Cpu -> Nat]
    BY <1>1 DEF Retire
  <2>2. PICK effect \in Effects :
          cached' = [cached EXCEPT ![c] = [k \in Counted |-> cached[c][k] + effect[k]]]
    BY <1>1 DEF Retire
  <2>3. cached' \in [Cpu -> [Counted -> Nat]]
    <3>1. [k \in Counted |-> cached[c][k] + effect[k]] \in [Counted -> Nat]
      BY DEF Effects
    <3> QED BY <2>2, <3>1
  <2> QED BY <1>1, <2>1, <2>3 DEF Retire
<1>2. ASSUME NEW plugin \in silent, Flush(plugin)
      PROVE  Shape'
  BY <1>2 DEF Flush
<1>3. CASE PowerOff \/ Timeout \/ QemuExits \/ Crash \/ Tick
  BY <1>3 DEF PowerOff, Timeout, QemuExits, Crash, Tick
<1>4. CASE Script
  BY <1>4 DEF Script, Refuse, Launch, Grep, Parse, Estimate
<1>5. CASE UNCHANGED vars
  BY <1>5 DEF vars
<1> QED BY <1>1, <1>2, <1>3, <1>4, <1>5 DEF Next, Qemu, Finished

(* Each plugin prints at most once, what it counted until then. *)
LEMMA LogStep ==
  ASSUME Shape, LogInv, ScriptInv, [Next]_vars
  PROVE  LogInv'
<1> USE DEF LogInv, inputs, counts, Machine
<1>1. ASSUME NEW c \in Cpu, Retire(c)
      PROVE  LogInv'
  <2>1. qemu = "running" /\ qemu' = qemu /\ silent' = silent /\ log' = log
    BY <1>1 DEF Retire
  <2>2. "libinsn" \in silent /\ "libcache" \in silent
    BY <2>1 DEF Both
  <2> QED BY <2>1, <2>2
<1>2. ASSUME UNCHANGED <<retired, cached, cacheCores>>
      PROVE  InsnLines' = InsnLines /\ CacheLines' = CacheLines
  BY <1>2 DEF InsnLines, CacheLines, CountsOf, On
<1>3. ASSUME NEW plugin \in silent, Flush(plugin)
      PROVE  LogInv'
  <2>1. /\ qemu = "exiting" /\ qemu' = qemu /\ silent' = silent \ {plugin}
        /\ UNCHANGED <<retired, cached, cacheCores>>
        /\ log' = log \cup IF plugin = "libinsn" THEN InsnLines ELSE CacheLines
    BY <1>3 DEF Flush
  <2>2. plugin = "libinsn" \/ plugin = "libcache"
    BY DEF Shape, Both
  <2> HIDE DEF inputs, counts, Machine
  <2> QED BY <1>2, <2>1, <2>2
<1>4. CASE PowerOff \/ Timeout \/ QemuExits \/ Crash \/ Tick \/ Script \/ UNCHANGED vars
  <2>1. UNCHANGED <<retired, cached, cacheCores, silent, log>>
    BY <1>4 DEF PowerOff, Timeout, QemuExits, Crash, Tick, Script, Refuse, Launch, Grep, Parse,
                Estimate, vars
  <2>2. qemu' \in {"absent", "running"} => qemu \in {"absent", "running"}
    BY <1>4 DEF PowerOff, Timeout, QemuExits, Crash, Tick, Script, Refuse, Launch, Grep, Parse,
                Estimate, vars, ScriptInv
  <2> HIDE DEF inputs, counts, Machine
  <2> QED BY <1>2, <2>1, <2>2
<1> QED BY <1>1, <1>3, <1>4 DEF Next, Qemu, Finished

-----------------------------------------------------------------------------
(* What the script reads in the log.                                       *)

(* The lines that parse_activity.py finds, by their kinds. *)
LEMMA LinesRead ==
  ASSUME LogInv
  PROVE  /\ Lines("total") = IF "libinsn" \in silent THEN {}
                             ELSE {Line("total", 0, SumOver(retired, Cpu))}
         /\ Lines("cpu") = IF "libinsn" \in silent THEN {}
                           ELSE {Line("cpu", c, retired[c]) : c \in Cpu}
         /\ Lines("row") = IF "libcache" \in silent THEN {}
                           ELSE {Line("row", core, CountsOf(On(core))) :
                                   core \in 0 .. cacheCores - 1}
         /\ Lines("sum") = IF "libcache" \in silent \/ cacheCores = 1 THEN {}
                           ELSE {Line("sum", 0, CountsOf(Cpu))}
<1> DEFINE InsnPart == IF "libinsn" \in silent THEN {} ELSE InsnLines
           CachePart == IF "libcache" \in silent THEN {} ELSE CacheLines
<1>1. \A line \in InsnLines : line.kind \in {"cpu", "total"}
  BY DEF InsnLines, Line
<1>2. \A line \in CacheLines : line.kind \in {"row", "sum"}
  BY DEF CacheLines, Line
<1>3. {line \in InsnLines : line.kind = "total"} = {Line("total", 0, SumOver(retired, Cpu))}
  BY DEF InsnLines, Line
<1>4. {line \in InsnLines : line.kind = "cpu"} = {Line("cpu", c, retired[c]) : c \in Cpu}
  BY DEF InsnLines, Line
<1>5. {line \in CacheLines : line.kind = "row"} =
        {Line("row", core, CountsOf(On(core))) : core \in 0 .. cacheCores - 1}
  BY DEF CacheLines, Line
<1>6. {line \in CacheLines : line.kind = "sum"} =
        IF cacheCores = 1 THEN {} ELSE {Line("sum", 0, CountsOf(Cpu))}
  BY DEF CacheLines, Line
<1>7. log = InsnPart \cup CachePart
  BY DEF LogInv
<1>8. /\ Lines("total") = {line \in InsnPart : line.kind = "total"}
      /\ Lines("cpu") = {line \in InsnPart : line.kind = "cpu"}
      /\ Lines("row") = {line \in CachePart : line.kind = "row"}
      /\ Lines("sum") = {line \in CachePart : line.kind = "sum"}
  BY <1>1, <1>2, <1>7 DEF Lines
<1> QED BY <1>3, <1>4, <1>5, <1>6, <1>8

(* grep finds a total only when the instruction plugin has printed. *)
LEMMA ScriptStep ==
  ASSUME Shape, LogInv, ScriptInv, [Next]_vars
  PROVE  ScriptInv'
<1> USE DEF ScriptInv, inputs, counts, Machine
<1>1. ASSUME NEW c \in Cpu, Retire(c)
      PROVE  ScriptInv'
  BY <1>1 DEF Retire
<1>2. ASSUME NEW plugin \in silent, Flush(plugin)
      PROVE  ScriptInv'
  BY <1>2 DEF Flush
<1>3. CASE PowerOff \/ Timeout \/ QemuExits \/ Crash \/ Tick
  BY <1>3 DEF PowerOff, Timeout, QemuExits, Crash, Tick
<1>4. CASE Grep
  BY <1>4, LinesRead DEF Grep
<1>5. CASE Refuse \/ Launch \/ Parse \/ Estimate \/ UNCHANGED vars
  BY <1>5 DEF Refuse, Launch, Parse, Estimate, vars
<1> QED BY <1>1, <1>2, <1>3, <1>4, <1>5 DEF Next, Qemu, Script, Finished

(* Rows added up, when there is only one, are that row. *)
LEMMA OneRow ==
  ASSUME NEW row, row.n \in [Counted -> Nat]
  PROVE  Added({row}) = row.n
<1>1. ASSUME NEW k \in Counted
      PROVE  Total([line \in {row} |-> line.n[k]]) = row.n[k]
  <2> DEFINE f == [line \in {row} |-> line.n[k]]
  <2>1. DOMAIN f = {row} /\ f[row] = row.n[k] /\ f[row] \in Nat
    OBVIOUS
  <2> HIDE DEF f
  <2>2. Total(f) = row.n[k]
    BY <2>1, TotalOfOne
  <2> QED BY <2>2 DEF f
<1>2. Added({row}) = [k \in Counted |-> row.n[k]]
  BY <1>1 DEF Added
<1> QED BY <1>2

(* The row the parser goes by is what all the caches counted. *)
LEMMA CacheRight ==
  ASSUME Shape, LogInv, "libcache" \notin silent
  PROVE  Cache = CountsOf(Cpu)
<1>1. CASE cacheCores # 1
  <2>1. Lines("sum") = {Line("sum", 0, CountsOf(Cpu))}
    BY <1>1, LinesRead
  <2> DEFINE read == CHOOSE line \in Lines("sum") : TRUE
  <2>2. Lines("sum") # {} /\ read = Line("sum", 0, CountsOf(Cpu))
    BY <2>1
  <2>3. Cache = read.n
    BY <2>2 DEF Cache
  <2> HIDE DEF read
  <2>4. read.n = CountsOf(Cpu)
    BY <2>2 DEF Line
  <2> QED BY <2>3, <2>4
<1>2. CASE cacheCores = 1
  <2> DEFINE row == Line("row", 0, CountsOf(Cpu))
  <2>1. On(0) = Cpu
    BY <1>2 DEF On, Cpu
  <2>2. 0 .. cacheCores - 1 = {0}
    BY <1>2
  <2>3. Lines("row") = {row} /\ Lines("sum") = {}
    BY <1>2, <2>1, <2>2, LinesRead
  <2>4. row.n = CountsOf(Cpu) /\ CountsOf(Cpu) \in [Counted -> Nat]
    BY CountsNat DEF Shape, Line
  <2> HIDE DEF row
  <2>5. Added({row}) = CountsOf(Cpu)
    BY <2>4, OneRow
  <2> QED BY <2>3, <2>5 DEF Cache
<1> QED BY <1>1, <1>2

(* The numbers it takes from libinsn's lines are what each vCPU, and the   *)
(* machine, retired.                                                       *)
LEMMA InsnsRight ==
  ASSUME Shape, LogInv, "libinsn" \notin silent
  PROVE  /\ Cardinality(Lines("cpu")) = NumCpus
         /\ Active = {c \in Cpu : retired[c] > 0}
         /\ (CHOOSE line \in Lines("total") : TRUE).n = SumOver(retired, Cpu)
         /\ \A c \in Cpu : (CHOOSE line \in Lines("cpu") : line.who = c).n = retired[c]
<1>1. Lines("cpu") = {Line("cpu", c, retired[c]) : c \in Cpu}
  BY LinesRead
<1>2. Cardinality(Lines("cpu")) = NumCpus
  <2> DEFINE f == [c \in Cpu |-> Line("cpu", c, retired[c])]
  <2>1. f \in Bijection(Cpu, Lines("cpu"))
    <3>1. \A c, d \in Cpu : f[c] = f[d] => c = d
      BY DEF Line
    <3>2. f \in [Cpu -> Lines("cpu")] /\ \A line \in Lines("cpu") : \E c \in Cpu : f[c] = line
      BY <1>1
    <3> HIDE DEF f
    <3> QED BY <3>1, <3>2 DEF Bijection, Injection, Surjection, IsInjective
  <2>2. ExistsBijection(Cpu, Lines("cpu"))
    BY <2>1 DEF ExistsBijection
  <2> QED BY <2>2, CpuFinite, FS_Bijection
<1>3. Active = {c \in Cpu : retired[c] > 0}
  <2>1. {l \in Lines("cpu") : l.n > 0} = {Line("cpu", c, retired[c]) : c \in {d \in Cpu : retired[d] > 0}}
    BY <1>1 DEF Line
  <2>2. \A c : Line("cpu", c, retired[c]).who = c
    BY DEF Line
  <2>3. Active = {line.who : line \in {Line("cpu", c, retired[c]) : c \in {d \in Cpu : retired[d] > 0}}}
    BY <2>1 DEF Active
  <2> QED BY <2>2, <2>3
<1>4. (CHOOSE line \in Lines("total") : TRUE).n = SumOver(retired, Cpu)
  <2> DEFINE read == CHOOSE line \in Lines("total") : TRUE
  <2>1. Lines("total") = {Line("total", 0, SumOver(retired, Cpu))}
    BY LinesRead
  <2>2. read = Line("total", 0, SumOver(retired, Cpu))
    BY <2>1
  <2> HIDE DEF read
  <2>3. read.n = SumOver(retired, Cpu)
    BY <2>2 DEF Line
  <2> QED BY <2>3 DEF read
<1>5. ASSUME NEW c \in Cpu
      PROVE  (CHOOSE line \in Lines("cpu") : line.who = c).n = retired[c]
  <2> DEFINE read == CHOOSE line \in Lines("cpu") : line.who = c
  <2>1. \A line \in Lines("cpu") : line.who = c <=> line = Line("cpu", c, retired[c])
    BY <1>1 DEF Line
  <2>2. Line("cpu", c, retired[c]) \in Lines("cpu")
    BY <1>1
  <2>3. read = Line("cpu", c, retired[c])
    BY <2>1, <2>2
  <2> HIDE DEF read
  <2>4. read.n = retired[c]
    BY <2>3 DEF Line
  <2> QED BY <2>4 DEF read
<1> QED BY <1>2, <1>3, <1>4, <1>5

-----------------------------------------------------------------------------
(* The vector.                                                             *)

IInv == Shape /\ LogInv /\ ScriptInv /\ VectorInv /\ EstimateInv

(* The invariant holds before the harness starts QEMU. *)
LEMMA InitInv == Init => IInv
<1> SUFFICES ASSUME Init PROVE IInv
  OBVIOUS
<1>1. cached \in [Cpu -> [Counted -> Nat]]
  BY DEF Init, Nothing
<1>4. Shape
  BY <1>1 DEF Init, Shape, Both
<1>5. LogInv /\ ScriptInv
  BY DEF Init, LogInv, ScriptInv, Both
<1>2. VectorInv
  BY DEF Init, VectorInv
<1>3. EstimateInv
  BY DEF Init, EstimateInv, EstimateTrue, NoEstimate
<1> QED BY <1>4, <1>5, <1>2, <1>3 DEF IInv

(* Once the script has a vector, nothing the vector is about moves.        *)
LEMMA MachineGone ==
  ASSUME ScriptInv, pc = "parse" \/ exit = "0", [Next]_vars
  PROVE  UNCHANGED <<retired, cached, silent, log, cacheCores, model>>
<1>1. qemu = "gone"
  BY DEF ScriptInv
<1> QED
  BY <1>1 DEF Next, Qemu, Retire, PowerOff, Timeout, QemuExits, Flush, Crash, Tick, Script, Refuse,
              Launch, Grep, Parse, Estimate, Finished, vars, inputs, counts, Machine, ScriptInv

(* A step in which nothing is retired or printed leaves that alone. *)
LEMMA SameDeeds ==
  ASSUME UNCHANGED <<retired, cached, silent>>
  PROVE  DidKeys' = DidKeys /\ \A key : Did(key)' = Did(key)
  BY DEF DidKeys, Did, CountsOf, SumOver

(* A vector is written only from the report of a machine that has stopped, *)
(* so every step keeps it true.                                            *)
LEMMA VectorStep ==
  ASSUME IInv, [Next]_vars
  PROVE  VectorInv'
<1> USE DEF IInv
<1>1. CASE Parse
  <2>1. /\ pc = "parse" /\ exit' = "0"
        /\ vector'.quantity = [k \in Keys |-> Quantity(k)]
        /\ vector'.byCpu = [c \in Active |-> (CHOOSE line \in Lines("cpu") : line.who = c).n]
    BY <1>1 DEF Parse
  <2>2. UNCHANGED <<retired, cached, silent>> /\ "libinsn" \notin silent
    BY <1>1, <2>1, MachineGone DEF ScriptInv
  <2>3. Keys = DidKeys
    <3>1. Lines("row") = {} <=> "libcache" \in silent
      <4>1. 0 \in 0 .. cacheCores - 1
        BY DEF Shape
      <4> DEFINE Rows == {Line("row", core, CountsOf(On(core))) : core \in 0 .. cacheCores - 1}
      <4>2. Rows # {}
        BY <4>1
      <4>3. Lines("row") = IF "libcache" \in silent THEN {} ELSE Rows
        BY LinesRead
      <4> HIDE DEF Rows
      <4> QED BY <4>2, <4>3
    <3> QED BY <3>1 DEF Keys, DidKeys
  <2>4. ASSUME NEW key \in DidKeys
        PROVE  Quantity(key) = Did(key)
    <3>1. "libcache" \notin silent => Cache = CountsOf(Cpu)
      BY CacheRight
    <3>3. key \in MemoryKeys => "libcache" \notin silent
      BY DEF DidKeys, MemoryKeys
    <3>2. /\ Cardinality(Lines("cpu")) = NumCpus
          /\ Active = {c \in Cpu : retired[c] > 0}
          /\ (CHOOSE line \in Lines("total") : TRUE).n = SumOver(retired, Cpu)
      BY <2>2, InsnsRight
    <3>4. CASE key \in MemoryKeys
      <4>1. key \notin {"cores.count_seen", "cores.count_active", "cores.total_insns"}
        BY <3>4 DEF MemoryKeys
      <4> QED BY <3>1, <3>3, <3>4, <4>1 DEF Quantity, Did
    <3>5. CASE key \in {"cores.count_seen", "cores.count_active", "cores.total_insns"}
      <4>1. CASE key = "cores.count_seen"
        BY <3>2, <4>1 DEF Quantity, Did, MemoryKeys
      <4>2. CASE key = "cores.count_active"
        BY <3>2, <4>2 DEF Quantity, Did, MemoryKeys
      <4>3. CASE key = "cores.total_insns"
        BY <3>2, <4>3 DEF Quantity, Did, MemoryKeys
      <4> QED BY <3>5, <4>1, <4>2, <4>3
    <3> QED BY <3>4, <3>5 DEF DidKeys
  <2>5. vector'.byCpu = [c \in {d \in Cpu : retired[d] > 0} |-> retired[c]]
    <3>1. /\ Active = {d \in Cpu : retired[d] > 0}
          /\ \A c \in Cpu : (CHOOSE line \in Lines("cpu") : line.who = c).n = retired[c]
      BY <2>2, InsnsRight
    <3> QED BY <2>1, <3>1
  <2>6. DidKeys' = DidKeys /\ \A key : Did(key)' = Did(key)
    BY <2>2, SameDeeds
  <2>7. DOMAIN vector'.quantity = DidKeys /\ \A key \in DidKeys : vector'.quantity[key] = Did(key)
    BY <2>1, <2>3, <2>4
  <2> QED BY <2>2, <2>5, <2>6, <2>7 DEF VectorInv
<1>2. CASE ~Parse
  <2>1. vector' = vector /\ (exit' = "0" => exit = "0")
    BY <1>2 DEF Next, Qemu, Retire, PowerOff, Timeout, QemuExits, Flush, Crash, Tick, Script, Refuse,
                Launch, Grep, Estimate, Finished, vars, inputs, counts, Machine
  <2> SUFFICES ASSUME exit = "0" PROVE VectorInv'
    BY <2>1 DEF VectorInv
  <2>2. UNCHANGED <<retired, cached, silent>>
    BY MachineGone
  <2>3. DidKeys' = DidKeys /\ \A key : Did(key)' = Did(key)
    BY <2>2, SameDeeds
  <2> QED BY <2>1, <2>2, <2>3 DEF VectorInv
<1> QED BY <1>1, <1>2

(* No warning on a term: the vector has its key. *)
LEMMA Unwarned ==
  ASSUME NEW block, NEW term \in block.terms, BlockWarnings(block) = {}
  PROVE  Has(term.key)
<1>1. TermWarnings(block, term) = {}
  BY DEF BlockWarnings
<1> QED BY <1>1 DEF TermWarnings

(* An estimate joins the vector's keys to the model's terms, so every step *)
(* keeps it true or warned of.                                             *)
LEMMA EstimateStep ==
  ASSUME IInv, [Next]_vars
  PROVE  EstimateInv'
<1> USE DEF IInv
<1>1. CASE Estimate
  <2>1. exit = "0" /\ exit' = "0"
    BY <1>1 DEF Estimate
  <2>2. UNCHANGED <<retired, cached, silent, model>>
    BY <2>1, MachineGone
  <2> SUFFICES ASSUME estimate'.warnings = {} PROVE EstimateTrue'
    BY <2>1 DEF EstimateInv, EstimateTrue
  <2>0. model.isModel
    BY <1>1 DEF Estimate, NotAModel
  <2>3. /\ estimate'.total = Total([block \in model.blocks |-> BlockPower(block)])
        /\ UNION {BlockWarnings(block) : block \in model.blocks} = {}
    BY <1>1, <2>0 DEF Estimate
  <2>4. ASSUME NEW block \in model.blocks, NEW term \in block.terms
        PROVE  /\ term.key \in Measurable
               /\ TermPower(term) = ChargeOf(term)
    <3>1. BlockWarnings(block) = {}
      BY <2>3
    <3>2. Has(term.key)
      BY <3>1, Unwarned
    <3>3. term.key \in DidKeys /\ vector.quantity[term.key] = Did(term.key)
      BY <2>1, <3>2 DEF Has, VectorInv
    <3> QED BY <3>2, <3>3 DEF DidKeys, Measurable, TermPower, ChargeOf
  <2>5. ASSUME NEW block \in model.blocks
        PROVE  BlockPower(block) = block.static + Total([term \in block.terms |-> ChargeOf(term)])
    <3>1. [term \in block.terms |-> TermPower(term)] = [term \in block.terms |-> ChargeOf(term)]
      BY <2>4
    <3> QED BY <3>1 DEF BlockPower
  <2> DEFINE Charged == [block \in model.blocks |->
                           block.static + Total([term \in block.terms |-> ChargeOf(term)])]
  <2>6. [block \in model.blocks |-> BlockPower(block)] = Charged
    BY <2>5
  <2>7. estimate'.total = Total(Charged)
    BY <2>3, <2>6
  <2>8. Total(Charged)' = Total(Charged)
    BY <2>2 DEF ChargeOf, Did, CountsOf, SumOver
  <2> QED BY <2>2, <2>4, <2>7, <2>8 DEF EstimateTrue
<1>2. CASE ~Estimate
  <2>1. estimate' = estimate /\ (exit = "0" => exit' = "0")
    BY <1>2 DEF Next, Qemu, Retire, PowerOff, Timeout, QemuExits, Flush, Crash, Tick, Script, Refuse,
                Launch, Grep, Parse, Finished, vars, inputs, counts, Machine, ScriptInv
  <2>2. CASE estimate = NoEstimate
    BY <2>1, <2>2 DEF EstimateInv, EstimateTrue, NoEstimate
  <2>3. CASE exit = "0"
    <3>1. UNCHANGED <<retired, cached, silent, model>>
      BY <2>3, MachineGone
    <3>2. EstimateTrue' <=> EstimateTrue
      BY <2>1, <3>1 DEF EstimateTrue, ChargeOf, Did, CountsOf, SumOver
    <3> QED BY <2>1, <2>3, <3>2 DEF EstimateInv
  <2> QED BY <2>2, <2>3 DEF EstimateInv
<1> QED BY <1>1, <1>2

(* The inductive invariant of run-activity.sh, the plugins' log,           *)
(* parse_activity.py and estimate_power.py, for every image and power      *)
(* model.                                                                  *)
THEOREM HarnessInvariant == Spec => []IInv
<1>1. IInv /\ [Next]_vars => IInv'
  BY ShapeStep, LogStep, ScriptStep, VectorStep, EstimateStep DEF IInv
<1> QED BY <1>1, InitInv, PTL DEF Spec

(* Whatever the image does, and however QEMU and its plugins end, a vector *)
(* is what the machine did.                                                *)
THEOREM VectorIsTrue == Spec => []VectorTrue
<1>1. IInv => VectorTrue
  <2> SUFFICES ASSUME IInv, exit = "0" PROVE VectorTrue
    BY DEF VectorTrue
  <2>1. /\ DOMAIN vector.quantity = DidKeys
        /\ \A key \in DidKeys : vector.quantity[key] = Did(key)
        /\ vector.byCpu = [c \in {d \in Cpu : retired[d] > 0} |-> retired[c]]
    BY DEF IInv, VectorInv
  <2>2. vector.quantity["cores.total_insns"] = SumOver(retired, Cpu)
    <3>1. "cores.total_insns" \in DidKeys
      BY DEF DidKeys
    <3>2. Did("cores.total_insns") = SumOver(retired, Cpu)
      BY DEF Did, MemoryKeys
    <3> QED BY <2>1, <3>1, <3>2
  <2>3. ASSUME NEW key \in MemoryKeys
        PROVE  IF Has(key) THEN vector.quantity[key] = InMemory(key, CountsOf(Cpu))
               ELSE "libcache" \in silent
    <3>1. key \notin {"cores.count_seen", "cores.count_active", "cores.total_insns"}
      BY DEF MemoryKeys
    <3>2. Did(key) = InMemory(key, CountsOf(Cpu))
      BY <3>1 DEF Did
    <3> QED BY <2>1, <3>2 DEF Has, DidKeys
  <2> QED BY <2>1, <2>2, <2>3 DEF VectorTrue
<1> QED BY <1>1, HarnessInvariant, PTL

(* An estimate without a warning charges every term for what was done. *)
THEOREM EstimateIsTrue == Spec => []EstimateTrue
<1>1. IInv => EstimateTrue
  BY DEF IInv, EstimateInv
<1> QED BY <1>1, HarnessInvariant, PTL
=============================================================================
