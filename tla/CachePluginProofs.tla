-------------------------- MODULE CachePluginProofs --------------------------
(***************************************************************************)
(* Theorems about CachePlugin, for every number of vCPUs and cores, every  *)
(* cache geometry and every guest.                                         *)
(***************************************************************************)
EXTENDS CachePlugin, FiniteSetTheorems, WellFoundedInduction, TLAPS

USE CachePluginAssumption

(* A vCPU is charged to a core the plugin models. *)
LEMMA IdxType == \A v \in Vcpu : cache_idx(v) \in Core
  BY DEF cache_idx, Vcpu, Core

(* Lines are numbered. *)
LEMMA LineType == Line \subseteq Nat
  BY DEF Line

(* Allocation leaves a level holding lines of the guest only. *)
LEMMA FillType ==
  ASSUME NEW lvl \in Level, NEW held \in SUBSET Line, NEW line \in Line,
         NEW result \in Fill(lvl, held, line)
  PROVE  result \in SUBSET Line
  BY DEF Fill

(* The stores remembered are a sequence of lines. *)
LEMMA RememberType ==
  ASSUME NEW seq \in Seq(Nat), NEW line \in Nat
  PROVE  Remember(seq, line) \in Seq(Nat)
  BY DEF Remember

(* A counter of one level of one core is incremented. *)
LEMMA CountType ==
  ASSUME NEW counter \in [Level -> [Core -> Nat]], NEW lvl \in Level, NEW c \in Core
  PROVE  [counter EXCEPT ![lvl][c] = @ + 1] \in [Level -> [Core -> Nat]]
  OBVIOUS

(* An access keeps the shape of the caches. *)
LEMMA AccessType ==
  ASSUME CachesType, NEW lvl \in Level, NEW c \in Core, NEW line \in Line,
         Access(lvl, c, line)
  PROVE  CachesType'
<1>1. accesses' \in [Level -> [Core -> Nat]]
  BY CountType DEF Access, CachesType
<1>2. CASE line \in lines[lvl][c]
  BY <1>1, <1>2 DEF Access, CachesType
<1>3. CASE line \notin lines[lvl][c]
  <2>1. misses' \in [Level -> [Core -> Nat]]
    <3>1. misses' = [misses EXCEPT ![lvl][c] = @ + 1]
      BY <1>3 DEF Access
    <3> QED BY <3>1, CountType DEF CachesType
  <2>2. PICK held \in Fill(lvl, lines[lvl][c], line) :
          lines' = [lines EXCEPT ![lvl][c] = held]
    BY <1>3 DEF Access
  <2>3. lines[lvl][c] \in SUBSET Line
    BY DEF CachesType
  <2>4. held \in SUBSET Line
    BY <2>2, <2>3, FillType
  <2>5. lines' \in [Level -> [Core -> SUBSET Line]]
    BY <2>2, <2>4 DEF CachesType
  <2> QED BY <1>1, <2>1, <2>5 DEF CachesType
<1> QED BY <1>2, <1>3

(* A vCPU inside its callback moves on. *)
LEMMA GotoType ==
  ASSUME ThreadType, NEW v \in Vcpu, pc[v] # "idle", NEW to \in Location,
         Goto(v, to), UNCHANGED <<op, issued>>
  PROVE  ThreadType'
  BY DEF ThreadType, Goto

(* What every step of a callback needs of the vCPU that takes it. *)
LEMMA CallbackStart ==
  ASSUME ThreadType, NEW v \in Vcpu, Callback(v)
  PROVE  /\ pc[v] # "idle"
         /\ op[v].line \in Line
         /\ op[v].line \in Nat
         /\ cache_idx(v) \in Core
<1>1. pc[v] # "idle"
  BY DEF Callback, ProbeHit, ProbeMiss, LeaveKeeping, LeaveStreaming,
     StreamProbeL2, StreamProbeL3, CheckLastLine, CountDramWrite,
     AssignLastLine, L1Access, L2Access, L3Access
<1> QED BY <1>1, IdxType, LineType DEF ThreadType

(* The steps of the allocating path have one form. *)
LEMMA AllocatingStep ==
  ASSUME NEW v \in Vcpu, L1Access(v) \/ L2Access(v) \/ L3Access(v)
  PROVE  /\ \E lvl \in Level : Access(lvl, cache_idx(v), op[v].line)
         /\ \E to \in Location : Goto(v, to)
         /\ UNCHANGED <<streamVars, l1Lock, op, issued, exitVars, history>>
<1>1. CASE L1Access(v)
  BY <1>1 DEF L1Access, L1, Level, Location
<1>2. CASE L2Access(v)
  BY <1>2 DEF L2Access, Level, Location
<1>3. CASE L3Access(v)
  BY <1>3 DEF L3Access, Level, Location
<1> QED BY <1>1, <1>2, <1>3

(* The steps that only consult the outer levels and ws_last_wline. *)
LEMMA ConsultingStep ==
  ASSUME NEW v \in Vcpu, StreamProbeL2(v) \/ StreamProbeL3(v) \/ CheckLastLine(v)
  PROVE  /\ \E to \in Location : Goto(v, to)
         /\ UNCHANGED <<cacheVars, streamVars, l1Lock, op, issued, exitVars, history>>
  BY DEF StreamProbeL2, StreamProbeL3, CheckLastLine, Location

-----------------------------------------------------------------------------
(* The state keeps its shape (TypeOK), whatever the guest does. *)
LEMMA TypeInit == Init => TypeOK
<1> SUFFICES ASSUME Init PROVE TypeOK
  OBVIOUS
<1>1. CachesType /\ LockType /\ StreamType
  BY DEF Init, CachesType, LockType, StreamType
<1>2. ThreadType
  BY DEF Init, ThreadType, Kind, Location
<1>3. ExitType
  BY DEF Init, ExitType
<1>4. HistoryType
  <2>1. recent \in [Vcpu -> Seq(Nat)]
    BY DEF Init
  <2> QED BY <2>1 DEF Init, HistoryType
<1> QED BY <1>1, <1>2, <1>3, <1>4 DEF TypeOK

(* The guest's accesses keep the types. *)
LEMMA IssueType ==
  ASSUME TypeOK, NEW v \in Vcpu, NEW kind \in Kind, NEW line \in Line,
         Issue(v, kind, line)
  PROVE  TypeOK'
<1>1. cache_idx(v) \in Core /\ line \in Nat
  BY IdxType, LineType
<1>2. CachesType' /\ LockType' /\ StreamType' /\ ExitType'
  BY DEF Issue, TypeOK, CachesType, LockType, StreamType, ExitType,
     cacheVars, streamVars, exitVars, NoReport
<1>3. ThreadType'
  <2>1. pc' \in [Vcpu -> Location]
    BY DEF Issue, Goto, TypeOK, ThreadType, Location
  <2>2. op' \in [Vcpu -> [kind : Kind, line : Nat]]
    BY <1>1 DEF Issue, TypeOK, ThreadType
  <2>3. \A w \in Vcpu : pc'[w] # "idle" => op'[w].line \in Line
    BY DEF Issue, Goto, TypeOK, ThreadType
  <2>4. issued' \in [Vcpu -> Nat]
    BY DEF Issue, TypeOK, ThreadType
  <2> QED BY <2>1, <2>2, <2>3, <2>4 DEF ThreadType
<1>4. HistoryType'
  BY <1>1 DEF Issue, TypeOK, HistoryType
<1> QED BY <1>2, <1>3, <1>4 DEF TypeOK

(* The steps of vcpu_mem_access and vcpu_insn_exec keep the types.         *)
LEMMA CallbackType ==
  ASSUME TypeOK, NEW v \in Vcpu, Callback(v)
  PROVE  TypeOK'
<1> DEFINE c    == cache_idx(v)
           line == op[v].line
<1> USE DEF TypeOK
<1>1. c \in Core /\ line \in Line /\ line \in Nat /\ pc[v] # "idle"
  BY CallbackStart
<1>2. UNCHANGED <<exited, report, op, issued, begun>>
  BY AllocatingStep
  DEF Callback, ProbeHit, ProbeMiss, LeaveKeeping, LeaveStreaming,
      StreamProbeL2, StreamProbeL3, CheckLastLine, CountDramWrite,
      AssignLastLine, exitVars, history
<1>3. ExitType'
  BY <1>2 DEF ExitType, NoReport
<1>4. ThreadType'
  <2>1. \E to \in Location : Goto(v, to)
    BY AllocatingStep, ConsultingStep
    DEF Callback, ProbeHit, ProbeMiss, LeaveKeeping, LeaveStreaming,
        CountDramWrite, AssignLastLine, Location
  <2> QED BY <1>1, <1>2, <2>1, GotoType
<1>5. LockType'
  <2>1. UNCHANGED l1Lock \/ \E to \in Vcpu \cup {NoVcpu} : l1Lock' = [l1Lock EXCEPT ![c] = to]
    BY AllocatingStep, ConsultingStep
    DEF Callback, ProbeHit, ProbeMiss, LeaveKeeping, LeaveStreaming,
        CountDramWrite, AssignLastLine
  <2> QED BY <1>1, <2>1 DEF LockType
<1>6. CachesType'
  <2>1. CASE ProbeMiss(v)
    <3>1. UNCHANGED <<lines, misses>>
      BY <2>1 DEF ProbeMiss
    <3>2. accesses' = [accesses EXCEPT !["l1d"][c] = @ + 1] \/ UNCHANGED accesses
      BY <2>1 DEF ProbeMiss
    <3>3. accesses' \in [Level -> [Core -> Nat]]
      BY <1>1, <3>2, CountType DEF CachesType, Level
    <3> QED BY <3>1, <3>3 DEF CachesType
  <2>2. CASE L1Access(v) \/ L2Access(v) \/ L3Access(v)
    BY <1>1, <2>2, AllocatingStep, AccessType
  <2>3. CASE UNCHANGED cacheVars
    BY <2>3 DEF CachesType, cacheVars
  <2> QED
    BY <2>1, <2>2, <2>3, ConsultingStep
    DEF Callback, ProbeHit, LeaveKeeping, LeaveStreaming, CountDramWrite,
        AssignLastLine
<1>7. StreamType'
  <2>1. CASE ProbeMiss(v)
    <3>1. StreakAfter(c, line) \in Nat
      BY <1>1 DEF StreakAfter, StreamType
    <3> QED BY <1>1, <2>1, <3>1 DEF ProbeMiss, StreamType
  <2>2. CASE LeaveStreaming(v)
    BY <2>2 DEF LeaveStreaming, StreamType
  <2>3. CASE CountDramWrite(v)
    BY <2>3 DEF CountDramWrite, StreamType
  <2>4. CASE AssignLastLine(v)
    BY <1>1, <2>4 DEF AssignLastLine, StreamType
  <2>5. CASE UNCHANGED streamVars
    BY <2>5 DEF StreamType, streamVars
  <2> QED
    BY <2>1, <2>2, <2>3, <2>4, <2>5, AllocatingStep, ConsultingStep
    DEF Callback, ProbeHit, LeaveKeeping
<1>8. HistoryType'
  <2>1. CASE ProbeMiss(v)
    <3>1. Remember(recent[v], line) \in Seq(Nat)
      BY <1>1, RememberType DEF HistoryType
    <3> QED BY <2>1, <3>1 DEF ProbeMiss, HistoryType
  <2>2. CASE CountDramWrite(v)
    BY <1>1, <2>2 DEF CountDramWrite, HistoryType
  <2>3. CASE UNCHANGED history
    BY <2>3 DEF HistoryType, history
  <2> QED
    BY <2>1, <2>2, <2>3, AllocatingStep, ConsultingStep
    DEF Callback, ProbeHit, LeaveKeeping, LeaveStreaming, AssignLastLine
<1> QED BY <1>3, <1>4, <1>5, <1>6, <1>7, <1>8

(* Every step keeps the types. *)
LEMMA TypeStep == TypeOK /\ [Next]_vars => TypeOK'
<1> SUFFICES ASSUME TypeOK, [Next]_vars PROVE TypeOK'
  OBVIOUS
<1>1. ASSUME NEW v \in Vcpu, NEW kind \in Kind, NEW line \in Line,
             Issue(v, kind, line)
      PROVE  TypeOK'
  BY <1>1, IssueType
<1>2. ASSUME NEW v \in Vcpu, Callback(v) PROVE TypeOK'
  BY <1>2, CallbackType
<1>3. CASE Exit
  BY <1>3 DEF Exit, TypeOK, CachesType, LockType, StreamType, ThreadType,
     ExitType, HistoryType, NoReport, cacheVars, streamVars, history
<1>4. CASE UNCHANGED vars
  BY <1>4 DEF vars, TypeOK, CachesType, LockType, StreamType, ThreadType,
     ExitType, HistoryType, NoReport
<1> QED
  BY <1>1, <1>2, <1>3, <1>4 DEF Next, Exited, Kind, Line

(* The plugin's state has its declared shape in every reachable state. *)
THEOREM TypeCorrect == Spec => []TypeOK
  BY TypeInit, TypeStep, PTL DEF Spec

-----------------------------------------------------------------------------
(* The L1D mutex is held exactly by the vCPU in the probing section, so    *)
(* no exit of that section leaves it locked.                               *)
LEMMA LockStep == TypeOK /\ LockDiscipline /\ [Next]_vars => LockDiscipline'
<1> SUFFICES ASSUME TypeOK, LockDiscipline, [Next]_vars,
                    NEW c \in Core, NEW w \in Vcpu
             PROVE  l1Lock'[c] = w <=> cache_idx(w) = c /\ pc'[w] \in InProbeSection
  BY DEF LockDiscipline, cache_idx, InProbeSection
<1> USE DEF TypeOK, ThreadType, LockType
<1>1. l1Lock[c] = w <=> cache_idx(w) = c /\ pc[w] \in InProbeSection
  BY DEF LockDiscipline
<1>2. ASSUME NEW v \in Vcpu, pc[v] \notin InProbeSection,
             NEW to \in Location \ InProbeSection, Goto(v, to), UNCHANGED l1Lock
      PROVE  l1Lock'[c] = w <=> cache_idx(w) = c /\ pc'[w] \in InProbeSection
  BY <1>1, <1>2 DEF Goto
<1>3. ASSUME NEW v \in Vcpu, Callback(v)
      PROVE  l1Lock'[c] = w <=> cache_idx(w) = c /\ pc'[w] \in InProbeSection
  <2>1. cache_idx(v) \in Core
    BY IdxType
  <2>2. CASE ProbeHit(v) \/ ProbeMiss(v)
    <3>1. /\ l1Lock[cache_idx(v)] = NoVcpu
          /\ l1Lock' = [l1Lock EXCEPT ![cache_idx(v)] = v]
          /\ \E to \in InProbeSection : Goto(v, to)
      BY <2>2 DEF ProbeHit, ProbeMiss, InProbeSection
    <3> QED BY <1>1, <2>1, <3>1 DEF Goto
  <2>3. CASE LeaveKeeping(v) \/ LeaveStreaming(v)
    <3>1. /\ pc[v] \in InProbeSection
          /\ l1Lock' = [l1Lock EXCEPT ![cache_idx(v)] = NoVcpu]
          /\ \E to \in Location \ InProbeSection : Goto(v, to)
      BY <2>3 DEF LeaveKeeping, LeaveStreaming, InProbeSection, Location
    <3>2. l1Lock[cache_idx(v)] = v
      BY <2>1, <3>1 DEF LockDiscipline
    <3> QED BY <1>1, <2>1, <3>1, <3>2 DEF Goto
  <2>4. CASE ~(ProbeHit(v) \/ ProbeMiss(v) \/ LeaveKeeping(v) \/ LeaveStreaming(v))
    <3>1. /\ pc[v] \notin InProbeSection
          /\ UNCHANGED l1Lock
      BY <1>3, <2>4
      DEF Callback, StreamProbeL2, StreamProbeL3, CheckLastLine, CountDramWrite,
          AssignLastLine, L1Access, L2Access, L3Access, InProbeSection
    <3>2. \E to \in Location \ InProbeSection : Goto(v, to)
      BY <1>3, <2>4
      DEF Callback, StreamProbeL2, StreamProbeL3, CheckLastLine, CountDramWrite,
          AssignLastLine, L1Access, L2Access, L3Access, InProbeSection, Location
    <3> QED BY <1>2, <3>1, <3>2
  <2> QED BY <2>2, <2>3, <2>4
<1>4. ASSUME NEW v \in Vcpu, NEW kind \in Kind, NEW line \in Line,
             Issue(v, kind, line)
      PROVE  l1Lock'[c] = w <=> cache_idx(w) = c /\ pc'[w] \in InProbeSection
  <2>1. /\ pc[v] \notin InProbeSection
        /\ UNCHANGED l1Lock
        /\ \E to \in Location \ InProbeSection : Goto(v, to)
    BY <1>4 DEF Issue, InProbeSection, Location
  <2> QED BY <1>2, <2>1
<1>5. CASE Exit \/ UNCHANGED vars
  BY <1>1, <1>5 DEF Exit, vars
<1> QED BY <1>3, <1>4, <1>5 DEF Next, Exited, Kind, Line

(* The probing section's mutex is held by the vCPU that is in it, and by   *)
(* nobody after any of its exits, for every number of vCPUs and cores.     *)
THEOREM MutexDiscipline == Spec => []LockDiscipline
<1>1. Init => LockDiscipline
  BY DEF Init, LockDiscipline, InProbeSection
<1> QED BY <1>1, TypeCorrect, LockStep, PTL DEF Spec

-----------------------------------------------------------------------------
(* With a core per vCPU, the unlocked check, add and assignment of the     *)
(* DRAM-write counter are as good as atomic.                               *)
LEMMA BurstStep ==
  ASSUME PrivateCores, TypeOK, BurstInv, [Next]_vars
  PROVE  BurstInv'
<1> SUFFICES ASSUME NEW w \in Vcpu
    PROVE  LET c == cache_idx(w) IN
             /\ pc'[w] = "add" => op'[w].line # ws_last_wline'[c]
             /\ pc'[w] = "assign" => lastBurst'[c] = op'[w].line
             /\ pc'[w] # "assign" => lastBurst'[c] = ws_last_wline'[c]
  BY DEF BurstInv, cache_idx
<1> DEFINE c == cache_idx(w)
           Goal == /\ pc'[w] = "add" => op'[w].line # ws_last_wline'[c]
                   /\ pc'[w] = "assign" => lastBurst'[c] = op'[w].line
                   /\ pc'[w] # "assign" => lastBurst'[c] = ws_last_wline'[c]
<1> USE DEF TypeOK, ThreadType, StreamType, HistoryType
<1>1. /\ pc[w] = "add" => op[w].line # ws_last_wline[c]
      /\ pc[w] = "assign" => lastBurst[c] = op[w].line
      /\ pc[w] # "assign" => lastBurst[c] = ws_last_wline[c]
  BY DEF BurstInv
<1>2. c \in Core
  BY IdxType
<1>3. ASSUME NEW v \in Vcpu, NEW to \in Location \ {"add", "assign"}, pc[v] # "assign",
             Goto(v, to), UNCHANGED <<ws_last_wline, lastBurst>>,
             op'[w] = op[w] \/ v = w
      PROVE  Goal
  BY <1>1, <1>3 DEF Goto
<1>4. ASSUME NEW v \in Vcpu, Callback(v)
      PROVE  Goal
  <2>1. cache_idx(v) \in Core /\ (v # w => cache_idx(v) # c)
    BY IdxType DEF PrivateCores
  <2>2. CASE CheckLastLine(v)
    BY <1>1, <2>2 DEF CheckLastLine, Goto, streamVars, history
  <2>3. CASE CountDramWrite(v)
    <3>1. /\ pc[v] = "add" /\ Goto(v, "assign")
          /\ UNCHANGED <<op, ws_last_wline>>
          /\ lastBurst' = [lastBurst EXCEPT ![cache_idx(v)] = op[v].line]
      BY <2>3 DEF CountDramWrite
    <3> QED BY <1>1, <1>2, <2>1, <3>1 DEF Goto
  <2>4. CASE AssignLastLine(v)
    <3>1. /\ pc[v] = "assign" /\ Goto(v, "idle")
          /\ UNCHANGED <<op, lastBurst>>
          /\ ws_last_wline' = [ws_last_wline EXCEPT ![cache_idx(v)] = op[v].line]
      BY <2>4 DEF AssignLastLine, history
    <3> QED BY <1>1, <1>2, <2>1, <3>1 DEF Goto
  <2>5. CASE ~(CheckLastLine(v) \/ CountDramWrite(v) \/ AssignLastLine(v))
    <3>1. pc[v] # "assign" /\ UNCHANGED <<op, ws_last_wline, lastBurst>>
      BY <1>4, <2>5, AllocatingStep
      DEF Callback, ProbeHit, ProbeMiss, LeaveKeeping, LeaveStreaming,
          StreamProbeL2, StreamProbeL3, L1Access, L2Access, L3Access,
          streamVars, history
    <3>2. \E to \in Location \ {"add", "assign"} : Goto(v, to)
      BY <1>4, <2>5
      DEF Callback, ProbeHit, ProbeMiss, LeaveKeeping, LeaveStreaming,
          StreamProbeL2, StreamProbeL3, L1Access, L2Access, L3Access, Location
    <3> QED BY <1>3, <3>1, <3>2
  <2> QED BY <2>2, <2>3, <2>4, <2>5
<1>5. ASSUME NEW v \in Vcpu, NEW kind \in Kind, NEW line \in Line,
             Issue(v, kind, line)
      PROVE  Goal
  <2>1. /\ pc[v] # "assign"
        /\ UNCHANGED <<ws_last_wline, lastBurst>>
        /\ op'[w] = op[w] \/ v = w
        /\ \E to \in Location \ {"add", "assign"} : Goto(v, to)
    BY <1>5 DEF Issue, Location, streamVars
  <2> QED BY <1>3, <2>1
<1>6. CASE Exit \/ UNCHANGED vars
  BY <1>1, <1>6 DEF Exit, vars, streamVars, history
<1> QED BY <1>4, <1>5, <1>6 DEF Next, Exited, Kind, Line

(* "one DRAM write burst per line, not per store" holds when each vCPU has *)
(* a modelled core to itself (a run shows it fails when two share one).    *)
THEOREM OneBurst ==
  ASSUME PrivateCores
  PROVE  Spec => OneBurstPerLine
<1>1. Init => BurstInv
  BY DEF Init, BurstInv, cache_idx, Vcpu, Core
<1>2. BurstInv => \A v \in Vcpu : CountDramWrite(v) => lastBurst[cache_idx(v)] # op[v].line
  BY DEF BurstInv, CountDramWrite
<1>3. TypeOK /\ BurstInv /\ [Next]_vars => BurstInv'
  BY BurstStep
<1> QED BY <1>1, <1>2, <1>3, TypeCorrect, PTL DEF Spec, OneBurstPerLine

-----------------------------------------------------------------------------
(* The number of vCPUs of core c at a location. *)
NumAt(c, location) == Cardinality(At(c, {location}))

(* The vCPUs at a point of the callback can be counted. *)
LEMMA AtFinite ==
  ASSUME NEW c, NEW location
  PROVE  IsFiniteSet(At(c, {location})) /\ NumAt(c, location) \in Nat
<1>1. IsFiniteSet(Vcpu)
  BY FS_Interval DEF Vcpu
<1>2. At(c, {location}) \in SUBSET Vcpu
  BY DEF At
<1>3. IsFiniteSet(At(c, {location}))
  BY <1>1, <1>2, FS_Subset
<1> QED BY <1>3, FS_CardinalityType DEF NumAt

(* How one vCPU's move changes the number at a location. *)
LEMMA NumAtGoto ==
  ASSUME ThreadType, NEW v \in Vcpu, NEW to \in Location, Goto(v, to),
         NEW c \in Core, NEW location \in Location
  PROVE  NumAt(c, location)' =
           IF cache_idx(v) # c \/ (pc[v] = location <=> to = location)
           THEN NumAt(c, location)
           ELSE IF to = location THEN NumAt(c, location) + 1
           ELSE NumAt(c, location) - 1
<1> USE DEF ThreadType, Goto
<1> DEFINE S == At(c, {location})
           T == {w \in Vcpu : cache_idx(w) = c /\ pc'[w] = location}
<1>1. At(c, {location})' = T
  BY DEF At, cache_idx
<1>2. IsFiniteSet(S)
  BY AtFinite
<1>3. CASE cache_idx(v) # c \/ (pc[v] = location <=> to = location)
  <2>1. T = S
    BY <1>3 DEF At
  <2> QED BY <1>1, <1>3, <2>1 DEF NumAt
<1>4. CASE cache_idx(v) = c /\ pc[v] # location /\ to = location
  <2>1. T = S \cup {v} /\ v \notin S
    BY <1>4 DEF At
  <2>2. Cardinality(S \cup {v}) = Cardinality(S) + 1
    BY <1>2, <2>1, FS_AddElement
  <2> QED BY <1>1, <1>4, <2>1, <2>2 DEF NumAt
<1>5. CASE cache_idx(v) = c /\ pc[v] = location /\ to # location
  <2>1. T = S \ {v} /\ v \in S
    BY <1>5 DEF At
  <2>2. Cardinality(S \ {v}) = Cardinality(S) - 1
    BY <1>2, <2>1, FS_RemoveElement
  <2> QED BY <1>1, <1>5, <2>1, <2>2 DEF NumAt
<1> QED BY <1>3, <1>4, <1>5

(* What an access does to the counters of a level. *)
LEMMA AccessCounts ==
  ASSUME CachesType, NEW lvl \in Level, NEW c \in Core, NEW line \in Line,
         Access(lvl, c, line), NEW l \in Level, NEW d \in Core
  PROVE  /\ accesses'[l][d] = IF l = lvl /\ d = c THEN accesses[l][d] + 1
                              ELSE accesses[l][d]
         /\ misses'[l][d] = IF l = lvl /\ d = c /\ line \notin lines[lvl][c]
                            THEN misses[l][d] + 1 ELSE misses[l][d]
<1>1. accesses' = [accesses EXCEPT ![lvl][c] = @ + 1]
  BY DEF Access
<1>2. misses' = IF line \in lines[lvl][c] THEN misses
                ELSE [misses EXCEPT ![lvl][c] = @ + 1]
  BY DEF Access
<1>3. accesses'[l][d] = IF l = lvl /\ d = c THEN accesses[l][d] + 1
                        ELSE accesses[l][d]
  BY <1>1 DEF CachesType
<1>4. misses'[l][d] = IF l = lvl /\ d = c /\ line \notin lines[lvl][c]
                      THEN misses[l][d] + 1 ELSE misses[l][d]
  BY <1>2 DEF CachesType
<1> QED BY <1>3, <1>4

(* A step that leaves the counters of the outer levels alone and does not  *)
(* send or take anyone to or from them keeps the flow.                     *)
LEMMA FlowKept ==
  ASSUME TypeOK, MissFlow, NEW v \in Vcpu,
         pc[v] \notin {"l2", "l3"}, NEW to \in Location \ {"l2", "l3"}, Goto(v, to),
         UNCHANGED misses,
         accesses' = accesses \/ \E c \in Core : accesses' = [accesses EXCEPT !["l1d"][c] = @ + 1]
  PROVE  MissFlow'
<1> SUFFICES ASSUME NEW c \in Core PROVE L2Flow(c)' /\ L3Flow(c)'
  BY DEF MissFlow, Core
<1> USE DEF TypeOK
<1>1. NumAt(c, "l2")' = NumAt(c, "l2") /\ NumAt(c, "l3")' = NumAt(c, "l3")
  BY NumAtGoto DEF Location
<1>2. accesses'["l2"][c] = accesses["l2"][c] /\ accesses'["l3"][c] = accesses["l3"][c]
  BY DEF CachesType, Level
<1> QED BY <1>1, <1>2 DEF MissFlow, L2Flow, L3Flow, NumAt

(* One refill counted at each level for every miss of the level above. *)
LEMMA FlowStep ==
  ASSUME TypeOK, MissFlow, [Next]_vars
  PROVE  MissFlow'
<1> USE DEF TypeOK
<1>1. ASSUME NEW v \in Vcpu, NEW kind \in Kind, NEW line \in Line,
             Issue(v, kind, line)
      PROVE  MissFlow'
  <2>1. /\ pc[v] = "idle" /\ UNCHANGED <<accesses, misses>>
        /\ \E to \in Location \ {"l2", "l3"} : Goto(v, to)
    BY <1>1 DEF Issue, Location, cacheVars
  <2> QED BY <2>1, FlowKept
<1>2. ASSUME NEW v \in Vcpu, Callback(v)
      PROVE  MissFlow'
  <2> DEFINE d    == cache_idx(v)
             line == op[v].line
  <2>1. d \in Core /\ line \in Line
    BY <1>2, CallbackStart
  <2> SUFFICES ASSUME L1Access(v) \/ L2Access(v) \/ L3Access(v)
               PROVE  MissFlow'
    <3>1. CASE L1Access(v) \/ L2Access(v) \/ L3Access(v)
      BY <3>1
    <3>2. CASE ~(L1Access(v) \/ L2Access(v) \/ L3Access(v))
      <4>1. pc[v] \notin {"l2", "l3"} /\ \E to \in Location \ {"l2", "l3"} : Goto(v, to)
        BY <1>2, <3>2
        DEF Callback, ProbeHit, ProbeMiss, LeaveKeeping, LeaveStreaming,
            StreamProbeL2, StreamProbeL3, CheckLastLine, CountDramWrite,
            AssignLastLine, Location
      <4>2. /\ UNCHANGED misses
            /\ \/ accesses' = accesses
               \/ accesses' = [accesses EXCEPT !["l1d"][d] = @ + 1]
        BY <1>2, <3>2
        DEF Callback, ProbeHit, ProbeMiss, LeaveKeeping, LeaveStreaming,
            StreamProbeL2, StreamProbeL3, CheckLastLine, CountDramWrite,
            AssignLastLine, cacheVars
      <4> QED BY <2>1, <4>1, <4>2, FlowKept
    <3> QED BY <3>1, <3>2
  <2> SUFFICES ASSUME NEW c \in Core PROVE L2Flow(c)' /\ L3Flow(c)'
    BY DEF MissFlow, Core
  <2> DEFINE N2 == NumAt(c, "l2")
             N3 == NumAt(c, "l3")
  <2>2. L2Flow(c) /\ L3Flow(c) /\ N2 \in Nat /\ N3 \in Nat
    BY AtFinite DEF MissFlow
  <2>3. /\ \A lvl \in Level : accesses[lvl][c] \in Nat /\ misses[lvl][c] \in Nat
        /\ {"l1d", "l1i", "l2", "l3"} = Level
    BY DEF CachesType, Level
  <2>4. CASE L1Access(v)
    <3> DEFINE miss == line \notin lines[L1(v)][d]
    <3>1. /\ L1(v) \in {"l1d", "l1i"} /\ pc[v] = "l1"
          /\ Access(L1(v), d, line)
          /\ Goto(v, IF ~miss \/ ~use_l2 THEN "idle" ELSE "l2")
      BY <2>4 DEF L1Access, L1
    <3>2. /\ N2' = IF d = c /\ miss /\ use_l2 THEN N2 + 1 ELSE N2
          /\ N3' = N3
      BY <2>1, <3>1, NumAtGoto DEF Location
    <3> DEFINE Counted(l) ==
                 /\ accesses'[l][c] = IF l = L1(v) /\ d = c THEN accesses[l][c] + 1
                                      ELSE accesses[l][c]
                 /\ misses'[l][c] = IF l = L1(v) /\ d = c /\ miss THEN misses[l][c] + 1
                                    ELSE misses[l][c]
    <3> HIDE DEF miss
    <3>0. CachesType /\ L1(v) \in Level
      BY <2>3, <3>1
    <3>5. \A l \in Level : Counted(l)
      BY <2>1, <3>0, <3>1, AccessCounts DEF miss
    <3>3. /\ accesses'["l2"][c] = accesses["l2"][c]
          /\ accesses'["l3"][c] = accesses["l3"][c]
          /\ misses'["l2"][c] = misses["l2"][c]
      BY <2>3, <3>1, <3>5
    <3>4. misses'["l1d"][c] + misses'["l1i"][c]
            = IF d = c /\ miss THEN misses["l1d"][c] + misses["l1i"][c] + 1
              ELSE misses["l1d"][c] + misses["l1i"][c]
      <4>1. \A lvl \in {"l1d", "l1i"} :
              misses'[lvl][c] = IF lvl = L1(v) /\ d = c /\ miss
                                THEN misses[lvl][c] + 1 ELSE misses[lvl][c]
        BY <2>3, <3>5
      <4> DEFINE m(lvl) == misses[lvl][c]
                 n(lvl) == misses'[lvl][c]
      <4>2. /\ m("l1d") \in Nat /\ m("l1i") \in Nat
            /\ L1(v) = "l1d" \/ L1(v) = "l1i"
        BY <2>3, <3>1
      <4>3. d = c /\ miss => \/ n("l1d") = m("l1d") + 1 /\ n("l1i") = m("l1i")
                             \/ n("l1d") = m("l1d") /\ n("l1i") = m("l1i") + 1
        BY <4>1, <4>2
      <4>4. ~(d = c /\ miss) => n("l1d") = m("l1d") /\ n("l1i") = m("l1i")
        BY <4>1
      <4> HIDE DEF m, n
      <4>5. n("l1d") + n("l1i") = IF d = c /\ miss THEN m("l1d") + m("l1i") + 1
                                  ELSE m("l1d") + m("l1i")
        BY ONLY <4>2, <4>3, <4>4
      <4> QED BY <4>5 DEF m, n
    <3>6. L2Flow(c)'
      BY <2>2, <2>3, <3>2, <3>3, <3>4 DEF L2Flow, NumAt
    <3>7. L3Flow(c)'
      BY <2>2, <2>3, <3>2, <3>3 DEF L3Flow, NumAt
    <3> QED BY <3>6, <3>7
  <2>5. CASE L2Access(v)
    <3> DEFINE miss == line \notin lines["l2"][d]
    <3>1. /\ pc[v] = "l2"
          /\ Access("l2", d, line)
          /\ Goto(v, IF miss /\ use_l3 THEN "l3" ELSE "idle")
      BY <2>5 DEF L2Access
    <3>2. /\ N2' = IF d = c THEN N2 - 1 ELSE N2
          /\ N3' = IF d = c /\ miss /\ use_l3 THEN N3 + 1 ELSE N3
      BY <2>1, <3>1, NumAtGoto DEF Location
    <3>3. /\ accesses'["l2"][c] = IF d = c THEN accesses["l2"][c] + 1 ELSE accesses["l2"][c]
          /\ accesses'["l3"][c] = accesses["l3"][c]
          /\ misses'["l2"][c] = IF d = c /\ miss THEN misses["l2"][c] + 1 ELSE misses["l2"][c]
          /\ misses'["l1d"][c] = misses["l1d"][c] /\ misses'["l1i"][c] = misses["l1i"][c]
      BY <2>1, <2>3, <3>1, AccessCounts
    <3> QED BY <2>2, <2>3, <3>2, <3>3 DEF L2Flow, L3Flow, NumAt
  <2>6. CASE L3Access(v)
    <3>1. pc[v] = "l3" /\ Access("l3", d, line) /\ Goto(v, "idle")
      BY <2>6 DEF L3Access
    <3>2. N2' = N2 /\ N3' = IF d = c THEN N3 - 1 ELSE N3
      BY <2>1, <3>1, NumAtGoto DEF Location
    <3>3. /\ accesses'["l3"][c] = IF d = c THEN accesses["l3"][c] + 1 ELSE accesses["l3"][c]
          /\ accesses'["l2"][c] = accesses["l2"][c]
          /\ \A lvl \in {"l1d", "l1i", "l2"} : misses'[lvl][c] = misses[lvl][c]
      BY <2>1, <2>3, <3>1, AccessCounts
    <3> QED BY <2>2, <2>3, <3>2, <3>3 DEF L2Flow, L3Flow, NumAt
  <2> QED BY <2>4, <2>5, <2>6
<1>3. CASE Exit \/ UNCHANGED vars
  BY <1>3 DEF Exit, vars, cacheVars, MissFlow, L2Flow, L3Flow, At, cache_idx, Core, Vcpu
<1> QED BY <1>1, <1>2, <1>3 DEF Next, Exited, Kind, Line

(* Whatever the vCPUs' interleaving, L2 is accessed once for every L1 miss *)
(* and L3 once for every L2 miss, up to the accesses still on their way.   *)
THEOREM RefillsConserved == Spec => []MissFlow
<1>1. Init => MissFlow
  <2> SUFFICES ASSUME Init, NEW c \in Core PROVE L2Flow(c) /\ L3Flow(c)
    BY DEF MissFlow
  <2>1. At(c, {"l2"}) = {} /\ At(c, {"l3"}) = {}
    BY DEF Init, At
  <2>2. Cardinality(At(c, {"l2"})) = 0 /\ Cardinality(At(c, {"l3"})) = 0
    BY <2>1, FS_EmptySet
  <2>3. \A lvl \in Level : accesses[lvl][c] = 0 /\ misses[lvl][c] = 0
    BY DEF Init
  <2> QED BY <2>2, <2>3 DEF L2Flow, L3Flow, Level
<1>2. TypeOK /\ MissFlow /\ [Next]_vars => MissFlow'
  BY FlowStep
<1> QED BY <1>1, <1>2, TypeCorrect, PTL DEF Spec

-----------------------------------------------------------------------------
(* The accesses of core c that have begun and are not yet counted in L1.   *)
Uncounted(c) == {v \in At(c, {"probe", "keep", "l1"}) : op[v].kind # "fetch"}
Unfetched(c) == {v \in At(c, {"l1"}) : op[v].kind = "fetch"}

DataOnce(c) ==
  accesses["l1d"][c] + Cardinality(Uncounted(c)) = begun[c]["load"] + begun[c]["store"]

FetchOnce(c) == accesses["l1i"][c] + Cardinality(Unfetched(c)) = begun[c]["fetch"]

(* Only a store is probed. *)
ProbedStores == \A v \in Vcpu : pc[v] \in {"probe", "keep"} => op[v].kind = "store"

OnceInv == ProbedStores /\ \A c \in Core : DataOnce(c) /\ FetchOnce(c)

(* A set of vCPUs that differs from another in one of them at most. *)
LEMMA OneMoves ==
  ASSUME NEW S \in SUBSET Vcpu, NEW T \in SUBSET Vcpu, NEW v \in Vcpu,
         \A w \in Vcpu \ {v} : w \in S <=> w \in T
  PROVE  /\ Cardinality(S) \in Nat /\ Cardinality(T) \in Nat
         /\ Cardinality(T) = IF v \in S <=> v \in T THEN Cardinality(S)
                             ELSE IF v \in T THEN Cardinality(S) + 1
                             ELSE Cardinality(S) - 1
<1>1. IsFiniteSet(Vcpu)
  BY FS_Interval DEF Vcpu
<1>2. IsFiniteSet(S) /\ IsFiniteSet(T)
  BY <1>1, FS_Subset
<1>3. Cardinality(S) \in Nat /\ Cardinality(T) \in Nat
  BY <1>2, FS_CardinalityType
<1>4. CASE v \in S <=> v \in T
  <2>1. S = T
    BY <1>4
  <2> QED BY <1>3, <1>4, <2>1
<1>5. CASE v \notin S /\ v \in T
  <2>1. T = S \cup {v}
    BY <1>5
  <2>2. Cardinality(S \cup {v}) = Cardinality(S) + 1
    BY <1>2, <1>5, FS_AddElement
  <2> QED BY <1>3, <1>5, <2>1, <2>2
<1>6. CASE v \in S /\ v \notin T
  <2>1. T = S \ {v}
    BY <1>6
  <2>2. Cardinality(S \ {v}) = Cardinality(S) - 1
    BY <1>2, <1>6, FS_RemoveElement
  <2> QED BY <1>3, <1>6, <2>1, <2>2
<1> QED BY <1>4, <1>5, <1>6

(* How the move of one vCPU changes the accesses not yet counted. *)
LEMMA UncountedAfter ==
  ASSUME ThreadType, NEW v \in Vcpu, NEW c \in Core,
         \A w \in Vcpu \ {v} : pc'[w] = pc[w] /\ op'[w] = op[w]
  PROVE  /\ Cardinality(Uncounted(c)) \in Nat /\ Cardinality(Unfetched(c)) \in Nat
         /\ Cardinality(Uncounted(c))' =
              IF v \in Uncounted(c) <=> v \in Uncounted(c)' THEN Cardinality(Uncounted(c))
              ELSE IF v \in Uncounted(c)' THEN Cardinality(Uncounted(c)) + 1
              ELSE Cardinality(Uncounted(c)) - 1
         /\ Cardinality(Unfetched(c))' =
              IF v \in Unfetched(c) <=> v \in Unfetched(c)' THEN Cardinality(Unfetched(c))
              ELSE IF v \in Unfetched(c)' THEN Cardinality(Unfetched(c)) + 1
              ELSE Cardinality(Unfetched(c)) - 1
<1>1. /\ Uncounted(c) \in SUBSET Vcpu /\ Unfetched(c) \in SUBSET Vcpu
      /\ Uncounted(c)' \in SUBSET Vcpu /\ Unfetched(c)' \in SUBSET Vcpu
  BY DEF Uncounted, Unfetched, At, Vcpu
<1>2. \A w \in Vcpu \ {v} : /\ w \in Uncounted(c) <=> w \in Uncounted(c)'
                            /\ w \in Unfetched(c) <=> w \in Unfetched(c)'
  BY DEF Uncounted, Unfetched, At, Vcpu, cache_idx
<1>3. /\ Cardinality(Uncounted(c)) \in Nat
      /\ Cardinality(Uncounted(c)') =
           IF v \in Uncounted(c) <=> v \in Uncounted(c)' THEN Cardinality(Uncounted(c))
           ELSE IF v \in Uncounted(c)' THEN Cardinality(Uncounted(c)) + 1
           ELSE Cardinality(Uncounted(c)) - 1
  BY <1>1, <1>2, OneMoves
<1>4. /\ Cardinality(Unfetched(c)) \in Nat
      /\ Cardinality(Unfetched(c)') =
           IF v \in Unfetched(c) <=> v \in Unfetched(c)' THEN Cardinality(Unfetched(c))
           ELSE IF v \in Unfetched(c)' THEN Cardinality(Unfetched(c)) + 1
           ELSE Cardinality(Unfetched(c)) - 1
  BY <1>1, <1>2, OneMoves
<1> QED BY <1>3, <1>4

(* A step that counts nothing and neither adds nor takes an access.        *)
LEMMA OnceKept ==
  ASSUME TypeOK, OnceInv, NEW v \in Vcpu, NEW to \in Location, Goto(v, to),
         UNCHANGED <<op, begun>>,
         \A c \in Core, lvl \in {"l1d", "l1i"} : accesses'[lvl][c] = accesses[lvl][c],
         \/ pc[v] \in {"probe", "keep"} /\ to \in {"keep", "l1"}
         \/ pc[v] \notin {"probe", "keep", "l1"} /\ to \notin {"probe", "keep", "l1"}
  PROVE  OnceInv'
<1> USE DEF TypeOK, ThreadType, Goto
<1>1. pc'[v] = to /\ \A w \in Vcpu \ {v} : pc'[w] = pc[w]
  OBVIOUS
<1>2. ProbedStores'
  BY <1>1 DEF OnceInv, ProbedStores, Vcpu
<1>3. ASSUME NEW c \in Core
      PROVE  DataOnce(c)' /\ FetchOnce(c)'
  <2>1. /\ v \in Uncounted(c) <=> v \in Uncounted(c)'
        /\ v \in Unfetched(c) <=> v \in Unfetched(c)'
    BY <1>1 DEF OnceInv, ProbedStores, Uncounted, Unfetched, At, Vcpu, cache_idx
  <2>2. /\ Cardinality(Uncounted(c))' = Cardinality(Uncounted(c))
        /\ Cardinality(Unfetched(c))' = Cardinality(Unfetched(c))
    BY <1>1, <2>1, UncountedAfter
  <2> QED BY <2>2 DEF OnceInv, DataOnce, FetchOnce
<1> QED BY <1>2, <1>3 DEF OnceInv, Core

(* Every access is counted in one L1 once, on whichever path.              *)
LEMMA OnceStep ==
  ASSUME TypeOK, OnceInv, [Next]_vars
  PROVE  OnceInv'
<1> USE DEF TypeOK
<1>1. ASSUME NEW v \in Vcpu, NEW kind \in Kind, NEW line \in Line,
             Issue(v, kind, line)
      PROVE  OnceInv'
  <2> DEFINE d  == cache_idx(v)
             to == IF kind = "store" /\ use_wstream THEN "probe" ELSE "l1"
  <2>1. /\ pc[v] = "idle" /\ accesses' = accesses
        /\ begun' = [begun EXCEPT ![d][kind] = @ + 1]
        /\ pc' = [pc EXCEPT ![v] = to]
        /\ op' = [op EXCEPT ![v] = [kind |-> kind, line |-> line]]
    BY <1>1 DEF Issue, Goto, cacheVars
  <2>2. /\ pc'[v] = to /\ op'[v].kind = kind
        /\ \A w \in Vcpu \ {v} : pc'[w] = pc[w] /\ op'[w] = op[w]
    BY <2>1 DEF ThreadType
  <2>3. ProbedStores'
    BY <2>2 DEF OnceInv, ProbedStores, Vcpu
  <2>4. ASSUME NEW c \in Core
        PROVE  DataOnce(c)' /\ FetchOnce(c)'
    <3>1. /\ v \notin Uncounted(c) /\ v \notin Unfetched(c)
          /\ v \in Uncounted(c)' <=> d = c /\ kind # "fetch"
          /\ v \in Unfetched(c)' <=> d = c /\ kind = "fetch"
      BY <2>1, <2>2 DEF Uncounted, Unfetched, At, Vcpu, cache_idx
    <3>2. \A k \in Kind : begun'[c][k] = IF d = c /\ k = kind THEN begun[c][k] + 1 ELSE begun[c][k]
      BY <2>1 DEF HistoryType
    <3>3. \A k \in Kind : begun[c][k] \in Nat
      BY DEF HistoryType
    <3>4. /\ Cardinality(Uncounted(c)) \in Nat /\ Cardinality(Unfetched(c)) \in Nat
          /\ Cardinality(Uncounted(c))' =
               IF d = c /\ kind # "fetch" THEN Cardinality(Uncounted(c)) + 1
               ELSE Cardinality(Uncounted(c))
          /\ Cardinality(Unfetched(c))' =
               IF d = c /\ kind = "fetch" THEN Cardinality(Unfetched(c)) + 1
               ELSE Cardinality(Unfetched(c))
      BY <2>2, <3>1, UncountedAfter
    <3>5. /\ accesses'["l1d"][c] = accesses["l1d"][c] /\ accesses["l1d"][c] \in Nat
          /\ accesses'["l1i"][c] = accesses["l1i"][c] /\ accesses["l1i"][c] \in Nat
      BY <2>1 DEF CachesType, Level
    <3>6. DataOnce(c) /\ FetchOnce(c)
      BY DEF OnceInv
    <3> HIDE DEF d
    <3> QED BY <3>2, <3>3, <3>4, <3>5, <3>6 DEF DataOnce, FetchOnce, Kind
  <2> QED BY <2>3, <2>4 DEF OnceInv, Core
<1>2. ASSUME NEW v \in Vcpu, ProbeHit(v) \/ LeaveKeeping(v)
      PROVE  OnceInv'
  <2>1. /\ pc[v] \in {"probe", "keep"} /\ UNCHANGED <<op, begun, accesses>>
        /\ \E to \in {"keep", "l1"} : Goto(v, to)
    BY <1>2 DEF ProbeHit, LeaveKeeping, cacheVars, history
  <2> QED BY <2>1, OnceKept DEF Location
<1>3. ASSUME NEW v \in Vcpu, ProbeMiss(v)
      PROVE  OnceInv'
  <2> DEFINE d == cache_idx(v)
  <2>0. d \in Core
    BY IdxType
  <2>1. pc[v] = "probe" /\ UNCHANGED <<op, begun>>
    BY <1>3 DEF ProbeMiss
  <2>2. CASE Goto(v, "keep") /\ accesses' = accesses
    BY <2>1, <2>2, OnceKept DEF Location
  <2>3. CASE Goto(v, "stream") /\ accesses' = [accesses EXCEPT !["l1d"][d] = @ + 1]
    <3>1. /\ pc'[v] = "stream" /\ op' = op
          /\ \A w \in Vcpu \ {v} : pc'[w] = pc[w] /\ op'[w] = op[w]
      BY <2>1, <2>3 DEF ThreadType, Goto
    <3>2. ProbedStores'
      BY <3>1 DEF OnceInv, ProbedStores, Vcpu
    <3>3. ASSUME NEW c \in Core
          PROVE  DataOnce(c)' /\ FetchOnce(c)'
      <4>1. /\ v \in Uncounted(c) <=> d = c
            /\ v \notin Uncounted(c)' /\ v \notin Unfetched(c) /\ v \notin Unfetched(c)'
        BY <2>1, <3>1 DEF OnceInv, ProbedStores, Uncounted, Unfetched, At, Vcpu, cache_idx
      <4>2. /\ Cardinality(Uncounted(c)) \in Nat /\ Cardinality(Unfetched(c)) \in Nat
            /\ Cardinality(Uncounted(c))' =
                 IF d = c THEN Cardinality(Uncounted(c)) - 1 ELSE Cardinality(Uncounted(c))
            /\ Cardinality(Unfetched(c))' = Cardinality(Unfetched(c))
        BY <3>1, <4>1, UncountedAfter
      <4>3. /\ accesses["l1d"][c] \in Nat /\ accesses'["l1i"][c] = accesses["l1i"][c]
            /\ accesses'["l1d"][c] =
                 IF d = c THEN accesses["l1d"][c] + 1 ELSE accesses["l1d"][c]
        BY <2>0, <2>3 DEF CachesType, Level
      <4>4. DataOnce(c) /\ FetchOnce(c)
        BY DEF OnceInv
      <4> HIDE DEF d
      <4> QED BY <2>1, <4>2, <4>3, <4>4 DEF DataOnce, FetchOnce
    <3> QED BY <3>2, <3>3 DEF OnceInv, Core
  <2> QED BY <1>3, <2>2, <2>3 DEF ProbeMiss
<1>4. ASSUME NEW v \in Vcpu, L1Access(v)
      PROVE  OnceInv'
  <2> DEFINE d == cache_idx(v)
  <2>0. d \in Core /\ op[v].line \in Line /\ op[v].kind \in Kind
    BY <1>4, CallbackStart DEF Callback, ThreadType
  <2>1. /\ pc[v] = "l1" /\ Access(L1(v), d, op[v].line) /\ UNCHANGED <<op, begun>>
        /\ \E to \in {"idle", "l2"} : Goto(v, to)
    BY <1>4 DEF L1Access, history
  <2>2. /\ pc'[v] \in {"idle", "l2"}
        /\ \A w \in Vcpu \ {v} : pc'[w] = pc[w] /\ op'[w] = op[w]
    BY <2>1 DEF ThreadType, Goto
  <2>3. ProbedStores'
    BY <2>1, <2>2 DEF OnceInv, ProbedStores, Vcpu
  <2>4. ASSUME NEW c \in Core
        PROVE  DataOnce(c)' /\ FetchOnce(c)'
    <3>1. /\ v \in Uncounted(c) <=> d = c /\ L1(v) = "l1d"
          /\ v \in Unfetched(c) <=> d = c /\ L1(v) = "l1i"
          /\ v \notin Uncounted(c)' /\ v \notin Unfetched(c)'
          /\ L1(v) \in {"l1d", "l1i"}
      BY <2>1, <2>2 DEF L1, Uncounted, Unfetched, At, Vcpu, cache_idx
    <3>2. /\ Cardinality(Uncounted(c)) \in Nat /\ Cardinality(Unfetched(c)) \in Nat
          /\ Cardinality(Uncounted(c))' =
               IF d = c /\ L1(v) = "l1d" THEN Cardinality(Uncounted(c)) - 1
               ELSE Cardinality(Uncounted(c))
          /\ Cardinality(Unfetched(c))' =
               IF d = c /\ L1(v) = "l1i" THEN Cardinality(Unfetched(c)) - 1
               ELSE Cardinality(Unfetched(c))
      BY <2>2, <3>1, UncountedAfter
    <3>3. /\ accesses["l1d"][c] \in Nat /\ accesses["l1i"][c] \in Nat
          /\ {"l1d", "l1i"} \subseteq Level
      BY DEF CachesType, Level
    <3>4. \A lvl \in {"l1d", "l1i"} :
            accesses'[lvl][c] = IF lvl = L1(v) /\ c = d THEN accesses[lvl][c] + 1
                                ELSE accesses[lvl][c]
      BY <2>0, <2>1, <3>1, <3>3, AccessCounts
    <3>5. DataOnce(c) /\ FetchOnce(c)
      BY DEF OnceInv
    <3> HIDE DEF d
    <3> QED BY <2>1, <3>1, <3>2, <3>3, <3>4, <3>5 DEF DataOnce, FetchOnce
  <2> QED BY <2>3, <2>4 DEF OnceInv, Core
<1>5. ASSUME NEW v \in Vcpu, L2Access(v) \/ L3Access(v)
      PROVE  OnceInv'
  <2>0. cache_idx(v) \in Core /\ op[v].line \in Line
    BY <1>5, CallbackStart DEF Callback
  <2>1. /\ pc[v] \in {"l2", "l3"} /\ UNCHANGED <<op, begun>>
        /\ \E to \in {"idle", "l3"} : Goto(v, to)
        /\ \E lvl \in {"l2", "l3"} : Access(lvl, cache_idx(v), op[v].line)
    BY <1>5 DEF L2Access, L3Access, history
  <2>2. \A c \in Core, lvl \in {"l1d", "l1i"} : accesses'[lvl][c] = accesses[lvl][c]
    BY <2>0, <2>1, AccessCounts DEF Level
  <2> QED BY <2>1, <2>2, OnceKept DEF Location
<1>6. ASSUME NEW v \in Vcpu,
             \/ LeaveStreaming(v) \/ StreamProbeL2(v) \/ StreamProbeL3(v)
             \/ CheckLastLine(v) \/ CountDramWrite(v) \/ AssignLastLine(v)
      PROVE  OnceInv'
  <2>1. /\ pc[v] \notin {"probe", "keep", "l1"} /\ UNCHANGED <<op, begun, accesses>>
        /\ \E to \in Location \ {"probe", "keep", "l1"} : Goto(v, to)
    BY <1>6
    DEF LeaveStreaming, StreamProbeL2, StreamProbeL3, CheckLastLine, CountDramWrite,
        AssignLastLine, cacheVars, history, Location
  <2> QED BY <2>1, OnceKept
<1>7. CASE Exit \/ UNCHANGED vars
  <2>1. UNCHANGED <<accesses, pc, op, begun>>
    BY <1>7 DEF Exit, vars, cacheVars, history
  <2> QED
    BY <2>1 DEF OnceInv, ProbedStores, DataOnce, FetchOnce, Uncounted, Unfetched, At,
                cache_idx, Core, Vcpu
<1> QED
  BY <1>1, <1>2, <1>3, <1>4, <1>5, <1>6, <1>7 DEF Next, Callback, Exited, Kind, Line

(* A store is counted as one access of L1D however it goes: by the probe   *)
(* when it streams, and by the allocating access when it does not.         *)
THEOREM CountedOnce == Spec => []EachAccessOnce
<1>1. Init => OnceInv
  <2> SUFFICES ASSUME Init PROVE OnceInv
    OBVIOUS
  <2>1. ProbedStores
    BY DEF Init, ProbedStores
  <2>2. ASSUME NEW c \in Core PROVE DataOnce(c) /\ FetchOnce(c)
    <3>1. Uncounted(c) = {} /\ Unfetched(c) = {}
      BY DEF Init, Uncounted, Unfetched, At
    <3>2. Cardinality(Uncounted(c)) = 0 /\ Cardinality(Unfetched(c)) = 0
      BY <3>1, FS_EmptySet
    <3>3. /\ accesses["l1d"][c] = 0 /\ accesses["l1i"][c] = 0
          /\ begun[c]["load"] = 0 /\ begun[c]["store"] = 0 /\ begun[c]["fetch"] = 0
      BY DEF Init, Level, Kind
    <3> QED BY <3>2, <3>3 DEF DataOnce, FetchOnce
  <2> QED BY <2>1, <2>2 DEF OnceInv
<1>2. TypeOK /\ OnceInv /\ [Next]_vars => OnceInv'
  BY OnceStep
<1>3. OnceInv => EachAccessOnce
  BY DEF OnceInv, EachAccessOnce, DataOnce, FetchOnce, Uncounted, Unfetched
<1> QED BY <1>1, <1>2, <1>3, TypeCorrect, PTL DEF Spec

-----------------------------------------------------------------------------
(* The remembered lines of a vCPU are the run its core's detector has      *)
(* followed: they end at the last line, and as many of them as the streak  *)
(* says (all, when the streak is longer) are adjacent and ascending.       *)
RunOf(seq, prev, streak) ==
  /\ IF seq = <<>> THEN prev = 0 /\ streak = 0 ELSE prev = seq[Len(seq)]
  /\ Len(seq) <= StreamAfter
  /\ streak <= Len(seq) \/ Len(seq) = StreamAfter
  /\ \A i \in 1 .. Len(seq) - 1 : Len(seq) - i < streak => seq[i + 1] = seq[i] + 1

StreamInv ==
  \A v \in Vcpu :
    LET c == cache_idx(v) IN
    /\ RunOf(recent[v], ws_prev_line[c], ws_streak[c])
    /\ pc[v] = "stream" => ws_streak[c] >= StreamAfter

(* The lines remembered at a store that misses are again the run the       *)
(* detector has followed.                                                  *)
LEMMA RunExtended ==
  ASSUME NEW seq \in Seq(Nat), NEW prev \in Nat, NEW streak \in Nat, NEW line \in Nat,
         RunOf(seq, prev, streak)
  PROVE  RunOf(Remember(seq, line), line,
               IF line = prev + 1 THEN streak + 1 ELSE IF line # prev THEN 1 ELSE streak)
<1> DEFINE new == IF line = prev + 1 THEN streak + 1 ELSE IF line # prev THEN 1 ELSE streak
           all == Append(seq, line)
<1>1. CASE seq # <<>> /\ line = prev
  BY <1>1 DEF RunOf, Remember
<1>2. CASE seq = <<>>
  <2>1. Remember(seq, line) = <<line>>
    BY <1>2 DEF Remember
  <2>2. new \in {0, 1}
    BY <1>2 DEF RunOf
  <2>3. <<line>> # <<>> /\ Len(<<line>>) = 1 /\ <<line>>[1] = line
    OBVIOUS
  <2> HIDE DEF new
  <2>4. RunOf(<<line>>, line, new)
    BY <2>2, <2>3 DEF RunOf
  <2> QED BY <2>1, <2>4 DEF new
<1>3. CASE seq # <<>> /\ line # prev
  <2>1. /\ Len(all) = Len(seq) + 1 /\ all[Len(all)] = line /\ all # <<>>
        /\ \A i \in 1 .. Len(seq) : all[i] = seq[i]
        /\ Len(seq) \in Nat \ {0} /\ seq[Len(seq)] = prev
    BY <1>3 DEF RunOf
  <2>2. new = IF line = prev + 1 THEN streak + 1 ELSE 1
    BY <1>3
  <2>0. all \in Seq(Nat) /\ new \in Nat
    OBVIOUS
  <2> HIDE DEF all, new
  <2>3. ASSUME NEW i \in 1 .. Len(seq), Len(all) - i < new
        PROVE  all[i + 1] = all[i] + 1
    <3>1. line = prev + 1 /\ new = streak + 1
      BY <2>1, <2>2, <2>3
    <3>2. CASE i = Len(seq)
      BY <2>1, <3>1, <3>2
    <3>3. CASE i < Len(seq)
      <4>1. i \in 1 .. Len(seq) - 1 /\ Len(seq) - i < streak /\ i + 1 \in 1 .. Len(seq)
        BY <2>1, <2>3, <3>1, <3>3
      <4>2. seq[i + 1] = seq[i] + 1
        BY <4>1 DEF RunOf
      <4> QED BY <2>1, <4>1, <4>2
    <3> QED BY <2>1, <3>2, <3>3
  <2>4. CASE Len(all) <= StreamAfter
    <3>1. Remember(seq, line) = all
      BY <1>3, <2>1, <2>4 DEF Remember, all
    <3>2. new <= Len(all)
      BY <2>1, <2>2, <2>4 DEF RunOf
    <3>3. RunOf(all, line, new)
      BY <2>1, <2>3, <2>4, <3>2 DEF RunOf
    <3> QED BY <3>1, <3>3 DEF new
  <2>5. CASE Len(all) > StreamAfter
    <3> DEFINE rest == SubSeq(all, 2, Len(all))
    <3>1. Remember(seq, line) = rest /\ Len(seq) = StreamAfter
      BY <1>3, <2>1, <2>5 DEF Remember, RunOf, all
    <3>2. /\ Len(rest) = Len(seq)
          /\ \A i \in 1 .. Len(seq) : rest[i] = all[i + 1]
      BY <2>0, <2>1
    <3> HIDE DEF rest
    <3>3. rest[Len(rest)] = line
      BY <2>1, <3>2
    <3>4. ASSUME NEW i \in 1 .. Len(rest) - 1, Len(rest) - i < new
          PROVE  rest[i + 1] = rest[i] + 1
      <4> DEFINE j == i + 1
      <4>1. j \in 1 .. Len(seq) /\ Len(all) - j < new /\ i \in 1 .. Len(seq)
        BY <2>0, <2>1, <3>2, <3>4
      <4>2. rest[i] = all[j] /\ rest[j] = all[j + 1]
        BY <3>2, <4>1
      <4> HIDE DEF j
      <4>3. all[j + 1] = all[j] + 1
        BY <2>3, <4>1
      <4> QED BY <4>2, <4>3 DEF j
    <3>5. rest # <<>>
      BY <2>1, <3>2
    <3>6. RunOf(rest, line, new)
      BY <3>1, <3>2, <3>3, <3>4, <3>5 DEF RunOf
    <3> QED BY <3>1, <3>6 DEF new
  <2> QED BY <2>0, <2>1, <2>4, <2>5
<1> QED BY <1>1, <1>2, <1>3

(* The run followed on a core is its vCPU's alone, and a streaming store   *)
(* leaves the detector's section before another store can move the streak. *)
LEMMA StreamStep ==
  ASSUME PrivateCores, TypeOK, StreamInv, [Next]_vars
  PROVE  StreamInv'
<1> USE DEF TypeOK
<1> DEFINE detector == <<ws_prev_line, ws_streak, recent>>
<1>1. ASSUME NEW v \in Vcpu, NEW to \in Location \ {"stream"}, Goto(v, to), UNCHANGED detector
      PROVE  StreamInv'
  BY <1>1 DEF StreamInv, ThreadType, Goto, cache_idx, Vcpu
<1>2. ASSUME NEW v \in Vcpu, ProbeMiss(v)
      PROVE  StreamInv'
  <2> DEFINE d == cache_idx(v)
             line == op[v].line
             streak == StreakAfter(d, line)
  <2>1. d \in Core /\ line \in Nat
    BY <1>2, CallbackStart DEF Callback
  <2>2. /\ ws_streak' = [ws_streak EXCEPT ![d] = streak]
        /\ ws_prev_line' = [ws_prev_line EXCEPT ![d] = line]
        /\ recent' = [recent EXCEPT ![v] = Remember(recent[v], line)]
        /\ \/ Goto(v, "stream") /\ streak >= StreamAfter
           \/ Goto(v, "keep")
    BY <1>2 DEF ProbeMiss
  <2>3. /\ ws_prev_line[d] \in Nat /\ ws_streak[d] \in Nat /\ recent[v] \in Seq(Nat)
        /\ streak = IF line = ws_prev_line[d] + 1 THEN ws_streak[d] + 1
                    ELSE IF line # ws_prev_line[d] THEN 1 ELSE ws_streak[d]
    BY <2>1 DEF StreamType, HistoryType, StreakAfter
  <2>4. RunOf(recent[v], ws_prev_line[d], ws_streak[d])
    BY DEF StreamInv
  <2>5. RunOf(Remember(recent[v], line), line, streak)
    BY <2>1, <2>3, <2>4, RunExtended
  <2> SUFFICES ASSUME NEW w \in Vcpu
               PROVE  /\ RunOf(recent'[w], ws_prev_line'[cache_idx(w)], ws_streak'[cache_idx(w)])
                      /\ pc'[w] = "stream" => ws_streak'[cache_idx(w)] >= StreamAfter
    BY DEF StreamInv, RunOf, cache_idx, Vcpu
  <2> HIDE DEF streak, line
  <2>6. CASE w = v
    <3>1. /\ ws_streak'[d] = streak /\ ws_prev_line'[d] = line
          /\ recent'[v] = Remember(recent[v], line)
          /\ pc'[v] = "stream" => streak >= StreamAfter
      BY <2>1, <2>2 DEF StreamType, HistoryType, ThreadType, Goto
    <3> QED BY <2>5, <2>6, <3>1
  <2>7. CASE w # v
    <3>1. cache_idx(w) # d /\ cache_idx(w) \in Core
      BY <2>7, IdxType DEF PrivateCores
    <3>2. /\ ws_streak'[cache_idx(w)] = ws_streak[cache_idx(w)]
          /\ ws_prev_line'[cache_idx(w)] = ws_prev_line[cache_idx(w)]
          /\ recent'[w] = recent[w] /\ pc'[w] = pc[w]
      BY <2>2, <2>7, <3>1 DEF StreamType, HistoryType, ThreadType, Goto
    <3> QED BY <3>2 DEF StreamInv
  <2> QED BY <2>6, <2>7
<1>3. ASSUME NEW v \in Vcpu, Callback(v), ~ProbeMiss(v)
      PROVE  StreamInv'
  <2>1. UNCHANGED detector
    BY <1>3, AllocatingStep, ConsultingStep
    DEF Callback, ProbeHit, LeaveKeeping, LeaveStreaming, CountDramWrite,
        AssignLastLine, streamVars, history
  <2>2. \E to \in Location \ {"stream"} : Goto(v, to)
    BY <1>3
    DEF Callback, ProbeHit, LeaveKeeping, LeaveStreaming, StreamProbeL2,
        StreamProbeL3, CheckLastLine, CountDramWrite, AssignLastLine,
        L1Access, L2Access, L3Access, Location
  <2> QED BY <1>1, <2>1, <2>2
<1>4. ASSUME NEW v \in Vcpu, NEW kind \in Kind, NEW line \in Line,
             Issue(v, kind, line)
      PROVE  StreamInv'
  <2>1. UNCHANGED detector /\ \E to \in Location \ {"stream"} : Goto(v, to)
    BY <1>4 DEF Issue, streamVars, Location
  <2> QED BY <1>1, <2>1
<1>5. CASE Exit \/ UNCHANGED vars
  <2>1. UNCHANGED detector /\ UNCHANGED pc
    BY <1>5 DEF Exit, vars, streamVars, history
  <2> QED BY <2>1 DEF StreamInv, RunOf, cache_idx, Vcpu
<1> QED BY <1>2, <1>3, <1>4, <1>5 DEF Next, Exited, Kind, Line

(* With a core per vCPU, a store streams only after its own vCPU missed on *)
(* StreamAfter ascending adjacent lines, repeats aside.                    *)
THEOREM StreamDetected ==
  ASSUME PrivateCores
  PROVE  Spec => []StreamsAreRuns
<1>1. Init => StreamInv
  <2>1. RunOf(<<>>, 0, 0)
    BY DEF RunOf
  <2>2. \A v \in Vcpu : cache_idx(v) \in Core
    BY IdxType
  <2> QED BY <2>1, <2>2 DEF Init, StreamInv
<1>2. TypeOK /\ StreamInv /\ [Next]_vars => StreamInv'
  BY StreamStep
<1>3. TypeOK /\ StreamInv => StreamsAreRuns
  <2> SUFFICES ASSUME TypeOK, StreamInv, NEW v \in Vcpu, pc[v] = "stream"
               PROVE  /\ Len(recent[v]) = StreamAfter
                      /\ \A i \in 1 .. StreamAfter - 1 : recent[v][i + 1] = recent[v][i] + 1
    BY DEF StreamsAreRuns
  <2> DEFINE streak == ws_streak[cache_idx(v)]
  <2>1. /\ RunOf(recent[v], ws_prev_line[cache_idx(v)], streak)
        /\ streak >= StreamAfter /\ streak \in Nat
        /\ Len(recent[v]) \in Nat
    BY IdxType DEF StreamInv, TypeOK, StreamType, HistoryType
  <2> HIDE DEF streak
  <2>2. Len(recent[v]) = StreamAfter
    BY <2>1 DEF RunOf
  <2> QED BY <2>1, <2>2 DEF RunOf
<1> QED BY <1>1, <1>2, <1>3, TypeCorrect, PTL DEF Spec

-----------------------------------------------------------------------------
(* The sum over the cores that the report prints.                          *)

(* Induction over the naturals, for a set of them. *)
LEMMA SetInduction ==
  ASSUME NEW N, 0 \in N, \A n \in Nat : n \in N => n + 1 \in N
  PROVE  Nat \subseteq N
<1> SUFFICES ASSUME Nat \ N # {} PROVE FALSE
  OBVIOUS
<1> DEFINE T == Nat \ N
<1>1. IsWellFoundedOn(OpToRel(<, Nat), Nat)
  BY NatLessThanWellFounded
<1>2. PICK m \in T : \A k \in T : ~ (<<k, m>> \in OpToRel(<, Nat))
  BY <1>1, WFMin
<1>3. \A k \in T : ~ (k < m)
  BY <1>2 DEF OpToRel
<1>4. m # 0 /\ m - 1 \in Nat /\ m - 1 < m
  OBVIOUS
<1>5. m - 1 \in N
  BY <1>3, <1>4
<1> QED BY <1>4, <1>5

(* The point that the fold takes out of a set first. *)
Pick(s) == CHOOSE x \in s : TRUE

(* g is the sum of f over the sets of at most n of its points, one chosen  *)
(* point taken out at a time, as the fold does.                            *)
SumsUpTo(g, f, n) ==
  g = [s \in {t \in SUBSET DOMAIN f : Cardinality(t) <= n} |->
         IF s = {} THEN 0 ELSE f[Pick(s)] + g[s \ {Pick(s)}]]

Sums(g, f) ==
  g = [s \in SUBSET DOMAIN f |-> IF s = {} THEN 0 ELSE f[Pick(s)] + g[s \ {Pick(s)}]]

(* The point taken out is in the set, which is then one point smaller.     *)
LEMMA Picked ==
  ASSUME NEW S, IsFiniteSet(S), NEW s \in SUBSET S, s # {}
  PROVE  /\ Pick(s) \in s /\ s \ {Pick(s)} \in SUBSET S
         /\ Cardinality(s) \in Nat \ {0}
         /\ Cardinality(s \ {Pick(s)}) = Cardinality(s) - 1
<1>1. Pick(s) \in s
  BY DEF Pick
<1>2. IsFiniteSet(s)
  BY FS_Subset
<1>3. Cardinality(s) \in Nat /\ Cardinality(s \ {Pick(s)}) = Cardinality(s) - 1
  BY <1>1, <1>2, FS_CardinalityType, FS_RemoveElement
<1>4. Cardinality(s) # 0
  BY <1>2, FS_EmptySet
<1> QED BY <1>1, <1>3, <1>4

(* A set of no points is empty. *)
LEMMA NoneSmaller ==
  ASSUME NEW S, IsFiniteSet(S), NEW s \in SUBSET S, Cardinality(s) <= 0
  PROVE  s = {}
<1>1. s # {} => Cardinality(s) \in Nat \ {0}
  BY Picked
<1> QED BY <1>1

(* The recursive function the fold chooses exists, one size after another. *)
LEMMA SumExists ==
  ASSUME NEW f, IsFiniteSet(DOMAIN f)
  PROVE  \E g : Sums(g, f)
<1> DEFINE Upto(n) == {t \in SUBSET DOMAIN f : Cardinality(t) <= n}
           N == {n \in Nat : \E g : SumsUpTo(g, f, n)}
<1>0. \A t \in SUBSET DOMAIN f : Cardinality(t) \in Nat /\ Cardinality(t) <= Cardinality(DOMAIN f)
  BY FS_Subset, FS_CardinalityType
<1>1. 0 \in N
  <2> DEFINE g == [s \in Upto(0) |-> 0]
  <2>1. \A s \in Upto(0) : s = {}
    BY NoneSmaller
  <2>2. SumsUpTo(g, f, 0)
    BY <2>1 DEF SumsUpTo
  <2> QED BY <2>2
<1>2. ASSUME NEW n \in Nat, n \in N
      PROVE  n + 1 \in N
  <2>1. PICK g : SumsUpTo(g, f, n)
    BY <1>2
  <2> DEFINE h == [s \in Upto(n + 1) |-> IF s = {} THEN 0 ELSE f[Pick(s)] + g[s \ {Pick(s)}]]
  <2>2. \A s \in Upto(n) : h[s] = g[s]
    <3>1. \A s \in Upto(n) : s \in Upto(n + 1)
      BY <1>0
    <3> QED BY <2>1, <3>1 DEF SumsUpTo
  <2>3. \A s \in Upto(n + 1) : s # {} => s \ {Pick(s)} \in Upto(n)
    BY Picked
  <2>4. h = [s \in Upto(n + 1) |-> IF s = {} THEN 0 ELSE f[Pick(s)] + h[s \ {Pick(s)}]]
    <3>1. \A s \in Upto(n + 1) : s # {} => h[s \ {Pick(s)}] = g[s \ {Pick(s)}]
      BY <2>2, <2>3
    <3> HIDE DEF Upto
    <3> QED BY <3>1
  <2>5. SumsUpTo(h, f, n + 1)
    BY <2>4 DEF SumsUpTo
  <2> QED BY <2>5
<1>3. Cardinality(DOMAIN f) \in N
  <2>1. Nat \subseteq N
    BY <1>1, <1>2, SetInduction
  <2> QED BY <1>0, <2>1
<1>4. PICK g : SumsUpTo(g, f, Cardinality(DOMAIN f))
  BY <1>3
<1>5. Upto(Cardinality(DOMAIN f)) = SUBSET DOMAIN f
  BY <1>0
<1>6. Sums(g, f)
  BY <1>4, <1>5 DEF SumsUpTo, Sums
<1> QED BY <1>6

(* Total folds with such a function. *)
LEMMA TotalUnfolded ==
  ASSUME NEW f, IsFiniteSet(DOMAIN f)
  PROVE  \E g : Sums(g, f) /\ Total(f) = g[DOMAIN f]
<1> DEFINE g == CHOOSE h : h = [s \in SUBSET DOMAIN f |->
                        IF s = {} THEN 0 ELSE f[Pick(s)] + h[s \ {Pick(s)}]]
<1>1. Sums(g, f)
  BY SumExists DEF Sums
<1>2. Total(f) = g[DOMAIN f]
  BY DEF Total, FoldFunction, FoldFunctionOnSet, MapThenFoldSet, Pick
<1> HIDE DEF g
<1> QED BY <1>1, <1>2

(* The total over the cores is a number, and no larger than the total of a *)
(* counter that is no smaller on any core.                                 *)
LEMMA TotalMonotone ==
  ASSUME NEW f \in [Core -> Nat], NEW g \in [Core -> Nat], \A c \in Core : f[c] <= g[c]
  PROVE  /\ Total(f) \in Nat /\ Total(g) \in Nat
         /\ Total(f) <= Total(g)
<1>0. IsFiniteSet(Core) /\ DOMAIN f = Core /\ DOMAIN g = Core
  BY FS_Interval DEF Core
<1>1. PICK F : Sums(F, f) /\ Total(f) = F[Core]
  BY <1>0, TotalUnfolded
<1>2. PICK G : Sums(G, g) /\ Total(g) = G[Core]
  BY <1>0, TotalUnfolded
<1> DEFINE Good(s) == F[s] \in Nat /\ G[s] \in Nat /\ F[s] <= G[s]
           N == {n \in Nat : \A s \in SUBSET Core : Cardinality(s) = n => Good(s)}
<1>3. 0 \in N
  <2> SUFFICES ASSUME NEW s \in SUBSET Core, Cardinality(s) = 0 PROVE Good(s)
    OBVIOUS
  <2>1. s = {}
    BY <1>0, NoneSmaller
  <2> QED BY <1>0, <1>1, <1>2, <2>1 DEF Sums
<1>4. ASSUME NEW n \in Nat, n \in N
      PROVE  n + 1 \in N
  <2> SUFFICES ASSUME NEW s \in SUBSET Core, Cardinality(s) = n + 1 PROVE Good(s)
    OBVIOUS
  <2> DEFINE x == Pick(s)
             r == s \ {Pick(s)}
  <2>1. s # {}
    <3>1. s = {} => Cardinality(s) = 0
      BY FS_EmptySet
    <3>2. n + 1 # 0
      OBVIOUS
    <3> QED BY <3>1, <3>2
  <2>2. x \in Core /\ r \in SUBSET Core /\ Cardinality(r) = n
    BY <1>0, <2>1, Picked
  <2>3. Good(r)
    BY <1>4, <2>2
  <2>4. F[s] = f[x] + F[r] /\ G[s] = g[x] + G[r]
    BY <1>0, <1>1, <1>2, <2>1 DEF Sums
  <2>5. f[x] \in Nat /\ g[x] \in Nat /\ f[x] <= g[x]
    BY <2>2
  <2> HIDE DEF x, r
  <2> QED BY <2>3, <2>4, <2>5
<1>5. Nat \subseteq N
  BY <1>3, <1>4, SetInduction
<1>6. Cardinality(Core) \in Nat
  BY <1>0, FS_CardinalityType
<1>7. Good(Core)
  BY <1>5, <1>6
<1> QED BY <1>1, <1>2, <1>7

-----------------------------------------------------------------------------
(* What the report prints is what the counters still are. *)
ReportInv ==
  exited =>
    /\ \A v \in Vcpu : pc[v] = "idle"
    /\ report = [l3_accesses |-> IF use_l3 THEN Total(accesses["l3"]) ELSE 0,
                 l3_misses   |-> IF use_l3 THEN Total(misses["l3"]) ELSE 0,
                 stores      |-> IF use_l3 THEN wstream_stores ELSE 0,
                 writes      |-> IF use_l3 THEN wstream_dram_writes ELSE 0]

(* The vCPUs whose streaming store may still be counted as a DRAM write.   *)
Undecided == {v \in Vcpu : pc[v] \in {"streamL2", "streamL3", "check", "add"}}

(* Every counted DRAM write is of a counted streaming store of its own.    *)
WritesInv == wstream_dram_writes + Cardinality(Undecided) <= wstream_stores

MissInv == \A c \in Core : misses["l3"][c] <= accesses["l3"][c]

(* Nothing is counted after plugin_exit has printed. *)
LEMMA ReportStep ==
  ASSUME TypeOK, ReportInv, [Next]_vars
  PROVE  ReportInv'
<1> USE DEF TypeOK
<1>1. ASSUME NEW v \in Vcpu, Callback(v)
      PROVE  ReportInv'
  <2>1. pc[v] # "idle"
    BY <1>1, CallbackStart
  <2>2. ~exited /\ exited' = exited
    BY <1>1, <2>1, AllocatingStep, ConsultingStep
    DEF ReportInv, Callback, ProbeHit, ProbeMiss, LeaveKeeping, LeaveStreaming,
        CountDramWrite, AssignLastLine, exitVars
  <2> QED BY <2>2 DEF ReportInv
<1>2. ASSUME NEW v \in Vcpu, NEW kind \in Kind, NEW line \in Line,
             Issue(v, kind, line)
      PROVE  ReportInv'
  BY <1>2 DEF Issue, ReportInv, exitVars
<1>3. CASE Exit
  <2>1. UNCHANGED <<accesses, misses, wstream_stores, wstream_dram_writes, pc>>
    BY <1>3 DEF Exit, cacheVars, streamVars
  <2>2. \A v \in Vcpu : pc'[v] = "idle"
    BY <1>3, <2>1 DEF Exit
  <2> QED BY <1>3, <2>1, <2>2 DEF Exit, ReportInv, Vcpu
<1>4. CASE UNCHANGED vars
  BY <1>4 DEF vars, ReportInv, Vcpu
<1> QED BY <1>1, <1>2, <1>3, <1>4 DEF Next, Exited, Kind, Line

(* A DRAM write is counted for a store that streamed, and once. *)
LEMMA WritesStep ==
  ASSUME TypeOK, WritesInv, [Next]_vars
  PROVE  WritesInv'
<1> USE DEF TypeOK, StreamType, ThreadType
<1> DEFINE Deciding == {"streamL2", "streamL3", "check", "add"}
           U == Undecided
           N == Cardinality(Undecided)
<1>1. ASSUME NEW v \in Vcpu, NEW to \in Location, Goto(v, to)
      PROVE  /\ N \in Nat
             /\ N' = IF pc[v] \in Deciding <=> to \in Deciding THEN N
                     ELSE IF to \in Deciding THEN N + 1 ELSE N - 1
  <2>1. /\ U \in SUBSET Vcpu /\ U' \in SUBSET Vcpu
        /\ \A w \in Vcpu \ {v} : w \in U <=> w \in U'
        /\ v \in U <=> pc[v] \in Deciding
        /\ v \in U' <=> to \in Deciding
    BY <1>1 DEF Undecided, Goto, Vcpu
  <2>2. /\ N \in Nat
        /\ Cardinality(U') = IF v \in U <=> v \in U' THEN N
                             ELSE IF v \in U' THEN N + 1 ELSE N - 1
    BY <2>1, OneMoves
  <2> QED BY <2>1, <2>2
<1>2. ASSUME NEW v \in Vcpu, NEW to \in Location, Goto(v, to),
             to \in Deciding => pc[v] \in Deciding,
             UNCHANGED <<wstream_stores, wstream_dram_writes>>
      PROVE  WritesInv'
  <2>1. N \in Nat /\ (N' = N \/ N' = N - 1)
    BY <1>1, <1>2
  <2> HIDE DEF N
  <2>2. wstream_dram_writes + N <= wstream_stores
    BY DEF WritesInv, N
  <2>3. wstream_dram_writes' + N' <= wstream_stores'
    BY <1>2, <2>1, <2>2
  <2> QED BY <2>3 DEF WritesInv, N
<1>3. ASSUME NEW v \in Vcpu, LeaveStreaming(v) \/ CountDramWrite(v)
      PROVE  WritesInv'
  <2>1. \/ /\ pc[v] = "stream" /\ Goto(v, "streamL2")
           /\ wstream_stores' = wstream_stores + 1
           /\ wstream_dram_writes' = wstream_dram_writes
        \/ /\ pc[v] = "add" /\ Goto(v, "assign")
           /\ wstream_stores' = wstream_stores
           /\ wstream_dram_writes' = wstream_dram_writes + 1
    BY <1>3 DEF LeaveStreaming, CountDramWrite
  <2>2. \/ /\ N \in Nat /\ N' = N + 1 /\ wstream_stores' = wstream_stores + 1
           /\ wstream_dram_writes' = wstream_dram_writes
        \/ /\ N \in Nat /\ N' = N - 1 /\ wstream_stores' = wstream_stores
           /\ wstream_dram_writes' = wstream_dram_writes + 1
    BY <1>1, <2>1 DEF Location
  <2> HIDE DEF N
  <2>3. wstream_dram_writes + N <= wstream_stores
    BY DEF WritesInv, N
  <2>4. wstream_dram_writes' + N' <= wstream_stores'
    BY <2>2, <2>3
  <2> QED BY <2>4 DEF WritesInv, N
<1>4. ASSUME NEW v \in Vcpu, Callback(v), ~LeaveStreaming(v), ~CountDramWrite(v)
      PROVE  WritesInv'
  <2>1. UNCHANGED <<wstream_stores, wstream_dram_writes>>
    BY <1>4, AllocatingStep, ConsultingStep
    DEF Callback, ProbeHit, ProbeMiss, LeaveKeeping, AssignLastLine, streamVars
  <2>2. \E to \in Location : Goto(v, to) /\ (to \in Deciding => pc[v] \in Deciding)
    BY <1>4
    DEF Callback, ProbeHit, ProbeMiss, LeaveKeeping, StreamProbeL2, StreamProbeL3,
        CheckLastLine, AssignLastLine, L1Access, L2Access, L3Access, Location
  <2> QED BY <1>2, <2>1, <2>2
<1>5. ASSUME NEW v \in Vcpu, NEW kind \in Kind, NEW line \in Line,
             Issue(v, kind, line)
      PROVE  WritesInv'
  <2>1. /\ UNCHANGED <<wstream_stores, wstream_dram_writes>>
        /\ \E to \in Location \ Deciding : Goto(v, to)
    BY <1>5 DEF Issue, streamVars, Location
  <2> QED BY <1>2, <2>1
<1>6. CASE Exit \/ UNCHANGED vars
  <2>1. UNCHANGED <<wstream_stores, wstream_dram_writes, pc>>
    BY <1>6 DEF Exit, vars, streamVars
  <2> QED BY <2>1 DEF WritesInv, Undecided, Vcpu
<1> QED BY <1>3, <1>4, <1>5, <1>6 DEF Next, Exited, Kind, Line

(* A miss of L3 is counted with its access, under one mutex. *)
LEMMA MissStep ==
  ASSUME TypeOK, MissInv, [Next]_vars
  PROVE  MissInv'
<1> SUFFICES ASSUME NEW c \in Core PROVE misses'["l3"][c] <= accesses'["l3"][c]
  BY DEF MissInv, Core
<1> USE DEF TypeOK
<1>1. /\ misses["l3"][c] \in Nat /\ accesses["l3"][c] \in Nat
      /\ misses["l3"][c] <= accesses["l3"][c]
  BY DEF CachesType, Level, MissInv
<1>2. CASE \E v \in Vcpu : L1Access(v) \/ L2Access(v) \/ L3Access(v)
  <2>1. PICK v \in Vcpu : L1Access(v) \/ L2Access(v) \/ L3Access(v)
    BY <1>2
  <2>2. cache_idx(v) \in Core /\ op[v].line \in Line
    BY <2>1, CallbackStart DEF Callback
  <2>3. PICK lvl \in Level : Access(lvl, cache_idx(v), op[v].line)
    BY <2>1, AllocatingStep
  <2>4. \/ accesses'["l3"][c] = accesses["l3"][c] /\ misses'["l3"][c] = misses["l3"][c]
        \/ /\ accesses'["l3"][c] = accesses["l3"][c] + 1
           /\ misses'["l3"][c] \in {misses["l3"][c], misses["l3"][c] + 1}
    BY <2>2, <2>3, AccessCounts DEF Level
  <2> QED BY <1>1, <2>4
<1>3. CASE \E v \in Vcpu : ProbeMiss(v)
  <2>1. /\ misses' = misses
        /\ accesses' = accesses \/ \E d : accesses' = [accesses EXCEPT !["l1d"][d] = @ + 1]
    BY <1>3 DEF ProbeMiss
  <2>2. accesses'["l3"][c] = accesses["l3"][c]
    BY <2>1 DEF CachesType, Level
  <2> QED BY <1>1, <2>1, <2>2
<1>4. CASE UNCHANGED cacheVars
  BY <1>1, <1>4 DEF cacheVars
<1> QED
  BY <1>2, <1>3, <1>4, ConsultingStep
  DEF Next, Callback, ProbeHit, LeaveKeeping, LeaveStreaming, CountDramWrite,
      AssignLastLine, Issue, Exit, Exited, vars, cacheVars

(* The report accounts for every L2 miss of every core as one L3 access,   *)
(* for no more L3 misses, and for no more DRAM writes than streamed stores.*)
THEOREM BalancedReport == Spec => []ReportBalanced
<1>1. Init => ReportInv /\ WritesInv /\ MissInv
  <2> SUFFICES ASSUME Init PROVE ReportInv /\ WritesInv /\ MissInv
    OBVIOUS
  <2>1. Undecided = {}
    BY DEF Init, Undecided
  <2>2. Cardinality({}) = 0
    BY FS_EmptySet
  <2>3. WritesInv
    BY <2>1, <2>2 DEF Init, WritesInv
  <2> QED BY <2>3 DEF Init, ReportInv, MissInv, Level
<1>2. TypeOK /\ MissFlow /\ ReportInv /\ WritesInv /\ MissInv => ReportBalanced
  <2> SUFFICES ASSUME TypeOK, MissFlow, ReportInv, WritesInv, MissInv,
                      exited, use_l2, use_l3
               PROVE  /\ report.l3_accesses = Total(misses["l2"])
                      /\ report.l3_misses <= report.l3_accesses
                      /\ report.writes <= report.stores
    BY DEF ReportBalanced
  <2>1. /\ report.l3_accesses = Total(accesses["l3"])
        /\ report.l3_misses = Total(misses["l3"])
        /\ report.stores = wstream_stores /\ report.writes = wstream_dram_writes
    BY DEF ReportInv
  <2>2. /\ accesses["l3"] \in [Core -> Nat] /\ misses["l3"] \in [Core -> Nat]
        /\ misses["l2"] \in [Core -> Nat]
    BY DEF TypeOK, CachesType, Level
  <2>3. accesses["l3"] = misses["l2"]
    <3> SUFFICES ASSUME NEW c \in Core PROVE accesses["l3"][c] = misses["l2"][c]
      BY <2>2
    <3>1. At(c, {"l3"}) = {}
      BY DEF ReportInv, At
    <3>2. Cardinality(At(c, {"l3"})) = 0
      BY <3>1, FS_EmptySet
    <3>3. accesses["l3"][c] \in Nat /\ L3Flow(c)
      BY <2>2 DEF MissFlow
    <3> QED BY <3>2, <3>3 DEF L3Flow
  <2>4. Total(misses["l3"]) <= Total(accesses["l3"])
    BY <2>2, TotalMonotone DEF MissInv
  <2>5. wstream_dram_writes <= wstream_stores
    <3>1. Cardinality(Undecided) \in Nat
      <4>1. IsFiniteSet(Vcpu) /\ Undecided \in SUBSET Vcpu
        BY FS_Interval DEF Vcpu, Undecided
      <4> QED BY <4>1, FS_Subset, FS_CardinalityType
    <3> QED BY <3>1 DEF WritesInv, TypeOK, StreamType
  <2> QED BY <2>1, <2>3, <2>4, <2>5
<1>3. TypeOK /\ ReportInv /\ WritesInv /\ MissInv /\ [Next]_vars
        => (ReportInv /\ WritesInv /\ MissInv)'
  BY ReportStep, WritesStep, MissStep
<1> QED BY <1>1, <1>2, <1>3, TypeCorrect, RefillsConserved, PTL DEF Spec
=============================================================================
