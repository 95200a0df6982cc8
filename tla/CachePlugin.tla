----------------------------- MODULE CachePlugin -----------------------------
(***************************************************************************)
(* The cache-model plugin that counts the memory side of an activity       *)
(* vector: QEMU's contrib/plugins/cache.c with the patch of                *)
(* xcheck/patches-cache-l3-wstream.patch (an L3 level, and the             *)
(* write-streaming model that keeps a detected store stream from           *)
(* allocating).  vCPU threads run the callbacks vcpu_mem_access and        *)
(* vcpu_insn_exec concurrently; each level of each modelled core has a     *)
(* mutex, and the streaming counters have none.                            *)
(*                                                                         *)
(* A critical section that is straight-line code is one action, guarded    *)
(* by its mutex being free.  The first section of a streaming-capable      *)
(* store has two exits, so its mutex (l1Lock) is held across actions.      *)
(* The check, the atomic add and the assignment of the DRAM-write counter  *)
(* run outside every mutex and are three actions.  Addresses are cache     *)
(* lines; which block a policy evicts is left open.                        *)
(***************************************************************************)
EXTENDS Naturals, FiniteSets, Sequences, Functions

CONSTANTS
  NumVcpus,      \* vCPU threads of the guest
  cores,         \* modelled cores; vCPU v is charged to core v % cores
  LoadLine,      \* the lines the guest loads from,
  StoreLine,     \*   stores to
  FetchLine,     \*   and fetches instructions from
  geometry,      \* level |-> [sets, ways]
  use_l2, use_l3, use_wstream,
  StreamAfter,   \* a streak of this many lines is a stream (4 in the code)
  MaxOps,        \* bound: callbacks one vCPU makes
  NoVcpu         \* the owner of a free mutex

Vcpu  == 0 .. NumVcpus - 1
Core  == 0 .. cores - 1
Line  == LoadLine \cup StoreLine \cup FetchLine
Level == {"l1d", "l1i", "l2", "l3"}
Kind  == {"load", "store", "fetch"}

ASSUME CachePluginAssumption ==
  /\ NumVcpus \in Nat \ {0}
  /\ cores \in Nat \ {0}
  /\ LoadLine \subseteq Nat /\ StoreLine \subseteq Nat /\ FetchLine \subseteq Nat
  /\ geometry \in [Level -> [sets : Nat \ {0}, ways : Nat \ {0}]]
  /\ use_l2 \in BOOLEAN /\ use_l3 \in BOOLEAN /\ use_wstream \in BOOLEAN
  /\ StreamAfter \in Nat \ {0}
  /\ MaxOps \in Nat
  /\ NoVcpu \notin Vcpu

VARIABLES
  lines,         \* level |-> core |-> the lines the cache holds
  accesses,      \* level |-> core |-> Cache.accesses
  misses,        \* level |-> core |-> Cache.misses
  l1Lock,        \* l1_dcache_locks
  ws_prev_line, ws_streak, ws_last_wline,
  wstream_stores, wstream_dram_writes,
  pc, op,        \* where each vCPU is in its callback, and for which access
  issued,        \* vCPU |-> callbacks begun (up to MaxOps)
  exited,        \* plugin_exit has run
  report,        \* the "wattson:" line it printed
  begun,         \* history: core |-> kind |-> callbacks begun
  lastBurst,     \* history: the line of the core's last counted DRAM write
  recent         \* history: a vCPU's last lines that missed a probed store

cacheVars  == <<lines, accesses, misses>>
streamVars == <<ws_prev_line, ws_streak, ws_last_wline, wstream_stores,
                wstream_dram_writes>>
exitVars   == <<exited, report>>
history    == <<begun, lastBurst, recent>>
vars == <<lines, accesses, misses, l1Lock, ws_prev_line, ws_streak,
          ws_last_wline, wstream_stores, wstream_dram_writes, pc, op, issued,
          exited, report, begun, lastBurst, recent>>

Location == {"idle", "probe", "keep", "stream", "streamL2", "streamL3",
             "check", "add", "assign", "l1", "l2", "l3"}

NoReport == [l3_accesses |-> 0, l3_misses |-> 0, stores |-> 0, writes |-> 0]

cache_idx(v) == v % cores

(* The L1 a callback goes to. *)
L1(v) == IF op[v].kind = "fetch" THEN "l1i" ELSE "l1d"

(* The locations a vCPU can be at when it holds the L1D mutex. *)
InProbeSection == {"keep", "stream"}

Goto(v, location) == pc' = [pc EXCEPT ![v] = location]

Init ==
  /\ lines    = [lvl \in Level |-> [c \in Core |-> {}]]
  /\ accesses = [lvl \in Level |-> [c \in Core |-> 0]]
  /\ misses   = [lvl \in Level |-> [c \in Core |-> 0]]
  /\ l1Lock   = [c \in Core |-> NoVcpu]
  /\ ws_prev_line  = [c \in Core |-> 0]
  /\ ws_streak     = [c \in Core |-> 0]
  /\ ws_last_wline = [c \in Core |-> 0]
  /\ wstream_stores = 0
  /\ wstream_dram_writes = 0
  /\ pc = [v \in Vcpu |-> "idle"]
  /\ op = [v \in Vcpu |-> [kind |-> "load", line |-> 0]]
  /\ issued = [v \in Vcpu |-> 0]
  /\ exited = FALSE
  /\ report = NoReport
  /\ begun = [c \in Core |-> [k \in Kind |-> 0]]
  /\ lastBurst = [c \in Core |-> 0]
  /\ recent = [v \in Vcpu |-> <<>>]

-----------------------------------------------------------------------------
(* The caches.                                                             *)

(* What a level may hold after line is allocated in its set: an invalid    *)
(* block is filled first, and a full set evicts any one of its blocks.     *)
Fill(lvl, held, line) ==
  LET sets == geometry[lvl].sets
      same == {x \in held : x % sets = line % sets}
  IN  IF Cardinality(same) < geometry[lvl].ways
      THEN {held \cup {line}}
      ELSE {(held \ {victim}) \cup {line} : victim \in same}

(* access_cache and the counters its caller keeps under the same mutex.    *)
Access(lvl, c, line) ==
  /\ accesses' = [accesses EXCEPT ![lvl][c] = @ + 1]
  /\ \/ /\ line \in lines[lvl][c]
        /\ UNCHANGED <<lines, misses>>
     \/ /\ line \notin lines[lvl][c]
        /\ misses' = [misses EXCEPT ![lvl][c] = @ + 1]
        /\ \E held \in Fill(lvl, lines[lvl][c], line) :
             lines' = [lines EXCEPT ![lvl][c] = held]

-----------------------------------------------------------------------------
(* The guest reaches a load, a store or an instruction: QEMU calls the     *)
(* plugin.  Only a store with the streaming model on is probed first.      *)
Issue(v, kind, line) ==
  /\ pc[v] = "idle"
  /\ ~exited
  /\ issued[v] < MaxOps
  /\ op' = [op EXCEPT ![v] = [kind |-> kind, line |-> line]]
  /\ issued' = [issued EXCEPT ![v] = @ + 1]
  /\ begun' = [begun EXCEPT ![cache_idx(v)][kind] = @ + 1]
  /\ Goto(v, IF kind = "store" /\ use_wstream THEN "probe" ELSE "l1")
  /\ UNCHANGED <<cacheVars, streamVars, l1Lock, exitVars, lastBurst, recent>>

(* Mutant: a gap does not break the streak. *)
StreakAnyAscending(c, line) ==
  IF line > ws_prev_line[c] THEN ws_streak[c] + 1
  ELSE IF line # ws_prev_line[c] THEN 1
  ELSE ws_streak[c]

(* The streak after a store to line misses L1: the next line lengthens it, *)
(* the same line keeps it, any other line restarts it.                     *)
StreakAfter(c, line) ==
  IF line = ws_prev_line[c] + 1 THEN ws_streak[c] + 1
  ELSE IF line # ws_prev_line[c] THEN 1
  ELSE ws_streak[c]

(* History: the line joins the vCPU's missed lines, repeats collapsed and  *)
(* only the last StreamAfter kept.                                         *)
Remember(seq, line) ==
  IF seq # <<>> /\ seq[Len(seq)] = line THEN seq
  ELSE LET all == Append(seq, line)
       IN  IF Len(all) <= StreamAfter THEN all
           ELSE SubSeq(all, 2, Len(all))

(* The store takes the L1D mutex and finds its line: it will take the      *)
(* allocating path, and the detector is not consulted.                     *)
ProbeHit(v) ==
  LET c == cache_idx(v) IN
  /\ pc[v] = "probe"
  /\ l1Lock[c] = NoVcpu
  /\ op[v].line \in lines["l1d"][c]
  /\ l1Lock' = [l1Lock EXCEPT ![c] = v]
  /\ Goto(v, "keep")
  /\ UNCHANGED <<cacheVars, streamVars, op, issued, exitVars, history>>

(* The store takes the L1D mutex and misses: the detector advances, and    *)
(* a streaming store is counted as an L1 access here, without a fill.      *)
ProbeMiss(v) ==
  LET c      == cache_idx(v)
      line   == op[v].line
      streak == StreakAfter(c, line)
  IN
  /\ pc[v] = "probe"
  /\ l1Lock[c] = NoVcpu
  /\ line \notin lines["l1d"][c]
  /\ l1Lock' = [l1Lock EXCEPT ![c] = v]
  /\ ws_streak' = [ws_streak EXCEPT ![c] = streak]
  /\ ws_prev_line' = [ws_prev_line EXCEPT ![c] = line]
  /\ recent' = [recent EXCEPT ![v] = Remember(@, line)]
  /\ \/ /\ streak >= StreamAfter
        /\ accesses' = [accesses EXCEPT !["l1d"][c] = @ + 1]
        /\ Goto(v, "stream")
     \/ /\ streak < StreamAfter
        /\ UNCHANGED accesses
        /\ Goto(v, "keep")
  /\ UNCHANGED <<lines, misses, ws_last_wline, wstream_stores,
                 wstream_dram_writes, op, issued, exitVars, begun, lastBurst>>

(* The two exits of the probing section.  The streaming exit releases the  *)
(* mutex and adds to wstream_stores atomically right after.                *)
LeaveKeeping(v) ==
  /\ pc[v] = "keep"
  /\ l1Lock' = [l1Lock EXCEPT ![cache_idx(v)] = NoVcpu]
  /\ Goto(v, "l1")
  /\ UNCHANGED <<cacheVars, streamVars, op, issued, exitVars, history>>

(* Mutant: the early exit forgets the mutex. *)
LeaveStreamingLocked(v) ==
  /\ pc[v] = "stream"
  /\ wstream_stores' = wstream_stores + 1
  /\ Goto(v, "streamL2")
  /\ UNCHANGED <<cacheVars, l1Lock, ws_prev_line, ws_streak, ws_last_wline,
                 wstream_dram_writes, op, issued, exitVars, history>>

LeaveStreaming(v) ==
  /\ pc[v] = "stream"
  /\ l1Lock' = [l1Lock EXCEPT ![cache_idx(v)] = NoVcpu]
  /\ wstream_stores' = wstream_stores + 1
  /\ Goto(v, "streamL2")
  /\ UNCHANGED <<cacheVars, ws_prev_line, ws_streak, ws_last_wline,
                 wstream_dram_writes, op, issued, exitVars, history>>

(* Mutant: a streaming store that hits L2 goes on to the allocating path.  *)
StreamProbeL2FallsThrough(v) ==
  /\ pc[v] = "streamL2"
  /\ Goto(v, IF use_l2 /\ op[v].line \in lines["l2"][cache_idx(v)]
             THEN "l1" ELSE "streamL3")
  /\ UNCHANGED <<cacheVars, streamVars, l1Lock, op, issued, exitVars, history>>

(* The streaming store probes the outer levels in turn and never fills.    *)
StreamProbeL2(v) ==
  /\ pc[v] = "streamL2"
  /\ Goto(v, IF use_l2 /\ op[v].line \in lines["l2"][cache_idx(v)]
             THEN "idle" ELSE "streamL3")
  /\ UNCHANGED <<cacheVars, streamVars, l1Lock, op, issued, exitVars, history>>

StreamProbeL3(v) ==
  /\ pc[v] = "streamL3"
  /\ Goto(v, IF use_l3 /\ op[v].line \in lines["l3"][cache_idx(v)]
             THEN "idle" ELSE "check")
  /\ UNCHANGED <<cacheVars, streamVars, l1Lock, op, issued, exitVars, history>>

(* Mutant: every store that missed is a DRAM write. *)
CheckNothing(v) ==
  /\ pc[v] = "check"
  /\ Goto(v, "add")
  /\ UNCHANGED <<cacheVars, streamVars, l1Lock, op, issued, exitVars, history>>

(* It missed every level: it is a DRAM write unless its line was the last  *)
(* one counted.  Check, add and assignment are not one step.               *)
CheckLastLine(v) ==
  /\ pc[v] = "check"
  /\ Goto(v, IF op[v].line # ws_last_wline[cache_idx(v)] THEN "add" ELSE "idle")
  /\ UNCHANGED <<cacheVars, streamVars, l1Lock, op, issued, exitVars, history>>

CountDramWrite(v) ==
  /\ pc[v] = "add"
  /\ wstream_dram_writes' = wstream_dram_writes + 1
  /\ lastBurst' = [lastBurst EXCEPT ![cache_idx(v)] = op[v].line]
  /\ Goto(v, "assign")
  /\ UNCHANGED <<cacheVars, ws_prev_line, ws_streak, ws_last_wline,
                 wstream_stores, l1Lock, op, issued, exitVars, begun, recent>>

AssignLastLine(v) ==
  /\ pc[v] = "assign"
  /\ ws_last_wline' = [ws_last_wline EXCEPT ![cache_idx(v)] = op[v].line]
  /\ Goto(v, "idle")
  /\ UNCHANGED <<cacheVars, ws_prev_line, ws_streak, wstream_stores,
                 wstream_dram_writes, l1Lock, op, issued, exitVars, history>>

-----------------------------------------------------------------------------
(* The allocating path: each level is accessed under its own mutex, and    *)
(* the next one only after a miss.                                         *)
L1Access(v) ==
  LET c == cache_idx(v) IN
  /\ pc[v] = "l1"
  /\ L1(v) = "l1d" => l1Lock[c] = NoVcpu
  /\ Access(L1(v), c, op[v].line)
  /\ Goto(v, IF op[v].line \in lines[L1(v)][c] \/ ~use_l2 THEN "idle" ELSE "l2")
  /\ UNCHANGED <<streamVars, l1Lock, op, issued, exitVars, history>>

(* Mutant: L3 is accessed after L2 whether L2 hit or not. *)
L2AccessAlwaysOn(v) ==
  /\ pc[v] = "l2"
  /\ Access("l2", cache_idx(v), op[v].line)
  /\ Goto(v, IF use_l3 THEN "l3" ELSE "idle")
  /\ UNCHANGED <<streamVars, l1Lock, op, issued, exitVars, history>>

L2Access(v) ==
  LET c == cache_idx(v) IN
  /\ pc[v] = "l2"
  /\ Access("l2", c, op[v].line)
  /\ Goto(v, IF op[v].line \notin lines["l2"][c] /\ use_l3 THEN "l3" ELSE "idle")
  /\ UNCHANGED <<streamVars, l1Lock, op, issued, exitVars, history>>

L3Access(v) ==
  /\ pc[v] = "l3"
  /\ Access("l3", cache_idx(v), op[v].line)
  /\ Goto(v, "idle")
  /\ UNCHANGED <<streamVars, l1Lock, op, issued, exitVars, history>>

Total(counter) == FoldFunction(+, 0, counter)

(* Mutant: the report reads the first core only. *)
ExitFirstCore ==
  /\ ~exited
  /\ \A v \in Vcpu : pc[v] = "idle"
  /\ report' = [l3_accesses |-> accesses["l3"][0], l3_misses |-> misses["l3"][0],
                stores |-> wstream_stores, writes |-> wstream_dram_writes]
  /\ exited' = TRUE
  /\ UNCHANGED <<cacheVars, streamVars, l1Lock, pc, op, issued, history>>

(* plugin_exit: QEMU runs the exit callback with every vCPU stopped, and   *)
(* log_stats sums the L3 counters over the cores.                          *)
Exit ==
  /\ ~exited
  /\ \A v \in Vcpu : pc[v] = "idle"
  /\ report' = [l3_accesses |-> IF use_l3 THEN Total(accesses["l3"]) ELSE 0,
                l3_misses   |-> IF use_l3 THEN Total(misses["l3"]) ELSE 0,
                stores      |-> IF use_l3 THEN wstream_stores ELSE 0,
                writes      |-> IF use_l3 THEN wstream_dram_writes ELSE 0]
  /\ exited' = TRUE
  /\ UNCHANGED <<cacheVars, streamVars, l1Lock, pc, op, issued, history>>

Exited == exited /\ UNCHANGED vars

Callback(v) ==
  \/ ProbeHit(v) \/ ProbeMiss(v) \/ LeaveKeeping(v) \/ LeaveStreaming(v)
  \/ StreamProbeL2(v) \/ StreamProbeL3(v)
  \/ CheckLastLine(v) \/ CountDramWrite(v) \/ AssignLastLine(v)
  \/ L1Access(v) \/ L2Access(v) \/ L3Access(v)

Next ==
  \/ \E v \in Vcpu :
       \/ \E line \in LoadLine  : Issue(v, "load", line)
       \/ \E line \in StoreLine : Issue(v, "store", line)
       \/ \E line \in FetchLine : Issue(v, "fetch", line)
       \/ Callback(v)
  \/ Exit
  \/ Exited

(* A thread inside a callback is scheduled until it leaves; nothing makes  *)
(* the guest issue another access.                                         *)
Fairness == \A v \in Vcpu : WF_vars(Callback(v))

Spec == Init /\ [][Next]_vars /\ Fairness

-----------------------------------------------------------------------------
(* The shape of the state, part by part. *)
CachesType ==
  /\ lines \in [Level -> [Core -> SUBSET Line]]
  /\ accesses \in [Level -> [Core -> Nat]]
  /\ misses \in [Level -> [Core -> Nat]]

LockType == l1Lock \in [Core -> Vcpu \cup {NoVcpu}]

StreamType ==
  /\ ws_prev_line \in [Core -> Nat]
  /\ ws_streak \in [Core -> Nat]
  /\ ws_last_wline \in [Core -> Nat]
  /\ wstream_stores \in Nat
  /\ wstream_dram_writes \in Nat

ThreadType ==
  /\ pc \in [Vcpu -> Location]
  /\ op \in [Vcpu -> [kind : Kind, line : Nat]]
  /\ \A v \in Vcpu : pc[v] # "idle" => op[v].line \in Line
  /\ issued \in [Vcpu -> Nat]

ExitType == exited \in BOOLEAN /\ DOMAIN report = DOMAIN NoReport

HistoryType ==
  /\ begun \in [Core -> [Kind -> Nat]]
  /\ lastBurst \in [Core -> Nat]
  /\ recent \in [Vcpu -> Seq(Nat)]

TypeOK ==
  CachesType /\ LockType /\ StreamType /\ ThreadType /\ ExitType /\ HistoryType

(* The vCPUs charged to core c that are at one of the given locations. *)
At(c, locations) == {v \in Vcpu : cache_idx(v) = c /\ pc[v] \in locations}

(* The L1D mutex is held exactly by the vCPU inside the probing section:   *)
(* both exits of a streaming-capable store (lines 83 and 104) release it,  *)
(* and a vCPU holds at most the mutex of its own core.                     *)
LockDiscipline ==
  \A c \in Core, v \in Vcpu :
    l1Lock[c] = v <=> cache_idx(v) = c /\ pc[v] \in InProbeSection

(* Refills are conserved from level to level: L2 is accessed once for      *)
(* every miss of an L1, and L3 once for every miss of L2, except for the   *)
(* accesses still on their way; so l3_accesses in the report is the L2     *)
(* miss traffic and no interleaving loses or doubles one.                  *)
L2Flow(c) ==
  use_l2 => accesses["l2"][c] + Cardinality(At(c, {"l2"}))
              = misses["l1d"][c] + misses["l1i"][c]

L3Flow(c) ==
  use_l2 /\ use_l3 => accesses["l3"][c] + Cardinality(At(c, {"l3"}))
                        = misses["l2"][c]

MissFlow == \A c \in Core : L2Flow(c) /\ L3Flow(c)

(* Every data access is counted once in L1D.accesses, whichever of its     *)
(* two paths it takes: the streaming path counts it while probing and      *)
(* returns, the keeping path counts it in the allocating access only.      *)
EachAccessOnce ==
  \A c \in Core :
    /\ accesses["l1d"][c]
         + Cardinality({v \in At(c, {"probe", "keep", "l1"}) : op[v].kind # "fetch"})
         = begun[c]["load"] + begun[c]["store"]
    /\ accesses["l1i"][c]
         + Cardinality({v \in At(c, {"l1"}) : op[v].kind = "fetch"})
         = begun[c]["fetch"]

(* A store streams only after its own vCPU missed L1 on StreamAfter        *)
(* ascending adjacent lines (repeats aside): the detector is a faithful    *)
(* stream detector for a vCPU that has its core to itself.                 *)
StreamsAreRuns ==
  \A v \in Vcpu : pc[v] = "stream" =>
    /\ Len(recent[v]) = StreamAfter
    /\ \A i \in 1 .. StreamAfter - 1 : recent[v][i + 1] = recent[v][i] + 1

(* "one DRAM write burst per line, not per store" (line 97): a store is    *)
(* never counted as a DRAM write when the core's last counted write was    *)
(* for the same line.                                                      *)
OneBurstPerLine ==
  [][\A v \in Vcpu : CountDramWrite(v) => lastBurst[cache_idx(v)] # op[v].line]_vars

(* Every vCPU has a modelled core to itself. *)
PrivateCores == \A v, w \in Vcpu : cache_idx(v) = cache_idx(w) => v = w

(* Why OneBurstPerLine holds with private cores: from the check to the     *)
(* assignment, nobody else moves the core's ws_last_wline.                 *)
BurstInv ==
  \A v \in Vcpu :
    LET c == cache_idx(v) IN
    /\ pc[v] = "add" => op[v].line # ws_last_wline[c]
    /\ pc[v] = "assign" => lastBurst[c] = op[v].line
    /\ pc[v] # "assign" => lastBurst[c] = ws_last_wline[c]

(* The wattson line printed at exit accounts for every L2 miss of every    *)
(* core as one L3 access, and for no more L3 misses than that.             *)
ReportBalanced ==
  exited /\ use_l2 /\ use_l3 =>
    /\ report.l3_accesses = Total(misses["l2"])
    /\ report.l3_misses <= report.l3_accesses
    /\ report.writes <= report.stores

=============================================================================
