---------------------------- MODULE ActivityRun ----------------------------
(***************************************************************************)
(* The activity harness: run-activity.sh runs an image under QEMU with two *)
(* counting plugins and a timeout, parse_activity.py turns what they print *)
(* as QEMU exits into an activity vector, and estimate_power.py joins the  *)
(* vector to a power model.                                                *)
(*                                                                         *)
(* QEMU and its plugins are external: vCPUs retire instructions until the  *)
(* image powers the machine off or SIGTERM stops it, and then each plugin  *)
(* prints its counts in one write, in either order.  It may also crash.    *)
(***************************************************************************)
EXTENDS Naturals, FiniteSets, Functions

CONSTANTS
  NumCpus,        \* vCPUs of the machine
  TMO,            \* the timeout, in units of time
  MaxInsns,       \* bound: instructions a vCPU retires
  LineBytes,      \* --line (64)
  Images,         \* [present, ends, cpus, length] of the images run
  Models          \* power models, [isModel, provenance, blocks]

Cpu == 0 .. NumCpus - 1

ASSUME ActivityAssumption ==
  /\ NumCpus \in Nat \ {0} /\ TMO \in Nat \ {0} /\ MaxInsns \in Nat /\ LineBytes \in Nat
  /\ \A image \in Images :
       /\ {image.present, image.ends} \subseteq BOOLEAN
       /\ image.cpus \subseteq Cpu /\ 0 \in image.cpus
       /\ image.length \in 0 .. MaxInsns

VARIABLES
  image, cacheCores, model,    \* inputs, chosen at the start
  pc,             \* what run-activity.sh is at
  exit,           \* its exit status, or "none"
  qemu,           \* "absent", "running", "exiting" or "gone"
  poweredOff,     \* history: the image ended the run itself
  elapsed,        \* since QEMU was started
  retired,        \* cpu |-> instructions, of libinsn
  cached,         \* cpu |-> its accesses and misses, of libcache
  silent,         \* the plugins that have not printed yet
  log,            \* the lines on QEMU's standard error
  vector,         \* the activity vector; empty before it is printed
  estimate        \* of the vector, under the model

inputs == <<image, cacheCores, model>>
counts == <<retired, cached>>
vars == <<inputs, pc, exit, qemu, poweredOff, elapsed, counts, silent, log, vector, estimate>>

NoVector   == [quantity |-> <<>>, byCpu |-> <<>>]
NoEstimate == [total |-> 0, warnings |-> {"none made"}]
NotAModel  == [total |-> 0, warnings |-> {"not a power model"}]

(* The four counts of a row of libcache. *)
Counted == {"data_accesses", "data_misses", "insn_accesses", "insn_misses"}
Nothing == [k \in Counted |-> 0]

Total(f) == FoldFunction(+, 0, f)

SumOver(f, S) == Total(Restrict(f, S))

(* What the caches of some vCPUs counted together. *)
CountsOf(S) == [k \in Counted |-> SumOver([c \in Cpu |-> cached[c][k]], S)]

Init ==
  /\ image \in Images /\ cacheCores \in 1 .. NumCpus /\ model \in Models
  /\ pc = "start" /\ exit = "none"
  /\ qemu = "absent" /\ poweredOff = FALSE /\ elapsed = 0
  /\ retired = [c \in Cpu |-> 0] /\ cached = [c \in Cpu |-> Nothing]
  /\ silent = {"libinsn", "libcache"} /\ log = {}
  /\ vector = NoVector /\ estimate = NoEstimate

-----------------------------------------------------------------------------
(* run-activity.sh up to QEMU. *)

Refuse ==
  /\ pc = "start" /\ ~image.present
  /\ pc' = "ended" /\ exit' = "1"
  /\ UNCHANGED <<inputs, qemu, poweredOff, elapsed, counts, silent, log, vector, estimate>>

Launch ==
  /\ pc = "start" /\ image.present
  /\ pc' = "qemu" /\ qemu' = "running"
  /\ UNCHANGED <<inputs, exit, poweredOff, elapsed, counts, silent, log, vector, estimate>>

-----------------------------------------------------------------------------
(* QEMU, its plugins and timeout(1). *)

Machine == <<inputs, pc, exit, vector, estimate>>

(* An instruction is fetched, may access data, and each access may miss. *)
Effects ==
  {effect \in [Counted -> 0 .. 1] :
     effect["insn_accesses"] = 1 /\ effect["data_misses"] <= effect["data_accesses"]}

Retire(c) ==
  /\ qemu = "running" /\ c \in image.cpus
  /\ retired[c] < IF c = 0 /\ image.ends THEN image.length ELSE MaxInsns
  /\ retired' = [retired EXCEPT ![c] = @ + 1]
  /\ \E effect \in Effects :
       cached' = [cached EXCEPT ![c] = [k \in Counted |-> cached[c][k] + effect[k]]]
  /\ UNCHANGED <<Machine, qemu, poweredOff, elapsed, silent, log>>

(* PSCI SYSTEM_OFF. *)
PowerOff ==
  /\ qemu = "running" /\ image.ends /\ retired[0] = image.length
  /\ qemu' = "exiting" /\ poweredOff' = TRUE
  /\ UNCHANGED <<Machine, elapsed, counts, silent, log>>

Tick ==
  /\ qemu \in {"running", "exiting"} /\ elapsed < TMO
  /\ elapsed' = elapsed + 1
  /\ UNCHANGED <<Machine, qemu, poweredOff, counts, silent, log>>

(* Mutant: the timeout is one the image is asked to keep. *)
TimeoutOfEnding ==
  /\ qemu = "running" /\ elapsed = TMO /\ image.ends
  /\ qemu' = "exiting"
  /\ UNCHANGED <<Machine, poweredOff, elapsed, counts, silent, log>>

(* timeout(1) sends SIGTERM, on which QEMU exits as it does at power-off. *)
Timeout ==
  /\ qemu = "running" /\ elapsed = TMO
  /\ qemu' = "exiting"
  /\ UNCHANGED <<Machine, poweredOff, elapsed, counts, silent, log>>

Crash ==
  /\ qemu \in {"running", "exiting"}
  /\ qemu' = "gone"
  /\ UNCHANGED <<Machine, poweredOff, elapsed, counts, silent, log>>

Line(kind, who, n) == [kind |-> kind, who |-> who, n |-> n]

InsnLines ==
  {Line("cpu", c, retired[c]) : c \in Cpu}
    \cup {Line("total", 0, SumOver(retired, Cpu))}

(* A row per modelled core, and their sum when there are several. *)
On(core) == {c \in Cpu : c % cacheCores = core}

CacheLines ==
  {Line("row", core, CountsOf(On(core))) : core \in 0 .. cacheCores - 1}
    \cup IF cacheCores = 1 THEN {} ELSE {Line("sum", 0, CountsOf(Cpu))}

Flush(plugin) ==
  /\ qemu = "exiting" /\ plugin \in silent
  /\ silent' = silent \ {plugin}
  /\ log' = log \cup IF plugin = "libinsn" THEN InsnLines ELSE CacheLines
  /\ UNCHANGED <<Machine, qemu, poweredOff, elapsed, counts>>

QemuExits ==
  /\ qemu = "exiting" /\ silent = {}
  /\ qemu' = "gone"
  /\ UNCHANGED <<Machine, poweredOff, elapsed, counts, silent, log>>

Qemu ==
  \/ \E c \in Cpu : Retire(c)
  \/ PowerOff \/ Timeout \/ QemuExits
  \/ \E plugin \in silent : Flush(plugin)

-----------------------------------------------------------------------------
(* run-activity.sh once QEMU is gone: `|| true`, whatever its status. *)

Lines(kind) == {line \in log : line.kind = kind}

(* grep -q "total insns:" *)
Grep ==
  /\ pc = "qemu" /\ qemu = "gone"
  /\ IF Lines("total") = {}
     THEN pc' = "ended" /\ exit' = "2"
     ELSE pc' = "parse" /\ UNCHANGED exit
  /\ UNCHANGED <<inputs, qemu, poweredOff, elapsed, counts, silent, log, vector, estimate>>

Added(lines) == [k \in Counted |-> Total([line \in lines |-> line.n[k]])]

(* Mutant: every row is counted, the sum too. *)
CacheOfAllRows == Added(Lines("row") \cup Lines("sum"))

(* parse: the sum row, or the rows added up when there is none. *)
Cache ==
  IF Lines("sum") # {}
  THEN (CHOOSE line \in Lines("sum") : TRUE).n
  ELSE Added(Lines("row"))

Active == {line.who : line \in {l \in Lines("cpu") : l.n > 0}}

(* The vector has a memory half when libcache printed. *)
MemoryKeys ==
  {"memory.data_accesses", "memory.data_misses", "memory.insn_accesses", "memory.insn_misses",
   "memory.dmiss_rate", "memory.imiss_rate",
   "memory.dram_transactions_est", "memory.dram_bytes_est", "memory.line_bytes"}

Keys ==
  {"cores.count_seen", "cores.count_active", "cores.total_insns"}
    \cup IF Lines("row") = {} THEN {} ELSE MemoryKeys

(* A rate, in thousandths. *)
Rate(misses, accesses) == IF accesses = 0 THEN 0 ELSE (1000 * misses) \div accesses

(* The quantities of the memory half, of the four counts. *)
InMemory(key, row) ==
  LET transactions == row["data_misses"] + row["insn_misses"]
  IN  CASE key = "memory.data_accesses" -> row["data_accesses"]
        [] key = "memory.data_misses"   -> row["data_misses"]
        [] key = "memory.insn_accesses" -> row["insn_accesses"]
        [] key = "memory.insn_misses"   -> row["insn_misses"]
        [] key = "memory.dmiss_rate"    -> Rate(row["data_misses"], row["data_accesses"])
        [] key = "memory.imiss_rate"    -> Rate(row["insn_misses"], row["insn_accesses"])
        [] key = "memory.dram_transactions_est" -> transactions
        [] key = "memory.dram_bytes_est" -> transactions * LineBytes
        [] key = "memory.line_bytes"    -> LineBytes

Quantity(key) ==
  CASE key = "cores.count_seen"   -> Cardinality(Lines("cpu"))
    [] key = "cores.count_active" -> Cardinality(Active)
    [] key = "cores.total_insns"  -> (CHOOSE line \in Lines("total") : TRUE).n
    [] key \in MemoryKeys         -> InMemory(key, Cache)

Parse ==
  /\ pc = "parse"
  /\ LET InsnsOf(c) == (CHOOSE line \in Lines("cpu") : line.who = c).n
     IN  vector' = [quantity |-> [k \in Keys |-> Quantity(k)],
                    byCpu    |-> [c \in Active |-> InsnsOf(c)]]
  /\ pc' = "ended" /\ exit' = "0"
  /\ UNCHANGED <<inputs, qemu, poweredOff, elapsed, counts, silent, log, estimate>>

-----------------------------------------------------------------------------
(* estimate_power.py. *)

(* dig: the quantity at a key; an object, or nothing at all, is no quantity. *)
Has(key) == key \in DOMAIN vector.quantity
Objects == {"cores", "cores.insns_by_cpu"} \cup IF Has("memory.line_bytes") THEN {"memory"} ELSE {}

Warn(block, key, what) == <<block.name, key, what>>

(* Mutant: a key the vector does not have costs nothing. *)
TermWarningsOfRange(block, term) ==
  IF Has(term.key)
  THEN {Warn(block, term.key, "EXTRAPOLATION") :
          range \in {r \in term.range : vector.quantity[term.key] \notin r}}
  ELSE {}

TermWarnings(block, term) ==
  IF Has(term.key)
  THEN {Warn(block, term.key, "EXTRAPOLATION") :
          range \in {r \in term.range : vector.quantity[term.key] \notin r}}
  ELSE {Warn(block, term.key, IF term.key \in Objects THEN "object" ELSE "INCOMPLETE")}

TermPower(term) == IF Has(term.key) THEN term.coeff * vector.quantity[term.key] ELSE 0

BlockWarnings(block) ==
  UNION {TermWarnings(block, term) : term \in block.terms}
    \cup {Warn(block, "provenance", "MIXED") :
            undeclared \in {b \in {block} : model.provenance = "MIXED" /\ b.provenance = "none"}}

BlockPower(block) == block.static + Total([term \in block.terms |-> TermPower(term)])

(* A file without the schema of a power model is refused. *)
Estimate ==
  /\ exit = "0" /\ estimate = NoEstimate
  /\ estimate' =
       IF model.isModel
       THEN [total    |-> Total([block \in model.blocks |-> BlockPower(block)]),
             warnings |-> UNION {BlockWarnings(block) : block \in model.blocks}]
       ELSE NotAModel
  /\ UNCHANGED <<inputs, pc, exit, qemu, poweredOff, elapsed, counts, silent, log, vector>>

Script == Refuse \/ Launch \/ Grep \/ Parse \/ Estimate

Finished ==
  /\ pc = "ended" /\ (exit = "0" => estimate # NoEstimate)
  /\ UNCHANGED vars

Next == Qemu \/ Crash \/ Tick \/ Script \/ Finished

Spec == Init /\ [][Next]_vars /\ WF_vars(Qemu) /\ WF_vars(Tick) /\ WF_vars(Script)

-----------------------------------------------------------------------------
(* The shape of the state.  The vector lists the vCPUs that did work. *)
TypeOK ==
  /\ image \in Images /\ cacheCores \in 1 .. NumCpus /\ model \in Models
  /\ pc \in {"start", "qemu", "parse", "ended"}
  /\ exit \in {"none", "0", "1", "2"} /\ (pc = "ended" <=> exit # "none")
  /\ qemu \in {"absent", "running", "exiting", "gone"} /\ poweredOff \in BOOLEAN
  /\ elapsed \in 0 .. TMO
  /\ retired \in [Cpu -> 0 .. MaxInsns]
  /\ \A c \in Cpu : cached[c] \in [Counted -> 0 .. retired[c]]
  /\ silent \subseteq {"libinsn", "libcache"}
  /\ vector = NoVector
       \/ /\ DOMAIN vector.byCpu \subseteq Cpu
          /\ \A c \in DOMAIN vector.byCpu : vector.byCpu[c] > 0
  /\ estimate.total \in Nat

(* What a vector says is what the machine did, however the run ended and   *)
(* in whatever order the plugins printed: each vCPU's instructions and     *)
(* each core's accesses and misses are in it once.  A vector without its   *)
(* memory half is one whose cache plugin never printed.                    *)
VectorTrue ==
  exit = "0" =>
    /\ vector.quantity["cores.total_insns"] = SumOver(retired, Cpu)
    /\ vector.byCpu = [c \in {d \in Cpu : retired[d] > 0} |-> retired[c]]
    /\ \A key \in MemoryKeys :
         IF Has(key) THEN vector.quantity[key] = InMemory(key, CountsOf(Cpu))
         ELSE "libcache" \in silent

(* What the machine did, by the key a model asks for it. *)
Did(key) ==
  CASE key = "cores.total_insns" -> SumOver(retired, Cpu)
    [] key = "cores.count_seen" -> NumCpus
    [] key = "cores.count_active" -> Cardinality({c \in Cpu : retired[c] > 0})
    [] key \in MemoryKeys -> InMemory(key, CountsOf(Cpu))
    [] OTHER -> 0

Measurable == {"cores.total_insns", "cores.count_seen", "cores.count_active"} \cup MemoryKeys

ChargeOf(term) == term.coeff * Did(term.key)

(* "every failure ... was a quiet mismatch" (estimate_power.py:6-7): an    *)
(* estimate without a warning charges each term of the model for what the  *)
(* machine did, and no term for less or for nothing.                       *)
EstimateTrue ==
  estimate.warnings = {} =>
    /\ \A block \in model.blocks : \A term \in block.terms : term.key \in Measurable
    /\ estimate.total =
         Total([block \in model.blocks |->
                  block.static + Total([term \in block.terms |-> ChargeOf(term)])])

(* Every run of the harness ends, that of an image in an endless loop too. *)
HarnessEnds == <>(exit # "none")

=============================================================================
