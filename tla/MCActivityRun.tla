--------------------------- MODULE MCActivityRun ---------------------------
(***************************************************************************)
(* An image in one of each situation, and four power models: one that asks *)
(* for what the harness measures, one of mixed provenance with a term for  *)
(* an object, one that asks, as models/imx95.power-model.json does, for a  *)
(* rate no vector has, and a file that is no model.                        *)
(***************************************************************************)
EXTENDS ActivityRun

Image(present, ends, cpus, length) ==
  [present |-> present, ends |-> ends, cpus |-> cpus, length |-> length]

MCImages ==
  {Image(FALSE, TRUE, {0}, 0), Image(TRUE, TRUE, {0}, 1), Image(TRUE, TRUE, Cpu, 2),
   Image(TRUE, FALSE, {0}, 2)}

Term(key, coeff, range) == [key |-> key, coeff |-> coeff, range |-> range]
Block(name, static, provenance, terms) ==
  [name |-> name, static |-> static, provenance |-> provenance, terms |-> terms]

(* A range is a set of no or one set of values. *)
MCModels ==
  {[isModel |-> TRUE, provenance |-> "MEASURED",
    blocks |-> {Block("a55", 2, "none", {Term("cores.total_insns", 3, {1 .. 3}),
                                         Term("cores.count_active", 7, {}),
                                         Term("cores.count_seen", 1, {})}),
                Block("dram", 1, "none", {Term("memory.dram_transactions_est", 5, {0 .. 1}),
                                          Term("memory.data_accesses", 2, {}),
                                          Term("memory.imiss_rate", 1, {0 .. 500})})}],
   [isModel |-> TRUE, provenance |-> "MIXED",
    blocks |-> {Block("a55", 2, "MEASURED", {Term("cores.insns_by_cpu", 3, {})}),
                Block("dram", 1, "none", {Term("memory.dram_transactions_est", 5, {})})}],
   [isModel |-> TRUE, provenance |-> "MEASURED",
    blocks |-> {Block("a55", 2, "none", {Term("cores.active_cores", 3, {})})}],
   [isModel |-> FALSE, provenance |-> "none", blocks |-> {}]}
=============================================================================
