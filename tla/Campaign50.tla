----------------------------- MODULE Campaign50 -----------------------------
(***************************************************************************)
(* The validation campaign of xcheck: validate50.sh on the host writes an  *)
(* emulator result per application and pass, silicon50.sh on the board two *)
(* measurements, and compare50.py joins what it finds in out50/.  The      *)
(* three run when their operator starts them, and may be killed; all they  *)
(* share is files, which a redirection empties before a program fills      *)
(* them.  An application may be rebuilt between two invocations.           *)
(***************************************************************************)
EXTENDS Naturals, FiniteSets

CONSTANTS
  NumApps,        \* lines of manifest50.txt
  Readers,        \* lines whose application reads its standard input
  MaxStarts,      \* bound: times an operator starts a script
  MaxBuild        \* bound: builds of the applications

ASSUME CampaignAssumption ==
  /\ NumApps \in Nat \ {0}
  /\ Readers \subseteq 1 .. NumApps
  /\ MaxStarts \in Nat /\ MaxBuild \in Nat \ {0}

App  == 1 .. NumApps
Kind == {"pf", "base", "hw", "ddr"}

VARIABLES
  out50,          \* app |-> kind |-> [holds, build]
  host, hostApp,  \* validate50.sh: what it is at, for which line
  failed,         \* the failures this invocation has printed
  soc, socApp,    \* silicon50.sh: the same
  socFailed,
  starts,         \* invocations so far, of either
  build,          \* the build of the applications in place
  cut             \* history: lines left between their two passes

hostVars == <<host, hostApp, failed>>
socVars  == <<soc, socApp, socFailed>>
vars == <<out50, hostVars, socVars, starts, build, cut>>

(* "empty" after the redirection; "counts" a complete result; "nulls" a    *)
(* JSON without the counts it is for; "partial" the counts of a run that   *)
(* died; "broken" text that is no JSON.                                    *)
Contents == {"absent", "empty", "counts", "nulls", "partial", "broken"}

Write(a, kind, contents) ==
  out50' = [out50 EXCEPT ![a][kind] = [holds |-> contents, build |-> build]]

Init ==
  /\ out50 = [a \in App |-> [k \in Kind |-> [holds |-> "absent", build |-> 0]]]
  /\ host = "idle" /\ hostApp = 1 /\ failed = {}
  /\ soc = "idle" /\ socApp = 1 /\ socFailed = {}
  /\ starts = 0 /\ build = 1
  /\ cut = {}

-----------------------------------------------------------------------------
(* validate50.sh.                                                          *)

(* [ -s file ] *)
NonEmpty(a, kind) == out50[a][kind].holds \notin {"absent", "empty"}

StartValidate ==
  /\ host \in {"idle", "done"} /\ starts < MaxStarts
  /\ starts' = starts + 1
  /\ host' = "line" /\ hostApp' = 1 /\ failed' = {}
  /\ UNCHANGED <<out50, socVars, build, cut>>

HostNext ==
  IF hostApp = NumApps
  THEN host' = "done" /\ UNCHANGED hostApp
  ELSE host' = "line" /\ hostApp' = hostApp + 1

(* The application has the loop's standard input for its own: one that     *)
(* reads it leaves the loop no further line.                               *)
HostAfterRun ==
  \/ HostNext
  \/ hostApp \in Readers /\ host' = "done" /\ UNCHANGED hostApp

(* Mutant: a line is skipped when its files exist. *)
SkipExisting ==
  /\ host = "line"
  /\ \A k \in {"pf", "base"} : out50[hostApp][k].holds # "absent"
  /\ HostNext
  /\ UNCHANGED <<out50, failed, socVars, starts, build, cut>>

Skip ==
  /\ host = "line"
  /\ NonEmpty(hostApp, "pf") /\ NonEmpty(hostApp, "base")
  /\ HostNext
  /\ UNCHANGED <<out50, failed, socVars, starts, build, cut>>

(* Mutant: a prefetch pass that is there is not run again. *)
BeginPfUnlessThere ==
  /\ host = "line"
  /\ ~(NonEmpty(hostApp, "pf") /\ NonEmpty(hostApp, "base"))
  /\ IF NonEmpty(hostApp, "pf")
     THEN host' = "beginBase" /\ UNCHANGED out50
     ELSE host' = "pf" /\ Write(hostApp, "pf", "empty")
  /\ UNCHANGED <<hostApp, failed, socVars, starts, build, cut>>

(* The prefetch pass: the redirection empties the file first. *)
BeginPf ==
  /\ host = "line"
  /\ ~(NonEmpty(hostApp, "pf") /\ NonEmpty(hostApp, "base"))
  /\ Write(hostApp, "pf", "empty")
  /\ host' = "pf"
  /\ UNCHANGED <<hostApp, failed, socVars, starts, build, cut>>

(* run-qemu.sh prints its result in the end, or fails and prints nothing.  *)
(* When the plugin's line is not the one it looks for, it prints a result  *)
(* whose counts beyond the second level are null, and does not fail.       *)
RunQemu(kind, next) ==
  \/ /\ \E contents \in {"counts", "nulls"} : Write(hostApp, kind, contents)
     /\ next
     /\ UNCHANGED <<failed, socVars, starts, build, cut>>
  \/ /\ failed' = failed \cup {<<hostApp, kind>>}
     /\ next
     /\ UNCHANGED <<out50, socVars, starts, build, cut>>

EndPf == host = "pf" /\ RunQemu("pf", host' = "beginBase" /\ UNCHANGED hostApp)

BeginBase ==
  /\ host = "beginBase"
  /\ Write(hostApp, "base", "empty")
  /\ host' = "base"
  /\ cut' = cut \ {hostApp}
  /\ UNCHANGED <<hostApp, failed, socVars, starts, build>>

EndBase == host = "base" /\ RunQemu("base", HostAfterRun)

KillValidate ==
  /\ host \notin {"idle", "done"}
  /\ host' = "idle"
  /\ cut' = IF host = "beginBase" THEN cut \cup {hostApp} ELSE cut
  /\ UNCHANGED <<out50, hostApp, failed, socVars, starts, build>>

Validate ==
  \/ StartValidate \/ Skip \/ BeginPf \/ EndPf \/ BeginBase \/ EndBase \/ KillValidate

-----------------------------------------------------------------------------
(* silicon50.sh: every line, every time.                                   *)

StartSilicon ==
  /\ soc \in {"idle", "done"} /\ starts < MaxStarts
  /\ starts' = starts + 1
  /\ soc' = "line" /\ socApp' = 1 /\ socFailed' = {}
  /\ UNCHANGED <<out50, hostVars, build, cut>>

BeginPerf ==
  /\ soc = "line"
  /\ Write(socApp, "hw", "empty")
  /\ soc' = "perf"
  /\ UNCHANGED <<hostVars, socApp, socFailed, starts, build, cut>>

(* `|| true`: run-perf.sh prints a result whatever happened to perf, or to *)
(* the application under it.  It fails, printing none, only by itself.     *)
EndPerf ==
  /\ soc = "perf"
  /\ \E contents \in {"counts", "partial", "nulls", "empty"} :
       /\ Write(socApp, "hw", contents)
       /\ socFailed' = IF contents = "empty" THEN socFailed \cup {socApp} ELSE socFailed
  /\ soc' = "beginDdr"
  /\ UNCHANGED <<hostVars, socApp, starts, build, cut>>

BeginDdr ==
  /\ soc = "beginDdr"
  /\ Write(socApp, "ddr", "empty")
  /\ soc' = "ddr"
  /\ UNCHANGED <<hostVars, socApp, socFailed, starts, build, cut>>

SocNext ==
  \/ /\ socApp = NumApps \/ socApp \in Readers
     /\ soc' = "done" /\ UNCHANGED socApp
  \/ /\ socApp # NumApps
     /\ soc' = "line" /\ socApp' = socApp + 1

(* run-ddr.sh fails when the application does, before it prints, or in its *)
(* arithmetic on counts perf did not have, having printed half.            *)
EndDdr ==
  /\ soc = "ddr"
  /\ \E contents \in {"counts", "empty", "broken"} :
       /\ Write(socApp, "ddr", contents)
       /\ socFailed' = IF contents = "counts" THEN socFailed ELSE socFailed \cup {socApp}
  /\ SocNext
  /\ UNCHANGED <<hostVars, starts, build, cut>>

KillSilicon ==
  /\ soc \notin {"idle", "done"}
  /\ soc' = "idle"
  /\ UNCHANGED <<out50, hostVars, socApp, socFailed, starts, build, cut>>

Silicon ==
  StartSilicon \/ BeginPerf \/ EndPerf \/ BeginDdr \/ EndDdr \/ KillSilicon

Rebuild ==
  /\ host \in {"idle", "done"} /\ soc \in {"idle", "done"}
  /\ build < MaxBuild
  /\ build' = build + 1
  /\ UNCHANGED <<out50, hostVars, socVars, starts, cut>>

-----------------------------------------------------------------------------
(* compare50.py, which may be run at any time and changes no file of these. *)

(* Mutant: a row without counts is left out like one that does not load. *)
LoadsCounts(a) == \A k \in Kind : out50[a][k].holds = "counts"

(* json.load of the four files; an exception leaves the row out. *)
Loads(a) == \A k \in Kind : out50[a][k].holds \in {"counts", "nulls", "partial"}

(* The file a ratio has its emulated counts from or, for the instructions, *)
(* the silicon's; those of the other side are always there.                *)
Behind == [insns |-> "hw", reads |-> "pf", writes |-> "base"]

(* The ratios a row can have.  For one of reads or writes that it cannot   *)
(* have, or that is below the noise floor, a dash is printed.              *)
Ratios(a) == {r \in DOMAIN Behind : out50[a][Behind[r]].holds # "nulls"}

Row(a) == [app |-> a, ratios |-> Ratios(a)]

(* What it prints now.  A missing ratio of instructions has no dash: its   *)
(* printing raises, and no geometric mean is printed.                      *)
Verdict ==
  LET rows == {Row(a) : a \in {b \in App : Loads(b)}}
  IN  [rows  |-> rows,
       ended |-> IF \A row \in rows : "insns" \in row.ratios
                 THEN "printed" ELSE "TypeError"]

Next == Validate \/ Silicon \/ Rebuild

Spec == Init /\ [][Next]_vars

-----------------------------------------------------------------------------
Result == [holds : Contents, build : 0 .. MaxBuild]

(* The shape of the state. *)
TypeOK ==
  /\ out50 \in [App -> [Kind -> Result]]
  /\ host \in {"idle", "line", "pf", "beginBase", "base", "done"}
  /\ hostApp \in App /\ failed \subseteq App \X {"pf", "base"}
  /\ soc \in {"idle", "line", "perf", "beginDdr", "ddr", "done"}
  /\ socApp \in App /\ socFailed \subseteq App /\ cut \subseteq App
  /\ starts \in 0 .. MaxStarts /\ build \in 1 .. MaxBuild

(* Resuming loses nothing: when validate50.sh says it is done, after any   *)
(* kills and failures before, each line it read has both results whole,    *)
(* or this invocation has printed which one failed; and it has read every  *)
(* line, unless the application of the last one took the others from it.   *)
NothingLost ==
  host = "done" =>
    /\ \A a \in 1 .. hostApp, k \in {"pf", "base"} :
         out50[a][k].holds \in {"counts", "nulls"} \/ <<a, k>> \in failed
    /\ hostApp = NumApps \/ hostApp \in Readers

(* A pair of results the host keeps is of one build: a line that is not    *)
(* skipped runs both passes again.  The one exception is a line cut off    *)
(* just between its passes, the earlier base result still in place, which  *)
(* the next invocation takes for done.                                     *)
PassesOfOneBuild ==
  \A a \in App \ cut :
    /\ a # hostApp \/ host \notin {"beginBase", "base"}
    /\ NonEmpty(a, "pf") /\ NonEmpty(a, "base")
    => out50[a]["pf"].build = out50[a]["base"].build

(* A verdict is whole, at whatever moment it is asked for.  Behind a ratio *)
(* there are a whole file of DDR beats and, for reads and writes, a pass   *)
(* of the emulator that ran to its end and has the counts; the perf result *)
(* behind the instructions may be of a run that died.  And compare50.py    *)
(* need not say which lines it leaves out: once both scripts are done, the *)
(* failure of each of those they read has been printed.                    *)
LeftOut(a) == a \notin {row.app : row \in Verdict.rows}
Announced(a) == a \in socFailed \/ \E k \in {"pf", "base"} : <<a, k>> \in failed

RestsOnCounts(row) ==
  /\ out50[row.app]["ddr"].holds = "counts"
  /\ \A r \in row.ratios :
       \/ out50[row.app][Behind[r]].holds = "counts"
       \/ r = "insns" /\ out50[row.app]["hw"].holds = "partial"

VerdictWhole ==
  /\ \A row \in Verdict.rows : RestsOnCounts(row)
  /\ host = "done" /\ soc = "done"
       => \A a \in 1 .. hostApp : a <= socApp /\ LeftOut(a) => Announced(a)
=============================================================================
