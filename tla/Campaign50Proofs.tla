-------------------------- MODULE Campaign50Proofs --------------------------
(***************************************************************************)
(* Theorems about Campaign50, for every number of applications, of starts  *)
(* and of rebuilds: what resuming after kills and failures preserves, and  *)
(* what a verdict stands on.                                               *)
(***************************************************************************)
EXTENDS Campaign50, TLAPS

HostKind == {"pf", "base"}

(* What run-qemu.sh prints when it does not fail. *)
WholeJson == {"counts", "nulls"}

(* All that the proofs need to know of the constants. *)
LEMMA Constants ==
  /\ NumApps \in Nat /\ 1 <= NumApps /\ 1 \in App
  /\ Readers \subseteq App
  /\ MaxStarts \in Nat /\ MaxBuild \in Nat /\ 1 <= MaxBuild
  BY CampaignAssumption DEF App

(* A write changes one file and no other. *)
LEMMA Written ==
  ASSUME TypeOK, NEW a \in App, NEW kind \in Kind, NEW contents \in Contents,
         Write(a, kind, contents)
  PROVE  /\ out50' \in [App -> [Kind -> Result]]
         /\ out50'[a][kind].holds = contents /\ out50'[a][kind].build = build
         /\ \A b \in App, k \in Kind :
              b # a \/ k # kind => out50'[b][k] = out50[b][k]
<1>1. [holds |-> contents, build |-> build] \in Result
  BY Constants DEF TypeOK, Result
<1>2. out50' = [out50 EXCEPT ![a][kind] = [holds |-> contents, build |-> build]]
  BY DEF Write
<1>3. out50 \in [App -> [Kind -> Result]]
  BY DEF TypeOK
<1> HIDE DEF Result
<1>4. /\ out50' \in [App -> [Kind -> Result]]
      /\ out50'[a][kind] = [holds |-> contents, build |-> build]
      /\ \A b \in App, k \in Kind :
           b # a \/ k # kind => out50'[b][k] = out50[b][k]
  BY <1>1, <1>2, <1>3
<1> QED BY <1>4

(* The next line is a line, or the loop is over. *)
LEMMA NextLine ==
  ASSUME TypeOK, HostNext
  PROVE  /\ hostApp' \in App
         /\ \/ host' = "done" /\ hostApp' = hostApp /\ hostApp = NumApps
            \/ host' = "line" /\ hostApp' = hostApp + 1
  BY Constants DEF TypeOK, HostNext, App

(* After a run the loop may also be over at a reader of its input.         *)
LEMMA LineAfterRun ==
  ASSUME TypeOK, HostAfterRun
  PROVE  /\ hostApp' \in App
         /\ \/ host' = "done" /\ hostApp' = hostApp /\ (hostApp = NumApps \/ hostApp \in Readers)
            \/ host' = "line" /\ hostApp' = hostApp + 1
  BY NextLine, Constants DEF TypeOK, HostNext, HostAfterRun

(* What a pass of the emulator does to the files and the list of failures. *)
LEMMA Pass ==
  ASSUME TypeOK, NEW kind \in HostKind, NEW next, RunQemu(kind, next)
  PROVE  /\ next
         /\ out50' \in [App -> [Kind -> Result]]
         /\ failed' \subseteq App \X HostKind /\ failed \subseteq failed'
         /\ UNCHANGED <<socVars, starts, build, cut>>
         /\ \A b \in App, k \in Kind :
              b # hostApp \/ k # kind => out50'[b][k] = out50[b][k]
         /\ \/ /\ out50'[hostApp][kind].holds \in WholeJson
               /\ out50'[hostApp][kind].build = build
            \/ /\ out50' = out50
               /\ <<hostApp, kind>> \in failed'
<1>1. kind \in Kind /\ WholeJson \subseteq Contents /\ hostApp \in App
  BY DEF HostKind, Kind, WholeJson, Contents, TypeOK
<1>2. ASSUME NEW contents \in WholeJson, Write(hostApp, kind, contents), next,
             UNCHANGED <<failed, socVars, starts, build, cut>>
      PROVE  /\ out50' \in [App -> [Kind -> Result]]
             /\ out50'[hostApp][kind].holds = contents /\ out50'[hostApp][kind].build = build
             /\ \A b \in App, k \in Kind :
                  b # hostApp \/ k # kind => out50'[b][k] = out50[b][k]
  BY <1>1, <1>2, Written
<1>3. CASE /\ failed' = failed \cup {<<hostApp, kind>>}
           /\ UNCHANGED <<out50, socVars, starts, build, cut>> /\ next
  BY <1>1, <1>3 DEF TypeOK, HostKind
<1> QED BY <1>2, <1>3 DEF RunQemu, WholeJson, TypeOK, HostKind

-----------------------------------------------------------------------------
(* A campaign starts with an empty directory. *)
LEMMA TypeInit == Init => TypeOK
<1> SUFFICES ASSUME Init PROVE TypeOK
  OBVIOUS
<1>1. [holds |-> "absent", build |-> 0] \in Result
  BY Constants DEF Result, Contents
<1>2. out50 \in [App -> [Kind -> Result]]
  BY <1>1 DEF Init
<1> QED BY <1>2, Constants DEF Init, TypeOK

(* Every step keeps the types. *)
LEMMA TypeStep ==
  ASSUME TypeOK, [Next]_vars
  PROVE  TypeOK'
<1> USE DEF hostVars, socVars
<1>0. {"pf", "base", "hw", "ddr"} \subseteq Kind
      /\ {"empty", "counts", "nulls", "partial", "broken"} \subseteq Contents
  BY DEF Kind, Contents
<1>1. CASE StartValidate
  BY <1>1, Constants DEF StartValidate, TypeOK
<1>2. CASE Skip
  BY <1>2, NextLine DEF Skip, TypeOK
<1>3. CASE BeginPf
  <2>1. out50' \in [App -> [Kind -> Result]]
    BY <1>0, <1>3, Written DEF BeginPf, TypeOK
  <2> QED BY <1>3, <2>1 DEF BeginPf, TypeOK
<1>4. CASE EndPf
  <2>1. /\ host' = "beginBase" /\ UNCHANGED hostApp
        /\ out50' \in [App -> [Kind -> Result]] /\ failed' \subseteq App \X HostKind
        /\ UNCHANGED <<socVars, starts, build, cut>>
    BY <1>4, Pass DEF EndPf, HostKind
  <2> QED BY <2>1 DEF TypeOK, HostKind
<1>5. CASE BeginBase
  <2>1. out50' \in [App -> [Kind -> Result]]
    BY <1>0, <1>5, Written DEF BeginBase, TypeOK
  <2> QED BY <1>5, <2>1 DEF BeginBase, TypeOK
<1>6. CASE EndBase
  <2>1. /\ HostAfterRun
        /\ out50' \in [App -> [Kind -> Result]] /\ failed' \subseteq App \X HostKind
        /\ UNCHANGED <<socVars, starts, build, cut>>
    BY <1>6, Pass DEF EndBase, HostKind
  <2> QED BY <2>1, LineAfterRun DEF TypeOK, HostKind
<1>7. CASE KillValidate
  BY <1>7 DEF KillValidate, TypeOK
<1>8. CASE StartSilicon
  BY <1>8, Constants DEF StartSilicon, TypeOK
<1>9. CASE BeginPerf
  <2>1. out50' \in [App -> [Kind -> Result]]
    BY <1>0, <1>9, Written DEF BeginPerf, TypeOK
  <2> QED BY <1>9, <2>1 DEF BeginPerf, TypeOK
<1>10. CASE EndPerf
  <2>1. out50' \in [App -> [Kind -> Result]]
    BY <1>0, <1>10, Written DEF EndPerf, TypeOK
  <2> QED BY <1>10, <2>1 DEF EndPerf, TypeOK
<1>11. CASE BeginDdr
  <2>1. out50' \in [App -> [Kind -> Result]]
    BY <1>0, <1>11, Written DEF BeginDdr, TypeOK
  <2> QED BY <1>11, <2>1 DEF BeginDdr, TypeOK
<1>12. CASE EndDdr
  <2>1. out50' \in [App -> [Kind -> Result]]
    BY <1>0, <1>12, Written DEF EndDdr, TypeOK
  <2>2. socFailed' \subseteq App
    BY <1>12 DEF EndDdr, TypeOK
  <2>3. socApp' \in App /\ soc' \in {"line", "done"}
    BY <1>12, Constants DEF EndDdr, SocNext, TypeOK, App
  <2> QED BY <1>12, <2>1, <2>2, <2>3 DEF EndDdr, TypeOK
<1>13. CASE KillSilicon
  BY <1>13 DEF KillSilicon, TypeOK
<1>14. CASE Rebuild
  BY <1>14, Constants DEF Rebuild, TypeOK
<1>15. CASE UNCHANGED vars
  BY <1>15 DEF vars, TypeOK
<1> QED
  BY <1>1, <1>2, <1>3, <1>4, <1>5, <1>6, <1>7, <1>8, <1>9, <1>10, <1>11, <1>12, <1>13, <1>14,
     <1>15 DEF Next, Validate, Silicon

(* The state of the campaign keeps its shape. *)
THEOREM TypeCorrect == Spec => []TypeOK
<1>1. Init => TypeOK
  BY TypeInit
<1>2. TypeOK /\ [Next]_vars => TypeOK'
  BY TypeStep
<1> QED BY <1>1, <1>2, PTL DEF Spec

-----------------------------------------------------------------------------
(* Resuming.  The host's files hold no halves: run-qemu.sh prints once, in *)
(* the end.                                                                *)
Printed == {"absent", "empty"} \cup WholeJson

Clean == \A a \in App, k \in HostKind : out50[a][k].holds \in Printed

(* The result is there, or its failure has been printed. *)
Settled(a, k) == out50[a][k].holds \in WholeJson \/ <<a, k>> \in failed

Past(a) == (host = "done" /\ a <= hostApp) \/ (host # "idle" /\ a < hostApp)

(* NothingLost of the lines behind the loop, and of the pass behind it on  *)
(* the present line.                                                       *)
ResumeInv ==
  /\ Clean
  /\ \A a \in App : Past(a) => \A k \in HostKind : Settled(a, k)
  /\ host \in {"beginBase", "base"} => Settled(hostApp, "pf")
  /\ host = "done" => hostApp = NumApps \/ hostApp \in Readers

(* Nothing has been passed yet. *)
LEMMA ResumeInit == Init => ResumeInv
  BY DEF Init, ResumeInv, Clean, Printed, WholeJson, Past, HostKind, Kind

(* A step that leaves the host's script, its failures and its files alone. *)
LEMMA HostUntouched ==
  ASSUME TypeOK, ResumeInv, UNCHANGED hostVars,
         \A a \in App, k \in HostKind : out50'[a][k] = out50[a][k]
  PROVE  ResumeInv'
  BY DEF TypeOK, ResumeInv, Clean, Past, Settled, hostVars, HostKind

(* A file of the board is none of the host's. *)
LEMMA BoardFile ==
  ASSUME TypeOK, NEW kind \in {"hw", "ddr"}, NEW contents \in Contents,
         Write(socApp, kind, contents)
  PROVE  \A a \in App, k \in HostKind : out50'[a][k] = out50[a][k]
<1>1. kind \in Kind /\ HostKind \subseteq Kind /\ kind \notin HostKind
  BY DEF Kind, HostKind
<1> QED BY <1>1, Written DEF TypeOK

(* A line is passed with both results or a message; kills, failures and    *)
(* starts keep that.                                                       *)
LEMMA ResumeStep ==
  ASSUME TypeOK, ResumeInv, [Next]_vars
  PROVE  ResumeInv'
<1> USE DEF hostVars, socVars
<1>0. /\ {"pf", "base"} \subseteq Kind /\ HostKind = {"pf", "base"}
      /\ {"empty", "counts", "nulls", "partial", "broken"} \subseteq Contents
      /\ NumApps \in Nat /\ App = 1 .. NumApps /\ hostApp \in App
  BY Constants DEF Kind, Contents, HostKind, TypeOK, App
<1>1. CASE StartValidate
  BY <1>0, <1>1 DEF StartValidate, ResumeInv, Clean, Past
<1>2. CASE Skip
  <2>1. \A k \in HostKind : Settled(hostApp, k)
    BY <1>0, <1>2 DEF Skip, NonEmpty, ResumeInv, Clean, Settled, Printed
  <2>2. \A a \in App : Past(a)' => Past(a) \/ a = hostApp
    BY <1>0, <1>2, NextLine DEF Skip, Past
  <2>3. \A a \in App, k \in HostKind : Settled(a, k)' <=> Settled(a, k)
    BY <1>2 DEF Skip, Settled
  <2>4. /\ Clean' /\ host' \in {"line", "done"}
        /\ host' = "done" => hostApp' = NumApps
    BY <1>2, NextLine DEF Skip, ResumeInv, Clean
  <2> QED BY <2>1, <2>2, <2>3, <2>4 DEF ResumeInv
<1>3. CASE BeginPf
  <2>1. /\ out50'[hostApp]["pf"].holds = "empty"
        /\ \A a \in App, k \in HostKind :
             a # hostApp \/ k # "pf" => out50'[a][k] = out50[a][k]
    BY <1>0, <1>3, Written DEF BeginPf
  <2>2. Clean'
    BY <1>0, <2>1 DEF ResumeInv, Clean, Printed
  <2>3. \A a \in App : Past(a)' => Past(a) /\ a # hostApp
    BY <1>0, <1>3 DEF BeginPf, Past
  <2>4. \A a \in App, k \in HostKind : a # hostApp => (Settled(a, k)' <=> Settled(a, k))
    BY <1>3, <2>1 DEF BeginPf, Settled
  <2> QED BY <1>3, <2>2, <2>3, <2>4 DEF BeginPf, ResumeInv
<1>4. CASE EndPf
  <2>1. /\ host = "pf" /\ host' = "beginBase" /\ hostApp' = hostApp /\ failed \subseteq failed'
        /\ \A a \in App, k \in HostKind :
             a # hostApp \/ k # "pf" => out50'[a][k] = out50[a][k]
        /\ \/ out50'[hostApp]["pf"].holds \in WholeJson
           \/ out50' = out50 /\ <<hostApp, "pf">> \in failed'
    <3>1. host = "pf" /\ "pf" \in HostKind
      BY <1>0, <1>4 DEF EndPf
    <3>2. RunQemu("pf", host' = "beginBase" /\ UNCHANGED hostApp)
      BY <1>4 DEF EndPf
    <3>3. \A k \in HostKind : k \in Kind
      BY <1>0
    <3> QED BY <3>1, <3>2, <3>3, Pass
  <2>2. Clean'
    BY <1>0, <2>1 DEF ResumeInv, Clean, Printed
  <2>3. \A a \in App : Past(a)' => Past(a) /\ a # hostApp
    BY <1>0, <2>1 DEF Past
  <2>4. \A a \in App, k \in HostKind : a # hostApp /\ Settled(a, k) => Settled(a, k)'
    BY <2>1 DEF Settled
  <2> QED BY <1>0, <2>1, <2>2, <2>3, <2>4 DEF ResumeInv, Settled
<1>5. CASE BeginBase
  <2>1. /\ out50'[hostApp]["base"].holds = "empty"
        /\ \A a \in App, k \in HostKind :
             a # hostApp \/ k # "base" => out50'[a][k] = out50[a][k]
    BY <1>0, <1>5, Written DEF BeginBase
  <2>2. Clean'
    BY <1>0, <2>1 DEF ResumeInv, Clean, Printed
  <2>3. \A a \in App : Past(a)' => Past(a) /\ a # hostApp
    BY <1>0, <1>5 DEF BeginBase, Past
  <2>4. \A a \in App, k \in HostKind :
          a # hostApp \/ k # "base" => (Settled(a, k)' <=> Settled(a, k))
    BY <1>5, <2>1 DEF BeginBase, Settled
  <2> QED BY <1>0, <1>5, <2>2, <2>3, <2>4 DEF BeginBase, ResumeInv
<1>6. CASE EndBase
  <2>1. /\ host = "base" /\ HostAfterRun /\ failed \subseteq failed'
        /\ \A a \in App, k \in HostKind :
             a # hostApp \/ k # "base" => out50'[a][k] = out50[a][k]
        /\ \/ out50'[hostApp]["base"].holds \in WholeJson
           \/ out50' = out50 /\ <<hostApp, "base">> \in failed'
    <3>1. host = "base" /\ "base" \in HostKind
      BY <1>0, <1>6 DEF EndBase
    <3>2. RunQemu("base", HostAfterRun)
      BY <1>6 DEF EndBase
    <3>3. \A k \in HostKind : k \in Kind
      BY <1>0
    <3> QED BY <3>1, <3>2, <3>3, Pass
  <2>2. Clean'
    BY <1>0, <2>1 DEF ResumeInv, Clean, Printed
  <2>3. \A a \in App : Past(a)' => Past(a) \/ a = hostApp
    BY <1>0, <2>1, LineAfterRun DEF Past
  <2>4. \A a \in App, k \in HostKind : Settled(a, k) => Settled(a, k)'
    BY <2>1 DEF Settled
  <2>5. \A k \in HostKind : Settled(hostApp, k) \/ k = "base"
    BY <1>0, <2>1 DEF ResumeInv
  <2>6. \A k \in HostKind : out50'[hostApp][k].holds \in WholeJson \/ <<hostApp, k>> \in failed'
    BY <1>0, <2>1, <2>5 DEF Settled
  <2>7. \A a \in App : Past(a)' => \A k \in HostKind : Settled(a, k)'
    BY <2>3, <2>4, <2>6 DEF ResumeInv, Settled
  <2>8. /\ host' \in {"line", "done"}
        /\ host' = "done" => hostApp' = NumApps \/ hostApp' \in Readers
    BY <2>1, LineAfterRun
  <2> QED BY <2>2, <2>7, <2>8 DEF ResumeInv
<1>7. CASE KillValidate
  BY <1>7 DEF KillValidate, ResumeInv, Clean, Past
<1>8. CASE StartSilicon \/ KillSilicon \/ Rebuild \/ UNCHANGED vars
  BY <1>8, HostUntouched
     DEF StartSilicon, KillSilicon, Rebuild, vars
<1>9. CASE BeginPerf
  BY <1>0, <1>9, BoardFile, HostUntouched DEF BeginPerf
<1>10. CASE EndPerf
  BY <1>0, <1>10, BoardFile, HostUntouched DEF EndPerf
<1>11. CASE BeginDdr
  BY <1>0, <1>11, BoardFile, HostUntouched DEF BeginDdr
<1>12. CASE EndDdr
  BY <1>0, <1>12, BoardFile, HostUntouched DEF EndDdr
<1> QED
  BY <1>1, <1>2, <1>3, <1>4, <1>5, <1>6, <1>7, <1>8, <1>9, <1>10, <1>11, <1>12
     DEF Next, Validate, Silicon

(* When validate50.sh is done, whatever killed or failed before, each line *)
(* it read has both results whole or a printed failure, and it read them   *)
(* all unless the application of the last one read its input.              *)
THEOREM ResumeLosesNothing == Spec => []NothingLost
<1>1. Init => TypeOK /\ ResumeInv
  BY TypeInit, ResumeInit
<1>2. TypeOK /\ ResumeInv /\ [Next]_vars => TypeOK' /\ ResumeInv'
  BY TypeStep, ResumeStep
<1>3. TypeOK /\ ResumeInv => NothingLost
  <2> SUFFICES ASSUME TypeOK, ResumeInv, host = "done" PROVE NothingLost
    BY DEF NothingLost
  <2>1. \A a \in 1 .. hostApp : a \in App /\ Past(a)
    BY Constants DEF TypeOK, App, Past
  <2> QED BY <2>1 DEF ResumeInv, NothingLost, Settled, HostKind, WholeJson
<1> QED BY <1>1, <1>2, <1>3, PTL DEF Spec

-----------------------------------------------------------------------------
(* Builds.  What the passes of the present line have written is of the     *)
(* build in place: nobody rebuilds while a script runs.                    *)
BuildInv ==
  /\ PassesOfOneBuild
  /\ host = "pf" => ~NonEmpty(hostApp, "pf")
  /\ host \in {"beginBase", "base"} /\ NonEmpty(hostApp, "pf")
       => out50[hostApp]["pf"].build = build
  /\ host = "base" => ~NonEmpty(hostApp, "base")

(* No pass has run yet. *)
LEMMA BuildInit == Init => BuildInv
  BY Constants DEF Init, BuildInv, PassesOfOneBuild, NonEmpty, Kind

(* A step that leaves the host's script, its files and the build alone. *)
LEMMA BuildUntouched ==
  ASSUME TypeOK, BuildInv, UNCHANGED <<host, hostApp, build, cut>>,
         \A a \in App, k \in HostKind : out50'[a][k] = out50[a][k]
  PROVE  BuildInv'
  BY DEF TypeOK, BuildInv, PassesOfOneBuild, NonEmpty, HostKind

(* Every step keeps the two passes of one build, but for a line cut off    *)
(* between them.                                                           *)
LEMMA BuildStep ==
  ASSUME TypeOK, BuildInv, [Next]_vars
  PROVE  BuildInv'
<1> USE DEF hostVars, socVars
<1>0. /\ {"pf", "base"} \subseteq Kind /\ HostKind = {"pf", "base"}
      /\ {"empty", "counts", "nulls", "partial", "broken"} \subseteq Contents
      /\ hostApp \in App
  BY DEF Kind, Contents, HostKind, TypeOK
<1>1. CASE StartValidate
  BY <1>1 DEF StartValidate, BuildInv, PassesOfOneBuild, NonEmpty
<1>2. CASE Skip
  <2>1. host = "line" /\ host' \in {"line", "done"} /\ UNCHANGED <<out50, build, cut>>
    BY <1>2, NextLine DEF Skip
  <2> QED BY <2>1 DEF BuildInv, PassesOfOneBuild, NonEmpty
<1>3. CASE BeginPf
  <2>1. /\ out50'[hostApp]["pf"].holds = "empty"
        /\ \A a \in App, k \in HostKind :
             a # hostApp \/ k # "pf" => out50'[a][k] = out50[a][k]
    BY <1>0, <1>3, Written DEF BeginPf
  <2> QED BY <1>0, <1>3, <2>1 DEF BeginPf, BuildInv, PassesOfOneBuild, NonEmpty
<1>4. CASE EndPf
  <2>1. /\ host = "pf" /\ host' = "beginBase" /\ hostApp' = hostApp /\ UNCHANGED <<build, cut>>
        /\ \A a \in App, k \in HostKind :
             a # hostApp \/ k # "pf" => out50'[a][k] = out50[a][k]
        /\ out50'[hostApp]["pf"].build = build \/ out50' = out50
    BY <1>0, <1>4, Pass DEF EndPf
  <2> QED BY <1>0, <2>1 DEF BuildInv, PassesOfOneBuild, NonEmpty
<1>5. CASE BeginBase
  <2>1. /\ out50'[hostApp]["base"].holds = "empty"
        /\ \A a \in App, k \in HostKind :
             a # hostApp \/ k # "base" => out50'[a][k] = out50[a][k]
    BY <1>0, <1>5, Written DEF BeginBase
  <2> QED BY <1>0, <1>5, <2>1 DEF BeginBase, BuildInv, PassesOfOneBuild, NonEmpty
<1>6. CASE EndBase
  <2>1. /\ host = "base" /\ host' \in {"line", "done"} /\ UNCHANGED <<build, cut>>
        /\ \A a \in App, k \in HostKind :
             a # hostApp \/ k # "base" => out50'[a][k] = out50[a][k]
        /\ out50'[hostApp]["base"].build = build \/ out50' = out50
    BY <1>0, <1>6, Pass, LineAfterRun DEF EndBase
  <2>2. out50'[hostApp]["pf"].holds \in {"absent", "empty"}
          \/ out50'[hostApp]["base"].holds \in {"absent", "empty"}
          \/ out50'[hostApp]["pf"].build = out50'[hostApp]["base"].build
    BY <1>0, <2>1 DEF BuildInv, NonEmpty
  <2>3. PassesOfOneBuild'
    BY <1>0, <2>1, <2>2 DEF BuildInv, PassesOfOneBuild, NonEmpty
  <2> QED BY <2>1, <2>3 DEF BuildInv
<1>7. CASE KillValidate
  BY <1>7 DEF KillValidate, BuildInv, PassesOfOneBuild, NonEmpty
<1>8. CASE StartSilicon \/ KillSilicon \/ UNCHANGED vars
  BY <1>8, BuildUntouched
     DEF StartSilicon, KillSilicon, vars
<1>9. CASE Rebuild
  BY <1>9 DEF Rebuild, BuildInv, PassesOfOneBuild, NonEmpty
<1>10. CASE BeginPerf
  BY <1>0, <1>10, BoardFile, BuildUntouched DEF BeginPerf
<1>11. CASE EndPerf
  BY <1>0, <1>11, BoardFile, BuildUntouched DEF EndPerf
<1>12. CASE BeginDdr
  BY <1>0, <1>12, BoardFile, BuildUntouched DEF BeginDdr
<1>13. CASE EndDdr
  BY <1>0, <1>13, BoardFile, BuildUntouched DEF EndDdr
<1> QED
  BY <1>1, <1>2, <1>3, <1>4, <1>5, <1>6, <1>7, <1>8, <1>9, <1>10, <1>11, <1>12, <1>13
     DEF Next, Validate, Silicon

(* Both results of a line are of one build, however often the applications *)
(* are rebuilt between invocations, except for a line cut between passes.  *)
THEOREM PairsOfOneBuild == Spec => []PassesOfOneBuild
<1>1. Init => TypeOK /\ BuildInv
  BY TypeInit, BuildInit
<1>2. TypeOK /\ BuildInv /\ [Next]_vars => TypeOK' /\ BuildInv'
  BY TypeStep, BuildStep
<1>3. BuildInv => PassesOfOneBuild
  BY DEF BuildInv
<1> QED BY <1>1, <1>2, <1>3, PTL DEF Spec

-----------------------------------------------------------------------------
(* The verdict.  What the board's files may hold, and what its loop leaves *)
(* behind it on each line.                                                 *)
PerfJson == {"counts", "partial", "nulls"}

BoardClean ==
  \A a \in App :
    /\ out50[a]["hw"].holds \in {"absent", "empty"} \cup PerfJson
    /\ out50[a]["ddr"].holds \in {"absent", "empty", "counts", "broken"}

HasPerf(a) == out50[a]["hw"].holds \in PerfJson \/ a \in socFailed
HasDdr(a) == out50[a]["ddr"].holds = "counts" \/ a \in socFailed

SocPast(a) == (soc = "done" /\ a <= socApp) \/ (soc # "idle" /\ a < socApp)

BoardInv ==
  /\ BoardClean
  /\ \A a \in App : SocPast(a) => HasPerf(a) /\ HasDdr(a)
  /\ soc \in {"beginDdr", "ddr"} => HasPerf(socApp)

(* The board's script has passed nothing yet. *)
LEMMA BoardInit == Init => BoardInv
  BY DEF Init, BoardInv, BoardClean, SocPast, Kind

(* A step that leaves the board's script and its files alone. *)
LEMMA BoardUntouched ==
  ASSUME TypeOK, BoardInv, UNCHANGED socVars,
         \A a \in App, k \in {"hw", "ddr"} : out50'[a][k] = out50[a][k]
  PROVE  BoardInv'
  BY DEF BoardInv, BoardClean, SocPast, HasPerf, HasDdr, socVars, TypeOK

(* The board's loop goes on with the next line, or is over at this one. *)
LEMMA SocLine ==
  ASSUME TypeOK, SocNext
  PROVE  /\ socApp' \in App
         /\ \/ soc' = "done" /\ socApp' = socApp
            \/ soc' = "line" /\ socApp' = socApp + 1
  BY Constants DEF TypeOK, SocNext, App

(* Every step keeps what silicon50.sh knows of the lines it passed.        *)
LEMMA BoardStep ==
  ASSUME TypeOK, BoardInv, [Next]_vars
  PROVE  BoardInv'
<1> USE DEF hostVars, socVars
<1>0. /\ {"pf", "base", "hw", "ddr"} \subseteq Kind /\ HostKind = {"pf", "base"}
      /\ {"empty", "counts", "nulls", "partial", "broken"} \subseteq Contents
      /\ NumApps \in Nat /\ App = 1 .. NumApps /\ hostApp \in App /\ socApp \in App
  BY Constants DEF Kind, Contents, HostKind, TypeOK, App
<1>1. CASE StartValidate \/ Skip \/ KillValidate \/ Rebuild \/ UNCHANGED vars
  BY <1>1, BoardUntouched
     DEF StartValidate, Skip, KillValidate, Rebuild, vars
<1>2. CASE BeginPf \/ BeginBase
  <2>1. PICK kind \in HostKind : Write(hostApp, kind, "empty")
    BY <1>0, <1>2 DEF BeginPf, BeginBase
  <2>2. \A a \in App, k \in {"hw", "ddr"} : out50'[a][k] = out50[a][k]
    BY <1>0, <2>1, Written
  <2> QED BY <1>2, <2>2, BoardUntouched DEF BeginPf, BeginBase
<1>3. CASE EndPf \/ EndBase
  <2>1. /\ UNCHANGED socVars
        /\ \E kind \in HostKind : \A a \in App, k \in Kind :
             a # hostApp \/ k # kind => out50'[a][k] = out50[a][k]
    BY <1>0, <1>3, Pass DEF EndPf, EndBase
  <2>2. \A a \in App, k \in {"hw", "ddr"} : out50'[a][k] = out50[a][k]
    BY <1>0, <2>1
  <2> QED BY <2>1, <2>2, BoardUntouched
<1>4. CASE StartSilicon
  BY <1>0, <1>4 DEF StartSilicon, BoardInv, BoardClean, SocPast
<1>5. CASE BeginPerf
  <2>1. /\ out50'[socApp]["hw"].holds = "empty"
        /\ \A a \in App, k \in Kind :
             a # socApp \/ k # "hw" => out50'[a][k] = out50[a][k]
    <3>1. Write(socApp, "hw", "empty")
      BY <1>5 DEF BeginPerf
    <3> QED BY <1>0, <3>1, Written
  <2>2. \A a \in App : SocPast(a)' => SocPast(a) /\ a # socApp
    BY <1>0, <1>5 DEF BeginPerf, SocPast
  <2> QED BY <1>0, <1>5, <2>1, <2>2 DEF BeginPerf, BoardInv, BoardClean, HasPerf, HasDdr
<1>6. CASE EndPerf
  <2>1. PICK contents \in {"counts", "partial", "nulls", "empty"} :
          /\ Write(socApp, "hw", contents)
          /\ socFailed' = IF contents = "empty" THEN socFailed \cup {socApp} ELSE socFailed
    BY <1>6 DEF EndPerf
  <2>2. /\ out50'[socApp]["hw"].holds = contents
        /\ \A a \in App, k \in Kind :
             a # socApp \/ k # "hw" => out50'[a][k] = out50[a][k]
    BY <1>0, <2>1, Written
  <2>3. soc = "perf" /\ soc' = "beginDdr" /\ socApp' = socApp /\ socFailed \subseteq socFailed'
    BY <1>6, <2>1 DEF EndPerf
  <2>4. \A a \in App : SocPast(a)' => SocPast(a) /\ a # socApp
    BY <1>0, <2>3 DEF SocPast
  <2>5. BoardClean'
    BY <1>0, <2>2 DEF BoardInv, BoardClean, PerfJson
  <2>6. HasPerf(socApp)'
    BY <1>0, <2>1, <2>2, <2>3 DEF HasPerf, PerfJson
  <2>7. \A a \in App : a # socApp /\ HasPerf(a) /\ HasDdr(a) => HasPerf(a)' /\ HasDdr(a)'
    BY <1>0, <2>2, <2>3 DEF HasPerf, HasDdr
  <2> QED BY <2>3, <2>4, <2>5, <2>6, <2>7 DEF BoardInv
<1>7. CASE BeginDdr
  <2>1. /\ out50'[socApp]["ddr"].holds = "empty"
        /\ \A a \in App, k \in Kind :
             a # socApp \/ k # "ddr" => out50'[a][k] = out50[a][k]
    BY <1>0, <1>7, Written DEF BeginDdr
  <2>2. \A a \in App : SocPast(a)' => SocPast(a) /\ a # socApp
    BY <1>0, <1>7 DEF BeginDdr, SocPast
  <2> QED BY <1>0, <1>7, <2>1, <2>2 DEF BeginDdr, BoardInv, BoardClean, HasPerf, HasDdr
<1>8. CASE EndDdr
  <2>1. PICK contents \in {"counts", "empty", "broken"} :
          /\ Write(socApp, "ddr", contents)
          /\ socFailed' = IF contents = "counts" THEN socFailed ELSE socFailed \cup {socApp}
    BY <1>8 DEF EndDdr
  <2>2. /\ out50'[socApp]["ddr"].holds = contents
        /\ \A a \in App, k \in Kind :
             a # socApp \/ k # "ddr" => out50'[a][k] = out50[a][k]
    BY <1>0, <2>1, Written
  <2>3. HasPerf(socApp) /\ socFailed \subseteq socFailed'
    BY <1>8, <2>1 DEF EndDdr, BoardInv
  <2>4. /\ \A a \in App : SocPast(a)' => SocPast(a) \/ a = socApp
        /\ soc' \in {"line", "done"}
    BY <1>0, <1>8, SocLine DEF EndDdr, SocPast
  <2>5. BoardClean'
    BY <1>0, <2>2 DEF BoardInv, BoardClean
  <2>6. \A a \in App : HasPerf(a) => HasPerf(a)'
    BY <1>0, <2>2, <2>3 DEF HasPerf
  <2>7. \A a \in App : HasDdr(a) \/ a = socApp => HasDdr(a)'
    BY <1>0, <2>1, <2>2 DEF HasDdr
  <2> QED BY <2>3, <2>4, <2>5, <2>6, <2>7 DEF BoardInv
<1>9. CASE KillSilicon
  BY <1>9 DEF KillSilicon, BoardInv, BoardClean, SocPast
<1> QED
  BY <1>1, <1>2, <1>3, <1>4, <1>5, <1>6, <1>7, <1>8, <1>9 DEF Next, Validate, Silicon

(* Whatever moment compare50.py is run at, behind each ratio it can print  *)
(* are whole files with the counts, but for those of an application that   *)
(* died under perf; and of a line it leaves out, the failure has been      *)
(* printed once both scripts are done with it.                             *)
THEOREM VerdictsAreWhole == Spec => []VerdictWhole
<1> DEFINE Inv == TypeOK /\ ResumeInv /\ BoardInv
<1>1. Init => Inv
  BY TypeInit, ResumeInit, BoardInit
<1>2. Inv /\ [Next]_vars => Inv'
  BY TypeStep, ResumeStep, BoardStep
<1>3. Inv => VerdictWhole
  <2> SUFFICES ASSUME Inv PROVE VerdictWhole
    OBVIOUS
  <2>1. Verdict.rows = {Row(a) : a \in {b \in App : Loads(b)}}
    BY DEF Verdict
  <2>2. ASSUME NEW row \in Verdict.rows
        PROVE  RestsOnCounts(row)
    <3>1. PICK a \in App : Loads(a) /\ row = Row(a)
      BY <2>1, <2>2
    <3>2. row.app = a /\ row.ratios = Ratios(a)
      BY <3>1 DEF Row
    <3>3. out50[a]["ddr"].holds = "counts"
      BY <3>1 DEF Loads, BoardInv, BoardClean, Kind
    <3>4. ASSUME NEW r \in Ratios(a)
          PROVE  \/ out50[a][Behind[r]].holds = "counts"
                 \/ r = "insns" /\ out50[a]["hw"].holds = "partial"
      <4>1. /\ r \in {"insns", "reads", "writes"}
            /\ out50[a][Behind[r]].holds # "nulls"
        BY <3>4 DEF Ratios, Behind
      <4>2. CASE r = "insns"
        BY <3>1, <4>1, <4>2 DEF Behind, Loads, Kind
      <4>3. CASE r = "reads"
        BY <3>1, <4>1, <4>3
           DEF Behind, Loads, Kind, ResumeInv, Clean, Printed, WholeJson, HostKind
      <4>4. CASE r = "writes"
        BY <3>1, <4>1, <4>4
           DEF Behind, Loads, Kind, ResumeInv, Clean, Printed, WholeJson, HostKind
      <4> QED BY <4>1, <4>2, <4>3, <4>4
    <3> QED BY <3>2, <3>3, <3>4 DEF RestsOnCounts
  <2>3. ASSUME host = "done", soc = "done", NEW a \in 1 .. hostApp, a <= socApp, LeftOut(a)
        PROVE  Announced(a)
    <3>1. a \in App /\ Past(a) /\ SocPast(a)
      BY <2>3, Constants DEF TypeOK, App, Past, SocPast
    <3>2. ~Loads(a)
      <4>1. SUFFICES ASSUME Loads(a) PROVE FALSE
        OBVIOUS
      <4>2. Row(a) \in Verdict.rows /\ Row(a).app = a
        BY <2>1, <3>1, <4>1 DEF Row
      <4> QED BY <2>3, <4>2 DEF LeftOut
    <3>3. \A k \in HostKind : Settled(a, k)
      BY <3>1 DEF ResumeInv
    <3>4. HasPerf(a) /\ HasDdr(a)
      BY <3>1 DEF BoardInv
    <3> QED BY <3>2, <3>3, <3>4
         DEF Announced, Loads, Settled, HasPerf, HasDdr, WholeJson, PerfJson, Kind, HostKind
  <2> QED BY <2>2, <2>3 DEF VerdictWhole
<1> QED BY <1>1, <1>2, <1>3, PTL DEF Spec
=============================================================================
