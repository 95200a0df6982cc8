---------------------------- MODULE FrdmRunProofs ----------------------------
(***************************************************************************)
(* Theorems about FrdmRun, for every drain loop and every backlog that it  *)
(* drains: what the script takes for live output is live, and after a      *)
(* single boot it jumps only to the image it has loaded.                   *)
(***************************************************************************)
EXTENDS FrdmRun, TLAPS

(* The backlog ends within the drain: the bridge delivers in each round    *)
(* while it holds a line, and the loop has a round for each line and one   *)
(* more (20 rounds of 3 s in the script).                                  *)
LongDrain == Steady /\ MaxBacklog < MaxChecks /\ NoSize \notin Nat

Waiting == {tty[i] : i \in DOMAIN tty}

(* Everything the board has printed since the drain, read or not. *)
Captured == live \cup Waiting

Positions == {"drain", "reboot", "smReset", "spam", "spamLook", "return", "confirm",
              "fatload", "loadCheck", "dcache", "go", "restore", "abort", "wait", "done"}

(* The shape of the state, but for the numbers of the drain loop. *)
Shape ==
  /\ sshWorks \in BOOLEAN /\ pc \in Positions
  /\ size \in Nat /\ checks \in Nat
  /\ live \subseteq ConsoleLine /\ tty \in Seq(ConsoleLine)
  /\ board \in {"down", "countdown", "prompt", "loading", "app", "linux"}
  /\ boots \in 0 .. 2
  /\ loaded \in BOOLEAN /\ dcacheOn \in BOOLEAN
  /\ sm \in {"banner", "monitor"}
  /\ ran \in {"nothing", "image", "garbage"}

(* What the board prints from now on is a fresh line. *)
LEMMA FreshLine == \A text \in Text : Fresh(text) \in ConsoleLine /\ Fresh(text).fresh
                                      /\ Fresh(text).text = text
  BY DEF Fresh, ConsoleLine

(* Printing one line, or two. *)
LEMMA Printed ==
  ASSUME tty \in Seq(ConsoleLine), NEW text \in Text, NEW text2 \in Text
  PROVE  /\ Prints(<<Fresh(text)>>) =>
              /\ tty' \in Seq(ConsoleLine)
              /\ Waiting' = Waiting \cup {Fresh(text)}
         /\ Prints(<<Fresh(text), Fresh(text2)>>) =>
              /\ tty' \in Seq(ConsoleLine)
              /\ Waiting' = Waiting \cup {Fresh(text), Fresh(text2)}
<1> DEFINE one == <<Fresh(text)>>
           two == <<Fresh(text), Fresh(text2)>>
<1>1. one \in Seq(ConsoleLine) /\ two \in Seq(ConsoleLine)
  BY FreshLine
<1>2. ASSUME NEW texts \in Seq(ConsoleLine), tty' = tty \o texts
      PROVE  tty' \in Seq(ConsoleLine) /\ Waiting' = Waiting \cup {texts[i] : i \in DOMAIN texts}
  <2>1. tty' \in Seq(ConsoleLine) /\ Len(tty') = Len(tty) + Len(texts)
    BY <1>2
  <2>2. /\ \A i \in 1 .. Len(tty) : tty'[i] = tty[i]
        /\ \A i \in 1 .. Len(texts) : tty'[Len(tty) + i] = texts[i]
    BY <1>2
  <2>3. DOMAIN tty = 1 .. Len(tty) /\ DOMAIN texts = 1 .. Len(texts) /\ DOMAIN tty' = 1 .. Len(tty')
    BY <2>1
  <2>4. ASSUME NEW i \in 1 .. Len(tty')
        PROVE  tty'[i] \in Waiting \cup {texts[j] : j \in DOMAIN texts}
    <3>1. CASE i \in 1 .. Len(tty)
      BY <2>2, <2>3, <3>1 DEF Waiting
    <3>2. CASE i \notin 1 .. Len(tty)
      <4>1. i - Len(tty) \in 1 .. Len(texts) /\ i = Len(tty) + (i - Len(tty))
        BY <2>1, <3>2
      <4> QED BY <2>2, <2>3, <4>1
    <3> QED BY <3>1, <3>2
  <2>5. \A i \in 1 .. Len(tty) : tty[i] \in Waiting'
    BY <2>1, <2>2, <2>3 DEF Waiting
  <2>6. \A i \in 1 .. Len(texts) : texts[i] \in Waiting'
    <3>1. \A i \in 1 .. Len(texts) : Len(tty) + i \in 1 .. Len(tty')
      BY <2>1
    <3> QED BY <2>2, <2>3, <3>1 DEF Waiting
  <2>7. Waiting' \subseteq Waiting \cup {texts[j] : j \in DOMAIN texts}
    BY <2>3, <2>4 DEF Waiting
  <2>8. Waiting \cup {texts[j] : j \in DOMAIN texts} \subseteq Waiting'
    BY <2>3, <2>5, <2>6 DEF Waiting
  <2> QED BY <2>1, <2>7, <2>8
<1>3. {one[i] : i \in DOMAIN one} = {Fresh(text)}
  OBVIOUS
<1>4. {two[i] : i \in DOMAIN two} = {Fresh(text), Fresh(text2)}
  <2>1. DOMAIN two = {1, 2} /\ two[1] = Fresh(text) /\ two[2] = Fresh(text2)
    OBVIOUS
  <2> HIDE DEF two
  <2> QED BY <2>1
<1>5. Prints(one) => tty' \in Seq(ConsoleLine) /\ Waiting' = Waiting \cup {Fresh(text)}
  <2> HIDE DEF one
  <2> QED BY <1>1, <1>2, <1>3 DEF Prints
<1>6. Prints(two) => tty' \in Seq(ConsoleLine) /\ Waiting' = Waiting \cup {Fresh(text), Fresh(text2)}
  <2> HIDE DEF two
  <2> QED BY <1>1, <1>2, <1>4 DEF Prints
<1> QED BY <1>5, <1>6

(* The board's answer to a finished or a failed load. *)
LEMMA ImageLoaded ==
  ASSUME tty \in Seq(ConsoleLine), FinishLoading
  PROVE  /\ tty' \in Seq(ConsoleLine)
         /\ Waiting' \subseteq Waiting \cup {Fresh("bytes read"), Fresh("u-boot=>")}
         /\ live' = live /\ pc' = pc
<1>1. \/ Prints(<<Fresh("bytes read"), Fresh("u-boot=>")>>)
      \/ Prints(<<Fresh("u-boot=>")>>)
  BY DEF FinishLoading
<1>2. live' = live /\ pc' = pc
  BY DEF FinishLoading, scriptVars
<1>3. "bytes read" \in Text /\ "u-boot=>" \in Text
  BY DEF Text
<1>4. /\ tty' \in Seq(ConsoleLine)
      /\ \/ Waiting' = Waiting \cup {Fresh("bytes read"), Fresh("u-boot=>")}
         \/ Waiting' = Waiting \cup {Fresh("u-boot=>")}
  BY ONLY <1>1, <1>3, Printed, tty \in Seq(ConsoleLine)
<1> QED BY <1>2, <1>4

(* Reading moves the oldest line, and during the drain drops it. *)
LEMMA Delivered ==
  ASSUME tty \in Seq(ConsoleLine), live \subseteq ConsoleLine, Read
  PROVE  /\ tty' \in Seq(ConsoleLine) /\ Len(tty') + 1 = Len(tty) /\ Waiting' \subseteq Waiting
         /\ pc = "drain" => live' = live /\ size' = size + 1
         /\ pc # "drain" =>
              live' \subseteq Captured /\ Captured' \subseteq Captured /\ size' = size
<1>1. tty # <<>> /\ tty' = Tail(tty)
  BY DEF Read
<1>2. /\ Tail(tty) \in Seq(ConsoleLine) /\ Len(Tail(tty)) = Len(tty) - 1
      /\ Len(tty) \in Nat /\ Len(tty) > 0 /\ Head(tty) = tty[1]
      /\ \A i \in 1 .. Len(tty) - 1 : Tail(tty)[i] = tty[i + 1]
  BY <1>1
<1>3. DOMAIN tty = 1 .. Len(tty) /\ DOMAIN Tail(tty) = 1 .. Len(tty) - 1
  BY <1>2
<1>4. Waiting' \subseteq Waiting
  <2>1. \A i \in 1 .. Len(tty) - 1 : i + 1 \in DOMAIN tty
    BY <1>2, <1>3
  <2> QED BY <1>1, <1>2, <1>3, <2>1 DEF Waiting
<1>5. Head(tty) \in Waiting
  BY <1>2, <1>3 DEF Waiting
<1> QED BY <1>1, <1>2, <1>4, <1>5 DEF Read, Captured

(* What typing at the console may do to the board and the console. *)
LEMMA Typed ==
  ASSUME Shape, NEW command, Types(command)
  PROVE  /\ tty' \in Seq(ConsoleLine)
         /\ board' \in {"down", "countdown", "prompt", "loading", "app", "linux"}
         /\ loaded' = loaded /\ dcacheOn' \in BOOLEAN
         /\ ran' \in {"nothing", "image", "garbage"}
         /\ \/ Waiting' = Waiting /\ tty' = tty
            \/ Waiting' = Waiting \cup {Fresh("u-boot=>")} /\ board' = "prompt"
         /\ command # "go" => ran' = ran
         /\ command # "dcache off" => dcacheOn' = dcacheOn
<1>1. "u-boot=>" \in Text
  BY DEF Text
<1>2. Prints(<<Fresh("u-boot=>")>>) =>
        tty' \in Seq(ConsoleLine) /\ Waiting' = Waiting \cup {Fresh("u-boot=>")}
  BY <1>1, Printed DEF Shape
<1>3. tty' = tty => tty' \in Seq(ConsoleLine) /\ Waiting' = Waiting
  BY DEF Shape, Waiting
<1>4. CASE board = "countdown"
  BY <1>2, <1>4 DEF Types, Shape
<1>5. CASE board = "prompt" /\ command = "return"
  BY <1>2, <1>5 DEF Types, Shape
<1>6. CASE board = "prompt" /\ command = "fatload"
  BY <1>3, <1>6 DEF Types, Shape
<1>7. CASE board = "prompt" /\ command = "dcache off"
  BY <1>2, <1>7 DEF Types, Shape
<1>8. CASE board = "prompt" /\ command = "go"
  BY <1>3, <1>8 DEF Types, Shape
<1>9. CASE /\ board # "countdown"
           /\ ~(board = "prompt" /\ command \in {"return", "fatload", "dcache off", "go"})
  BY <1>3, <1>9 DEF Types, Shape
<1> QED BY <1>4, <1>5, <1>6, <1>7, <1>8, <1>9

(* The script's steps that change nothing but its position. *)
Decides == SpamLook \/ SpamEnds \/ ConfirmPrompt \/ LoadCheck \/ WaitForLinux

(* The steps that type a command. *)
Typing ==
  \/ SpamKey /\ Types("space")
  \/ TypeReturn /\ Types("return")
  \/ Fatload /\ Types("fatload")
  \/ DcacheOff /\ Types("dcache off")
  \/ Go /\ Types("go")

(* The steps of the script, the reader and the board, named. *)
LEMMA Steps ==
  [Next]_vars <=>
    \/ RebootForced \/ ReachCountdown \/ Autoboot \/ SecondBoot \/ FinishLoading
    \/ Read \/ ReaderEnds \/ DrainCheck \/ SshReboot \/ SmKey \/ SmReset \/ Decides \/ Typing
    \/ Restore \/ Finished \/ UNCHANGED vars
<1>1. /\ SpamKey => Types("space")
      /\ TypeReturn => Types("return")
      /\ Fatload => Types("fatload")
      /\ DcacheOff => Types("dcache off")
      /\ Go => Types("go")
  BY DEF SpamKey, TypeReturn, Fatload, DcacheOff, Go
<1> QED BY <1>1 DEF Next, Board, Script, SpamStep, Decides, Typing

(* A reset of the board, for one boot or two. *)
LEMMA ResetShape ==
  ASSUME NEW n \in {1, 2}, Resets(n)
  PROVE  /\ board' = "down" /\ boots' = n /\ boots' \in 0 .. 2
         /\ loaded' \in BOOLEAN /\ dcacheOn' \in BOOLEAN
<1>1. boots' \in 0 .. 2
  BY DEF Resets
<1>2. board' = "down" /\ boots' = n /\ loaded' \in BOOLEAN /\ dcacheOn' \in BOOLEAN
  BY DEF Resets
<1> QED BY <1>1, <1>2

(* The script starts with values of these types. *)
LEMMA ShapeInit == Init => Shape
<1> SUFFICES ASSUME Init PROVE Shape
  OBVIOUS
<1>1. PICK n \in 0 .. MaxBacklog : tty \in [1 .. n -> [text : Text, fresh : {FALSE}]]
  BY DEF Init
<1>2. [text : Text, fresh : {FALSE}] \subseteq ConsoleLine
  BY DEF ConsoleLine
<1>3. n \in Nat
  BY <1>1, FrdmRunAssumption
<1>4. tty \in Seq(ConsoleLine)
  <2>1. \A i \in 1 .. n : tty[i] \in ConsoleLine
    BY <1>1, <1>2
  <2>2. tty = [i \in 1 .. n |-> tty[i]]
    BY <1>1
  <2>3. tty \in [1 .. n -> ConsoleLine]
    BY <2>1, <2>2
  <2> QED BY <1>3, <2>3
<1>5. loaded \in BOOLEAN /\ dcacheOn \in BOOLEAN /\ sshWorks \in BOOLEAN
  BY DEF Init
<1>6. board \in {"linux", "app"}
  BY DEF Init
<1> QED BY <1>4, <1>5, <1>6 DEF Init, Shape, Positions

(* Every step keeps the types. *)
LEMMA ShapeStep ==
  ASSUME Shape, [Next]_vars
  PROVE  Shape' /\ sshWorks' = sshWorks
<1> USE DEF scriptVars, readerVars, boardVars, ScriptGoto, Positions
<1>1. CASE RebootForced \/ ReachCountdown \/ Autoboot \/ SecondBoot \/ ReaderEnds
  <2>1. CASE RebootForced \/ SecondBoot
    BY <2>1, ResetShape DEF RebootForced, SecondBoot, Shape
  <2>2. CASE ReachCountdown \/ Autoboot
    BY <2>2 DEF ReachCountdown, Autoboot, Shape
  <2>3. CASE ReaderEnds
    BY <2>3 DEF ReaderEnds, Shape
  <2> QED BY <1>1, <2>1, <2>2, <2>3
<1>2. CASE FinishLoading
  <2>1. tty' \in Seq(ConsoleLine)
    BY <1>2, ImageLoaded DEF Shape
  <2>2. /\ UNCHANGED <<sshWorks, pc, checks, size, live, boots, dcacheOn, sm, ran>>
        /\ board' = "prompt" /\ loaded' \in BOOLEAN
    BY <1>2 DEF FinishLoading, Shape
  <2> QED BY <2>1, <2>2 DEF Shape
<1>3. CASE Read
  <2>1. tty' \in Seq(ConsoleLine)
    BY <1>3, Delivered DEF Shape
  <2>2. live' \subseteq ConsoleLine
    <3>1. Head(tty) \in ConsoleLine
      BY <1>3 DEF Read, Shape
    <3> QED BY <1>3, <3>1 DEF Read, Shape
  <2> QED BY <1>3, <2>1, <2>2 DEF Read, Shape
<1>4. CASE DrainCheck
  BY <1>4 DEF DrainCheck, Shape
<1>5. CASE SshReboot \/ SmKey
  BY <1>5, ResetShape DEF SshReboot, SmKey, Shape
<1>6. CASE SmReset
  BY <1>6, ResetShape DEF SmReset, SmObeys, Shape
<1>7. CASE Decides
  BY <1>7 DEF Decides, SpamLook, SpamEnds, ConfirmPrompt, LoadCheck, WaitForLinux, Shape
<1>8. CASE Typing
  <2>1. PICK command : Types(command)
    BY <1>8 DEF Typing
  <2>2. /\ tty' \in Seq(ConsoleLine)
        /\ board' \in {"down", "countdown", "prompt", "loading", "app", "linux"}
        /\ loaded' = loaded /\ dcacheOn' \in BOOLEAN
        /\ ran' \in {"nothing", "image", "garbage"}
    BY <2>1, Typed
  <2>3. pc' \in Positions /\ UNCHANGED <<checks, prev, sshWorks, size, live, boots, sm>>
    BY <1>8 DEF Typing, SpamKey, TypeReturn, Fatload, DcacheOff, Go
  <2> QED BY <2>2, <2>3 DEF Shape
<1>9. CASE Restore
  BY <1>9, ResetShape DEF Restore, Shape
<1>10. CASE Finished \/ UNCHANGED vars
  BY <1>10 DEF Finished, vars, Shape
<1> QED BY <1>1, <1>2, <1>3, <1>4, <1>5, <1>6, <1>7, <1>8, <1>9, <1>10, Steps

-----------------------------------------------------------------------------
(* The drain loop.  It stops when the file has not grown and the bridge    *)
(* holds nothing, or after MaxChecks rounds that each brought a line.      *)
DrainInv ==
  /\ pc \in {"drain", "reboot", "smReset"} =>
       board \in {"linux", "app"} /\ boots = 0 /\ live = {} /\ ran = "nothing"
  /\ pc = "drain" =>
       /\ size + Len(tty) <= MaxBacklog
       /\ \/ checks = 0 /\ prev = NoSize
          \/ checks # 0 /\ prev \in Nat /\ checks <= prev + 1 /\ prev <= size
  /\ pc = "drain" => checks < MaxChecks
  /\ pc \in {"reboot", "smReset"} => tty = <<>>

(* The script starts with no more lines waiting than the bridge holds. *)
LEMMA DrainInit == LongDrain /\ Init => DrainInv
<1> SUFFICES ASSUME LongDrain, Init PROVE DrainInv
  OBVIOUS
<1>1. PICK n \in 0 .. MaxBacklog : tty \in [1 .. n -> [text : Text, fresh : {FALSE}]]
  BY DEF Init
<1>2. n \in Nat /\ Len(tty) = n
  <2>1. n \in Nat /\ DOMAIN tty = 1 .. n
    BY <1>1, FrdmRunAssumption
  <2>2. tty \in Seq(ConsoleLine)
    BY ShapeInit DEF Shape
  <2> QED BY <2>1, <2>2
<1> QED BY <1>1, <1>2, FrdmRunAssumption DEF Init, DrainInv

(* A round of the drain that is not the last has found a longer file. *)
LEMMA DrainStep ==
  ASSUME LongDrain, Shape, DrainInv, [Next]_vars
  PROVE  DrainInv'
<1> USE FrdmRunAssumption DEF scriptVars, readerVars, boardVars, ScriptGoto, Resets
<1>0. Len(tty) \in Nat /\ size \in Nat /\ checks \in Nat
  BY DEF Shape
<1>1. CASE RebootForced \/ ReachCountdown \/ Autoboot \/ SecondBoot
  <2>1. pc' = pc /\ UNCHANGED <<checks, prev, size, live, tty, ran>>
    BY <1>1 DEF RebootForced, ReachCountdown, Autoboot, SecondBoot
  <2>2. board \notin {"linux", "app"} \/ boots # 0
    BY <1>1 DEF RebootForced, ReachCountdown, Autoboot, SecondBoot
  <2>3. pc \notin {"drain", "reboot", "smReset"}
    BY <2>2 DEF DrainInv
  <2> QED BY <2>1, <2>3 DEF DrainInv
<1>2. CASE FinishLoading
  BY <1>2 DEF FinishLoading, DrainInv
<1>3. CASE Read
  <2>1. CASE pc = "drain"
    <3>1. live' = live /\ size' = size + 1 /\ Len(tty') + 1 = Len(tty) /\ Len(tty') \in Nat
      BY <1>3, <2>1, Delivered DEF Shape
    <3>2. UNCHANGED <<pc, checks, prev, board, boots, ran>>
      BY <1>3 DEF Read
    <3> QED BY <1>0, <2>1, <3>1, <3>2 DEF DrainInv
  <2>2. CASE pc # "drain"
    BY <1>3, <2>2 DEF Read, DrainInv
  <2> QED BY <2>1, <2>2
<1>4. CASE DrainCheck
  <2>1. CASE size = prev \/ checks + 1 = MaxChecks
    <3>1. Len(tty) = 0
      BY <1>0, <1>4, <2>1 DEF DrainCheck, DrainInv, LongDrain
    <3>2. tty = <<>>
      BY <3>1 DEF Shape
    <3> QED BY <1>4, <2>1, <3>2 DEF DrainCheck, DrainInv
  <2>2. CASE ~(size = prev \/ checks + 1 = MaxChecks)
    BY <1>0, <1>4, <2>2 DEF DrainCheck, DrainInv
  <2> QED BY <2>1, <2>2
<1>5. CASE SshReboot \/ SmKey
  BY <1>5 DEF SshReboot, SmKey, DrainInv
<1>6. CASE SmReset
  BY <1>6 DEF SmReset, DrainInv
<1>7. CASE Decides
  BY <1>7 DEF Decides, SpamLook, SpamEnds, ConfirmPrompt, LoadCheck, WaitForLinux, DrainInv
<1>8. CASE Typing
  BY <1>8 DEF Typing, SpamKey, TypeReturn, Fatload, DcacheOff, Go, DrainInv
<1>9. CASE Restore
  BY <1>9 DEF Restore, DrainInv
<1>10. CASE ReaderEnds \/ Finished \/ UNCHANGED vars
  BY <1>10 DEF ReaderEnds, Finished, vars, DrainInv
<1> QED BY <1>1, <1>2, <1>3, <1>4, <1>5, <1>6, <1>7, <1>8, <1>9, <1>10, Steps

(* Whatever was captured since, read or still waiting, is fresh. *)
FreshInv == pc # "drain" => \A line \in Captured : line.fresh

(* After the drain, only fresh lines are captured or waiting. *)
LEMMA FreshStep ==
  ASSUME LongDrain, Shape, DrainInv, FreshInv, [Next]_vars
  PROVE  FreshInv'
<1> USE DEF scriptVars, readerVars, boardVars, ScriptGoto, Captured
<1>0. {"bytes read", "u-boot=>"} \subseteq Text
  BY DEF Text
<1>1. CASE \/ RebootForced \/ ReachCountdown \/ Autoboot \/ SecondBoot \/ ReaderEnds
          \/ SshReboot \/ SmKey \/ SmReset
          \/ Decides \/ Restore \/ Finished \/ UNCHANGED vars
  <2>1. UNCHANGED <<live, tty>> /\ (pc' = "drain" <=> pc = "drain")
    BY <1>1 DEF RebootForced, ReachCountdown, Autoboot, SecondBoot, ReaderEnds, SshReboot, SmKey, SmReset, Decides, SpamLook,
       SpamEnds, ConfirmPrompt, LoadCheck, WaitForLinux, Restore, Finished, vars
  <2> QED BY <2>1 DEF FreshInv, Waiting
<1>2. CASE FinishLoading
  <2>1. /\ Waiting' \subseteq Waiting \cup {Fresh("bytes read"), Fresh("u-boot=>")}
        /\ live' = live /\ pc' = pc
    BY <1>2, ImageLoaded DEF Shape
  <2> QED BY <1>0, <2>1, FreshLine DEF FreshInv
<1>3. CASE Read
  <2>1. pc' = pc /\ (pc # "drain" => Captured' \subseteq Captured)
    BY <1>3, Delivered DEF Read, Shape
  <2> QED BY <2>1 DEF FreshInv
<1>4. CASE DrainCheck
  <2>1. pc' = "drain" \/ pc' = "reboot"
    BY <1>4 DEF DrainCheck
  <2>2. pc' = "reboot" => live' = {} /\ tty' = <<>>
    BY <1>4, DrainStep, Steps DEF DrainInv
  <2>3. tty' = <<>> => Waiting' = {}
    BY DEF Waiting
  <2> QED BY <2>1, <2>2, <2>3 DEF FreshInv
<1>5. CASE Typing
  <2>1. PICK command : Types(command)
    BY <1>5 DEF Typing
  <2>2. Waiting' \subseteq Waiting \cup {Fresh("u-boot=>")}
    BY <2>1, Typed
  <2>3. live' = live /\ pc # "drain"
    BY <1>5 DEF Typing, SpamKey, TypeReturn, Fatload, DcacheOff, Go
  <2> QED BY <1>0, <2>2, <2>3, FreshLine DEF FreshInv
<1> QED BY <1>1, <1>2, <1>3, <1>4, <1>5, Steps

(* The script never takes an old line for live output. *)
THEOREM LiveOutputIsFresh ==
  ASSUME LongDrain
  PROVE  Spec => []LiveIsFresh
<1> DEFINE Inv == Shape /\ DrainInv /\ FreshInv
<1>1. Init => Inv
  BY ShapeInit, DrainInit DEF Init, FreshInv
<1>2. Inv /\ [Next]_vars => Inv'
  BY ShapeStep, DrainStep, FreshStep
<1>3. Inv => LiveIsFresh
  BY DEF DrainInv, FreshInv, Captured, LiveIsFresh
<1> QED BY <1>1, <1>2, <1>3, PTL DEF Spec

-----------------------------------------------------------------------------
(* After a single boot: what the board is doing, and what its output since *)
(* the reset says of it, at each position of the script.                   *)
Reports(text) == \E line \in Captured : line.text = text

BootInv ==
  /\ pc \in {"drain", "reboot"} => board = "linux"
  /\ pc # "smReset" /\ ran # "garbage"
  /\ pc \in {"spam", "spamLook", "return", "confirm", "fatload"} =>
       /\ boots # 2 /\ board \in {"down", "countdown", "prompt", "linux"}
       /\ ~Reports("bytes read")
       /\ Reports("u-boot=>") => board = "prompt"
  /\ pc = "fatload" => board = "prompt"
  /\ pc = "loadCheck" =>
       /\ boots # 2 /\ board \in {"loading", "prompt"}
       /\ Reports("bytes read") => loaded /\ board = "prompt"
  /\ pc \in {"dcache", "go"} => boots # 2 /\ board = "prompt" /\ loaded
  /\ pc = "go" => ~dcacheOn

SingleBoot == sshWorks => BootInv

(* No reset has been asked for. *)
LEMMA BootInit == Init => SingleBoot
  BY DEF Init, SingleBoot, BootInv

(* The two lines of the board that the script waits for. *)
LEMMA Says ==
  /\ Fresh("u-boot=>").text = "u-boot=>" /\ Fresh("bytes read").text = "bytes read"
  /\ "u-boot=>" \in Text /\ "bytes read" \in Text
  BY DEF Fresh, Text

(* Every step of the script and the board keeps what the capture of a      *)
(* single boot says of the board.                                          *)
LEMMA BootStep ==
  ASSUME LongDrain, Shape, DrainInv, SingleBoot, [Next]_vars
  PROVE  SingleBoot'
<1> USE DEF scriptVars, readerVars, boardVars, ScriptGoto
<1>0. sshWorks' = sshWorks /\ Shape'
  BY ShapeStep
<1> SUFFICES ASSUME sshWorks, BootInv PROVE BootInv'
  BY <1>0 DEF SingleBoot
<1>1. CASE ReachCountdown \/ Autoboot \/ ReaderEnds
  <2>1. /\ UNCHANGED <<pc, live, tty, loaded, dcacheOn, ran>>
        /\ \/ board = "down" /\ board' = "countdown" /\ boots' = boots
           \/ board = "countdown" /\ board' = "linux" /\ boots' = 0
           \/ board' = board /\ boots' = boots
    BY <1>1 DEF ReachCountdown, Autoboot, ReaderEnds
  <2>2. \A text : Reports(text)' <=> Reports(text)
    BY <2>1 DEF Reports, Captured, Waiting
  <2>3. boots # 2 => boots' # 2
    BY <2>1
  <2> QED BY <2>1, <2>2, <2>3 DEF BootInv
<1>2. CASE SecondBoot
  <2>1. UNCHANGED <<pc, live, tty, ran>> /\ boots = 2
    BY <1>2 DEF SecondBoot
  <2>2. pc \notin {"drain", "reboot", "smReset", "spam", "spamLook", "return", "confirm",
                  "fatload", "loadCheck", "dcache", "go"}
    BY <2>1 DEF BootInv, DrainInv
  <2> QED BY <2>1, <2>2 DEF BootInv
<1>3. CASE FinishLoading
  <2>1. UNCHANGED <<pc, live, boots, dcacheOn, ran>> /\ board = "loading" /\ board' = "prompt"
    BY <1>3 DEF FinishLoading
  <2>2. pc \notin {"spam", "spamLook", "return", "confirm", "fatload", "dcache", "go", "drain", "reboot"}
    BY <2>1 DEF BootInv
  <2>3. pc = "loadCheck" => (Reports("bytes read")' => loaded')
    <3>1. CASE loaded' = TRUE
      BY <3>1
    <3>2. CASE UNCHANGED loaded /\ Prints(<<Fresh("u-boot=>")>>)
      <4>1. Waiting' = Waiting \cup {Fresh("u-boot=>")}
        BY <3>2, Says, Printed DEF Shape
      <4> QED BY <2>1, <3>2, <4>1, Says DEF BootInv, Reports, Captured
    <3> QED BY <1>3, <3>1, <3>2 DEF FinishLoading
  <2> QED BY <2>1, <2>2, <2>3 DEF BootInv
<1>4. CASE Read
  <2>1. UNCHANGED <<pc, board, boots, loaded, dcacheOn, ran>>
    BY <1>4 DEF Read
  <2>2. pc # "drain" => \A text : Reports(text)' => Reports(text)
    BY <1>4, Delivered DEF Reports, Shape
  <2> QED BY <2>1, <2>2 DEF BootInv
<1>5. CASE DrainCheck
  BY <1>5 DEF DrainCheck, BootInv
<1>6. CASE SshReboot
  <2>1. live' = {} /\ tty' = <<>> /\ pc' = "spam" /\ ran' = ran
    BY <1>6 DEF SshReboot, DrainInv
  <2>2. board' = "linux" /\ boots' # 2
    BY <1>6 DEF SshReboot, BootInv
  <2>3. ~Reports("bytes read")' /\ ~Reports("u-boot=>")'
    BY <2>1 DEF Reports, Captured, Waiting
  <2> QED BY <2>1, <2>2, <2>3 DEF BootInv
<1>7. CASE SmKey \/ SmReset
  BY <1>7 DEF SmKey, SmReset, BootInv
<1>8. CASE Decides
  <2>1. UNCHANGED <<live, tty, board, boots, loaded, dcacheOn, ran>>
    BY <1>8 DEF Decides, SpamLook, SpamEnds, ConfirmPrompt, LoadCheck, WaitForLinux
  <2>2. \A text : (Reports(text)' <=> Reports(text)) /\ (Sees(text) => Reports(text))
    BY <2>1 DEF Reports, Captured, Waiting, Sees
  <2>3. \/ /\ pc \in {"spam", "spamLook", "return", "confirm", "fatload"}
           /\ pc' \in {"spam", "return"}
        \/ pc \in {"spam", "spamLook", "return", "confirm", "fatload"}
             /\ pc' = "fatload" /\ Sees("u-boot=>")
        \/ pc = "loadCheck" /\ pc' = "dcache" /\ Sees("bytes read")
        \/ pc' \in {"abort", "done"}
    BY <1>8 DEF Decides, SpamLook, SpamEnds, ConfirmPrompt, LoadCheck, WaitForLinux
  <2> QED BY <2>1, <2>2, <2>3 DEF BootInv
<1>9. CASE SpamKey \/ TypeReturn
  <2>1. PICK command \in {"space", "return"} : Types(command)
    BY <1>9 DEF SpamKey, TypeReturn
  <2>2. /\ pc \in {"spam", "return"} /\ pc' \in {"spamLook", "confirm"}
        /\ UNCHANGED <<live, boots>>
    BY <1>9 DEF SpamKey, TypeReturn
  <2>3. board' \in {"down", "countdown", "prompt", "linux"} /\ ran' = ran
        /\ (board = "prompt" => board' = "prompt")
    BY <2>1, <2>2 DEF Types, BootInv
  <2>4. \/ Waiting' = Waiting
        \/ Waiting' = Waiting \cup {Fresh("u-boot=>")} /\ board' = "prompt"
    BY <2>1, Typed
  <2>5. ~Reports("bytes read")' /\ (Reports("u-boot=>")' => board' = "prompt")
    BY <2>2, <2>3, <2>4, Says DEF BootInv, Reports, Captured
  <2> QED BY <2>2, <2>3, <2>5 DEF BootInv
<1>10. CASE Fatload
  <2>1. /\ Types("fatload") /\ pc = "fatload" /\ pc' = "loadCheck" /\ UNCHANGED <<live, boots>>
    BY <1>10 DEF Fatload
  <2>2. board' = "loading" /\ UNCHANGED <<tty, loaded, dcacheOn, ran>>
    BY <2>1 DEF Types, BootInv
  <2>3. ~Reports("bytes read")'
    BY <2>1, <2>2 DEF BootInv, Reports, Captured, Waiting
  <2> QED BY <2>1, <2>2, <2>3 DEF BootInv
<1>11. CASE DcacheOff
  <2>1. Types("dcache off") /\ pc = "dcache" /\ pc' = "go" /\ boots' = boots
    BY <1>11 DEF DcacheOff
  <2>2. dcacheOn' = FALSE /\ UNCHANGED <<board, loaded, ran>>
    BY <2>1 DEF Types, BootInv
  <2> QED BY <2>1, <2>2 DEF BootInv
<1>12. CASE Go
  <2>1. Types("go") /\ pc = "go" /\ pc' = "restore"
    BY <1>12 DEF Go
  <2>2. ran' = "image"
    BY <2>1 DEF Types, BootInv
  <2> QED BY <2>1, <2>2 DEF BootInv
<1>13. CASE Restore
  BY <1>13 DEF Restore, BootInv
<1>14. CASE Finished \/ UNCHANGED vars
  <2>1. UNCHANGED vars
    BY <1>14 DEF Finished
  <2>2. \A text : Reports(text)' <=> Reports(text)
    BY <2>1 DEF vars, Reports, Captured, Waiting
  <2> QED BY <2>1, <2>2 DEF vars, BootInv
<1>15. CASE RebootForced
  <2>1. /\ UNCHANGED <<pc, live, tty, ran>> /\ board = "linux" /\ boots = 1
        /\ board' = "down" /\ boots' = 1
    BY <1>15 DEF RebootForced, Resets
  <2>2. \A text : Reports(text)' <=> Reports(text)
    BY <2>1 DEF Reports, Captured, Waiting
  <2>3. pc \notin {"drain", "reboot"}
    BY <2>1 DEF DrainInv
  <2>4. pc \notin {"fatload", "loadCheck", "dcache", "go"}
    BY <2>1 DEF BootInv
  <2> QED BY <2>1, <2>2, <2>3, <2>4 DEF BootInv
<1>16. \/ RebootForced \/ ReachCountdown \/ Autoboot \/ SecondBoot \/ FinishLoading
       \/ Read \/ ReaderEnds \/ DrainCheck \/ SshReboot \/ SmKey \/ SmReset \/ Decides
       \/ SpamKey \/ TypeReturn \/ Fatload \/ DcacheOff \/ Go
       \/ Restore \/ Finished \/ UNCHANGED vars
  BY Steps DEF Typing
<1> QED
  BY ONLY <1>1, <1>2, <1>3, <1>4, <1>5, <1>6, <1>7, <1>8, <1>9, <1>10, <1>11, <1>12, <1>13,
     <1>14, <1>15, <1>16

(* After a reboot over ssh, `go` is typed only at a prompt of the boot     *)
(* that has loaded the image, and jumps to it.                             *)
THEOREM SingleBootIsSafe ==
  ASSUME LongDrain
  PROVE  Spec => []SingleBootGo
<1> DEFINE Inv == Shape /\ DrainInv /\ SingleBoot
<1>1. Init => Inv
  BY ShapeInit, DrainInit, BootInit
<1>2. Inv /\ [Next]_vars => Inv'
  BY ShapeStep, DrainStep, BootStep
<1>3. Inv => SingleBootGo
  BY DEF SingleBoot, BootInv, SingleBootGo, NoBlindGo
<1> QED BY <1>1, <1>2, <1>3, PTL DEF Spec
=============================================================================
