------------------------------- MODULE FrdmRun -------------------------------
(***************************************************************************)
(* calibrate/run-on-frdm.sh: a script types at the console of a real board *)
(* it has just rebooted, and decides from a capture of that console when   *)
(* it may jump to the image.  Three processes interleave: the script, the  *)
(* single background reader that copies the console into a file, and the   *)
(* board, which the script's `sleep`s do not synchronise with.  The board, *)
(* the console bridge and the System Manager are external: they are        *)
(* modelled from how the script and its NOTES use them.                    *)
(***************************************************************************)
EXTENDS Naturals, Sequences

CONSTANTS
  MaxChecks,     \* rounds of the drain loop (20 in the script)
  MaxBacklog,    \* bound: old console lines the bridge still holds
  Steady,        \* it delivers some in each round of the drain while it holds any
  NoSize         \* prev before the first round (-1 in the script)

ASSUME FrdmRunAssumption ==
  /\ MaxChecks \in Nat \ {0}
  /\ MaxBacklog \in Nat
  /\ Steady \in BOOLEAN

VARIABLES
  sshWorks,      \* Linux is up and answers ssh: the reboot is a single boot
  pc,            \* the script's position
  checks, prev,  \* the drain loop's counter and its last file size
  size,          \* lines captured while draining
  live,          \* what `live` shows: the lines captured after DRAINED
  reading,       \* the background `cat` is running
  tty,           \* lines the bridge has not delivered yet, oldest first
  board,         \* what the A55 is doing
  boots,         \* boots the last reset still has to go through
  loaded,        \* the image is at $LOAD
  dcacheOn,      \* the MMU maps $LOAD non-executable
  sm,            \* the System Manager's console: "banner" ignores commands
  ran            \* what the last `go` jumped to

scriptVars == <<pc, checks, prev, sshWorks>>
readerVars == <<size, live, tty, reading>>
boardVars  == <<board, boots, loaded, dcacheOn, sm, ran>>
vars == <<pc, checks, prev, sshWorks, size, live, tty, reading,
          board, boots, loaded, dcacheOn, sm, ran>>

Text == {"u-boot=>", "bytes read"}
ConsoleLine == [text : Text, fresh : BOOLEAN]

Fresh(text) == [text |-> text, fresh |-> TRUE]
Prints(texts) == tty' = tty \o texts
Sees(text) == \E line \in live : line.text = text

Init ==
  /\ sshWorks \in BOOLEAN
  /\ pc = "drain" /\ checks = 0 /\ prev = NoSize
  /\ size = 0 /\ live = {} /\ reading = TRUE
  /\ \E n \in 0 .. MaxBacklog :
       tty \in [1 .. n -> [text : Text, fresh : {FALSE}]]
  /\ board \in IF sshWorks THEN {"linux"} ELSE {"linux", "app"}
  /\ boots = 0
  /\ loaded = FALSE /\ dcacheOn = TRUE
  /\ sm \in {"banner", "monitor"}
  /\ ran = "nothing"

-----------------------------------------------------------------------------
(* The board.                                                              *)

(* A reset loses the RAM, the MMU setting and whatever was typed. *)
Resets(n) ==
  /\ board' = "down"
  /\ boots' = n
  /\ loaded' = FALSE
  /\ dcacheOn' = TRUE

(* `reboot -f` was started in the background, and comes a second later.    *)
RebootForced ==
  /\ board = "linux" /\ boots = 1
  /\ Resets(1)
  /\ UNCHANGED <<scriptVars, readerVars, sm, ran>>

ReachCountdown ==
  /\ board = "down"
  /\ board' = "countdown"
  /\ UNCHANGED <<scriptVars, readerVars, boots, loaded, dcacheOn, sm, ran>>

(* Nothing was typed in time: the last boot goes on to Linux. *)
Autoboot ==
  /\ board = "countdown"
  /\ boots = 1
  /\ board' = "linux"
  /\ boots' = 0
  /\ UNCHANGED <<scriptVars, readerVars, loaded, dcacheOn, sm, ran>>

(* After an SM reset the board boots a second time, whatever the first     *)
(* boot was doing.                                                         *)
SecondBoot ==
  /\ boots = 2
  /\ board \in {"countdown", "prompt", "loading", "app"}
  /\ Resets(1)
  /\ UNCHANGED <<scriptVars, readerVars, sm, ran>>

(* A fatload ends with the image in memory, or with no such file.          *)
FinishLoading ==
  /\ board = "loading"
  /\ board' = "prompt"
  /\ \/ loaded' = TRUE /\ Prints(<<Fresh("bytes read"), Fresh("u-boot=>")>>)
     \/ UNCHANGED loaded /\ Prints(<<Fresh("u-boot=>")>>)
  /\ UNCHANGED <<scriptVars, size, live, reading, boots, dcacheOn, sm, ran>>

(* What the board makes of a command typed at its console: any key stops   *)
(* a countdown, only a prompt runs a command, and elsewhere it is lost.    *)
Types(command) ==
  CASE board = "countdown" ->
         /\ board' = "prompt"
         /\ Prints(<<Fresh("u-boot=>")>>)
         /\ UNCHANGED <<loaded, dcacheOn, ran>>
    [] board = "prompt" /\ command = "return" ->
         Prints(<<Fresh("u-boot=>")>>) /\ UNCHANGED <<board, loaded, dcacheOn, ran>>
    [] board = "prompt" /\ command = "fatload" ->
         board' = "loading" /\ UNCHANGED <<tty, loaded, dcacheOn, ran>>
    [] board = "prompt" /\ command = "dcache off" ->
         /\ dcacheOn' = FALSE
         /\ Prints(<<Fresh("u-boot=>")>>)
         /\ UNCHANGED <<board, loaded, ran>>
    [] board = "prompt" /\ command = "go" ->
         /\ board' = "app"
         /\ ran' = IF loaded /\ ~dcacheOn THEN "image" ELSE "garbage"
         /\ UNCHANGED <<tty, loaded, dcacheOn>>
    [] OTHER -> UNCHANGED <<tty, board, loaded, dcacheOn, ran>>

-----------------------------------------------------------------------------
(* The reader: `cat` of the port, opened once.  The bridge delivers in     *)
(* order, so live output queues behind the backlog.                        *)
Read ==
  /\ reading /\ tty # <<>>
  /\ tty' = Tail(tty)
  /\ IF pc = "drain"
     THEN size' = size + 1 /\ UNCHANGED live
     ELSE live' = live \cup {Head(tty)} /\ UNCHANGED size
  /\ UNCHANGED <<reading, scriptVars, boardVars>>

(* It is limited to WATCH + 260 s: longer than the drain takes, and not    *)
(* longer than all that may follow.                                        *)
ReaderEnds ==
  /\ reading /\ pc # "drain"
  /\ reading' = FALSE
  /\ UNCHANGED <<size, live, tty, scriptVars, boardVars>>

-----------------------------------------------------------------------------
(* The script.                                                             *)

ScriptGoto(location) == pc' = location

(* Mutant: the backlog is not drained. *)
DrainNothing ==
  /\ pc = "drain"
  /\ ScriptGoto("reboot")
  /\ UNCHANGED <<checks, prev, sshWorks, readerVars, boardVars>>

(* One 3 s round of the drain loop: quiet is a file that did not grow, and *)
(* the loop gives up after MaxChecks rounds.                               *)
DrainCheck ==
  /\ pc = "drain"
  /\ Steady => tty = <<>> \/ size # prev
  /\ IF size = prev \/ checks + 1 = MaxChecks
     THEN ScriptGoto("reboot") /\ UNCHANGED <<checks, prev>>
     ELSE checks' = checks + 1 /\ prev' = size /\ UNCHANGED pc
  /\ UNCHANGED <<sshWorks, readerVars, boardVars>>

(* `reboot -f` over ssh: one boot, and the System Manager is not involved. *)
(* The script does not look at whether this ssh got through, and the       *)
(* reboot has yet to come when it goes on.                                 *)
SshReboot ==
  /\ pc = "reboot"
  /\ sshWorks
  /\ boots' \in {0, 1}
  /\ ScriptGoto("spam")
  /\ UNCHANGED <<checks, prev, sshWorks, readerVars, board, loaded, dcacheOn, sm, ran>>

(* No ssh: a key puts the SM in monitor mode, then it is told to reset. *)
SmKey ==
  /\ pc = "reboot"
  /\ ~sshWorks
  /\ sm' = "monitor"
  /\ ScriptGoto("smReset")
  /\ UNCHANGED <<checks, prev, sshWorks, readerVars, board, boots, loaded, dcacheOn, ran>>

(* The SM ignores a reset sent into its banner; one it obeys restarts it   *)
(* too, and the board boots twice.                                         *)
SmObeys ==
  IF sm = "monitor" THEN Resets(2) /\ sm' = "banner"
  ELSE UNCHANGED <<board, boots, loaded, dcacheOn, sm>>

SmReset ==
  /\ pc = "smReset"
  /\ SmObeys
  /\ ScriptGoto("spam")
  /\ UNCHANGED <<checks, prev, sshWorks, readerVars, ran>>

(* A round of the spam loop types a space, *)
SpamKey ==
  /\ pc = "spam"
  /\ Types("space")
  /\ ScriptGoto("spamLook")
  /\ UNCHANGED <<checks, prev, sshWorks, size, live, reading, boots, sm>>

(* then looks for the prompt; the loop's deadline may have passed.  The    *)
(* deadline is real time: it is reached, but nothing says in which round.  *)
SpamLook ==
  /\ pc = "spamLook"
  /\ ~Sees("u-boot=>")
  /\ ScriptGoto("spam")
  /\ UNCHANGED <<checks, prev, sshWorks, readerVars, boardVars>>

(* Mutant: the loop ends only when the prompt is there. *)
SpamEndsAtPrompt ==
  /\ pc = "spamLook"
  /\ Sees("u-boot=>")
  /\ ScriptGoto("return")
  /\ UNCHANGED <<checks, prev, sshWorks, readerVars, boardVars>>

SpamEnds ==
  /\ pc = "spamLook"
  /\ ScriptGoto("return")
  /\ UNCHANGED <<checks, prev, sshWorks, readerVars, boardVars>>

TypeReturn ==
  /\ pc = "return"
  /\ Types("return")
  /\ ScriptGoto("confirm")
  /\ UNCHANGED <<checks, prev, sshWorks, size, live, reading, boots, sm>>

(* No prompt in the live capture: refuse to go on. *)
ConfirmPrompt ==
  /\ pc = "confirm"
  /\ ScriptGoto(IF Sees("u-boot=>") THEN "fatload" ELSE "abort")
  /\ UNCHANGED <<checks, prev, sshWorks, readerVars, boardVars>>

Fatload ==
  /\ pc = "fatload"
  /\ Types("fatload")
  /\ ScriptGoto("loadCheck")
  /\ UNCHANGED <<checks, prev, sshWorks, size, live, reading, boots, sm>>

(* Mutant: the jump does not wait for the confirmed load. *)
LoadUnchecked ==
  /\ pc = "loadCheck"
  /\ ScriptGoto("dcache")
  /\ UNCHANGED <<checks, prev, sshWorks, readerVars, boardVars>>

LoadCheck ==
  /\ pc = "loadCheck"
  /\ ScriptGoto(IF Sees("bytes read") THEN "dcache" ELSE "abort")
  /\ UNCHANGED <<checks, prev, sshWorks, readerVars, boardVars>>

DcacheOff ==
  /\ pc = "dcache"
  /\ Types("dcache off")
  /\ ScriptGoto("go")
  /\ UNCHANGED <<checks, prev, sshWorks, size, live, reading, boots, sm>>

Go ==
  /\ pc = "go"
  /\ Types("go")
  /\ ScriptGoto("restore")
  /\ UNCHANGED <<checks, prev, sshWorks, size, live, reading, boots, sm>>

(* Mutant: reset without the key that enters monitor mode. *)
RestoreNoKey ==
  /\ pc \in {"restore", "abort"}
  /\ SmObeys
  /\ reading' = FALSE
  /\ ScriptGoto(IF pc = "restore" THEN "wait" ELSE "done")
  /\ UNCHANGED <<checks, prev, sshWorks, size, live, tty, ran>>

(* Both refusals and the normal end give the board back to Linux: a key    *)
(* for monitor mode, then reset; the reader is killed.                     *)
Restore ==
  /\ pc \in {"restore", "abort"}
  /\ Resets(2)
  /\ sm' = "banner" /\ reading' = FALSE
  /\ ScriptGoto(IF pc = "restore" THEN "wait" ELSE "done")
  /\ UNCHANGED <<checks, prev, sshWorks, size, live, tty, ran>>

(* Ten polls of ssh at most. *)
WaitForLinux ==
  /\ pc = "wait"
  /\ ScriptGoto("done")
  /\ UNCHANGED <<checks, prev, sshWorks, readerVars, boardVars>>

Finished == pc = "done" /\ board = "linux" /\ UNCHANGED vars

Board  == RebootForced \/ ReachCountdown \/ Autoboot \/ SecondBoot \/ FinishLoading
SpamStep == SpamKey \/ SpamLook \/ SpamEnds
Script ==
  \/ DrainCheck \/ SshReboot \/ SmKey \/ SmReset
  \/ SpamStep \/ TypeReturn \/ ConfirmPrompt
  \/ Fatload \/ LoadCheck \/ DcacheOff \/ Go \/ Restore \/ WaitForLinux

Next == Board \/ Read \/ ReaderEnds \/ Script \/ Finished

(* The board boots by itself, the bridge delivers, and the script is a     *)
(* running process; SF(SpamEnds) is the loop's deadline in real time.      *)
Fairness ==
  /\ WF_vars(RebootForced) /\ WF_vars(ReachCountdown) /\ WF_vars(Autoboot)
  /\ WF_vars(SecondBoot) /\ WF_vars(FinishLoading)
  /\ WF_vars(Read) /\ WF_vars(Script) /\ SF_vars(SpamEnds)

Spec == Init /\ [][Next]_vars /\ Fairness

-----------------------------------------------------------------------------
(* The shape of the state. *)
TypeOK ==
  /\ sshWorks \in BOOLEAN
  /\ pc \in {"drain", "reboot", "smReset", "spam", "spamLook", "return", "confirm",
             "fatload", "loadCheck", "dcache", "go", "restore", "abort", "wait", "done"}
  /\ checks \in 0 .. MaxChecks - 1
  /\ prev \in 0 .. MaxBacklog \cup {NoSize} /\ size \in 0 .. MaxBacklog
  /\ live \subseteq ConsoleLine /\ reading \in BOOLEAN /\ tty \in Seq(ConsoleLine)
  /\ board \in {"down", "countdown", "prompt", "loading", "app", "linux"}
  /\ boots \in 0 .. 2
  /\ loaded \in BOOLEAN /\ dcacheOn \in BOOLEAN
  /\ sm \in {"banner", "monitor"}
  /\ ran \in {"nothing", "image", "garbage"}

(* "NEVER go WITHOUT CONFIRMING THE PROMPT AND THE FATLOAD" (NOTES 5): no  *)
(* `go` makes the board jump to an address that holds no image, or that    *)
(* the MMU still maps non-executable; the evidence the script went by is   *)
(* about the boot it types into.                                           *)
NoBlindGo == ran # "garbage"

(* After a reboot over ssh, which boots the board once, the confirmations  *)
(* are good: the script types `dcache off` and `go` at a prompt of the     *)
(* boot that loaded the image, and no `go` is blind.                       *)
SingleBootGo ==
  sshWorks =>
    /\ NoBlindGo
    /\ pc \in {"dcache", "go"} => board = "prompt" /\ loaded

(* "Poll the LIVE region" (line 85): nothing the bridge still held from    *)
(* before the drain counts as live output.                                 *)
LiveIsFresh == \A line \in live : line.fresh

(* Every wait of the script is bounded: it ends whatever the board does. *)
ScriptEnds == <>(pc = "done")

(* The script gives the board back: once it has ended, and whatever it     *)
(* jumped to, the board boots Linux.                                       *)
LinuxRestored == pc = "done" ~> board = "linux"
=============================================================================
