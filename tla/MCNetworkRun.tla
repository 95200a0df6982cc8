---------------------------- MODULE MCNetworkRun ----------------------------
(* Three loads: idle, sending, and receiving, where no call moves more     *)
(* than the longest pacing sleep is worth.                                 *)
EXTENDS NetworkRun

ShortSweep ==
  << [mode |-> "idle", chunk |-> 1, recv |-> 1], [mode |-> "tx", chunk |-> 2, recv |-> 4],
     [mode |-> "rx", chunk |-> 1, recv |-> 2] >>
=============================================================================
