------------------------------ MODULE AckFlow ------------------------------
(***************************************************************************)
(* Flow control towards a CM15A.  "X10 I/O is very slow so store up        *)
(* pending output then wait for X10ACK (0x55) before sending the next item *)
(* from the queue" (x10_write.c:20-23).  A 0x55 names no packet, so        *)
(* whether an ACK or a timeout is credited to the packet it belongs to is  *)
(* a property of the history.  This module adds to X10Transmit two history *)
(* variables that observe its steps and restrict none.                     *)
(***************************************************************************)
EXTENDS X10Transmit

VARIABLES
  waited,  (* since the last submit an ACK came, or a poll() begun after   *)
           (* it ran out                                                   *)
  slipped  (* a timeout was charged and the controller has not caught up   *)

flowVars == <<tx, inUrb, decoding, loop, Do_exit, owed, waited, slipped>>

(* Packets handed to libusb whose ACK is neither lost nor delivered.       *)
Outstanding ==
  owed + (IF tx.urb = "wire" THEN 1 ELSE 0) + (IF inUrb = "ack" THEN 1 ELSE 0)

Submits    == tx.urb # "wire" /\ tx'.urb = "wire"
Acked      == inUrb = "ack" /\ inUrb' # "ack"
TimedOut   == loop = "poll" /\ loop' = "events_timeout"
Charged    == loop = "events_timeout" /\ loop' = "head"

Observe ==
  /\ waited'  = (~Submits /\ (waited \/ Acked \/ TimedOut))
  /\ slipped' = (Outstanding' > 0 /\ (slipped \/ Charged))

FlowInit == Init /\ waited = FALSE /\ slipped = FALSE

FlowNext == Next /\ Observe

FlowSpec == FlowInit /\ [][FlowNext]_flowVars

FlowQuietSpec == FlowSpec /\ QuietFairness

(* Until a timeout is charged, and again once the controller has caught    *)
(* up, the controller never holds a packet while another is sent to it.    *)
OneAtController == ~slipped => Outstanding <= 1

(* The comment of x10_write.c: a queued packet is sent only after an ACK   *)
(* that arrived, or a timeout that ran, since the packet before it.        *)
EveryReleaseWaited ==
  [][Do_exit = 0 /\ tx'.Outhead # tx.Outhead => waited \/ Acked]_flowVars
=============================================================================
