---------------------------- MODULE TransmitFifo ----------------------------
(***************************************************************************)
(* What the transmit path promises its callers: packets reach the          *)
(* controller one at a time, in the order x10_write() accepted them, none  *)
(* twice, none lost, with at most Capacity waiting.  A packet x10_write()  *)
(* refuses leaves no trace.                                                *)
(***************************************************************************)
EXTENDS Naturals, Sequences

CONSTANTS Cmds, NoCmd, Capacity

VARIABLES
  pending,  (* accepted and not yet handed to libusb                       *)
  sent,     (* the packet handed to libusb last                            *)
  flying,   (* the controller has not finished taking it                   *)
  active    (* the path is busy: x10_write() queues                        *)

fifo == <<pending, sent, flying, active>>

Init == pending = <<>> /\ sent = NoCmd /\ flying = FALSE /\ active = FALSE

SubmitNow(c) ==
  /\ ~active
  /\ sent' = c /\ flying' = TRUE /\ active' = TRUE
  /\ UNCHANGED pending

Enqueue(c) ==
  /\ active /\ Len(pending) < Capacity
  /\ pending' = Append(pending, c)
  /\ UNCHANGED <<sent, flying, active>>

SubmitHead ==
  /\ active /\ ~flying /\ pending # <<>>
  /\ sent' = Head(pending) /\ pending' = Tail(pending) /\ flying' = TRUE
  /\ UNCHANGED active

Finish == flying /\ flying' = FALSE /\ UNCHANGED <<pending, sent, active>>

GoIdle ==
  /\ active /\ ~flying /\ pending = <<>>
  /\ active' = FALSE
  /\ UNCHANGED <<pending, sent, flying>>

Next == (\E c \in Cmds : SubmitNow(c) \/ Enqueue(c)) \/ SubmitHead \/ Finish \/ GoIdle

Spec == Init /\ [][Next]_fifo
=============================================================================
