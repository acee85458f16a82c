------------------------------ MODULE X10Write ------------------------------
(***************************************************************************)
(* The transmit state of mochad-redux and the C functions that change it,  *)
(* as functions from a transmit state to a transmit state:                 *)
(*                                                                         *)
(*   src/usb/x10_write.c   the ring of pending output (Outrecs, Outhead,   *)
(*                         Outtail, Outbusy) and the armed ACK timeout     *)
(*                         (PollTimeOut);                                  *)
(*   src/core/mochad.c     the single interrupt OUT transfer (IntrOut_),   *)
(*                         the two ACK flags, write_usb(),                 *)
(*                         maybe_finish_x10_transmit() and IntrOut_cb().   *)
(*                                                                         *)
(* The daemon is single threaded, so a C function runs to its end before   *)
(* anything else does: one call is one function application, and a call    *)
(* made by a function is an application inside it, in the order of the     *)
(* code.  The only thing a function does not decide itself is whether      *)
(* libusb_submit_transfer() accepts the transfer: that is the argument     *)
(* "accepts", chosen by the caller's action.                               *)
(***************************************************************************)
EXTENDS Integers

CONSTANTS
  Cmds,     (* the controller packets callers hand to x10_write            *)
  NoCmd,    (* content of an Outrecs slot that was never written           *)
  RingSize, (* OUTPTRSSIZE, the number of Outrecs slots (256 in the code)  *)
  Cm19a     (* global Cm19a: TRUE for a CM19A, FALSE for a CM15A           *)

ASSUME RingAssumption ==
  /\ RingSize \in Nat /\ RingSize >= 2
  /\ NoCmd \notin Cmds
  /\ Cm19a \in BOOLEAN

(* PollTimeOut is -1 (poll blocks for ever) or 2 * 1000 ms.                *)
Never      == -1
AckTimeout == 2000

Slots == 0 .. RingSize - 1

(* The state of the OUT transfer as libusb and the kernel have it: "idle"  *)
(* is not submitted, "wire" is submitted and not finished, the others are  *)
(* finished and waiting for libusb_handle_events to run IntrOut_cb.        *)
Finished == {"completed", "cancelled", "failed"}
Urbs     == {"idle", "wire"} \cup Finished

(* Result of the last write_usb(): 0, -EBUSY, or libusb's refusal.         *)
Results == {"ok", "EBUSY", "EIO"}

TxState ==
  [ Outrecs     : [Slots -> Cmds \cup {NoCmd}],
    Outhead     : Slots,
    Outtail     : Slots,
    Outbusy     : BOOLEAN,
    PollTimeOut : {Never, AckTimeout},
    submitted   : BOOLEAN,  \* IntrOut_submitted
    canceling   : BOOLEAN,  \* IntrOut_canceling
    completed   : BOOLEAN,  \* IntrOut_completed
    ack         : BOOLEAN,  \* X10_ack_received
    timed_out   : BOOLEAN,  \* X10_ack_timed_out
    urb         : Urbs,     \* libusb's view of IntrOut_transfer
    sent        : Cmds \cup {NoCmd},  \* the last packet libusb accepted
    rc          : Results ]

InitTx ==
  [ Outrecs |-> [i \in Slots |-> NoCmd], Outhead |-> 0, Outtail |-> 0,
    Outbusy |-> FALSE, PollTimeOut |-> Never,
    submitted |-> FALSE, canceling |-> FALSE, completed |-> TRUE,
    ack |-> FALSE, timed_out |-> FALSE,
    urb |-> "idle", sent |-> NoCmd, rc |-> "ok" ]

-----------------------------------------------------------------------------
(* Mutant: a refused submit leaves IntrOut_completed cleared.              *)
write_usb_KeepsCleared(s, c, accepts) ==
  IF s.submitted \/ s.canceling
    THEN [s EXCEPT !.rc = "EBUSY"]
  ELSE IF accepts
    THEN [s EXCEPT !.completed = FALSE, !.ack = FALSE, !.timed_out = FALSE,
                   !.submitted = TRUE, !.canceling = FALSE,
                   !.urb = "wire", !.sent = c, !.rc = "ok"]
    ELSE [s EXCEPT !.completed = FALSE, !.ack = FALSE, !.timed_out = FALSE,
                   !.rc = "EIO"]

(* write_usb(): refuse while the transfer is active, else clear the        *)
(* completion and ACK flags and submit; a refused submit restores          *)
(* IntrOut_completed only.                                                 *)
write_usb(s, c, accepts) ==
  IF s.submitted \/ s.canceling
    THEN [s EXCEPT !.rc = "EBUSY"]
  ELSE IF accepts
    THEN [s EXCEPT !.completed = FALSE, !.ack = FALSE, !.timed_out = FALSE,
                   !.submitted = TRUE, !.canceling = FALSE,
                   !.urb = "wire", !.sent = c, !.rc = "ok"]
    ELSE [s EXCEPT !.completed = TRUE, !.ack = FALSE, !.timed_out = FALSE,
                   !.rc = "EIO"]

(* Mutant: the ring index does not wrap.                                   *)
next_index_NoWrap(i) == i + 1

next_index(i) == (i + 1) % RingSize

(* add_x10out(): drop the record when the ring is full.                    *)
add_x10out(s, c) ==
  LET nxt == next_index(s.Outtail) IN
  IF nxt = s.Outhead
    THEN s
    ELSE [s EXCEPT !.Outrecs[nxt] = c, !.Outtail = nxt]

(* Mutants: a refused queued submit disarms the timeout; the head advances *)
(* before the submit is known to be accepted.                              *)
send_next_x10out_Disarms(s, accepts) ==
  LET next == next_index(s.Outhead)
      w    == write_usb(s, s.Outrecs[next], accepts)
  IN  IF ~s.Outbusy
        THEN s
      ELSE IF s.Outhead = s.Outtail
        THEN [s EXCEPT !.Outbusy = FALSE, !.PollTimeOut = Never]
      ELSE IF w.rc = "ok"
        THEN [w EXCEPT !.Outhead = next]
        ELSE [w EXCEPT !.PollTimeOut = Never]

send_next_x10out_DropsRefused(s, accepts) ==
  LET next == next_index(s.Outhead)
      w    == write_usb(s, s.Outrecs[next], accepts)
  IN  IF ~s.Outbusy
        THEN s
      ELSE IF s.Outhead = s.Outtail
        THEN [s EXCEPT !.Outbusy = FALSE, !.PollTimeOut = Never]
      ELSE IF w.rc = "ok"
        THEN [w EXCEPT !.Outhead = next]
        ELSE [w EXCEPT !.Outhead = next, !.PollTimeOut = AckTimeout]

(* send_next_x10out(): the head advances only past an accepted record.     *)
send_next_x10out(s, accepts) ==
  LET next == next_index(s.Outhead)
      w    == write_usb(s, s.Outrecs[next], accepts)
  IN  IF ~s.Outbusy
        THEN s
      ELSE IF s.Outhead = s.Outtail
        THEN [s EXCEPT !.Outbusy = FALSE, !.PollTimeOut = Never]
      ELSE IF w.rc = "ok"
        THEN [w EXCEPT !.Outhead = next]
        ELSE [w EXCEPT !.PollTimeOut = AckTimeout]

(* Mutant: a refused direct submit leaves the timeout armed.               *)
x10_write_StaysArmed(s, c, accepts) ==
  LET w == write_usb([s EXCEPT !.Outbusy = TRUE], c, accepts) IN
  IF s.Outbusy
    THEN add_x10out(s, c)
  ELSE IF w.rc = "ok"
    THEN [w EXCEPT !.PollTimeOut = AckTimeout]
    ELSE [w EXCEPT !.Outbusy = FALSE, !.PollTimeOut = AckTimeout]

(* x10_write(): queue while busy, else submit at once.                     *)
x10_write(s, c, accepts) ==
  LET w == write_usb([s EXCEPT !.Outbusy = TRUE], c, accepts) IN
  IF s.Outbusy
    THEN add_x10out(s, c)
  ELSE IF w.rc = "ok"
    THEN [w EXCEPT !.PollTimeOut = AckTimeout]
    ELSE [w EXCEPT !.Outbusy = FALSE, !.PollTimeOut = Never]

(* Mutants: the ACK flags are not cleared; a CM19A waits for an ACK; the   *)
(* OUT completion of a CM15A releases the queue.                           *)
maybe_finish_KeepsFlags(s, accepts) ==
  IF s.completed /\ (Cm19a \/ s.ack \/ s.timed_out)
    THEN send_next_x10out(s, accepts)
    ELSE s

maybe_finish_WaitsForAck(s, accepts) ==
  IF s.completed /\ (s.ack \/ s.timed_out)
    THEN send_next_x10out([s EXCEPT !.ack = FALSE, !.timed_out = FALSE], accepts)
    ELSE s

maybe_finish_NeedsNoAck(s, accepts) ==
  IF s.completed
    THEN send_next_x10out([s EXCEPT !.ack = FALSE, !.timed_out = FALSE], accepts)
    ELSE s

(* maybe_finish_x10_transmit(): a CM19A is released by OUT completion, a   *)
(* CM15A by an ACK or its timeout as well.                                 *)
maybe_finish_x10_transmit(s, accepts) ==
  IF s.completed /\ (Cm19a \/ s.ack \/ s.timed_out)
    THEN send_next_x10out([s EXCEPT !.ack = FALSE, !.timed_out = FALSE], accepts)
    ELSE s

(* Mutant: a cancelled transfer releases the queue like a completed one.   *)
IntrOut_cb_AlwaysReleases(s, accepts) ==
  maybe_finish_x10_transmit(
    [s EXCEPT !.submitted = FALSE, !.canceling = FALSE,
              !.completed = TRUE, !.urb = "idle"], accepts)

(* IntrOut_cb(): libusb has given the OUT transfer back.                   *)
IntrOut_cb(s, accepts) ==
  LET t == [s EXCEPT !.submitted = FALSE, !.canceling = FALSE,
                     !.completed = TRUE, !.urb = "idle"]
  IN  IF s.urb = "completed" THEN maybe_finish_x10_transmit(t, accepts) ELSE t

(* The part of IntrIn_cb() that a 0x55 byte runs.                          *)
ack_received(s, accepts) ==
  maybe_finish_x10_transmit([s EXCEPT !.ack = TRUE], accepts)

(* The part of the main loop's time-out branch after libusb's callbacks.   *)
ack_timed_out(s, accepts) ==
  maybe_finish_x10_transmit([s EXCEPT !.timed_out = TRUE], accepts)
=============================================================================
