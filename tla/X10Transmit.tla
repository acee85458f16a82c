---------------------------- MODULE X10Transmit ----------------------------
(***************************************************************************)
(* The event loop of mochad-redux as far as it drives the transmit path:   *)
(* mydaemon() in src/core/mochad.c with the libusb callbacks it runs, the  *)
(* calls of x10_write() the commands and decoders make, and the USB        *)
(* controller (external: a CM15A or CM19A behind libusb).                  *)
(*                                                                         *)
(* One iteration of the loop is                                            *)
(*    test of Do_exit -> poll -> handle_events (callbacks)                 *)
(*                            -> time-out branch | clients                 *)
(* and "loop" says where it is.  libusb runs callbacks only inside         *)
(* libusb_handle_events_timeout(), so what poll() saw and what the         *)
(* callbacks then find may differ: the controller acts in between.         *)
(***************************************************************************)
EXTENDS X10Write

CONSTANT MaxOwed  (* bound: ACKs the controller can owe at one time        *)

ASSUME OwedAssumption == MaxOwed \in Nat

VARIABLES
  tx,        (* the transmit state of module X10Write                      *)
  inUrb,     (* the IN transfer: not submitted, submitted, or what arrived *)
  decoding,  (* IntrIn_cb is inside cm15a_decode()                         *)
  loop,      (* where mydaemon() is                                        *)
  Do_exit,   (* 0 run, 1 a signal, 2 a USB or poll error                   *)
  owed       (* packets the controller took and has not ACKed              *)

vars == <<tx, inUrb, decoding, loop, Do_exit, owed>>

(* What a finished IN transfer holds: the byte 0x55, another single byte,  *)
(* a longer frame for cm15a_decode(), an error status, or the cancelled    *)
(* status that shutdown asks for (module UsbLifecycle).                    *)
Arrivals == {"ack", "byte", "frame", "error", "cancelled"}

Loop == {"startup", "head", "poll", "events_timeout", "events_ready", "clients",
         "stopped", "draining"}

TypeOK ==
  /\ tx \in TxState
  /\ inUrb \in {"idle", "waiting"} \cup Arrivals
  /\ decoding \in BOOLEAN
  /\ loop \in Loop
  /\ Do_exit \in {0, 1, 2}
  /\ owed \in 0 .. MaxOwed

(* start_transfers() has submitted the IN transfer; initcm1Xa() is next.   *)
Init ==
  /\ tx = InitTx
  /\ inUrb = "waiting"
  /\ decoding = FALSE
  /\ loop = "startup"
  /\ Do_exit = 0
  /\ owed = 0

(* Inside libusb_handle_events; "draining" is shutdown's call of it, which *)
(* module UsbLifecycle adds.                                               *)
InEvents == loop \in {"events_timeout", "events_ready", "draining"}

(* A finished transfer makes libusb's descriptor ready.                    *)
UsbReady == tx.urb \in Finished \/ inUrb \in Arrivals

-----------------------------------------------------------------------------
(* Calls of x10_write(): the startup table (initcm19abinary; the one of    *)
(* the CM15A is empty), a decoder inside IntrIn_cb (clock, RF repeater, RF *)
(* to PL bridge), a client's command line.                                 *)
Transmit(c, accepts) ==
  /\ decoding \/ loop = "clients" \/ (loop = "startup" /\ Cm19a)
  /\ tx' = x10_write(tx, c, accepts)
  /\ UNCHANGED <<inUrb, decoding, loop, Do_exit, owed>>

StartupDone ==
  /\ loop = "startup"
  /\ loop' = "head"
  /\ UNCHANGED <<tx, inUrb, decoding, Do_exit, owed>>

EnterPoll ==
  /\ loop = "head" /\ Do_exit = 0
  /\ loop' = "poll"
  /\ UNCHANGED <<tx, inUrb, decoding, Do_exit, owed>>

(* Mutant: only a signal ends the loop.                                    *)
StopLoop_SignalOnly ==
  /\ loop = "head" /\ Do_exit = 1
  /\ loop' = "stopped"
  /\ UNCHANGED <<tx, inUrb, decoding, Do_exit, owed>>

StopLoop ==
  /\ loop = "head" /\ Do_exit # 0
  /\ loop' = "stopped"
  /\ UNCHANGED <<tx, inUrb, decoding, Do_exit, owed>>

(* poll() returns 0: nothing was ready for the whole PollTimeOut.          *)
PollTimesOut ==
  /\ loop = "poll"
  /\ tx.PollTimeOut # Never
  /\ ~UsbReady
  /\ loop' = "events_timeout"
  /\ UNCHANGED <<tx, inUrb, decoding, Do_exit, owed>>

(* poll() returns a ready descriptor: libusb's, a listener's or a client's.*)
PollReady ==
  /\ loop = "poll"
  /\ loop' = "events_ready"
  /\ UNCHANGED <<tx, inUrb, decoding, Do_exit, owed>>

(* A failing poll() or a failing descriptor update.                        *)
PollFails ==
  /\ loop = "poll"
  /\ Do_exit' = 2 /\ loop' = "head"
  /\ UNCHANGED <<tx, inUrb, decoding, owed>>

(* A signal interrupts a poll() that sleeps; one that comes between the    *)
(* test of Do_exit and the sleep does not.                                 *)
sighandler ==
  /\ loop # "stopped"
  /\ Do_exit' = 1
  /\ loop' = loop \/ (loop = "poll" /\ loop' = "head")
  /\ UNCHANGED <<tx, inUrb, decoding, owed>>

-----------------------------------------------------------------------------
OutCallback(accepts) ==
  /\ InEvents /\ ~decoding
  /\ tx.urb \in Finished
  /\ tx' = IntrOut_cb(tx, accepts)
  /\ Do_exit' = IF tx.urb = "failed" THEN 2 ELSE Do_exit
  /\ UNCHANGED <<inUrb, decoding, loop, owed>>

(* The end of IntrIn_cb(): give the transfer back to libusb.               *)
Resubmit ==
  IF Do_exit # 0
    THEN inUrb' = "idle" /\ UNCHANGED Do_exit
    ELSE \/ inUrb' = "waiting" /\ UNCHANGED Do_exit
         \/ inUrb' = "idle" /\ Do_exit' = 2

InAck(accepts) ==
  /\ InEvents /\ ~decoding
  /\ inUrb = "ack"
  /\ tx' = ack_received(tx, accepts)
  /\ Resubmit
  /\ UNCHANGED <<decoding, loop, owed>>

(* A byte that is no ACK; cm15a_decode() ignores fewer than four bytes.    *)
InByte ==
  /\ InEvents /\ ~decoding
  /\ inUrb = "byte"
  /\ Resubmit
  /\ UNCHANGED <<tx, decoding, loop, owed>>

(* A frame: cm15a_decode() runs and may call x10_write() any number of     *)
(* times (Transmit) before the transfer is resubmitted.                    *)
InFrame ==
  /\ InEvents /\ ~decoding
  /\ inUrb = "frame"
  /\ inUrb' = "idle" /\ decoding' = TRUE
  /\ UNCHANGED <<tx, loop, Do_exit, owed>>

FrameDecoded ==
  /\ decoding
  /\ decoding' = FALSE
  /\ Resubmit
  /\ UNCHANGED <<tx, loop, owed>>

InError ==
  /\ InEvents /\ ~decoding
  /\ inUrb = "error"
  /\ inUrb' = "idle" /\ Do_exit' = 2
  /\ UNCHANGED <<tx, decoding, loop, owed>>

(* handle_events returns once nothing is ready.  After a poll() that timed *)
(* out the ACK timeout is charged; else the clients are served.            *)
ChargeTimeout(accepts) ==
  /\ loop = "events_timeout" /\ ~decoding /\ ~UsbReady
  /\ tx' = ack_timed_out(tx, accepts)
  /\ loop' = "head"
  /\ UNCHANGED <<inUrb, decoding, Do_exit, owed>>

ServeClients ==
  /\ loop = "events_ready" /\ ~decoding /\ ~UsbReady
  /\ loop' = "clients"
  /\ UNCHANGED <<tx, inUrb, decoding, Do_exit, owed>>

ClientsServed ==
  /\ loop = "clients"
  /\ loop' = "head"
  /\ UNCHANGED <<tx, inUrb, decoding, Do_exit, owed>>

-----------------------------------------------------------------------------
(* The controller (external).  It takes a packet, later ACKs it or does    *)
(* not, and reports received X10 traffic whenever the IN transfer waits.   *)
ControllerTakes ==
  /\ tx.urb = "wire" /\ ~tx.canceling
  /\ tx' = [tx EXCEPT !.urb = "completed"]
  /\ owed' = IF owed < MaxOwed THEN owed + 1 ELSE owed
  /\ UNCHANGED <<inUrb, decoding, loop, Do_exit>>

ControllerFails ==
  /\ tx.urb = "wire"
  /\ tx' = [tx EXCEPT !.urb = "failed"]
  /\ UNCHANGED <<inUrb, decoding, loop, Do_exit, owed>>

ControllerAcks ==
  /\ owed > 0 /\ inUrb = "waiting"
  /\ inUrb' = "ack" /\ owed' = owed - 1
  /\ UNCHANGED <<tx, decoding, loop, Do_exit>>

ControllerForgets ==
  /\ owed > 0
  /\ owed' = owed - 1
  /\ UNCHANGED <<tx, inUrb, decoding, loop, Do_exit>>

ControllerReports ==
  /\ inUrb = "waiting"
  /\ inUrb' \in {"byte", "frame", "error"}
  /\ UNCHANGED <<tx, decoding, loop, Do_exit, owed>>

Daemon ==
  \/ \E accepts \in BOOLEAN :
       \/ \E c \in Cmds : Transmit(c, accepts)
       \/ OutCallback(accepts) \/ InAck(accepts) \/ ChargeTimeout(accepts)
  \/ StartupDone \/ EnterPoll \/ PollTimesOut \/ PollReady \/ PollFails \/ StopLoop \/ sighandler
  \/ InByte \/ InFrame \/ FrameDecoded \/ InError
  \/ ServeClients \/ ClientsServed

Controller ==
  \/ ControllerTakes \/ ControllerFails \/ ControllerAcks
  \/ ControllerForgets \/ ControllerReports

Next == Daemon \/ Controller

Spec == Init /\ [][Next]_vars

(***************************************************************************)
(* Fairness.  The loop runs: a ready libusb descriptor wakes poll(), a     *)
(* callback whose transfer finished runs, handle_events returns although   *)
(* the controller may keep it busy for a while (SF), the clients of one    *)
(* poll() are finite.  The controller finishes every OUT transfer one way  *)
(* or the other and libusb does not refuse every submit (the TRUE          *)
(* instances); it owes no ACK.  Nothing makes a client stop.               *)
(***************************************************************************)
LoopFairness ==
  /\ WF_vars(StartupDone) /\ WF_vars(EnterPoll) /\ WF_vars(StopLoop)
  /\ WF_vars(UsbReady /\ PollReady)
  /\ SF_vars(OutCallback(TRUE))
  /\ WF_vars(InAck(TRUE) \/ InByte \/ InFrame \/ FrameDecoded \/ InError)
  /\ SF_vars(ChargeTimeout(TRUE)) /\ SF_vars(ServeClients)
  /\ WF_vars(ClientsServed)
  /\ WF_vars(ControllerTakes \/ ControllerFails)

(* A poll() that finds nothing ready again and again is once left alone    *)
(* for PollTimeOut: no client and no report of the controller wakes it.    *)
QuietFairness == LoopFairness /\ SF_vars(PollTimesOut)

-----------------------------------------------------------------------------
(* Safety.                                                                 *)

(* An idle transmit path is really idle: when Outbusy is 0 nothing is      *)
(* queued, no transfer is active and no timeout is armed, so the next      *)
(* x10_write() may bypass the queue (x10_write.c:103-114).                 *)
IdleIsDrained ==
  ~tx.Outbusy => /\ tx.Outhead = tx.Outtail
                 /\ tx.urb = "idle" /\ tx.completed
                 /\ tx.PollTimeOut = Never

(* A busy path has the ACK timeout armed, whatever failed on the way: it   *)
(* is what retries a refused queued submit and replaces a lost ACK.        *)
BusyIsArmed == tx.Outbusy => tx.PollTimeOut = AckTimeout

(* IntrOut_submitted and IntrOut_completed, which different functions test,*)
(* always agree with each other and with what libusb has.                  *)
FlagsTellTheTransfer ==
  /\ tx.submitted = (tx.urb # "idle")
  /\ tx.completed = (tx.urb = "idle")

(* Outbusy and IntrOut_completed keep every caller of write_usb() away     *)
(* from an active transfer: the -EBUSY of mochad.c:1511-1516 never occurs. *)
NeverRefusedAsActive == tx.rc # "EBUSY"

(* An ACK or a timeout is spent at once or held for the transfer that is   *)
(* still in flight; none is left over to release a later packet.           *)
NoSpareCredit ==
  Do_exit = 0 /\ tx.completed => ~tx.ack /\ ~tx.timed_out

(* A CM19A is never paced by the ACK timeout (mochad.c:288-293): if it is  *)
(* busy with nothing in flight, the last queued submit was refused.        *)
Cm19aPacedByCompletion ==
  Cm19a /\ Do_exit = 0 /\ tx.Outbusy /\ tx.completed =>
    tx.Outhead # tx.Outtail /\ tx.rc = "EIO"

(* Refinement: the ring, the busy flag and the transfer implement a FIFO.  *)
Queued ==
  [i \in 1 .. (tx.Outtail - tx.Outhead) % RingSize |->
     tx.Outrecs[(tx.Outhead + i) % RingSize]]

Fifo == INSTANCE TransmitFifo
          WITH Capacity <- RingSize - 1, pending <- Queued, sent <- tx.sent,
               flying <- tx.urb = "wire", active <- tx.Outbusy

(* No packet accepted by x10_write() is lost, sent twice or overtaken,     *)
(* across full rings, refused submits, lost ACKs and timeouts.             *)
ImplementsFifo == Fifo!Spec

(* Liveness: the packet at the head of the queue is handed to libusb.      *)
HeadAdvances ==
  \A h \in Slots :
    (tx.Outhead = h /\ tx.Outhead # tx.Outtail) ~> (tx.Outhead # h \/ Do_exit # 0)

(* ... although ACKs are lost and submits refused, provided poll() is left *)
(* alone for a PollTimeOut again and again (mochad.c:1895-1901).           *)
HeadAdvancesWhenQuiet ==
  []<>(loop = "poll" /\ ~UsbReady) => HeadAdvances

(* A stop that was asked for, by a signal or by an error, ends the loop    *)
(* once anything wakes poll().  (A signal that comes after the test of     *)
(* Do_exit and before the sleep wakes nothing itself, mochad.c:1834-1875.) *)
StopsOnceWoken ==
  []<>(loop # "poll") => (Do_exit # 0 ~> loop = "stopped")
=============================================================================
