---------------------------- MODULE UsbLifecycle ----------------------------
(***************************************************************************)
(* One life of the daemon around the event loop of X10Transmit: mydaemon() *)
(* from find_cm15a() to libusb_exit(), with every early "goto out" and     *)
(* "goto out_deinit", and shutdown's cancel, drain, free and release.      *)
(* While phase is "up" the steps are those of X10Transmit; a callback in   *)
(* shutdown's drain is the same callback.                                  *)
(***************************************************************************)
EXTENDS X10Transmit

CONSTANT MaxEvents  (* libusb_handle_events calls of one drain (100)       *)

ASSUME EventsAssumption == MaxEvents \in Nat \ {0}

VARIABLES
  phase,        (* where mydaemon() is                                     *)
  allocated,    (* which of IntrIn_transfer, IntrOut_transfer are not NULL *)
  IntrIn_canceling,
  drained,      (* what became of drain_cancelled_transfers(100)           *)
  max_events,   (* its remaining calls                                     *)
  Reattach,     (* a kernel driver was detached by hand                    *)
  driver,       (* external: who has the interface                         *)
  r,            (* mydaemon's r: "ok" becomes exit code 0                  *)
  forgotten,    (* transfers that wait for their callback although their   *)
                (* cancellation was answered NOT_FOUND                     *)
  refused       (* history: a cancellation was not answered with success   *)

lifeVars == <<phase, allocated, IntrIn_canceling, drained, max_events, Reattach,
              driver, r, forgotten, refused>>

cancelVars == <<forgotten, refused>>

allVars == <<vars, lifeVars>>

Phases == {"find", "endpoints", "alloc", "start", "pollfds", "up", "drain",
          "deinit", "out", "exited"}

LifeTypeOK ==
  /\ TypeOK
  /\ phase \in Phases
  /\ allocated \subseteq {"in", "out"}
  /\ IntrIn_canceling \in BOOLEAN
  /\ drained \in {"no", "yes", "failed"}
  /\ max_events \in 0 .. MaxEvents
  /\ Reattach \in BOOLEAN
  /\ driver \in {"kernel", "mochad", "nobody"}
  /\ r \in {"ok", "error"}
  /\ forgotten \subseteq {"in", "out"}
  /\ refused \in BOOLEAN

(* Outside a callback: set while libusb has the transfer, unless           *)
(* cancel_transfer_if_active() cleared it.                                 *)
IntrIn_submitted == inUrb # "idle" /\ "in" \notin forgotten

(* Mutant: only a cancelled transfer counts as active.                     *)
Out_active_Canceling == tx.canceling

In_active  == IntrIn_submitted \/ IntrIn_canceling
Out_active == tx.submitted \/ tx.canceling

LifeInit ==
  /\ tx = InitTx /\ inUrb = "idle" /\ decoding = FALSE
  /\ loop = "startup" /\ Do_exit = 0 /\ owed = 0
  /\ phase = "find" /\ allocated = {}
  /\ IntrIn_canceling = FALSE /\ drained = "no" /\ max_events = MaxEvents
  /\ Reattach = FALSE /\ driver = "kernel"
  /\ r = "ok" /\ forgotten = {} /\ refused = FALSE

-----------------------------------------------------------------------------
(* Startup.                                                                *)

(* find_cm15a() claims the interface at once, or after detaching the       *)
(* kernel driver; any failure is "goto out".                               *)
FindController ==
  /\ phase = "find"
  /\ \/ driver' = "mochad" /\ Reattach' \in BOOLEAN /\ r' = "ok" /\ phase' = "endpoints"
     \/ driver' = "kernel" /\ UNCHANGED Reattach /\ r' = "error" /\ phase' = "out"
     \/ driver' = "nobody" /\ Reattach' = TRUE /\ r' = "error" /\ phase' = "out"
  /\ UNCHANGED <<vars, allocated, IntrIn_canceling, drained, max_events, cancelVars>>

GetEndpoints ==
  /\ phase = "endpoints"
  /\ \/ r' = "ok" /\ phase' = "alloc"
     \/ r' = "error" /\ phase' = "deinit"
  /\ UNCHANGED <<vars, allocated, IntrIn_canceling, drained, max_events, Reattach,
                 driver, cancelVars>>

(* alloc_transfers(): the IN transfer is freed when OUT cannot be had.     *)
AllocTransfers ==
  /\ phase = "alloc"
  /\ \/ allocated' = {"in", "out"} /\ r' = "ok" /\ phase' = "start"
     \/ allocated' = {} /\ r' = "error" /\ phase' = "deinit"
  /\ UNCHANGED <<vars, IntrIn_canceling, drained, max_events, Reattach, driver, cancelVars>>

StartTransfers ==
  /\ phase = "start"
  /\ \/ inUrb' = "waiting" /\ r' = "ok" /\ phase' = "pollfds"
     \/ UNCHANGED inUrb /\ r' = "error" /\ phase' = "deinit"
  /\ UNCHANGED <<tx, decoding, loop, Do_exit, owed, allocated, IntrIn_canceling,
                 drained, max_events, Reattach, driver, cancelVars>>

InitializePollfds ==
  /\ phase = "pollfds"
  /\ \/ r' = "ok" /\ phase' = "up"
     \/ r' = "error" /\ phase' = "deinit"
  /\ UNCHANGED <<vars, allocated, IntrIn_canceling, drained, max_events, Reattach,
                 driver, cancelVars>>

(* A listener cannot be created: "goto out_deinit" with r still 0.         *)
ListenersFail ==
  /\ phase = "up" /\ loop = "startup"
  /\ phase' = "deinit"
  /\ UNCHANGED <<vars, allocated, IntrIn_canceling, drained, max_events, Reattach,
                 driver, r, cancelVars>>

(* The loop, and every callback.  A callback sets IntrIn_submitted and     *)
(* IntrIn_canceling anew and no transfer is forgotten once its callback    *)
(* ran; a transfer whose cancellation libusb accepted receives no data.    *)
StillForgotten ==
  {t \in forgotten : (t = "in" /\ inUrb' # "idle") \/ (t = "out" /\ tx'.urb \in Finished)}

Loops ==
  /\ phase \in {"up", "drain"}
  /\ Next
  /\ IntrIn_canceling => inUrb' \notin {"ack", "byte", "frame"}
  /\ IntrIn_canceling' = (IntrIn_canceling /\ inUrb' # "idle")
  /\ forgotten' = StillForgotten
  /\ UNCHANGED <<phase, allocated, drained, max_events, Reattach, driver, r, refused>>

-----------------------------------------------------------------------------
(* Shutdown.                                                               *)

(* What libusb_cancel_transfer() may answer (external): a transfer that is *)
(* in flight is cancelled, one that has finished is not found although its *)
(* callback has not run, and either call may fail.                         *)
CancelAnswers(flying) == {IF flying THEN "ok" ELSE "not_found", "error"}

(* cancel_transfer_if_active() of the OUT transfer.  NOT_FOUND is taken    *)
(* for "already inactive": the flags are cleared, whoever has the transfer.*)
cancel_out(s, answer) ==
  IF ~(s.submitted \/ s.canceling)
    THEN s
  ELSE CASE answer = "ok"        -> [s EXCEPT !.canceling = TRUE]
         [] answer = "not_found" -> [s EXCEPT !.submitted = FALSE, !.canceling = FALSE]
         [] answer = "error"     -> s

(* Both transfers, OUT first; the results are ignored.                     *)
CancelTransfers ==
  /\ phase = "up" /\ loop = "stopped"
  /\ phase' = "drain"
  /\ \E out \in CancelAnswers(tx.urb = "wire"), in \in CancelAnswers(inUrb = "waiting") :
       /\ tx' = cancel_out(tx, out)
       /\ IntrIn_canceling' = (In_active /\ in = "ok")
       /\ forgotten' = {t \in {"in", "out"} :
                          \/ t = "in" /\ In_active /\ in = "not_found"
                          \/ t = "out" /\ Out_active /\ out = "not_found"}
       /\ refused' = ((Out_active /\ out # "ok") \/ (In_active /\ in # "ok"))
  /\ UNCHANGED <<inUrb, decoding, loop, Do_exit, owed, allocated, drained, max_events,
                 Reattach, driver, r>>

(* libusb finishes the cancellation of a transfer that was in flight.      *)
OutCancelled ==
  /\ phase = "drain"
  /\ tx.urb = "wire" /\ tx.canceling
  /\ tx' = [tx EXCEPT !.urb = "cancelled"]
  /\ UNCHANGED <<inUrb, decoding, loop, Do_exit, owed, lifeVars>>

InCancellation ==
  /\ phase = "drain"
  /\ inUrb = "waiting" /\ IntrIn_canceling
  /\ inUrb' = "cancelled"
  /\ UNCHANGED <<tx, decoding, loop, Do_exit, owed, lifeVars>>

(* IntrIn_cb() of the cancelled transfer: it is not resubmitted.           *)
InCancelled ==
  /\ phase = "drain" /\ InEvents /\ ~decoding
  /\ inUrb = "cancelled"
  /\ inUrb' = "idle" /\ IntrIn_canceling' = FALSE
  /\ UNCHANGED tx /\ forgotten' = StillForgotten
  /\ UNCHANGED <<decoding, loop, Do_exit, owed, phase, allocated, drained,
                 max_events, Reattach, driver, r, refused>>

(* Mutants: the rounds are not counted; a round too many.                  *)
DrainRound_Uncounted ==
  /\ phase = "drain" /\ loop = "stopped"
  /\ max_events > 0 /\ (In_active \/ Out_active)
  /\ loop' = "draining"
  /\ UNCHANGED <<tx, inUrb, decoding, Do_exit, owed, lifeVars>>

DrainRound_OffByOne ==
  /\ phase = "drain" /\ loop = "stopped"
  /\ max_events >= 0 /\ (In_active \/ Out_active)
  /\ max_events' = max_events - 1
  /\ loop' = "draining"
  /\ UNCHANGED <<tx, inUrb, decoding, Do_exit, owed, phase, allocated,
                 IntrIn_canceling, drained, Reattach, driver, r, cancelVars>>

(* drain_cancelled_transfers(): one libusb_handle_events() per round.  It  *)
(* runs the callbacks that are ready, perhaps none, and returns.           *)
DrainRound ==
  /\ phase = "drain" /\ loop = "stopped"
  /\ max_events > 0 /\ (In_active \/ Out_active)
  /\ max_events' = max_events - 1
  /\ loop' = "draining"
  /\ UNCHANGED <<tx, inUrb, decoding, Do_exit, owed, phase, allocated,
                 IntrIn_canceling, drained, Reattach, driver, r, cancelVars>>

DrainReturns ==
  /\ phase = "drain" /\ loop = "draining" /\ ~decoding
  /\ loop' = "stopped"
  /\ UNCHANGED <<tx, inUrb, decoding, Do_exit, owed, lifeVars>>

(* The drain is over: nothing is active, its rounds are used up, or        *)
(* libusb_handle_events() failed.  Its result is ignored; what decides r   *)
(* is Do_exit at this moment.                                              *)
DrainEnds ==
  /\ phase = "drain"
  /\ \/ loop = "stopped" /\ (max_events = 0 \/ ~(In_active \/ Out_active))
     \/ loop = "draining" /\ ~decoding
  /\ loop' = "stopped"
  /\ drained' = IF In_active \/ Out_active THEN "failed" ELSE "yes"
  /\ r' = IF Do_exit = 1 THEN "ok" ELSE "error"
  /\ phase' = "deinit"
  /\ UNCHANGED <<tx, inUrb, decoding, Do_exit, owed, allocated, IntrIn_canceling,
                 max_events, Reattach, driver, cancelVars>>

(* Mutant: both transfers are freed.                                       *)
Deinit_FreesAll ==
  /\ phase = "deinit"
  /\ allocated' = {}
  /\ r' \in {"ok", "error"}
  /\ driver' = IF Reattach /\ r' = "error" THEN "nobody" ELSE "kernel"
  /\ phase' = "out"
  /\ UNCHANGED <<vars, IntrIn_canceling, drained, max_events, Reattach, cancelVars>>

(* Mutant: the results of release and reattach are not kept in r.          *)
Deinit_KeepsStatus ==
  /\ phase = "deinit"
  /\ allocated' = {t \in allocated : (t = "in" /\ In_active) \/ (t = "out" /\ Out_active)}
  /\ driver' \in IF Reattach THEN {"nobody", "kernel"} ELSE {"kernel"}
  /\ phase' = "out"
  /\ UNCHANGED <<vars, IntrIn_canceling, drained, max_events, Reattach, r, cancelVars>>

(* out_deinit: free what is inactive, release the interface, give it back  *)
(* to the kernel driver; r is now the result of the last of these calls.   *)
Deinit ==
  /\ phase = "deinit"
  /\ allocated' = {t \in allocated : (t = "in" /\ In_active) \/ (t = "out" /\ Out_active)}
  /\ r' \in {"ok", "error"}
  /\ driver' = IF Reattach /\ r' = "error" THEN "nobody" ELSE "kernel"
  /\ phase' = "out"
  /\ UNCHANGED <<vars, IntrIn_canceling, drained, max_events, Reattach, cancelVars>>

(* out: close the device and libusb.                                       *)
Exit ==
  /\ phase = "out"
  /\ phase' = "exited"
  /\ UNCHANGED <<vars, allocated, IntrIn_canceling, drained, max_events, Reattach,
                 driver, r, cancelVars>>

Startup ==
  \/ FindController \/ GetEndpoints \/ AllocTransfers \/ StartTransfers
  \/ InitializePollfds \/ ListenersFail

Shutdown ==
  \/ CancelTransfers \/ OutCancelled \/ InCancellation \/ InCancelled
  \/ DrainRound \/ DrainReturns \/ DrainEnds \/ Deinit \/ Exit

LifeNext == Startup \/ Loops \/ Shutdown

LifeSpec == LifeInit /\ [][LifeNext]_allVars

(* The daemon's own shutdown steps happen, libusb_handle_events returns    *)
(* (its default time-out is 60 s), and a decoder ends.  Nothing is assumed *)
(* of the controller or of libusb's cancellations.                         *)
ShutdownFairness ==
  /\ WF_allVars(Loops /\ FrameDecoded)
  /\ WF_allVars(DrainRound) /\ WF_allVars(DrainReturns) /\ WF_allVars(DrainEnds)
  /\ WF_allVars(Deinit) /\ WF_allVars(Exit)

FairLifeSpec == LifeSpec /\ ShutdownFairness

-----------------------------------------------------------------------------
(* A transfer is freed under a pending callback only if libusb answered    *)
(* NOT_FOUND when it was cancelled: never because a cancellation failed,   *)
(* the drain ran out of rounds, a callback put the transfer in flight      *)
(* again, or mydaemon() left on an early way out.                          *)
NotFreedWhilePending ==
  phase \in {"out", "exited"} =>
    /\ "in" \notin allocated => inUrb = "idle" \/ "in" \in forgotten
    /\ "out" \notin allocated => tx.urb = "idle" \/ "out" \in forgotten

(* "libusb transfer pointers remain allocated while callbacks are pending" *)
(* (mochad.c:129), on every way out of mydaemon().                         *)
AllocatedWhilePending ==
  phase \in {"out", "exited"} =>
    /\ "in" \notin allocated => inUrb = "idle"
    /\ "out" \notin allocated => tx.urb = "idle"

(* A drain that succeeded leaves nothing behind but what NOT_FOUND made it *)
(* forget: no transfer in flight, no other pending callback, and neither a *)
(* callback during the drain nor anything after it submits one again.      *)
(* Both transfers are freed before the device is closed.                   *)
DrainedIsQuiet ==
  drained = "yes" =>
    /\ inUrb = "idle" \/ (inUrb \in Arrivals /\ "in" \in forgotten)
    /\ tx.urb = "idle" \/ (tx.urb \in Finished /\ "out" \in forgotten)
    /\ phase \in {"out", "exited"} => allocated = {}

(* The kernel driver that find_cm15a() detached is given back, or the exit *)
(* code tells that it is not: also when the second claim failed and "goto  *)
(* out" passed the reattach by.                                            *)
LostDriverIsReported == phase = "exited" /\ driver = "nobody" => r = "error"

(* Once libusb has accepted the cancellation of every active transfer,     *)
(* shutdown hands no more queued packets to the controller.  (After an     *)
(* error or NOT_FOUND it may: the OUT completion, ACK or frame that is     *)
(* still to come is handled like any other, mochad.c:1374-1460.)           *)
NoWriteAfterCancel ==
  [][phase = "drain" /\ ~refused => tx.urb = "wire" \/ tx'.urb # "wire"]_allVars

(* A drain ends, whether or not libusb and the controller cooperate.       *)
ShutdownEnds == phase = "drain" ~> phase = "exited"

(* "stopping after USB or poll error ... r = 1" (mochad.c:2000-2001), and  *)
(* the unit restarts mochad on-failure: an error exit is seen outside.     *)
ErrorExitIsReported == phase = "exited" /\ Do_exit = 2 => r = "error"
=============================================================================
