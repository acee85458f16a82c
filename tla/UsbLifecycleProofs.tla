------------------------- MODULE UsbLifecycleProofs -------------------------
(***************************************************************************)
(* Proofs about UsbLifecycle: every way through mydaemon(), for any number *)
(* of drain rounds, ring size and set of packets, either controller, and   *)
(* whatever libusb accepts, refuses or reports.  While the loop runs, and  *)
(* for the callbacks of shutdown's drain, the steps are X10Transmit's and  *)
(* X10TransmitProofs covers them; this module adds where mydaemon() is.    *)
(***************************************************************************)
EXTENDS UsbLifecycle, X10TransmitProofs

(* Both transfers are allocated exactly while mydaemon() may use them, and *)
(* libusb has none that is not allocated, but for those NOT_FOUND made     *)
(* shutdown forget.                                                        *)
Allocation ==
  /\ phase \in {"find", "endpoints", "alloc"} => allocated = {}
  /\ phase \in {"start", "pollfds", "up", "drain"} => allocated = {"in", "out"}
  /\ phase \in {"find", "endpoints", "alloc", "start"} => inUrb = "idle" /\ tx.urb = "idle"
  /\ "in" \notin allocated => inUrb = "idle" \/ "in" \in forgotten
  /\ "out" \notin allocated => tx.urb = "idle" \/ "out" \in forgotten

(* A forgotten transfer has finished and waits for its callback; of the    *)
(* others the flags tell the truth.                                        *)
Forgetting ==
  /\ forgotten # {} => phase \in {"drain", "deinit", "out", "exited"} /\ refused
  /\ "in" \in forgotten => inUrb \in Arrivals
  /\ "out" \in forgotten => tx.urb \in Finished
  /\ "out" \notin forgotten => Told(tx)

(* A decoder runs inside libusb_handle_events, the loop stops for a reason *)
(* and shutdown leaves it only to drain.                                   *)
Stopping ==
  /\ decoding => InEvents
  /\ loop = "stopped" => Do_exit # 0
  /\ phase = "drain" => loop \in {"stopped", "draining"} /\ Do_exit # 0
  /\ IntrIn_canceling => phase \in {"drain", "deinit", "out", "exited"}

(* What a drain that reported success leaves.                              *)
Drained ==
  /\ drained # "no" => phase \in {"deinit", "out", "exited"}
  /\ drained = "yes" =>
       /\ inUrb = "idle" \/ "in" \in forgotten
       /\ tx.urb = "idle" \/ "out" \in forgotten
       /\ ~IntrIn_canceling /\ ~tx.submitted /\ ~tx.canceling
       /\ phase \in {"out", "exited"} => allocated = {}

(* The interface is lost only on the way out, with an error.               *)
Lost == driver = "nobody" => phase \in {"out", "exited"} /\ r = "error"

(* After cancellations that libusb accepted nothing can release the queue: *)
(* no OUT transfer completes, no byte arrives and no decoder runs.         *)
Cancelled ==
  phase = "drain" /\ ~refused =>
    /\ inUrb \in {"idle", "waiting", "cancelled", "error"}
    /\ inUrb = "waiting" => IntrIn_canceling
    /\ ~decoding
    /\ tx.urb # "completed"
    /\ tx.urb = "wire" => tx.canceling

LifeIInv ==
  /\ IInv /\ LifeTypeOK
  /\ Allocation /\ Forgetting /\ Stopping /\ Drained /\ Lost /\ Cancelled

-----------------------------------------------------------------------------
(* mydaemon() starts with nothing allocated and nothing in flight.         *)
LEMMA InitLife == LifeInit => LifeIInv
<1> SUFFICES ASSUME LifeInit PROVE LifeIInv
  OBVIOUS
<1>1. InitTx \in TxState
  BY RingAssumption DEF InitTx, TxState, Slots, Urbs, Finished, Results
<1>2. 0 \in 0 .. MaxOwed /\ MaxEvents \in 0 .. MaxEvents
  BY OwedAssumption, EventsAssumption
<1>3. TypeOK
  BY <1>1, <1>2 DEF LifeInit, TypeOK, Arrivals, Loop
<1>4. /\ Sound(tx) /\ Spent(tx) /\ Paced(tx) /\ ~tx.canceling /\ tx.urb = "idle"
      /\ Told(tx)
  BY <1>1 DEF LifeInit, InitTx, Sound, Spent, Paced, Told
<1>5. IInv
  BY <1>3, <1>4 DEF IInv
<1>6. LifeTypeOK
  BY <1>2, <1>3 DEF LifeInit, LifeTypeOK, Phases
<1>7. QED
  BY <1>4, <1>5, <1>6
     DEF LifeIInv, LifeInit, Allocation, Forgetting, Stopping, Drained, Lost, Cancelled

-----------------------------------------------------------------------------
(* What the steps of X10Transmit do to the loop: a decoder does not        *)
(* outlive libusb_handle_events, the loop stops only once Do_exit is set,  *)
(* and nothing resets Do_exit or leaves the stopped loop.                  *)
LEMMA NextStopping ==
  ASSUME Next
  PROVE  /\ (decoding => InEvents) => (decoding' => InEvents')
         /\ (loop = "stopped" => Do_exit # 0) => (loop' = "stopped" => Do_exit' # 0)
         /\ Do_exit # 0 => Do_exit' # 0
         /\ loop \in {"stopped", "draining"} => loop' = loop
<1>1. ASSUME NEW accepts \in BOOLEAN, NEW c \in Cmds,
             \/ Transmit(c, accepts) \/ OutCallback(accepts)
             \/ InAck(accepts) \/ ChargeTimeout(accepts)
      PROVE  /\ decoding' = decoding /\ (Do_exit # 0 => Do_exit' # 0)
             /\ loop' = loop \/ (~decoding /\ loop = "events_timeout" /\ loop' = "head")
  BY <1>1 DEF Transmit, OutCallback, InAck, ChargeTimeout, Resubmit
<1>2. ASSUME \/ StartupDone \/ EnterPoll \/ PollTimesOut \/ PollReady \/ PollFails
             \/ StopLoop \/ sighandler
      PROVE  /\ decoding' = decoding /\ (Do_exit # 0 => Do_exit' # 0)
             /\ \/ loop' = loop
                \/ loop \in {"startup", "head", "poll"} /\ loop' # "stopped"
                \/ loop = "head" /\ loop' = "stopped" /\ Do_exit' # 0
  BY <1>2 DEF StartupDone, EnterPoll, PollTimesOut, PollReady, PollFails, StopLoop, sighandler
<1>3. ASSUME InByte \/ InFrame \/ FrameDecoded \/ InError
      PROVE  /\ decoding' => InEvents \/ decoding
             /\ loop' = loop /\ (Do_exit # 0 => Do_exit' # 0)
  BY <1>3 DEF InByte, InFrame, FrameDecoded, InError, Resubmit
<1>4. ASSUME ServeClients \/ ClientsServed \/ Controller
      PROVE  /\ decoding' = decoding /\ Do_exit' = Do_exit
             /\ \/ loop' = loop
                \/ ~decoding /\ loop = "events_ready" /\ loop' = "clients"
                \/ loop = "clients" /\ loop' = "head"
  BY <1>4 DEF ServeClients, ClientsServed, Controller, ControllerTakes, ControllerFails,
              ControllerAcks, ControllerForgets, ControllerReports
<1>5. CASE \E accepts \in BOOLEAN :
             \/ \E c \in Cmds : Transmit(c, accepts)
             \/ OutCallback(accepts) \/ InAck(accepts) \/ ChargeTimeout(accepts)
  BY <1>5, <1>1 DEF InEvents, Transmit, OutCallback, InAck, ChargeTimeout, Resubmit
<1>6. CASE \/ StartupDone \/ EnterPoll \/ PollTimesOut \/ PollReady \/ PollFails
           \/ StopLoop \/ sighandler
  BY <1>6, <1>2 DEF InEvents
<1>7. CASE InByte \/ InFrame \/ FrameDecoded \/ InError
  BY <1>7, <1>3 DEF InEvents
<1>8. CASE ServeClients \/ ClientsServed \/ Controller
  BY <1>8, <1>4 DEF InEvents
<1>9. QED
  BY <1>5, <1>6, <1>7, <1>8 DEF Next, Daemon

(* ... and what they may still do during a drain whose cancellations       *)
(* libusb accepted: run the callback of a cancelled or failed transfer, or *)
(* fail one that was on the wire.                                          *)
LEMMA NextCancelled ==
  ASSUME IInv, Next,
         Do_exit # 0, loop \in {"stopped", "draining"}, ~decoding,
         inUrb \in {"idle", "waiting", "cancelled", "error"},
         inUrb' \notin {"ack", "byte", "frame"},
         tx.urb # "completed", tx.urb = "wire" => tx.canceling
  PROVE  /\ inUrb' \in {"idle", "waiting", "cancelled", "error"}
         /\ inUrb' = "waiting" => inUrb = "waiting"
         /\ ~decoding'
         /\ tx'.urb # "completed"
         /\ tx'.urb = "wire" => tx.urb = "wire" /\ tx'.canceling
<1>1. tx \in TxState
  BY DEF IInv, TypeOK
<1>2. ASSUME NEW accepts \in BOOLEAN, OutCallback(accepts)
      PROVE  tx'.urb = "idle" /\ inUrb' = inUrb /\ decoding' = decoding
  BY <1>1, <1>2 DEF OutCallback, IntrOut_cb, TxState
<1>3. ASSUME NEW accepts \in BOOLEAN, NEW c \in Cmds
      PROVE  ~Transmit(c, accepts)
  BY DEF Transmit
<1>4. ASSUME NEW accepts \in BOOLEAN
      PROVE  ~InAck(accepts) /\ ~ChargeTimeout(accepts)
  BY DEF InAck, ChargeTimeout
<1>5. CASE StartupDone \/ EnterPoll \/ PollTimesOut \/ PollReady \/ PollFails \/ StopLoop \/ sighandler
  BY <1>5 DEF StartupDone, EnterPoll, PollTimesOut, PollReady, PollFails, StopLoop, sighandler
<1>6. CASE InByte \/ InFrame \/ FrameDecoded \/ InError
  BY <1>6 DEF InByte, InFrame, FrameDecoded, InError
<1>7. CASE ServeClients \/ ClientsServed
  BY <1>7 DEF ServeClients, ClientsServed
<1>8. CASE ControllerTakes \/ ControllerFails
  BY <1>1, <1>8 DEF ControllerTakes, ControllerFails, TxState
<1>9. CASE ControllerAcks \/ ControllerForgets \/ ControllerReports
  BY <1>9 DEF ControllerAcks, ControllerForgets, ControllerReports
<1>10. QED
  BY <1>2, <1>3, <1>4, <1>5, <1>6, <1>7, <1>8, <1>9 DEF Next, Daemon, Controller

-----------------------------------------------------------------------------
(* cancel_transfer_if_active() leaves no flag that claims more than libusb *)
(* has, and one that claims less only after NOT_FOUND.                     *)
LEMMA CancelOut ==
  ASSUME NEW s \in TxState, Sound(s), Told(s),
         NEW answer \in CancelAnswers(s.urb = "wire")
  PROVE  LET t == cancel_out(s, answer)
         IN  /\ Sound(t) /\ t.urb = s.urb
             /\ (s.submitted /\ answer = "not_found") \/ Told(t)
             /\ s.submitted /\ answer = "not_found" => s.urb \in Finished
             /\ (s.submitted => answer = "ok") =>
                  t.urb # "completed" /\ (t.urb = "wire" => t.canceling)
<1> DEFINE t == cancel_out(s, answer)
<1>1. /\ answer \in {"ok", "not_found", "error"}
      /\ answer = "ok" => s.urb = "wire"
      /\ answer = "not_found" => s.urb # "wire"
  BY DEF CancelAnswers
<1>2. s.urb = "idle" \/ s.urb = "wire" \/ s.urb \in Finished
  BY DEF TxState, Urbs
<1>3. CASE ~s.submitted \/ answer = "error"
  <2>1. t = s
    BY <1>1, <1>3 DEF cancel_out, Sound
  <2>2. QED
    BY <1>1, <1>2, <1>3, <2>1 DEF Told, Finished
<1>4. CASE s.submitted /\ answer # "error"
  <2>1. /\ answer = "ok" => t = [s EXCEPT !.canceling = TRUE]
        /\ answer = "not_found" =>
             t = [s EXCEPT !.submitted = FALSE, !.canceling = FALSE]
    BY <1>1, <1>4 DEF cancel_out
  <2>2. /\ t \in TxState /\ t.urb = s.urb /\ t.completed = s.completed /\ t.rc = s.rc
        /\ t.Outbusy = s.Outbusy /\ t.PollTimeOut = s.PollTimeOut
        /\ t.Outhead = s.Outhead /\ t.Outtail = s.Outtail
        /\ answer = "ok" => t.canceling = TRUE /\ t.submitted = s.submitted
        /\ answer = "not_found" => t.canceling = FALSE /\ t.submitted = FALSE
    BY <1>1, <1>4, <2>1 DEF TxState
  <2> HIDE DEF t
  <2>3. Sound(t) /\ (answer = "ok" => Told(t))
    BY <1>1, <1>4, <2>2 DEF Sound, Told
  <2>4. QED
    BY <1>1, <1>2, <1>4, <2>2, <2>3 DEF Sound, t
<1>5. QED
  BY <1>1, <1>3, <1>4

(* One lemma per kind of step.  First the steps that leave the transmit    *)
(* state and the loop alone: startup, out_deinit and out.                  *)
LEMMA StepStartup ==
  ASSUME LifeIInv, Startup \/ Deinit \/ Exit
  PROVE  LifeIInv'
<1> USE DEF LifeIInv
<1>1. CASE FindController
  <2>3. IInv'
    BY <1>1, TxUntouched DEF FindController, vars, IInv, TypeOK
  <2>4. /\ phase' \in {"endpoints", "out"} /\ driver' \in {"kernel", "mochad", "nobody"}
        /\ r' \in {"ok", "error"} /\ Reattach' \in BOOLEAN
        /\ UNCHANGED <<allocated, IntrIn_canceling, drained, max_events, forgotten, refused>>
    BY <1>1 DEF FindController, LifeTypeOK, cancelVars
  <2>1. IInv' /\ LifeTypeOK'
    BY <2>3, <2>4 DEF LifeTypeOK, IInv, Phases, cancelVars
  <2>2. QED
    BY <1>1, <2>1 DEF FindController, vars, cancelVars, Allocation, Forgetting, Told, Stopping, InEvents, Drained,
                      Lost, Cancelled
<1>2. CASE GetEndpoints
  <2>1. IInv' /\ LifeTypeOK'
    BY <1>2, TxUntouched DEF GetEndpoints, vars, LifeTypeOK, TypeOK, Phases, cancelVars
  <2>2. QED
    BY <1>2, <2>1 DEF GetEndpoints, vars, cancelVars, Allocation, Forgetting, Told, Stopping, InEvents, Drained,
                      Lost, Cancelled
<1>3. CASE AllocTransfers
  <2>1. IInv' /\ LifeTypeOK'
    BY <1>3, TxUntouched DEF AllocTransfers, vars, LifeTypeOK, TypeOK, Phases, cancelVars
  <2>2. QED
    BY <1>3, <2>1 DEF AllocTransfers, vars, cancelVars, Allocation, Forgetting, Told, Stopping, InEvents, Drained,
                      Lost, Cancelled
<1>4. CASE StartTransfers
  <2>1. IInv' /\ LifeTypeOK'
    BY <1>4, TxUntouched DEF StartTransfers, LifeTypeOK, TypeOK, Phases, cancelVars
  <2>2. QED
    BY <1>4, <2>1 DEF StartTransfers, cancelVars, Allocation, Forgetting, Told, Stopping, InEvents, Drained,
                      Lost, Cancelled
<1>5. CASE InitializePollfds
  <2>1. IInv' /\ LifeTypeOK'
    BY <1>5, TxUntouched DEF InitializePollfds, vars, LifeTypeOK, TypeOK, Phases, cancelVars
  <2>2. QED
    BY <1>5, <2>1 DEF InitializePollfds, vars, cancelVars, Allocation, Forgetting, Told, Stopping, InEvents, Drained,
                      Lost, Cancelled
<1>6. CASE ListenersFail
  <2>1. IInv' /\ LifeTypeOK'
    BY <1>6, TxUntouched DEF ListenersFail, vars, LifeTypeOK, TypeOK, Phases, cancelVars
  <2>2. QED
    BY <1>6, <2>1 DEF ListenersFail, vars, cancelVars, Allocation, Forgetting, Told, Stopping, InEvents, Drained,
                      Lost, Cancelled
<1>7. CASE Deinit
  <2>1. tx \in TxState /\ Sound(tx)
    BY DEF IInv, TypeOK
  <2>2. IInv' /\ LifeTypeOK'
    BY <1>7, TxUntouched DEF Deinit, vars, LifeTypeOK, TypeOK, Phases, cancelVars
  <2>3. /\ "in" \notin allocated' => inUrb = "idle" \/ "in" \in forgotten
        /\ "out" \notin allocated' => tx.urb = "idle" \/ "out" \in forgotten
    BY <1>7, <2>1 DEF Deinit, Allocation, Forgetting, Told, In_active, IntrIn_submitted,
                      Out_active
  <2>4. drained = "yes" => allocated' = {}
    BY <1>7, <2>1 DEF Deinit, Drained, In_active, IntrIn_submitted, Out_active, LifeTypeOK
  <2>5. QED
    BY <1>7, <2>2, <2>3, <2>4 DEF Deinit, vars, cancelVars, Allocation, Forgetting, Told, Stopping, InEvents, Drained,
                                  Lost, Cancelled
<1>8. CASE Exit
  <2>1. IInv' /\ LifeTypeOK'
    BY <1>8, TxUntouched DEF Exit, vars, LifeTypeOK, TypeOK, Phases, cancelVars
  <2>2. QED
    BY <1>8, <2>1 DEF Exit, vars, cancelVars, Allocation, Forgetting, Told, Stopping, InEvents, Drained, Lost, Cancelled
<1>9. QED
  BY <1>1, <1>2, <1>3, <1>4, <1>5, <1>6, <1>7, <1>8 DEF Startup

(* The callbacks of a drain whose cancellations libusb accepted.           *)
LEMMA LoopsCancelled ==
  ASSUME LifeIInv, Loops, phase = "drain", ~refused
  PROVE  /\ inUrb' \in {"idle", "waiting", "cancelled", "error"}
         /\ inUrb' = "waiting" => inUrb = "waiting" /\ IntrIn_canceling
         /\ ~decoding'
         /\ tx'.urb # "completed"
         /\ tx'.urb = "wire" => tx.urb = "wire" /\ tx'.canceling
<1>1. /\ Next /\ IInv
      /\ IntrIn_canceling => inUrb' \notin {"ack", "byte", "frame"}
  BY DEF Loops, LifeIInv
<1>2. /\ ~decoding /\ Do_exit # 0 /\ loop \in {"stopped", "draining"}
      /\ inUrb \in {"idle", "waiting", "cancelled", "error"}
      /\ inUrb = "waiting" => IntrIn_canceling
      /\ tx.urb # "completed" /\ (tx.urb = "wire" => tx.canceling)
  BY DEF LifeIInv, Cancelled, Stopping
<1>3. inUrb' \notin {"ack", "byte", "frame"}
  <2>1. CASE inUrb = "waiting"
    BY <1>1, <1>2, <2>1
  <2>2. CASE inUrb # "waiting"
    <3>1. inUrb' \in {inUrb, "idle"}
      BY <1>1, <1>2, <2>2 DEF Next, Daemon, Controller, Transmit, OutCallback, InAck,
            ChargeTimeout, StartupDone, EnterPoll, PollTimesOut, PollReady, PollFails,
            StopLoop, sighandler, InByte, InFrame, FrameDecoded, InError, ServeClients,
            ClientsServed, ControllerTakes, ControllerFails, ControllerAcks,
            ControllerForgets, ControllerReports, Resubmit
    <3>2. QED
      BY <1>2, <3>1
  <2>3. QED
    BY <2>1, <2>2
<1>4. QED
  BY <1>1, <1>2, <1>3, NextCancelled

(* The loop and the callbacks.                                             *)
LEMMA StepLoops ==
  ASSUME LifeIInv, Loops
  PROVE  LifeIInv'
<1> USE DEF LifeIInv
<1>1. /\ Next /\ phase \in {"up", "drain"} /\ phase' = phase
      /\ UNCHANGED <<allocated, drained, max_events, Reattach, driver, r, refused>>
      /\ forgotten' = StillForgotten
      /\ IntrIn_canceling => inUrb' \notin {"ack", "byte", "frame"}
      /\ IntrIn_canceling' = (IntrIn_canceling /\ inUrb' # "idle")
  BY DEF Loops
<1>2. IInv'
  BY <1>1, StepIInv
<1>3. LifeTypeOK'
  BY <1>1, <1>2 DEF LifeTypeOK, IInv, StillForgotten
<1>4. Allocation' /\ Drained' /\ Lost'
  BY <1>1 DEF Allocation, Drained, Lost
<1>8. Forgetting'
  <2>1. KeepsTold(tx, tx')
    BY <1>1, StepTold
  <2>2. "out" \notin forgotten' => Told(tx)'
    BY <1>1, <2>1 DEF Forgetting, StillForgotten, KeepsTold
  <2>3. "in" \in forgotten' => inUrb' \in Arrivals
    <3>1. SUFFICES ASSUME "in" \in forgotten, inUrb' # "idle" PROVE inUrb' = inUrb
      BY <1>1 DEF Forgetting, StillForgotten
    <3>2. phase = "drain" /\ Do_exit # 0 /\ inUrb \in Arrivals
      BY <1>1, <3>1 DEF Forgetting, Stopping
    <3>3. QED
      BY <1>1, <3>1, <3>2 DEF Arrivals, Next, Daemon, Controller, Transmit, OutCallback, InAck,
            ChargeTimeout, StartupDone, EnterPoll, PollTimesOut, PollReady, PollFails,
            StopLoop, sighandler, InByte, InFrame, FrameDecoded, InError, ServeClients,
            ClientsServed, ControllerTakes, ControllerFails, ControllerAcks,
            ControllerForgets, ControllerReports, Resubmit
  <2>4. QED
    BY <1>1, <2>2, <2>3 DEF Forgetting, StillForgotten
<1>5. Stopping'
  BY <1>1, NextStopping DEF Stopping, LifeTypeOK
<1>6. Cancelled'
  <2>1. SUFFICES ASSUME phase = "drain", ~refused PROVE Cancelled'
    BY <1>1 DEF Cancelled
  <2>2. QED
    BY <1>1, <2>1, LoopsCancelled DEF Cancelled, LifeTypeOK
<1>7. QED
  BY <1>2, <1>3, <1>4, <1>5, <1>6, <1>8

(* Shutdown's cancellations and its drain.                                 *)
LEMMA StepDrain ==
  ASSUME LifeIInv,
         \/ CancelTransfers \/ OutCancelled \/ InCancellation \/ InCancelled
         \/ DrainRound \/ DrainReturns \/ DrainEnds
  PROVE  LifeIInv'
<1> USE DEF LifeIInv
<1>0. tx \in TxState /\ Sound(tx)
  BY DEF IInv, TypeOK
<1>1. CASE CancelTransfers
  <2>1. PICK out \in CancelAnswers(tx.urb = "wire"), in \in CancelAnswers(inUrb = "waiting") :
          /\ tx' = cancel_out(tx, out)
          /\ IntrIn_canceling' = (In_active /\ in = "ok")
          /\ forgotten' = {t \in {"in", "out"} :
                             \/ t = "in" /\ In_active /\ in = "not_found"
                             \/ t = "out" /\ Out_active /\ out = "not_found"}
          /\ refused' = ((Out_active /\ out # "ok") \/ (In_active /\ in # "ok"))
    BY <1>1 DEF CancelTransfers
  <2>2. /\ phase = "up" /\ loop = "stopped" /\ phase' = "drain" /\ loop' = loop
        /\ UNCHANGED <<inUrb, decoding, Do_exit, owed, allocated, drained, max_events,
                       Reattach, driver, r>>
    BY <1>1 DEF CancelTransfers
  <2>3. Do_exit # 0 /\ ~decoding /\ ~IntrIn_canceling /\ Told(tx) /\ forgotten = {}
    BY <2>2 DEF Stopping, InEvents, Forgetting, LifeTypeOK
  <2>9. /\ Out_active = tx.submitted /\ In_active = (inUrb # "idle")
        /\ in = "ok" => inUrb = "waiting"
        /\ in = "not_found" => inUrb # "waiting"
    BY <1>0, <2>3 DEF Out_active, In_active, IntrIn_submitted, Sound, TxState, CancelAnswers
  <2>4. /\ Sound(tx') /\ tx'.urb = tx.urb
        /\ (tx.submitted /\ out = "not_found") \/ Told(tx)'
        /\ tx.submitted /\ out = "not_found" => tx.urb \in Finished
        /\ (tx.submitted => out = "ok") =>
             tx'.urb # "completed" /\ (tx'.urb = "wire" => tx'.canceling)
    BY <1>0, <2>1, <2>3, CancelOut
  <2>5. TypeOK' /\ LifeTypeOK'
    <3>1. TypeOK'
      BY <1>0, <2>1, <2>2, <2>4 DEF IInv, TypeOK, Sound
    <3>2. In_active \in BOOLEAN /\ Out_active \in BOOLEAN
      BY <1>0 DEF In_active, IntrIn_submitted, Out_active, LifeTypeOK, TxState
    <3>3. refused' \in BOOLEAN /\ IntrIn_canceling' \in BOOLEAN /\ forgotten' \subseteq {"in", "out"}
      BY <2>1, <3>2
    <3>4. QED
      BY <2>2, <3>1, <3>3 DEF LifeTypeOK, Phases
  <2>6. IInv'
    BY <2>2, <2>3, <2>4, <2>5 DEF IInv
  <2>10. Forgetting'
    <3>1. "in" \in forgotten' => inUrb' \in Arrivals
      BY <2>1, <2>2, <2>9 DEF IInv, TypeOK
    <3>2. "out" \in forgotten' => tx'.urb \in Finished
      BY <2>1, <2>4, <2>9
    <3>3. "out" \notin forgotten' => Told(tx)'
      BY <2>1, <2>4, <2>9
    <3>4. forgotten' # {} => refused'
      BY <2>1
    <3>5. QED
      BY <2>2, <3>1, <3>2, <3>3, <3>4 DEF Forgetting
  <2>7. Cancelled'
    <3>1. SUFFICES ASSUME ~refused' PROVE Cancelled'
      BY DEF Cancelled
    <3>2. /\ tx.submitted => out = "ok"
          /\ inUrb # "idle" => in = "ok"
      BY <2>1, <2>9, <3>1
    <3>3. /\ tx'.urb # "completed"
          /\ tx'.urb = "wire" => tx'.canceling
      BY <2>4, <3>2
    <3>4. /\ inUrb' \in {"idle", "waiting"}
          /\ inUrb' = "waiting" => IntrIn_canceling'
      BY <2>1, <2>2, <2>9, <3>2
    <3>5. QED
      BY <2>2, <2>3, <3>3, <3>4 DEF Cancelled
  <2>8. QED
    BY <2>2, <2>3, <2>5, <2>6, <2>7, <2>10
       DEF Allocation, Stopping, InEvents, Drained, Lost
<1>2. CASE OutCancelled
  <2>1. /\ phase = "drain" /\ tx.urb = "wire" /\ tx' = [tx EXCEPT !.urb = "cancelled"]
        /\ UNCHANGED <<inUrb, decoding, loop, Do_exit, owed, lifeVars>>
        /\ tx.canceling
    BY <1>2 DEF OutCancelled
  <2>2. /\ tx' \in TxState /\ tx'.urb = "cancelled" /\ tx'.canceling = tx.canceling
        /\ tx'.submitted = tx.submitted /\ tx'.completed = tx.completed
        /\ tx'.rc = tx.rc /\ tx'.Outbusy = tx.Outbusy /\ tx'.PollTimeOut = tx.PollTimeOut
        /\ tx'.Outhead = tx.Outhead /\ tx'.Outtail = tx.Outtail
    BY <1>0, <2>1 DEF TxState, Urbs, Finished
  <2>3. Sound(tx')
    BY <1>0, <2>1, <2>2 DEF Sound
  <2>4. Do_exit # 0
    BY <2>1 DEF Stopping
  <2>5. IInv' /\ LifeTypeOK'
    BY <2>1, <2>2, <2>3, <2>4 DEF IInv, LifeTypeOK, TypeOK, lifeVars
  <2>6. QED
    BY <2>1, <2>2, <2>5 DEF lifeVars, Allocation, Forgetting, Told, Stopping, InEvents, Drained,
                            Lost, Cancelled, Finished
<1>3. CASE InCancellation
  <2>1. IInv' /\ LifeTypeOK'
    BY <1>3, TxUntouched DEF InCancellation, lifeVars, LifeTypeOK, TypeOK, Arrivals
  <2>2. QED
    BY <1>3, <2>1 DEF InCancellation, lifeVars, Arrivals, Allocation, Forgetting, Told, Stopping, InEvents, Drained,
                      Lost, Cancelled
<1>4. CASE InCancelled
  <2>1. IInv' /\ LifeTypeOK'
    BY <1>4, TxUntouched DEF InCancelled, StillForgotten, LifeTypeOK, TypeOK
  <2>2. QED
    BY <1>4, <2>1 DEF InCancelled, StillForgotten, Allocation, Forgetting, Told, Stopping, InEvents, Drained, Lost, Cancelled
<1>5. CASE DrainRound
  <2>1. max_events' \in 0 .. MaxEvents
    BY <1>5, EventsAssumption DEF DrainRound, LifeTypeOK
  <2>2. IInv' /\ LifeTypeOK'
    BY <1>5, <2>1, TxUntouched DEF DrainRound, cancelVars, LifeTypeOK, TypeOK, Loop
  <2>3. QED
    BY <1>5, <2>2 DEF DrainRound, cancelVars, Allocation, Forgetting, Told, Stopping, InEvents, Drained, Lost, Cancelled
<1>6. CASE DrainReturns
  <2>1. IInv' /\ LifeTypeOK'
    BY <1>6, TxUntouched DEF DrainReturns, lifeVars, LifeTypeOK, TypeOK, Loop
  <2>2. QED
    BY <1>6, <2>1 DEF DrainReturns, lifeVars, Allocation, Forgetting, Told, Stopping, InEvents, Drained,
                      Lost, Cancelled
<1>7. CASE DrainEnds
  <2>1. IInv' /\ LifeTypeOK'
    BY <1>7, TxUntouched DEF DrainEnds, cancelVars, LifeTypeOK, TypeOK, Loop, Phases
  <2>2. ~decoding
    BY <1>7 DEF DrainEnds, Stopping, InEvents
  <2>3. drained' = "yes" =>
          /\ inUrb = "idle" \/ "in" \in forgotten
          /\ tx.urb = "idle" \/ "out" \in forgotten
          /\ ~IntrIn_canceling /\ ~tx.submitted /\ ~tx.canceling
    BY <1>0, <1>7 DEF DrainEnds, In_active, IntrIn_submitted, Out_active, Forgetting, Told
  <2>4. QED
    BY <1>7, <2>1, <2>2, <2>3 DEF DrainEnds, cancelVars, Allocation, Forgetting, Told, Stopping, InEvents, Drained,
                                  Lost, Cancelled
<1>8. QED
  BY <1>1, <1>2, <1>3, <1>4, <1>5, <1>6, <1>7

(* Any step of the daemon's life.                                          *)
LEMMA StepLife == LifeIInv /\ [LifeNext]_allVars => LifeIInv'
<1> SUFFICES ASSUME LifeIInv, [LifeNext]_allVars PROVE LifeIInv'
  OBVIOUS
<1>1. CASE UNCHANGED allVars
  <2>1. UNCHANGED vars /\ UNCHANGED lifeVars
    BY <1>1 DEF allVars
  <2>2. IInv' /\ LifeTypeOK'
    BY <2>1, TxUntouched DEF LifeIInv, vars, lifeVars, LifeTypeOK, TypeOK
  <2>3. QED
    BY <2>1, <2>2 DEF LifeIInv, vars, lifeVars, Allocation, Forgetting, Told, Stopping,
                      InEvents, Drained, Lost, Cancelled
<1>2. QED
  BY <1>1, StepStartup, StepLoops, StepDrain DEF LifeNext, Shutdown

(* The invariant holds throughout.                                         *)
LEMMA LifeInvariance == LifeSpec => []LifeIInv
BY InitLife, StepLife, PTL DEF LifeSpec

-----------------------------------------------------------------------------
(* Every field keeps its range on every way through mydaemon()             *)
(* (mochad.c:1724-2055).                                                   *)
THEOREM LifeTypeCorrect == LifeSpec => []LifeTypeOK
<1>1. LifeIInv => LifeTypeOK
  BY DEF LifeIInv
<1>2. QED
  BY <1>1, LifeInvariance, PTL

(* A transfer with a pending callback is freed only after libusb answered  *)
(* NOT_FOUND to its cancellation (mochad.c:1172-1176), never because a     *)
(* cancellation failed or the drain ran out of rounds.                     *)
THEOREM NotFreed == LifeSpec => []NotFreedWhilePending
<1>1. LifeIInv => NotFreedWhilePending
  BY DEF LifeIInv, Allocation, NotFreedWhilePending
<1>2. QED
  BY <1>1, LifeInvariance, PTL

(* A drain that ended with nothing active stays quiet, but for the         *)
(* callbacks NOT_FOUND made it forget, and frees both transfers (cancel,   *)
(* drain and free: mochad.c:1164-1227).                                    *)
THEOREM DrainQuiet == LifeSpec => []DrainedIsQuiet
<1>1. LifeIInv => DrainedIsQuiet
  BY DEF LifeIInv, Drained, Forgetting, DrainedIsQuiet
<1>2. QED
  BY <1>1, LifeInvariance, PTL

(* A kernel driver that is not given back is told by r, the exit code.     *)
THEOREM LostReported == LifeSpec => []LostDriverIsReported
<1>1. LifeIInv => LostDriverIsReported
  BY DEF LifeIInv, Lost, LostDriverIsReported
<1>2. QED
  BY <1>1, LifeInvariance, PTL

(* OUT completion alone paces a CM19A during its whole life, startup       *)
(* packets and shutdown included (mochad.c:288-297).                       *)
THEOREM LifePaced == LifeSpec => []Cm19aPacedByCompletion
<1>1. LifeIInv => Cm19aPacedByCompletion
  BY IInvImplies DEF LifeIInv
<1>2. QED
  BY <1>1, LifeInvariance, PTL

(* When libusb accepted the cancellation of every active transfer shutdown *)
(* hands it no queued packet: no completion, ACK or decoder is left to     *)
(* release the queue (mochad.c:1371-1455).                                 *)
THEOREM QuietAfterCancel == LifeSpec => NoWriteAfterCancel
<1>1. ASSUME LifeIInv, [LifeNext]_allVars
      PROVE  [phase = "drain" /\ ~refused =>
                tx.urb = "wire" \/ tx'.urb # "wire"]_allVars
  <2>1. SUFFICES ASSUME phase = "drain", ~refused, tx.urb # "wire"
                 PROVE  tx'.urb # "wire" \/ UNCHANGED allVars
    OBVIOUS
  <2>2. CASE Loops
    BY <2>1, <2>2, <1>1, LoopsCancelled
  <2>3. CASE OutCancelled \/ InCancellation \/ InCancelled \/ DrainRound
             \/ DrainReturns \/ DrainEnds
    BY <2>1, <2>3 DEF OutCancelled, InCancellation, InCancelled, DrainRound,
                      DrainReturns, DrainEnds
  <2>4. CASE Startup \/ CancelTransfers \/ Deinit \/ Exit
    BY <2>1, <2>4 DEF Startup, FindController, GetEndpoints, AllocTransfers,
          StartTransfers, InitializePollfds, ListenersFail, CancelTransfers, Deinit, Exit
  <2>5. QED
    BY <1>1, <2>2, <2>3, <2>4 DEF LifeNext, Shutdown
<1>2. QED
  BY <1>1, LifeInvariance, PTL DEF LifeSpec, NoWriteAfterCancel

-----------------------------------------------------------------------------
(* What is left of a shutdown: the rounds of the drain, each with its      *)
(* return, then the drain's end, out_deinit and out.                       *)
Ending == {"drain", "deinit", "out", "exited"}

ShutdownLeft ==
  CASE phase = "drain"  -> 2 * max_events + 3 + (IF loop = "draining" THEN 1 ELSE 0)
    [] phase = "deinit" -> 2
    [] phase = "out"    -> 1
    [] phase = "exited" -> 0

MydaemonStep == DrainRound \/ DrainReturns \/ DrainEnds \/ Deinit \/ Exit

ShutdownAdvances ==
  phase \in Ending =>
    /\ phase' \in Ending
    /\ MydaemonStep => ShutdownLeft' < ShutdownLeft
    /\ ~MydaemonStep => ShutdownLeft' = ShutdownLeft

LeftIsBounded == phase \in Ending => ShutdownLeft \in 0 .. 2 * MaxEvents + 4

(* The rounds left are a number the drain's bound limits.                  *)
LEMMA ShutdownBound == LifeTypeOK => LeftIsBounded
<1> SUFFICES ASSUME LifeTypeOK, phase \in Ending
             PROVE  ShutdownLeft \in 0 .. 2 * MaxEvents + 4
  BY DEF LeftIsBounded
<1>1. max_events \in Nat /\ MaxEvents \in Nat /\ max_events <= MaxEvents
  BY EventsAssumption DEF LifeTypeOK
<1>2. CASE phase = "drain"
  BY <1>1, <1>2 DEF ShutdownLeft
<1>3. CASE phase \in {"deinit", "out", "exited"}
  BY <1>1, <1>3 DEF ShutdownLeft
<1>4. QED
  BY <1>2, <1>3 DEF Ending

(* A callback, or what libusb finishes, leaves mydaemon() where it is.     *)
LEMMA CallbacksKeepPlace ==
  ASSUME LifeIInv, phase \in Ending,
         \/ Loops \/ OutCancelled \/ InCancellation \/ InCancelled \/ UNCHANGED allVars
  PROVE  UNCHANGED <<phase, loop, max_events>>
<1>1. CASE Loops
  <2>1. phase = "drain" /\ Next /\ UNCHANGED <<phase, max_events>>
    BY <1>1 DEF Loops, Ending
  <2>2. loop \in {"stopped", "draining"}
    BY <2>1 DEF LifeIInv, Stopping
  <2>3. QED
    BY <2>1, <2>2, NextStopping
<1>2. CASE OutCancelled \/ InCancellation \/ InCancelled
  BY <1>2 DEF OutCancelled, InCancellation, InCancelled, lifeVars
<1>3. CASE UNCHANGED allVars
  BY <1>3 DEF allVars, vars, lifeVars
<1>4. QED
  BY <1>1, <1>2, <1>3

(* Each step of mydaemon() uses up part of what is left.                   *)
LEMMA OwnStepsAdvance ==
  ASSUME LifeIInv, phase \in Ending, MydaemonStep
  PROVE  phase' \in Ending /\ ShutdownLeft' < ShutdownLeft
<1>1. max_events \in Nat
  BY EventsAssumption DEF LifeIInv, LifeTypeOK
<1>2. CASE DrainRound
  <2>1. /\ phase = "drain" /\ phase' = "drain" /\ loop = "stopped" /\ loop' = "draining"
        /\ max_events > 0 /\ max_events' = max_events - 1
    BY <1>2 DEF DrainRound
  <2>2. ShutdownLeft = 2 * max_events + 3 /\ ShutdownLeft' = 2 * max_events' + 4
    BY <1>1, <2>1 DEF ShutdownLeft
  <2>3. QED
    BY <1>1, <2>1, <2>2 DEF Ending
<1>3. CASE DrainReturns
  <2>1. /\ phase = "drain" /\ phase' = "drain" /\ loop = "draining" /\ loop' = "stopped"
        /\ max_events' = max_events
    BY <1>3 DEF DrainReturns, lifeVars
  <2>2. ShutdownLeft = 2 * max_events + 4 /\ ShutdownLeft' = 2 * max_events + 3
    BY <1>1, <2>1 DEF ShutdownLeft
  <2>3. QED
    BY <1>1, <2>1, <2>2 DEF Ending
<1>4. CASE DrainEnds
  <2>1. phase = "drain" /\ phase' = "deinit"
    BY <1>4 DEF DrainEnds
  <2>2. ShutdownLeft >= 3 /\ ShutdownLeft' = 2 /\ ShutdownLeft \in Nat
    BY <1>1, <2>1 DEF ShutdownLeft
  <2>3. QED
    BY <2>1, <2>2 DEF Ending
<1>5. CASE Deinit
  BY <1>5 DEF Deinit, ShutdownLeft, Ending
<1>6. CASE Exit
  BY <1>6 DEF Exit, ShutdownLeft, Ending
<1>7. QED
  BY <1>2, <1>3, <1>4, <1>5, <1>6 DEF MydaemonStep

(* Shutdown goes one way and has an end: from the cancellations on,        *)
(* mydaemon() has at most 2 * MaxEvents + 4 steps left, each of its steps  *)
(* (drain_cancelled_transfers, out_deinit, out: mochad.c:1189-1212,        *)
(* 1993-2047) lessens them, and no callback, late transfer, refused        *)
(* cancellation or signal gives one back.                                  *)
THEOREM ShutdownIsBounded == LifeSpec => []LeftIsBounded /\ [][ShutdownAdvances]_allVars
<1>1. LifeIInv => LeftIsBounded
  BY ShutdownBound DEF LifeIInv
<1>2. ASSUME LifeIInv, [LifeNext]_allVars
      PROVE  [ShutdownAdvances]_allVars
  <2>1. SUFFICES ASSUME phase \in Ending, LifeNext PROVE ShutdownAdvances
    BY <1>2 DEF ShutdownAdvances
  <2>2. CASE MydaemonStep
    BY <1>2, <2>1, <2>2, OwnStepsAdvance DEF ShutdownAdvances
  <2>3. CASE ~MydaemonStep
    <3>1. \/ Loops \/ OutCancelled \/ InCancellation \/ InCancelled
      BY <2>1, <2>3
         DEF LifeNext, Startup, Shutdown, MydaemonStep, Ending, FindController,
             GetEndpoints, AllocTransfers, StartTransfers, InitializePollfds,
             ListenersFail, CancelTransfers
    <3>2. UNCHANGED <<phase, loop, max_events>>
      BY <1>2, <2>1, <3>1, CallbacksKeepPlace
    <3>3. ShutdownLeft' = ShutdownLeft
      BY <3>2 DEF ShutdownLeft
    <3>4. QED
      BY <2>1, <2>3, <3>2, <3>3 DEF ShutdownAdvances
  <2>4. QED
    BY <2>2, <2>3
<1>3. QED
  BY <1>1, <1>2, LifeInvariance, PTL DEF LifeSpec

-----------------------------------------------------------------------------
(* The FIFO of the transmit path holds from startup to exit: shutdown      *)
(* moves no packet, a cancelled transfer is one the controller is done     *)
(* with (mochad.c:1164-1227).                                              *)
LEMMA CancelFifo ==
  ASSUME NEW s \in TxState, Sound(s),
         NEW answer \in CancelAnswers(s.urb = "wire"),
         cancel_out(s, answer) \in TxState
  PROVE  SameFifo(s, cancel_out(s, answer))
<1> DEFINE t == cancel_out(s, answer)
<1>1. answer \in {"ok", "not_found", "error"}
  BY DEF CancelAnswers
<1>2. \/ t = s
      \/ t = [s EXCEPT !.canceling = TRUE]
      \/ t = [s EXCEPT !.submitted = FALSE, !.canceling = FALSE]
  BY <1>1 DEF cancel_out
<1>3. /\ t.sent = s.sent /\ t.Outbusy = s.Outbusy /\ t.urb = s.urb
      /\ t.Outrecs = s.Outrecs /\ t.Outhead = s.Outhead /\ t.Outtail = s.Outtail
  BY <1>2 DEF TxState
<1> HIDE DEF t
<1>4. t \in TxState
  BY DEF t
<1>5. SameFifo(s, t)
  BY <1>3, <1>4, SameRing DEF SameFifo
<1>6. QED
  BY <1>5 DEF t

(* A step of the life is a step of the FIFO or leaves it alone.            *)
LEMMA StepLifeFifo ==
  LifeIInv /\ LifeIInv' /\ [LifeNext]_allVars => [Fifo!Next]_Fifo!fifo
<1> SUFFICES ASSUME LifeIInv, LifeIInv', [LifeNext]_allVars
             PROVE  [Fifo!Next]_Fifo!fifo
  OBVIOUS
<1>1. /\ IInv /\ IInv' /\ tx \in TxState /\ tx' \in TxState /\ Sound(tx)
      /\ Queued = Queue(tx) /\ Queued' = Queue(tx')
  BY DEF LifeIInv, IInv, TypeOK, Queued, Queue, Count
<1>2. ASSUME SameFifo(tx, tx') PROVE UNCHANGED Fifo!fifo
  BY <1>1, <1>2 DEF SameFifo, Fifo!fifo
<1>3. CASE Loops
  BY <1>1, <1>3, StepFifo DEF Loops
<1>4. CASE CancelTransfers
  <2>1. PICK out \in CancelAnswers(tx.urb = "wire") : tx' = cancel_out(tx, out)
    BY <1>4 DEF CancelTransfers
  <2>2. QED
    BY <1>1, <1>2, <2>1, CancelFifo
<1>5. CASE OutCancelled
  <2>1. tx.urb = "wire" /\ tx' = [tx EXCEPT !.urb = "cancelled"]
    BY <1>5 DEF OutCancelled
  <2>2. Completes(tx, tx')
    BY <1>1, <2>1, SameRing DEF Completes, TxState
  <2>3. QED
    BY <1>1, <2>2 DEF Completes, Fifo!Finish, Fifo!Next
<1>6. CASE \/ Startup \/ InCancellation \/ InCancelled \/ DrainRound \/ DrainReturns
           \/ DrainEnds \/ Deinit \/ Exit \/ UNCHANGED allVars
  <2>1. tx' = tx
    BY <1>6 DEF Startup, FindController, GetEndpoints, AllocTransfers, StartTransfers,
                InitializePollfds, ListenersFail, InCancellation, InCancelled, DrainRound,
                DrainReturns, DrainEnds, Deinit, Exit, allVars, vars
  <2>2. QED
    BY <1>2, <2>1 DEF SameFifo
<1>7. QED
  BY <1>3, <1>4, <1>5, <1>6 DEF LifeNext, Shutdown

(* No packet x10_write() accepted is lost, sent twice or overtaken in a    *)
(* whole life of the daemon.                                               *)
THEOREM LifeRefinement == LifeSpec => ImplementsFifo
<1>1. LifeInit => Fifo!Init
  <2> SUFFICES ASSUME LifeInit PROVE Fifo!Init
    OBVIOUS
  <2>1. tx \in TxState /\ tx = InitTx /\ Queued = Queue(tx)
    BY InitLife DEF LifeIInv, IInv, TypeOK, LifeInit, Queued, Queue, Count
  <2>2. Queued = <<>>
    BY <2>1, EmptyQueue DEF InitTx
  <2>3. QED
    BY <2>1, <2>2 DEF Fifo!Init, InitTx
<1>2. LifeSpec => Fifo!Init /\ [][Fifo!Next]_Fifo!fifo
  BY <1>1, LifeInvariance, StepLifeFifo, PTL DEF LifeSpec
<1>3. QED
  BY <1>2 DEF ImplementsFifo, Fifo!Spec
=============================================================================
