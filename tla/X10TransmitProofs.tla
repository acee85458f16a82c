------------------------- MODULE X10TransmitProofs -------------------------
(***************************************************************************)
(* Proofs about X10Transmit for every ring size, set of packets, bound on  *)
(* owed ACKs and either controller.  The C functions are total functions   *)
(* on transmit states, so each gets one lemma: from a state that satisfies *)
(* the invariant it returns one that does.  The theorems about the event   *)
(* loop then only apply the lemma of the function an action calls.         *)
(*                                                                         *)
(* The last part is about AckFlow: how many packets a CM15A can hold at    *)
(* once.  Its history variables only observe, so what is shown of Spec     *)
(* holds there as well; the other parts do not mention them.               *)
(***************************************************************************)
EXTENDS AckFlow, Sequences, TLAPS

(* The transmit state between two calls: typed, the flags claim no more    *)
(* than libusb has, an idle path is drained and a busy one armed.          *)
(* (Shutdown may be cancelling the transfer, or have been told that it is  *)
(* not found.)                                                             *)
Sound(s) ==
  /\ s \in TxState
  /\ s.canceling => s.submitted
  /\ s.urb = "cancelled" /\ s.submitted => s.canceling
  /\ s.submitted => s.urb # "idle"
  /\ s.urb = "wire" => s.submitted
  /\ s.completed = (s.urb = "idle")
  /\ s.rc # "EBUSY"
  /\ s.Outbusy => s.PollTimeOut = AckTimeout
  /\ ~s.Outbusy => s.Outhead = s.Outtail /\ s.urb = "idle" /\ s.PollTimeOut = Never

(* IntrOut_submitted is set while libusb has the transfer: so it is unless *)
(* a cancellation was answered NOT_FOUND.                                  *)
Told(s) == s.urb # "idle" => s.submitted

(* What a call does to that: when it did not hold, the transfer waits for  *)
(* its callback, and all but the callback leave it there.                  *)
KeepsTold(s, t) == Told(t) \/ (~Told(s) /\ t.urb = s.urb)

(* No ACK or timeout is held once the transfer has finished.               *)
Spent(s) == s.completed => ~s.ack /\ ~s.timed_out

(* A busy CM19A with nothing in flight was refused its last submit.        *)
Paced(s) ==
  Cm19a /\ s.Outbusy /\ s.completed => s.Outhead # s.Outtail /\ s.rc = "EIO"

(* The ring index stays in the ring.                                       *)
LEMMA NextIndexInSlots ==
  ASSUME NEW i \in Slots
  PROVE  next_index(i) \in Slots
BY RingAssumption, SMT DEF Slots, next_index

(* A ring of two slots or more never maps an index to itself, so a queue   *)
(* with one record is told from an empty one.                              *)
LEMMA NextIndexMoves ==
  ASSUME NEW i \in Slots
  PROVE  next_index(i) # i
BY RingAssumption, SMT DEF Slots, next_index

(* The state that write_usb() leaves when libusb accepts the transfer.     *)
LEMMA Submitted ==
  ASSUME NEW s \in TxState, NEW c \in Cmds \cup {NoCmd}
  PROVE  [s EXCEPT !.completed = FALSE, !.ack = FALSE, !.timed_out = FALSE,
                   !.submitted = TRUE, !.canceling = FALSE,
                   !.urb = "wire", !.sent = c, !.rc = "ok"] \in TxState
<1> DEFINE a == [s EXCEPT !.completed = FALSE, !.ack = FALSE, !.timed_out = FALSE,
                          !.submitted = TRUE]
           b == [a EXCEPT !.canceling = FALSE, !.urb = "wire", !.sent = c, !.rc = "ok"]
<1>1. a \in TxState
  BY DEF TxState
<1> HIDE DEF a
<1>2. b \in TxState
  BY <1>1 DEF TxState, Urbs, Results
<1>3. QED
  BY <1>2 DEF a

(* ... and when it refuses.                                                *)
LEMMA Refused ==
  ASSUME NEW s \in TxState
  PROVE  [s EXCEPT !.completed = TRUE, !.ack = FALSE, !.timed_out = FALSE,
                   !.rc = "EIO"] \in TxState
BY DEF TxState, Results

-----------------------------------------------------------------------------
(* add_x10out(), called while the path is busy.                            *)
LEMMA AddX10out ==
  ASSUME NEW s \in TxState, Sound(s), s.Outbusy, NEW c \in Cmds
  PROVE  /\ Sound(add_x10out(s, c))
         /\ Spent(s) => Spent(add_x10out(s, c))
         /\ Paced(s) => Paced(add_x10out(s, c))
         /\ add_x10out(s, c).canceling = s.canceling
         /\ KeepsTold(s, add_x10out(s, c))
<1>1. /\ Sound(add_x10out(s, c))
      /\ Spent(s) => Spent(add_x10out(s, c))
      /\ Paced(s) => Paced(add_x10out(s, c))
      /\ add_x10out(s, c).canceling = s.canceling
  BY NextIndexInSlots DEF add_x10out, Sound, Spent, Paced, TxState
<1>2. add_x10out(s, c).urb = s.urb /\ add_x10out(s, c).submitted = s.submitted
  BY DEF add_x10out, TxState
<1>3. QED
  BY <1>1, <1>2 DEF KeepsTold, Told

(* send_next_x10out(), called with the ACK flags cleared and the transfer   *)
(* finished: idle, drained, submitted and refused are its four outcomes.   *)
LEMMA SendNext ==
  ASSUME NEW s \in TxState, Sound(s), s.completed, ~s.ack, ~s.timed_out,
         NEW accepts \in BOOLEAN
  PROVE  /\ Sound(send_next_x10out(s, accepts))
         /\ Spent(send_next_x10out(s, accepts))
         /\ Paced(send_next_x10out(s, accepts))
         /\ ~send_next_x10out(s, accepts).canceling
         /\ Told(send_next_x10out(s, accepts))
<1> DEFINE next == next_index(s.Outhead)
           t == send_next_x10out(s, accepts)
           w == write_usb(s, s.Outrecs[next], accepts)
<1>1. next \in Slots /\ s.Outrecs[next] \in Cmds \cup {NoCmd}
  BY NextIndexInSlots DEF TxState
<1>2. ~s.submitted /\ ~s.canceling /\ s.urb = "idle"
  BY DEF Sound
<1>3. CASE ~s.Outbusy
  <2>1. t = s
    BY <1>3 DEF send_next_x10out
  <2>2. QED
    BY <2>1, <1>2, <1>3 DEF Spent, Paced, Told
<1>4. CASE s.Outbusy /\ s.Outhead = s.Outtail
  <2>1. t = [s EXCEPT !.Outbusy = FALSE, !.PollTimeOut = Never]
    BY <1>4 DEF send_next_x10out
  <2>2. QED
    BY <2>1, <1>2, <1>4 DEF Sound, Spent, Paced, Told, TxState
<1>5. CASE s.Outbusy /\ s.Outhead # s.Outtail /\ accepts
  <2>1. w = [s EXCEPT !.completed = FALSE, !.ack = FALSE, !.timed_out = FALSE,
                      !.submitted = TRUE, !.canceling = FALSE,
                      !.urb = "wire", !.sent = s.Outrecs[next], !.rc = "ok"]
    BY <1>2, <1>5 DEF write_usb
  <2>2. w \in TxState
    <3> HIDE DEF w
    <3>1. QED
      BY <2>1, <1>1, Submitted
  <2>3. /\ w.submitted /\ ~w.canceling /\ ~w.completed /\ ~w.ack /\ ~w.timed_out
        /\ w.urb = "wire" /\ w.rc = "ok"
        /\ w.Outbusy = s.Outbusy /\ w.PollTimeOut = s.PollTimeOut
    BY <2>1 DEF TxState
  <2>4. t = [w EXCEPT !.Outhead = next]
    BY <1>5, <2>3 DEF send_next_x10out
  <2> HIDE DEF w, t
  <2>5. /\ t \in TxState
        /\ t.submitted = TRUE /\ t.canceling = FALSE /\ t.completed = FALSE
        /\ t.urb = "wire" /\ t.rc = "ok" /\ t.Outbusy = s.Outbusy
        /\ t.PollTimeOut = s.PollTimeOut
    BY <2>2, <2>3, <2>4, <1>1 DEF TxState
  <2>6. Sound(t) /\ Spent(t) /\ Paced(t) /\ ~t.canceling /\ Told(t)
    BY <2>5, <1>5 DEF Sound, Spent, Paced, Told
  <2>7. QED
    BY <2>6 DEF t
<1>6. CASE s.Outbusy /\ s.Outhead # s.Outtail /\ ~accepts
  <2>1. w = [s EXCEPT !.completed = TRUE, !.ack = FALSE, !.timed_out = FALSE,
                      !.rc = "EIO"]
    BY <1>2, <1>6 DEF write_usb
  <2>2. w \in TxState
    <3> HIDE DEF w
    <3>1. QED
      BY <2>1, Refused
  <2>3. /\ w.completed /\ ~w.ack /\ ~w.timed_out /\ w.rc = "EIO"
        /\ w.submitted = s.submitted /\ w.canceling = s.canceling /\ w.urb = s.urb
        /\ w.Outbusy = s.Outbusy /\ w.Outhead = s.Outhead /\ w.Outtail = s.Outtail
    BY <2>1 DEF TxState
  <2>4. t = [w EXCEPT !.PollTimeOut = AckTimeout]
    BY <1>6, <2>3 DEF send_next_x10out
  <2>5. /\ t \in TxState /\ t.PollTimeOut = AckTimeout
        /\ t.completed /\ ~t.ack /\ ~t.timed_out /\ t.rc = "EIO"
        /\ t.submitted = s.submitted /\ t.canceling = s.canceling /\ t.urb = s.urb
        /\ t.Outbusy /\ t.Outhead = s.Outhead /\ t.Outtail = s.Outtail
    BY <2>2, <2>3, <2>4, <1>6 DEF TxState
  <2>6. QED
    BY <2>5, <1>2, <1>6 DEF Sound, Spent, Paced, Told
<1>7. QED
  BY <1>3, <1>4, <1>5, <1>6

(* x10_write(): queued, submitted and refused.                             *)
LEMMA X10WriteSound ==
  ASSUME NEW s \in TxState, Sound(s), NEW c \in Cmds, NEW accepts \in BOOLEAN
  PROVE  /\ Sound(x10_write(s, c, accepts))
         /\ Spent(s) => Spent(x10_write(s, c, accepts))
         /\ Paced(s) => Paced(x10_write(s, c, accepts))
         /\ ~s.canceling => ~x10_write(s, c, accepts).canceling
         /\ KeepsTold(s, x10_write(s, c, accepts))
<1> DEFINE b == [s EXCEPT !.Outbusy = TRUE]
           w == write_usb(b, c, accepts)
           t == x10_write(s, c, accepts)
<1>1. CASE s.Outbusy
  BY <1>1, AddX10out DEF x10_write
<1>2. CASE ~s.Outbusy
  <2>1. /\ b \in TxState
        /\ b.submitted = FALSE /\ b.canceling = FALSE /\ b.Outbusy = TRUE
        /\ b.urb = "idle" /\ b.Outhead = s.Outhead /\ b.Outtail = s.Outtail
    BY <1>2 DEF Sound, TxState
  <2>2. s.Outhead = s.Outtail
    BY <1>2 DEF Sound
  <2> HIDE DEF b
  <2>3. CASE accepts
    <3>1. w = [b EXCEPT !.completed = FALSE, !.ack = FALSE, !.timed_out = FALSE,
                        !.submitted = TRUE, !.canceling = FALSE,
                        !.urb = "wire", !.sent = c, !.rc = "ok"]
      BY <2>1, <2>3 DEF write_usb
    <3> HIDE DEF w
    <3>9. w \in TxState
      BY <3>1, <2>1, Submitted
    <3>2. /\ w.Outbusy = TRUE /\ w.submitted = TRUE /\ w.canceling = FALSE
          /\ w.completed = FALSE /\ w.urb = "wire" /\ w.rc = "ok"
      BY <3>1, <2>1 DEF TxState
    <3>3. t = [w EXCEPT !.PollTimeOut = AckTimeout]
      BY <1>2, <3>2 DEF x10_write, w, b
    <3> HIDE DEF t
    <3>8. t \in TxState
      BY <3>9, <3>3 DEF TxState
    <3>4. /\ t.Outbusy = TRUE /\ t.submitted = TRUE /\ t.canceling = FALSE
          /\ t.completed = FALSE /\ t.urb = "wire" /\ t.rc = "ok"
          /\ t.PollTimeOut = AckTimeout
      BY <3>9, <3>2, <3>3 DEF TxState
    <3>5. Sound(t) /\ Spent(t) /\ Paced(t) /\ ~t.canceling /\ KeepsTold(s, t)
      BY <3>8, <3>4 DEF Sound, Spent, Paced, KeepsTold, Told
    <3>6. QED
      BY <3>5 DEF t
  <2>4. CASE ~accepts
    <3>1. w = [b EXCEPT !.completed = TRUE, !.ack = FALSE, !.timed_out = FALSE,
                        !.rc = "EIO"]
      BY <2>1, <2>4 DEF write_usb
    <3>9. w \in TxState
      BY <3>1, <2>1, Refused
    <3>2. /\ w.submitted = FALSE /\ w.canceling = FALSE /\ w.completed = TRUE
          /\ w.ack = FALSE /\ w.timed_out = FALSE /\ w.urb = "idle" /\ w.rc = "EIO"
          /\ w.Outhead = w.Outtail
      BY <3>1, <2>1, <2>2 DEF TxState
    <3> HIDE DEF w
    <3>3. t = [w EXCEPT !.Outbusy = FALSE, !.PollTimeOut = Never]
      BY <1>2, <3>2 DEF x10_write, w, b
    <3> HIDE DEF t
    <3>8. t \in TxState
      BY <3>9, <3>3 DEF TxState
    <3>4. /\ t.Outbusy = FALSE /\ t.submitted = FALSE /\ t.canceling = FALSE
          /\ t.completed = TRUE /\ t.ack = FALSE /\ t.timed_out = FALSE
          /\ t.urb = "idle" /\ t.rc = "EIO"
          /\ t.Outhead = t.Outtail /\ t.PollTimeOut = Never
      BY <3>9, <3>2, <3>3 DEF TxState
    <3>5. Sound(t) /\ Spent(t) /\ Paced(t) /\ ~t.canceling /\ KeepsTold(s, t)
      BY <3>8, <3>4 DEF Sound, Spent, Paced, KeepsTold, Told
    <3>6. QED
      BY <3>5 DEF t
  <2>5. QED
    BY <2>3, <2>4
<1>3. QED
  BY <1>1, <1>2

(* maybe_finish_x10_transmit() leaves no spare credit and no idle CM19A,   *)
(* whatever flags it is called with.                                       *)
LEMMA MaybeFinish ==
  ASSUME NEW s \in TxState, Sound(s), NEW accepts \in BOOLEAN
  PROVE  /\ Sound(maybe_finish_x10_transmit(s, accepts))
         /\ Spent(maybe_finish_x10_transmit(s, accepts))
         /\ Paced(maybe_finish_x10_transmit(s, accepts))
         /\ ~s.canceling => ~maybe_finish_x10_transmit(s, accepts).canceling
         /\ KeepsTold(s, maybe_finish_x10_transmit(s, accepts))
<1> DEFINE t == [s EXCEPT !.ack = FALSE, !.timed_out = FALSE]
<1>1. CASE s.completed /\ (Cm19a \/ s.ack \/ s.timed_out)
  <2>1. /\ t \in TxState /\ ~t.ack /\ ~t.timed_out /\ t.completed
        /\ t.submitted = s.submitted /\ t.canceling = s.canceling /\ t.urb = s.urb
        /\ t.rc = s.rc /\ t.Outbusy = s.Outbusy /\ t.PollTimeOut = s.PollTimeOut
        /\ t.Outhead = s.Outhead /\ t.Outtail = s.Outtail
    BY <1>1 DEF TxState
  <2>2. Sound(t)
    BY <2>1, <1>1 DEF Sound
  <2>3. maybe_finish_x10_transmit(s, accepts) = send_next_x10out(t, accepts)
    BY <1>1 DEF maybe_finish_x10_transmit
  <2>4. QED
    BY <2>1, <2>2, <2>3, SendNext DEF KeepsTold
<1>2. CASE ~(s.completed /\ (Cm19a \/ s.ack \/ s.timed_out))
  BY <1>2 DEF maybe_finish_x10_transmit, Spent, Paced, KeepsTold
<1>3. QED
  BY <1>1, <1>2

(* IntrOut_cb() of a finished transfer.                                    *)
LEMMA OutCb ==
  ASSUME NEW s \in TxState, Sound(s), s.urb \in Finished, NEW accepts \in BOOLEAN
  PROVE  /\ Sound(IntrOut_cb(s, accepts))
         /\ ~IntrOut_cb(s, accepts).canceling /\ Told(IntrOut_cb(s, accepts))
         /\ s.urb = "completed" => Spent(IntrOut_cb(s, accepts)) /\ Paced(IntrOut_cb(s, accepts))
<1> DEFINE t == [s EXCEPT !.submitted = FALSE, !.canceling = FALSE,
                          !.completed = TRUE, !.urb = "idle"]
<1>1. s.Outbusy /\ s.PollTimeOut = AckTimeout /\ s.rc # "EBUSY"
  BY DEF Sound, Finished
<1>2. /\ t \in TxState /\ t.submitted = FALSE /\ t.canceling = FALSE
      /\ t.completed = TRUE /\ t.urb = "idle" /\ t.rc = s.rc /\ t.Outbusy = s.Outbusy
      /\ t.PollTimeOut = s.PollTimeOut
  BY DEF TxState, Urbs
<1> HIDE DEF t
<1>3. Sound(t) /\ Told(t)
  BY <1>1, <1>2 DEF Sound, Told
<1> USE DEF t
<1>4. CASE s.urb = "completed"
  BY <1>2, <1>3, <1>4, MaybeFinish DEF IntrOut_cb, KeepsTold
<1>5. CASE s.urb # "completed"
  BY <1>2, <1>3, <1>5 DEF IntrOut_cb
<1>6. QED
  BY <1>4, <1>5

(* The ACK byte and the charged timeout.                                   *)
LEMMA AckOrTimeout ==
  ASSUME NEW s \in TxState, Sound(s), NEW accepts \in BOOLEAN,
         NEW t \in {ack_received(s, accepts), ack_timed_out(s, accepts)}
  PROVE  /\ Sound(t) /\ Spent(t) /\ Paced(t) /\ (~s.canceling => ~t.canceling)
         /\ KeepsTold(s, t)
<1>1. /\ [s EXCEPT !.ack = TRUE] \in TxState
      /\ [s EXCEPT !.timed_out = TRUE] \in TxState
  BY DEF TxState
<1>2. /\ Sound([s EXCEPT !.ack = TRUE]) /\ Sound([s EXCEPT !.timed_out = TRUE])
      /\ [s EXCEPT !.ack = TRUE].canceling = s.canceling
      /\ [s EXCEPT !.timed_out = TRUE].canceling = s.canceling
  BY <1>1 DEF Sound, TxState
<1>3. ASSUME NEW b \in {[s EXCEPT !.ack = TRUE], [s EXCEPT !.timed_out = TRUE]},
             t = maybe_finish_x10_transmit(b, accepts)
      PROVE  KeepsTold(s, t)
  <2>1. b.urb = s.urb /\ b.submitted = s.submitted /\ b \in TxState /\ Sound(b)
    BY <1>1, <1>2 DEF TxState
  <2>2. KeepsTold(b, t)
    BY <1>3, <2>1, MaybeFinish
  <2>3. QED
    BY <2>1, <2>2 DEF KeepsTold, Told
<1>4. QED
  BY <1>1, <1>2, <1>3, MaybeFinish DEF ack_received, ack_timed_out

-----------------------------------------------------------------------------
(* The remainder of an index sum that wraps at most once.                  *)
LEMMA ModInRange ==
  ASSUME NEW x \in Int
  PROVE  /\ x \in 0 .. RingSize - 1 => x % RingSize = x
         /\ x \in RingSize .. 2 * RingSize - 1 => x % RingSize = x - RingSize
         /\ x < 0 /\ x >= -RingSize => x % RingSize = x + RingSize
BY RingAssumption, SMT

(* The ring's content as the sequence of records still to be sent, oldest  *)
(* first: the refinement mapping, for any transmit state.                  *)
Count(s) == (s.Outtail - s.Outhead) % RingSize
Queue(s) ==
  [i \in 1 .. Count(s) |-> s.Outrecs[(s.Outhead + i) % RingSize]]

(* How many records wait, and that a full ring holds one less than its     *)
(* slots.                                                                  *)
LEMMA CountType ==
  ASSUME NEW s \in TxState
  PROVE  /\ Count(s) \in 0 .. RingSize - 1
         /\ Count(s) = IF s.Outhead <= s.Outtail THEN s.Outtail - s.Outhead
                        ELSE s.Outtail - s.Outhead + RingSize
         /\ Queue(s) \in Seq(Cmds \cup {NoCmd})
         /\ Len(Queue(s)) = Count(s)
<1>1. s.Outtail \in 0 .. RingSize - 1 /\ s.Outhead \in 0 .. RingSize - 1
   BY DEF TxState, Slots
<1>2. /\ Count(s) \in 0 .. RingSize - 1
         /\ Count(s) = IF s.Outhead <= s.Outtail THEN s.Outtail - s.Outhead
                        ELSE s.Outtail - s.Outhead + RingSize
   BY <1>1, ModInRange, RingAssumption DEF Count
<1>3. \A i \in 1 .. Count(s) : (s.Outhead + i) % RingSize \in Slots
   BY <1>1, <1>2, RingAssumption, SMT DEF Slots
<1>4. \A i \in 1 .. Count(s) : s.Outrecs[(s.Outhead + i) % RingSize] \in Cmds \cup {NoCmd}
   BY <1>3 DEF TxState
<1>5. QED
   BY <1>2, <1>4 DEF Queue

(* add_x10out() of a ring that is not full appends at the tail and touches *)
(* no waiting record, wherever the indices wrap.                           *)
LEMMA EnqueueQueue ==
  ASSUME NEW s \in TxState, NEW c \in Cmds, next_index(s.Outtail) # s.Outhead
  PROVE  /\ Len(Queue(s)) < RingSize - 1
         /\ Queue(add_x10out(s, c)) = Append(Queue(s), c)
<1> DEFINE nxt == next_index(s.Outtail)
           t == add_x10out(s, c)
<1>1. /\ t = [s EXCEPT !.Outrecs[nxt] = c, !.Outtail = nxt]
      /\ nxt \in Slots /\ t \in TxState
  BY NextIndexInSlots DEF add_x10out, TxState
<1>2. /\ t.Outtail = nxt /\ t.Outhead = s.Outhead
      /\ t.Outrecs = [s.Outrecs EXCEPT ![nxt] = c]
  BY <1>1 DEF TxState
<1>3. s.Outtail \in 0 .. RingSize - 1 /\ s.Outhead \in 0 .. RingSize - 1
  BY DEF TxState, Slots
<1>4. nxt = IF s.Outtail = RingSize - 1 THEN 0 ELSE s.Outtail + 1
  BY <1>3, RingAssumption, SMT DEF next_index
<1> HIDE DEF nxt, t
<1>5. Count(s) < RingSize - 1 /\ Count(t) = Count(s) + 1
  <2>1. nxt # s.Outhead
    BY DEF nxt
  <2>2. /\ Count(s) = IF s.Outhead <= s.Outtail THEN s.Outtail - s.Outhead
                      ELSE s.Outtail - s.Outhead + RingSize
        /\ Count(t) = IF s.Outhead <= nxt THEN nxt - s.Outhead
                      ELSE nxt - s.Outhead + RingSize
    BY <1>1, <1>2, CountType
  <2>3. QED
    BY <1>3, <1>4, <2>1, <2>2, RingAssumption
<1>6. (s.Outhead + (Count(s) + 1)) % RingSize = nxt
  <2>1. Count(t) = IF s.Outhead <= nxt THEN nxt - s.Outhead
                   ELSE nxt - s.Outhead + RingSize
    BY <1>1, <1>2, CountType
  <2>2. s.Outhead + (Count(s) + 1) = IF s.Outhead <= nxt THEN nxt ELSE nxt + RingSize
    BY <1>3, <1>4, <1>5, <2>1, CountType, RingAssumption
  <2>3. nxt \in 0 .. RingSize - 1
    BY <1>1 DEF Slots
  <2>4. QED
    BY <2>2, <2>3, ModInRange, RingAssumption
<1>7. \A i \in 1 .. Count(s) : (s.Outhead + i) % RingSize \in Slots \ {nxt}
  <2> SUFFICES ASSUME NEW i \in 1 .. Count(s)
               PROVE  (s.Outhead + i) % RingSize \in Slots \ {nxt}
    OBVIOUS
  <2>1. /\ Count(s) \in 0 .. RingSize - 1
        /\ Count(s) = IF s.Outhead <= s.Outtail THEN s.Outtail - s.Outhead
                      ELSE s.Outtail - s.Outhead + RingSize
    BY CountType
  <2>2. (s.Outhead + i) % RingSize = IF s.Outhead + i < RingSize
                                       THEN s.Outhead + i ELSE s.Outhead + i - RingSize
    BY <1>3, <2>1, ModInRange, RingAssumption
  <2>3. QED
    BY <1>3, <1>4, <1>5, <2>1, <2>2, RingAssumption DEF Slots
<1>8. ASSUME NEW i \in 1 .. Count(s) PROVE Queue(t)[i] = Queue(s)[i]
  <2>1. i \in 1 .. Count(t)
    BY <1>5, CountType
  <2>2. /\ Queue(t)[i] = t.Outrecs[(t.Outhead + i) % RingSize]
        /\ Queue(s)[i] = s.Outrecs[(s.Outhead + i) % RingSize]
    BY <2>1 DEF Queue
  <2>3. QED
    BY <1>2, <1>7, <2>2 DEF TxState
<1>9. Queue(t)[Count(s) + 1] = c
  <2>1. Count(s) + 1 \in 1 .. Count(t)
    BY <1>5, CountType
  <2>2. Queue(t)[Count(s) + 1] = t.Outrecs[(t.Outhead + (Count(s) + 1)) % RingSize]
    BY <2>1 DEF Queue
  <2>3. QED
    BY <1>1, <1>2, <1>6, <2>2 DEF TxState
<1>10. QED
  BY <1>1, <1>5, <1>8, <1>9, CountType DEF t

(* Advancing Outhead takes the oldest record and no other.                 *)
LEMMA DequeueQueue ==
  ASSUME NEW s \in TxState, s.Outhead # s.Outtail, NEW t \in TxState,
         t.Outhead = next_index(s.Outhead), t.Outtail = s.Outtail,
         t.Outrecs = s.Outrecs
  PROVE  /\ Queue(s) # <<>>
         /\ Head(Queue(s)) = s.Outrecs[next_index(s.Outhead)]
         /\ Queue(t) = Tail(Queue(s))
<1>3. s.Outtail \in 0 .. RingSize - 1 /\ s.Outhead \in 0 .. RingSize - 1
  BY DEF TxState, Slots
<1>4. t.Outhead = IF s.Outhead = RingSize - 1 THEN 0 ELSE s.Outhead + 1
  BY <1>3, RingAssumption, SMT DEF next_index
<1>5. Count(s) > 0 /\ Count(t) = Count(s) - 1
  <2>1. /\ Count(s) = IF s.Outhead <= s.Outtail THEN s.Outtail - s.Outhead
                      ELSE s.Outtail - s.Outhead + RingSize
        /\ Count(t) = IF t.Outhead <= s.Outtail THEN s.Outtail - t.Outhead
                      ELSE s.Outtail - t.Outhead + RingSize
    BY CountType
  <2>2. QED
    BY <1>3, <1>4, <2>1, RingAssumption
<1>6. \A i \in 1 .. Count(t) : (t.Outhead + i) % RingSize = (s.Outhead + (i + 1)) % RingSize
  <2> SUFFICES ASSUME NEW i \in 1 .. Count(t)
               PROVE  (t.Outhead + i) % RingSize = (s.Outhead + (i + 1)) % RingSize
    OBVIOUS
  <2>1. Count(t) \in 0 .. RingSize - 1 /\ Count(s) \in 0 .. RingSize - 1
    BY CountType
  <2>2. CASE s.Outhead = RingSize - 1
    <3>1. t.Outhead + i = i /\ s.Outhead + (i + 1) = i + RingSize
      BY <1>4, <2>1, <2>2, RingAssumption
    <3>2. i \in 0 .. RingSize - 1
      BY <2>1, RingAssumption
    <3>3. QED
      BY <3>1, <3>2, ModInRange, RingAssumption
  <2>3. CASE s.Outhead # RingSize - 1
    BY <1>3, <1>4, <2>1, <2>3, RingAssumption
  <2>4. QED
    BY <2>2, <2>3
<1>7. \A i \in 1 .. Count(t) : Queue(t)[i] = Queue(s)[i + 1]
  BY <1>5, <1>6, CountType DEF Queue
<1>8. Queue(s)[1] = s.Outrecs[next_index(s.Outhead)]
  BY <1>5, CountType DEF Queue, next_index
<1>9. QED
  BY <1>5, <1>7, <1>8, CountType

(* Equal indices are an empty ring.                                        *)
LEMMA EmptyQueue ==
  ASSUME NEW s \in TxState, s.Outhead = s.Outtail
  PROVE  Queue(s) = <<>>
<1>1. Count(s) = 0
  BY CountType, RingAssumption DEF TxState, Slots
<1>2. QED
  BY <1>1, CountType

-----------------------------------------------------------------------------
(* The transmit path implements TransmitFifo.  What a call may do to the   *)
(* FIFO, for any transmit states s before and t after it.                  *)
SameFifo(s, t) ==
  /\ Queue(t) = Queue(s) /\ t.sent = s.sent /\ t.Outbusy = s.Outbusy
  /\ (t.urb = "wire") = (s.urb = "wire")

Sends(s, t) ==
  /\ s.Outbusy /\ s.urb # "wire" /\ Queue(s) # <<>>
  /\ t.sent = Head(Queue(s)) /\ Queue(t) = Tail(Queue(s))
  /\ t.urb = "wire" /\ t.Outbusy = s.Outbusy

Idles(s, t) ==
  /\ s.Outbusy /\ s.urb # "wire" /\ Queue(s) = <<>>
  /\ ~t.Outbusy
  /\ Queue(t) = Queue(s) /\ t.sent = s.sent /\ t.urb # "wire"

Accepts(s, c, t) ==
  \/ /\ ~s.Outbusy
     /\ t.sent = c /\ t.urb = "wire" /\ t.Outbusy /\ Queue(t) = Queue(s)
  \/ /\ s.Outbusy /\ Len(Queue(s)) < RingSize - 1
     /\ Queue(t) = Append(Queue(s), c)
     /\ t.sent = s.sent /\ t.Outbusy = s.Outbusy
     /\ (t.urb = "wire") = (s.urb = "wire")

Completes(s, t) ==
  /\ s.urb = "wire" /\ t.urb # "wire"
  /\ Queue(t) = Queue(s) /\ t.sent = s.sent /\ t.Outbusy = s.Outbusy

(* The queue is a matter of the ring's three fields alone.                 *)
LEMMA SameRing ==
  ASSUME NEW s \in TxState, NEW t \in TxState, t.Outrecs = s.Outrecs,
         t.Outhead = s.Outhead, t.Outtail = s.Outtail
  PROVE  Queue(t) = Queue(s)
BY DEF Queue, Count

(* send_next_x10out(): the head of the queue and nothing else is sent, a   *)
(* refused record stays the head, an empty queue ends the busy period.     *)
LEMMA SendNextFifo ==
  ASSUME NEW s \in TxState, Sound(s), s.completed, NEW accepts \in BOOLEAN
  PROVE  LET t == send_next_x10out(s, accepts)
         IN  SameFifo(s, t) \/ Sends(s, t) \/ Idles(s, t)
<1> DEFINE next == next_index(s.Outhead)
           t == send_next_x10out(s, accepts)
           w == write_usb(s, s.Outrecs[next], accepts)
<1>1. next \in Slots /\ s.Outrecs[next] \in Cmds \cup {NoCmd}
  BY NextIndexInSlots DEF TxState
<1>2. ~s.submitted /\ ~s.canceling /\ s.urb = "idle"
  BY DEF Sound
<1>3. CASE ~s.Outbusy
  BY <1>3 DEF send_next_x10out, SameFifo
<1>4. CASE s.Outbusy /\ s.Outhead = s.Outtail
  <2>1. t = [s EXCEPT !.Outbusy = FALSE, !.PollTimeOut = Never]
    BY <1>4 DEF send_next_x10out
  <2>2. /\ t \in TxState /\ t.Outrecs = s.Outrecs /\ t.Outhead = s.Outhead
        /\ t.Outtail = s.Outtail /\ t.sent = s.sent /\ t.urb = s.urb /\ ~t.Outbusy
    BY <2>1 DEF TxState
  <2> HIDE DEF t
  <2>3. Idles(s, t)
    BY <1>2, <1>4, <2>2, EmptyQueue, SameRing DEF Idles
  <2>4. QED
    BY <2>3 DEF t
<1>5. CASE s.Outbusy /\ s.Outhead # s.Outtail /\ accepts
  <2>1. w = [s EXCEPT !.completed = FALSE, !.ack = FALSE, !.timed_out = FALSE,
                      !.submitted = TRUE, !.canceling = FALSE,
                      !.urb = "wire", !.sent = s.Outrecs[next], !.rc = "ok"]
    BY <1>2, <1>5 DEF write_usb
  <2>2. w \in TxState
    <3> HIDE DEF w
    <3>1. QED
      BY <2>1, <1>1, Submitted
  <2>3. /\ w.urb = "wire" /\ w.rc = "ok" /\ w.sent = s.Outrecs[next]
        /\ w.Outbusy = s.Outbusy /\ w.Outrecs = s.Outrecs /\ w.Outtail = s.Outtail
    BY <2>1 DEF TxState
  <2>4. t = [w EXCEPT !.Outhead = next]
    BY <1>5, <2>3 DEF send_next_x10out
  <2> HIDE DEF w, t
  <2>5. /\ t \in TxState /\ t.Outhead = next /\ t.Outtail = s.Outtail
        /\ t.Outrecs = s.Outrecs /\ t.sent = s.Outrecs[next] /\ t.urb = "wire"
        /\ t.Outbusy = s.Outbusy
    BY <2>2, <2>3, <2>4, <1>1 DEF TxState
  <2>6. Sends(s, t)
    BY <1>2, <1>5, <2>5, DequeueQueue DEF Sends
  <2>7. QED
    BY <2>6 DEF t
<1>6. CASE s.Outbusy /\ s.Outhead # s.Outtail /\ ~accepts
  <2>1. w = [s EXCEPT !.completed = TRUE, !.ack = FALSE, !.timed_out = FALSE,
                      !.rc = "EIO"]
    BY <1>2, <1>6 DEF write_usb
  <2>2. w \in TxState
    <3> HIDE DEF w
    <3>1. QED
      BY <2>1, Refused
  <2>3. /\ w.rc = "EIO" /\ w.urb = s.urb /\ w.sent = s.sent /\ w.Outbusy = s.Outbusy
        /\ w.Outrecs = s.Outrecs /\ w.Outhead = s.Outhead /\ w.Outtail = s.Outtail
    BY <2>1 DEF TxState
  <2>4. t = [w EXCEPT !.PollTimeOut = AckTimeout]
    BY <1>6, <2>3 DEF send_next_x10out
  <2> HIDE DEF w, t
  <2>5. /\ t \in TxState /\ t.urb = s.urb /\ t.sent = s.sent /\ t.Outbusy = s.Outbusy
        /\ t.Outrecs = s.Outrecs /\ t.Outhead = s.Outhead /\ t.Outtail = s.Outtail
    BY <2>2, <2>3, <2>4 DEF TxState
  <2>6. SameFifo(s, t)
    BY <2>5, SameRing DEF SameFifo
  <2>7. QED
    BY <2>6 DEF t
<1>7. QED
  BY <1>3, <1>4, <1>5, <1>6

(* maybe_finish_x10_transmit(): clearing the ACK flags moves no packet.    *)
LEMMA MaybeFinishFifo ==
  ASSUME NEW s \in TxState, Sound(s), NEW accepts \in BOOLEAN
  PROVE  LET t == maybe_finish_x10_transmit(s, accepts)
         IN  SameFifo(s, t) \/ Sends(s, t) \/ Idles(s, t)
<1> DEFINE b == [s EXCEPT !.ack = FALSE, !.timed_out = FALSE]
<1>1. CASE s.completed /\ (Cm19a \/ s.ack \/ s.timed_out)
  <2>1. /\ b \in TxState /\ b.completed /\ b.sent = s.sent /\ b.urb = s.urb
        /\ b.submitted = s.submitted /\ b.canceling = s.canceling
        /\ b.completed = s.completed /\ b.rc = s.rc /\ b.Outbusy = s.Outbusy
        /\ b.PollTimeOut = s.PollTimeOut /\ b.Outrecs = s.Outrecs
        /\ b.Outhead = s.Outhead /\ b.Outtail = s.Outtail
    BY <1>1 DEF TxState
  <2>2. maybe_finish_x10_transmit(s, accepts) = send_next_x10out(b, accepts)
    BY <1>1 DEF maybe_finish_x10_transmit
  <2> HIDE DEF b
  <2>3. Sound(b) /\ Queue(b) = Queue(s)
    BY <2>1, SameRing DEF Sound
  <2>4. QED
    BY <2>1, <2>2, <2>3, SendNextFifo DEF SameFifo, Sends, Idles
<1>2. CASE ~(s.completed /\ (Cm19a \/ s.ack \/ s.timed_out))
  BY <1>2 DEF maybe_finish_x10_transmit, SameFifo
<1>3. QED
  BY <1>1, <1>2

(* IntrOut_cb() of a finished transfer, and the two credits.               *)
LEMMA CallbackFifo ==
  ASSUME NEW s \in TxState, Sound(s), NEW accepts \in BOOLEAN, NEW t \in TxState,
         \/ s.urb \in Finished /\ t = IntrOut_cb(s, accepts)
         \/ t = ack_received(s, accepts)
         \/ t = ack_timed_out(s, accepts)
  PROVE  SameFifo(s, t) \/ Sends(s, t) \/ Idles(s, t)
<1>1. CASE s.urb \in Finished /\ t = IntrOut_cb(s, accepts)
  <2> DEFINE b == [s EXCEPT !.submitted = FALSE, !.canceling = FALSE,
                            !.completed = TRUE, !.urb = "idle"]
  <2>1. /\ b \in TxState /\ b.urb = "idle" /\ b.sent = s.sent
        /\ b.submitted = FALSE /\ b.canceling = FALSE /\ b.completed = TRUE
        /\ b.rc = s.rc
        /\ b.Outbusy = s.Outbusy /\ b.PollTimeOut = s.PollTimeOut
        /\ b.Outrecs = s.Outrecs /\ b.Outhead = s.Outhead /\ b.Outtail = s.Outtail
    BY DEF TxState, Urbs
  <2>2. t = IF s.urb = "completed" THEN maybe_finish_x10_transmit(b, accepts) ELSE b
    BY <1>1 DEF IntrOut_cb
  <2> HIDE DEF b
  <2>3. Sound(b) /\ Queue(b) = Queue(s) /\ s.urb # "wire"
    BY <1>1, <2>1, SameRing DEF Sound, Finished
  <2>4. QED
    BY <2>1, <2>2, <2>3, MaybeFinishFifo DEF SameFifo, Sends, Idles
<1>2. ASSUME NEW b \in {[s EXCEPT !.ack = TRUE], [s EXCEPT !.timed_out = TRUE]},
             t = maybe_finish_x10_transmit(b, accepts)
      PROVE  SameFifo(s, t) \/ Sends(s, t) \/ Idles(s, t)
  <2>1. /\ b \in TxState /\ b.sent = s.sent /\ b.urb = s.urb
        /\ b.submitted = s.submitted /\ b.canceling = s.canceling
        /\ b.completed = s.completed /\ b.rc = s.rc /\ b.Outbusy = s.Outbusy
        /\ b.PollTimeOut = s.PollTimeOut /\ b.Outrecs = s.Outrecs
        /\ b.Outhead = s.Outhead /\ b.Outtail = s.Outtail
    BY DEF TxState
  <2>2. Sound(b) /\ Queue(b) = Queue(s)
    BY <2>1, SameRing DEF Sound
  <2>3. QED
    BY <1>2, <2>1, <2>2, MaybeFinishFifo DEF SameFifo, Sends, Idles
<1>3. QED
  BY <1>1, <1>2 DEF ack_received, ack_timed_out

(* x10_write(): the packet is handed over, queued last or refused without  *)
(* a trace.                                                                *)
LEMMA X10WriteFifo ==
  ASSUME NEW s \in TxState, Sound(s), NEW c \in Cmds, NEW accepts \in BOOLEAN
  PROVE  LET t == x10_write(s, c, accepts)
         IN  SameFifo(s, t) \/ Accepts(s, c, t)
<1> DEFINE b == [s EXCEPT !.Outbusy = TRUE]
           w == write_usb(b, c, accepts)
           t == x10_write(s, c, accepts)
<1>1. CASE s.Outbusy /\ next_index(s.Outtail) = s.Outhead
  BY <1>1 DEF x10_write, add_x10out, SameFifo
<1>2. CASE s.Outbusy /\ next_index(s.Outtail) # s.Outhead
  <2>1. /\ t = add_x10out(s, c)
        /\ t = [s EXCEPT !.Outrecs[next_index(s.Outtail)] = c,
                         !.Outtail = next_index(s.Outtail)]
    BY <1>2 DEF x10_write, add_x10out
  <2>2. t.sent = s.sent /\ t.Outbusy = s.Outbusy /\ t.urb = s.urb
    BY <2>1 DEF TxState
  <2> HIDE DEF t
  <2>3. Accepts(s, c, t)
    BY <1>2, <2>1, <2>2, EnqueueQueue DEF Accepts
  <2>4. QED
    BY <2>3 DEF t
<1>3. CASE ~s.Outbusy
  <2>1. /\ b \in TxState /\ ~b.submitted /\ ~b.canceling
        /\ b.sent = s.sent /\ s.urb = "idle" /\ b.urb = s.urb /\ s.Outbusy = FALSE
        /\ b.Outrecs = s.Outrecs /\ b.Outhead = s.Outhead /\ b.Outtail = s.Outtail
        /\ b.Outbusy
    BY <1>3 DEF Sound, TxState
  <2> HIDE DEF b
  <2>2. CASE accepts
    <3>1. w = [b EXCEPT !.completed = FALSE, !.ack = FALSE, !.timed_out = FALSE,
                        !.submitted = TRUE, !.canceling = FALSE,
                        !.urb = "wire", !.sent = c, !.rc = "ok"]
      BY <2>1, <2>2 DEF write_usb
    <3>2. w \in TxState
      <4> HIDE DEF w
      <4>1. QED
        BY <2>1, <3>1, Submitted
    <3>3. /\ w.rc = "ok" /\ w.sent = c /\ w.urb = "wire" /\ w.Outbusy
          /\ w.Outrecs = b.Outrecs /\ w.Outhead = b.Outhead /\ w.Outtail = b.Outtail
      BY <2>1, <3>1 DEF TxState
    <3>4. t = [w EXCEPT !.PollTimeOut = AckTimeout]
      BY <1>3, <3>3 DEF x10_write, w, b
    <3> HIDE DEF w, t
    <3>5. /\ t \in TxState /\ t.sent = c /\ t.urb = "wire" /\ t.Outbusy
          /\ t.Outrecs = s.Outrecs /\ t.Outhead = s.Outhead /\ t.Outtail = s.Outtail
      BY <2>1, <3>2, <3>3, <3>4 DEF TxState
    <3>6. Accepts(s, c, t)
      BY <1>3, <3>5, SameRing DEF Accepts
    <3>7. QED
      BY <3>6 DEF t
  <2>3. CASE ~accepts
    <3>1. w = [b EXCEPT !.completed = TRUE, !.ack = FALSE, !.timed_out = FALSE,
                        !.rc = "EIO"]
      BY <2>1, <2>3 DEF write_usb
    <3>2. w \in TxState
      <4> HIDE DEF w
      <4>1. QED
        BY <2>1, <3>1, Refused
    <3>3. /\ w.rc = "EIO" /\ w.sent = b.sent /\ w.urb = b.urb
          /\ w.Outrecs = b.Outrecs /\ w.Outhead = b.Outhead /\ w.Outtail = b.Outtail
      BY <2>1, <3>1 DEF TxState
    <3>4. t = [w EXCEPT !.Outbusy = FALSE, !.PollTimeOut = Never]
      BY <1>3, <3>3 DEF x10_write, w, b
    <3> HIDE DEF w, t
    <3>5. /\ t \in TxState /\ t.sent = s.sent /\ t.urb = s.urb /\ t.Outbusy = FALSE
          /\ t.Outrecs = s.Outrecs /\ t.Outhead = s.Outhead /\ t.Outtail = s.Outtail
      BY <2>1, <3>2, <3>3, <3>4 DEF TxState
    <3>6. SameFifo(s, t)
      BY <2>1, <3>5, SameRing DEF SameFifo
    <3>7. QED
      BY <3>6 DEF t
  <2>4. QED
    BY <2>2, <2>3
<1>4. QED
  BY <1>1, <1>2, <1>3

-----------------------------------------------------------------------------
(* The inductive invariant.  A failed OUT transfer keeps its credit, but   *)
(* it ends the daemon (Do_exit = 2), and nothing is cancelled before that, *)
(* hence the condition.  As long as nothing is, Told holds as well.        *)
IInv ==
  /\ TypeOK
  /\ Sound(tx)
  /\ Do_exit = 0 => Spent(tx) /\ Paced(tx) /\ ~tx.canceling /\ Told(tx)

(* The state mydaemon() starts from.                                       *)
LEMMA InitIInv == Init => IInv
<1> SUFFICES ASSUME Init PROVE IInv
  OBVIOUS
<1>1. InitTx \in TxState
  BY RingAssumption DEF InitTx, TxState, Slots, Urbs, Finished, Results
<1>2. TypeOK
  <2>1. 0 \in 0 .. MaxOwed
    BY OwedAssumption
  <2>2. QED
    BY <1>1, <2>1 DEF Init, TypeOK, Arrivals, Loop
<1>3. Sound(tx) /\ Spent(tx) /\ Paced(tx) /\ ~tx.canceling /\ Told(tx)
  BY <1>1 DEF Init, InitTx, Sound, Spent, Paced, Told
<1>4. QED
  BY <1>2, <1>3 DEF IInv

(* A step that leaves the transmit state alone, and Do_exit or sets it.    *)
LEMMA TxUntouched ==
  ASSUME IInv, TypeOK', tx' = tx, Do_exit' = Do_exit \/ Do_exit' # 0
  PROVE  IInv'
BY DEF IInv, Sound, Spent, Paced, Told

(* A step that runs one of the C functions.                                *)
LEMMA TxReplaced ==
  ASSUME IInv, TypeOK', Sound(tx'), 
         Do_exit' = 0 => Spent(tx') /\ Paced(tx') /\ ~tx'.canceling /\ Told(tx')
  PROVE  IInv'
BY DEF IInv, Sound, Spent, Paced, Told

(* The controller moves a transfer from the wire to finished.              *)
LEMMA Finishes ==
  ASSUME NEW s \in TxState, Sound(s), s.urb = "wire", NEW u \in {"completed", "failed"}
  PROVE  /\ Sound([s EXCEPT !.urb = u])
         /\ Spent(s) => Spent([s EXCEPT !.urb = u])
         /\ Paced(s) => Paced([s EXCEPT !.urb = u])
         /\ [s EXCEPT !.urb = u].canceling = s.canceling
         /\ Told([s EXCEPT !.urb = u])
<1> DEFINE t == [s EXCEPT !.urb = u]
<1>1. t \in TxState
  BY DEF TxState, Urbs, Finished
<1>2. /\ t.urb = u /\ t.canceling = s.canceling /\ t.submitted = s.submitted
      /\ t.completed = s.completed /\ t.rc = s.rc /\ t.Outbusy = s.Outbusy
      /\ t.PollTimeOut = s.PollTimeOut /\ t.Outhead = s.Outhead
      /\ t.Outtail = s.Outtail /\ t.ack = s.ack /\ t.timed_out = s.timed_out
  BY DEF TxState
<1> HIDE DEF t
<1>3. Sound(t) /\ Told(t)
  BY <1>1, <1>2 DEF Sound, Told
<1>4. (Spent(s) => Spent(t)) /\ (Paced(s) => Paced(t))
  BY <1>2 DEF Spent, Paced
<1>5. QED
  BY <1>2, <1>3, <1>4 DEF t

(* One step of the loop, of a callback or of the controller.               *)
LEMMA StepIInv == IInv /\ [Next]_vars => IInv'
<1> SUFFICES ASSUME IInv, [Next]_vars PROVE IInv'
  OBVIOUS
<1>0. /\ TypeOK /\ tx \in TxState /\ Sound(tx)
      /\ Do_exit = 0 => Spent(tx) /\ Paced(tx) /\ ~tx.canceling /\ Told(tx)
  BY DEF IInv, TypeOK
<1>1. ASSUME NEW c \in Cmds, NEW accepts \in BOOLEAN, Transmit(c, accepts)
      PROVE  IInv'
  <2>1. /\ Sound(tx')
        /\ Do_exit' = 0 => Spent(tx') /\ Paced(tx') /\ ~tx'.canceling /\ Told(tx')
    BY <1>0, <1>1, X10WriteSound DEF Transmit, KeepsTold
  <2>2. TypeOK'
    BY <1>0, <1>1, <2>1 DEF Transmit, TypeOK, Sound
  <2>3. QED
    BY <2>1, <2>2, TxReplaced
<1>2. ASSUME NEW accepts \in BOOLEAN, OutCallback(accepts)
      PROVE  IInv'
  <2>1. /\ tx.urb \in Finished /\ tx' = IntrOut_cb(tx, accepts)
        /\ Do_exit' = 0 => Do_exit = 0 /\ tx.urb # "failed"
    BY <1>2 DEF OutCallback
  <2>5. Do_exit' = 0 => tx.urb = "completed"
    BY <1>0, <2>1 DEF Sound, Told, Finished
  <2>2. /\ Sound(tx')
        /\ Do_exit' = 0 => Spent(tx') /\ Paced(tx') /\ ~tx'.canceling /\ Told(tx')
    BY <1>0, <2>1, <2>5, OutCb
  <2>3. TypeOK'
    BY <1>0, <1>2, <2>2 DEF OutCallback, TypeOK, Sound
  <2>4. QED
    BY <2>2, <2>3, TxReplaced
<1>3. ASSUME NEW accepts \in BOOLEAN, InAck(accepts)
      PROVE  IInv'
  <2>1. /\ Sound(tx') /\ Spent(tx') /\ Paced(tx') /\ (~tx.canceling => ~tx'.canceling)
        /\ KeepsTold(tx, tx')
    BY <1>0, <1>3, AckOrTimeout DEF InAck
  <2>4. Do_exit' = 0 => Do_exit = 0
    BY <1>3 DEF InAck, Resubmit
  <2>2. TypeOK'
    BY <1>0, <1>3, <2>1 DEF InAck, Resubmit, TypeOK, Sound
  <2>3. QED
    BY <1>0, <2>1, <2>2, <2>4, TxReplaced DEF KeepsTold
<1>4. ASSUME NEW accepts \in BOOLEAN, ChargeTimeout(accepts)
      PROVE  IInv'
  <2>1. /\ Sound(tx') /\ Spent(tx') /\ Paced(tx') /\ (~tx.canceling => ~tx'.canceling)
        /\ KeepsTold(tx, tx')
    BY <1>0, <1>4, AckOrTimeout DEF ChargeTimeout
  <2>4. Do_exit' = Do_exit
    BY <1>4 DEF ChargeTimeout
  <2>2. TypeOK'
    BY <1>0, <1>4, <2>1 DEF ChargeTimeout, TypeOK, Sound, Loop
  <2>3. QED
    BY <1>0, <2>1, <2>2, <2>4, TxReplaced DEF KeepsTold
<1>5. CASE \/ StartupDone \/ EnterPoll \/ PollTimesOut
           \/ PollReady \/ PollFails \/ StopLoop \/ sighandler
  <2>1. TypeOK' /\ tx' = tx /\ (Do_exit' = Do_exit \/ Do_exit' # 0)
    BY <1>0, <1>5 DEF StartupDone, EnterPoll, PollTimesOut, PollReady, PollFails, StopLoop,
                      sighandler, TypeOK, Loop
  <2>2. QED
    BY <2>1, TxUntouched
<1>6. CASE InByte \/ InFrame \/ FrameDecoded \/ InError
  <2>1. Resubmit => /\ inUrb' \in {"idle", "waiting"}
                    /\ Do_exit' = Do_exit \/ Do_exit' = 2
    BY DEF Resubmit
  <2>2. /\ tx' = tx /\ loop' = loop /\ owed' = owed
        /\ inUrb' \in {"idle", "waiting"}
        /\ decoding' = decoding \/ decoding' \in BOOLEAN
        /\ Do_exit' = Do_exit \/ Do_exit' = 2
    BY <1>6, <2>1 DEF InByte, InFrame, FrameDecoded, InError
  <2>3. TypeOK'
    BY <1>0, <2>2 DEF TypeOK
  <2>4. QED
    BY <2>2, <2>3, TxUntouched
<1>7. CASE ServeClients \/ ClientsServed
  <2>1. TypeOK' /\ tx' = tx /\ Do_exit' = Do_exit
    BY <1>0, <1>7 DEF ServeClients, ClientsServed, TypeOK, Loop
  <2>2. QED
    BY <2>1, TxUntouched
<1>8. CASE ControllerTakes \/ ControllerFails
  <2>1. PICK u \in {"completed", "failed"} : tx' = [tx EXCEPT !.urb = u]
    BY <1>8 DEF ControllerTakes, ControllerFails
  <2>2. tx.urb = "wire" /\ Do_exit' = Do_exit
    BY <1>8 DEF ControllerTakes, ControllerFails
  <2>3. /\ Sound(tx')
        /\ Do_exit' = 0 => Spent(tx') /\ Paced(tx') /\ ~tx'.canceling /\ Told(tx')
    BY <1>0, <2>1, <2>2, Finishes
  <2>4. owed' \in 0 .. MaxOwed
    BY <1>0, <1>8, OwedAssumption DEF ControllerTakes, ControllerFails, TypeOK
  <2>5. TypeOK'
    BY <1>0, <1>8, <2>3, <2>4 DEF ControllerTakes, ControllerFails, TypeOK, Sound
  <2>6. QED
    BY <2>3, <2>5, TxReplaced
<1>9. CASE ControllerAcks \/ ControllerForgets \/ ControllerReports
  <2>1. owed' \in 0 .. MaxOwed
    BY <1>0, <1>9, OwedAssumption DEF ControllerAcks, ControllerForgets, ControllerReports, TypeOK
  <2>2. TypeOK' /\ tx' = tx /\ Do_exit' = Do_exit
    BY <1>0, <1>9, <2>1 DEF ControllerAcks, ControllerForgets, ControllerReports,
                            TypeOK, Arrivals
  <2>3. QED
    BY <2>2, TxUntouched
<1>10. CASE UNCHANGED vars
  <2>1. TypeOK' /\ tx' = tx /\ Do_exit' = Do_exit
    BY <1>0, <1>10 DEF vars, TypeOK
  <2>2. QED
    BY <2>1, TxUntouched
<1>11. QED
  BY <1>1, <1>2, <1>3, <1>4, <1>5, <1>6, <1>7, <1>8, <1>9, <1>10
     DEF Next, Daemon, Controller

(* What the invariant says in the words of the properties.                 *)
LEMMA IInvImplies ==
  IInv => /\ TypeOK /\ IdleIsDrained /\ BusyIsArmed
          /\ NeverRefusedAsActive /\ NoSpareCredit /\ Cm19aPacedByCompletion
          /\ Told(tx) => FlagsTellTheTransfer
BY DEF IInv, Sound, Told, Spent, Paced, IdleIsDrained, BusyIsArmed, FlagsTellTheTransfer,
       NeverRefusedAsActive, NoSpareCredit, Cm19aPacedByCompletion, TypeOK, TxState

(* No step of the loop, not even of a loop that is stopping, clears        *)
(* IntrOut_submitted while libusb has the transfer.                        *)
LEMMA StepTold ==
  ASSUME IInv, [Next]_vars
  PROVE  KeepsTold(tx, tx')
<1>0. tx \in TxState /\ Sound(tx)
  BY DEF IInv, TypeOK
<1>1. ASSUME NEW c \in Cmds, NEW accepts \in BOOLEAN, Transmit(c, accepts)
      PROVE  KeepsTold(tx, tx')
  BY <1>0, <1>1, X10WriteSound DEF Transmit
<1>2. ASSUME NEW accepts \in BOOLEAN, OutCallback(accepts)
      PROVE  KeepsTold(tx, tx')
  BY <1>0, <1>2, OutCb DEF OutCallback, KeepsTold
<1>3. ASSUME NEW accepts \in BOOLEAN, InAck(accepts) \/ ChargeTimeout(accepts)
      PROVE  KeepsTold(tx, tx')
  BY <1>0, <1>3, AckOrTimeout DEF InAck, ChargeTimeout
<1>4. CASE ControllerTakes \/ ControllerFails
  <2>1. PICK u \in {"completed", "failed"} : tx' = [tx EXCEPT !.urb = u]
    BY <1>4 DEF ControllerTakes, ControllerFails
  <2>2. tx.urb = "wire"
    BY <1>4 DEF ControllerTakes, ControllerFails
  <2>3. QED
    BY <1>0, <2>1, <2>2, Finishes DEF KeepsTold
<1>5. CASE \/ StartupDone \/ EnterPoll \/ PollTimesOut \/ PollReady \/ PollFails
           \/ StopLoop \/ sighandler \/ InByte \/ InFrame \/ FrameDecoded \/ InError
           \/ ServeClients \/ ClientsServed
           \/ ControllerAcks \/ ControllerForgets \/ ControllerReports
           \/ UNCHANGED vars
  <2>1. tx' = tx
    BY <1>5 DEF StartupDone, EnterPoll, PollTimesOut, PollReady, PollFails, StopLoop,
                sighandler, InByte, InFrame, FrameDecoded, InError, ServeClients,
                ClientsServed, ControllerAcks, ControllerForgets, ControllerReports, vars
  <2>2. QED
    BY <2>1 DEF KeepsTold
<1>6. QED
  BY <1>1, <1>2, <1>3, <1>4, <1>5 DEF Next, Daemon, Controller

(* The invariant holds throughout.                                         *)
LEMMA Invariance == Spec => []IInv
BY InitIInv, StepIInv, PTL DEF Spec

(* ... and so do the flags, as nothing of X10Transmit cancels a transfer.  *)
LEMMA ToldInvariance == Spec => []Told(tx)
<1>1. Init => Told(tx)
  BY DEF Init, InitTx, Told
<1>2. IInv /\ Told(tx) /\ [Next]_vars => Told(tx)'
  BY StepTold DEF KeepsTold
<1>3. QED
  BY <1>1, <1>2, Invariance, PTL DEF Spec

-----------------------------------------------------------------------------
(* The ring indices, the flags and the loop keep their ranges whatever the *)
(* controller does (next_index, x10_write.c:44-47).                        *)
THEOREM TypeCorrect == Spec => []TypeOK
BY Invariance, IInvImplies, PTL

(* x10_write() bypasses the queue only when nothing is queued, nothing is  *)
(* in flight and no timeout is armed (x10_write.c:94-116).                 *)
THEOREM IdleDrained == Spec => []IdleIsDrained
BY Invariance, IInvImplies, PTL

(* While a packet or a refused retry is pending the main loop's poll() has *)
(* a finite timeout (x10_write.c:85-91, 114).                              *)
THEOREM BusyArmed == Spec => []BusyIsArmed
BY Invariance, IInvImplies, PTL

(* write_usb() is never called with an active transfer, so its EBUSY       *)
(* branch is dead code and the flags agree with libusb (mochad.c:1511).    *)
THEOREM TransferRespected == Spec => [](FlagsTellTheTransfer /\ NeverRefusedAsActive)
BY Invariance, ToldInvariance, IInvImplies, PTL

(* No ACK or timeout survives to release a later packet                    *)
(* (maybe_finish_x10_transmit, mochad.c:284-307).                          *)
THEOREM CreditSpent == Spec => []NoSpareCredit
BY Invariance, IInvImplies, PTL

(* OUT completion alone paces a CM19A (mochad.c:288-297).                  *)
THEOREM Cm19aPaced == Spec => []Cm19aPacedByCompletion
BY Invariance, IInvImplies, PTL

-----------------------------------------------------------------------------
(* Every step of the loop, of a callback or of the controller is a step of *)
(* the FIFO or leaves it alone.                                            *)
LEMMA StepFifo == IInv /\ IInv' /\ [Next]_vars => [Fifo!Next]_Fifo!fifo
<1> SUFFICES ASSUME IInv, IInv', [Next]_vars PROVE [Fifo!Next]_Fifo!fifo
  OBVIOUS
<1>1. /\ tx \in TxState /\ tx' \in TxState /\ Sound(tx)
      /\ Queued = Queue(tx) /\ Queued' = Queue(tx')
  BY DEF IInv, TypeOK, Queued, Queue, Count
<1>2. ASSUME SameFifo(tx, tx') PROVE UNCHANGED Fifo!fifo
  BY <1>1, <1>2 DEF SameFifo, Fifo!fifo
<1>3. ASSUME Sends(tx, tx') PROVE Fifo!SubmitHead
  BY <1>1, <1>3 DEF Sends, Fifo!SubmitHead
<1>4. ASSUME Idles(tx, tx') PROVE Fifo!GoIdle
  BY <1>1, <1>4 DEF Idles, Fifo!GoIdle, TxState
<1>5. ASSUME Completes(tx, tx') PROVE Fifo!Finish
  BY <1>1, <1>5 DEF Completes, Fifo!Finish
<1>6. ASSUME NEW c \in Cmds, Accepts(tx, c, tx')
      PROVE  Fifo!SubmitNow(c) \/ Fifo!Enqueue(c)
  BY <1>1, <1>6 DEF Accepts, Fifo!SubmitNow, Fifo!Enqueue
<1>7. ASSUME NEW c \in Cmds, NEW accepts \in BOOLEAN, Transmit(c, accepts)
      PROVE  [Fifo!Next]_Fifo!fifo
  <2>1. SameFifo(tx, tx') \/ Accepts(tx, c, tx')
    BY <1>1, <1>7, X10WriteFifo DEF Transmit
  <2>2. QED
    BY <1>2, <1>6, <2>1 DEF Fifo!Next
<1>8. ASSUME NEW accepts \in BOOLEAN,
             OutCallback(accepts) \/ InAck(accepts) \/ ChargeTimeout(accepts)
      PROVE  [Fifo!Next]_Fifo!fifo
  <2>1. SameFifo(tx, tx') \/ Sends(tx, tx') \/ Idles(tx, tx')
    BY <1>1, <1>8, CallbackFifo DEF OutCallback, InAck, ChargeTimeout
  <2>2. QED
    BY <1>2, <1>3, <1>4, <2>1 DEF Fifo!Next
<1>9. CASE ControllerTakes \/ ControllerFails
  <2>1. Completes(tx, tx')
    <3>1. PICK u \in {"completed", "failed"} : tx' = [tx EXCEPT !.urb = u]
      BY <1>9 DEF ControllerTakes, ControllerFails
    <3>2. tx.urb = "wire"
      BY <1>9 DEF ControllerTakes, ControllerFails
    <3>3. QED
      BY <1>1, <3>1, <3>2, SameRing DEF Completes, TxState
  <2>2. QED
    BY <1>5, <2>1 DEF Fifo!Next
<1>10. CASE \/ StartupDone \/ EnterPoll \/ PollTimesOut \/ PollReady \/ PollFails
            \/ StopLoop \/ sighandler \/ InByte \/ InFrame \/ FrameDecoded \/ InError
            \/ ServeClients \/ ClientsServed
            \/ ControllerAcks \/ ControllerForgets \/ ControllerReports
            \/ UNCHANGED vars
  <2>1. tx' = tx
    BY <1>10 DEF StartupDone, EnterPoll, PollTimesOut, PollReady, PollFails, StopLoop,
                 sighandler, InByte, InFrame, FrameDecoded, InError, ServeClients,
                 ClientsServed, ControllerAcks, ControllerForgets, ControllerReports, vars
  <2>2. QED
    BY <1>2, <2>1 DEF SameFifo
<1>11. QED
  BY <1>7, <1>8, <1>9, <1>10 DEF Next, Daemon, Controller

(* The empty ring of the start is the empty FIFO.                          *)
LEMMA InitFifo == Init => Fifo!Init
<1> SUFFICES ASSUME Init PROVE Fifo!Init
  OBVIOUS
<1>1. tx \in TxState /\ tx = InitTx /\ Queued = Queue(tx)
  BY InitIInv DEF IInv, TypeOK, Init, Queued, Queue, Count
<1>2. Queued = <<>>
  BY <1>1, EmptyQueue DEF InitTx
<1>3. QED
  BY <1>1, <1>2 DEF Fifo!Init, InitTx

(* The ring, the busy flag and the one OUT transfer implement a FIFO: a    *)
(* packet x10_write() accepted is sent once, in its turn, across full      *)
(* rings, refused submits, lost ACKs and timeouts, for a ring of any size  *)
(* (x10_write.c:53-125).                                                   *)
THEOREM Refinement == Spec => ImplementsFifo
<1>1. Spec => Fifo!Init /\ [][Fifo!Next]_Fifo!fifo
  BY InitFifo, Invariance, StepFifo, PTL DEF Spec
<1>2. QED
  BY <1>1 DEF ImplementsFifo, Fifo!Spec

-----------------------------------------------------------------------------
(* Flow control towards a CM15A.                                           *)

(* As long as no timeout was charged that the controller has to catch up   *)
(* with: a path that is idle owes nothing, a packet on the wire holds no   *)
(* credit, and a credit held for a transfer whose callback has not run     *)
(* belongs to that transfer.                                               *)
Credit ==
  /\ Outstanding <= 1
  /\ ~tx.Outbusy => Outstanding = 0
  /\ tx.urb = "wire" => ~tx.ack /\ ~tx.timed_out
  /\ tx.urb = "completed" /\ (tx.ack \/ tx.timed_out) => Outstanding = 0

FlowIInv == IInv /\ slipped \in BOOLEAN /\ (~slipped => Credit)

-----------------------------------------------------------------------------
(* write_usb() clears both flags before it submits (mochad.c:1517-1521),   *)
(* so a packet that send_next_x10out() put on the wire holds no credit.    *)
LEMMA SendNextClears ==
  ASSUME NEW s \in TxState, Sound(s), s.completed, NEW accepts \in BOOLEAN
  PROVE  LET t == send_next_x10out(s, accepts)
         IN  t.urb \in {"idle", "wire"} /\ (t.urb = "wire" => ~t.ack /\ ~t.timed_out)
<1> DEFINE w == write_usb(s, s.Outrecs[next_index(s.Outhead)], accepts)
           t == send_next_x10out(s, accepts)
<1>1. ~s.submitted /\ ~s.canceling /\ s.urb = "idle"
  BY DEF Sound
<1>2. /\ w.urb \in {"idle", "wire"} /\ ~w.ack /\ ~w.timed_out
      /\ [w EXCEPT !.Outhead = next_index(s.Outhead)].urb = w.urb
      /\ [w EXCEPT !.Outhead = next_index(s.Outhead)].ack = w.ack
      /\ [w EXCEPT !.Outhead = next_index(s.Outhead)].timed_out = w.timed_out
      /\ [w EXCEPT !.PollTimeOut = AckTimeout].urb = w.urb
      /\ [w EXCEPT !.PollTimeOut = AckTimeout].ack = w.ack
      /\ [w EXCEPT !.PollTimeOut = AckTimeout].timed_out = w.timed_out
  BY <1>1 DEF write_usb, TxState
<1>3. [s EXCEPT !.Outbusy = FALSE, !.PollTimeOut = Never].urb = "idle"
  BY <1>1 DEF TxState
<1>4. \/ t = s \/ t = [s EXCEPT !.Outbusy = FALSE, !.PollTimeOut = Never]
      \/ t = [w EXCEPT !.Outhead = next_index(s.Outhead)]
      \/ t = [w EXCEPT !.PollTimeOut = AckTimeout]
  BY DEF send_next_x10out
<1> HIDE DEF w, t
<1>5. t.urb \in {"idle", "wire"} /\ (t.urb = "wire" => ~t.ack /\ ~t.timed_out)
  BY <1>1, <1>2, <1>3, <1>4
<1>6. QED
  BY <1>5 DEF t

(* A CM15A is released by a credit only: without one, or while a transfer  *)
(* is not finished, maybe_finish_x10_transmit() changes nothing.           *)
LEMMA MaybeFinishClears ==
  ASSUME ~Cm19a, NEW s \in TxState, Sound(s), NEW accepts \in BOOLEAN
  PROVE  LET t == maybe_finish_x10_transmit(s, accepts)
         IN  /\ s.urb # "idle" \/ ~(s.ack \/ s.timed_out) => t = s
             /\ s.urb = "idle" =>
                  /\ t.urb \in {"idle", "wire"}
                  /\ t.urb = "wire" => ~t.ack /\ ~t.timed_out
<1> DEFINE b == [s EXCEPT !.ack = FALSE, !.timed_out = FALSE]
           t == maybe_finish_x10_transmit(s, accepts)
<1>1. CASE s.urb = "idle" /\ (s.ack \/ s.timed_out)
  <2>1. s.completed
    BY <1>1 DEF Sound
  <2>2. /\ b \in TxState /\ b.completed /\ b.urb = s.urb
        /\ b.submitted = s.submitted /\ b.canceling = s.canceling
        /\ b.completed = s.completed /\ b.rc = s.rc /\ b.Outbusy = s.Outbusy
        /\ b.PollTimeOut = s.PollTimeOut /\ b.Outhead = s.Outhead
        /\ b.Outtail = s.Outtail
    BY <2>1 DEF TxState
  <2>3. t = send_next_x10out(b, accepts)
    BY <1>1, <2>1 DEF maybe_finish_x10_transmit
  <2> HIDE DEF b
  <2>4. Sound(b)
    BY <2>2 DEF Sound
  <2>5. QED
    BY <1>1, <2>2, <2>3, <2>4, SendNextClears
<1>2. CASE ~(s.urb = "idle" /\ (s.ack \/ s.timed_out))
  <2>1. ~(s.completed /\ (s.ack \/ s.timed_out))
    BY <1>2 DEF Sound
  <2>2. t = s
    BY <2>1 DEF maybe_finish_x10_transmit
  <2>3. QED
    BY <1>2, <2>2
<1>3. QED
  BY <1>1, <1>2

(* IntrOut_cb(): the credit, if there is one, releases the next packet.    *)
LEMMA OutCbClears ==
  ASSUME ~Cm19a, NEW s \in TxState, Sound(s), s.urb \in Finished,
         NEW accepts \in BOOLEAN
  PROVE  LET t == IntrOut_cb(s, accepts)
         IN  /\ t.urb \in {"idle", "wire"}
             /\ t.urb = "wire" => ~t.ack /\ ~t.timed_out
             /\ s.urb # "completed" \/ ~(s.ack \/ s.timed_out) =>
                  t.urb = "idle" /\ t.Outbusy = s.Outbusy
<1> DEFINE b == [s EXCEPT !.submitted = FALSE, !.canceling = FALSE,
                          !.completed = TRUE, !.urb = "idle"]
           t == IntrOut_cb(s, accepts)
<1>1. /\ b \in TxState /\ b.urb = "idle" /\ b.submitted = FALSE
      /\ b.canceling = FALSE /\ b.completed = TRUE /\ b.rc = s.rc
      /\ b.Outbusy = s.Outbusy /\ b.PollTimeOut = s.PollTimeOut
      /\ b.Outhead = s.Outhead /\ b.Outtail = s.Outtail
      /\ b.ack = s.ack /\ b.timed_out = s.timed_out
  BY DEF TxState, Urbs
<1>2. t = IF s.urb = "completed" THEN maybe_finish_x10_transmit(b, accepts) ELSE b
  BY DEF IntrOut_cb
<1> HIDE DEF b, t
<1>3. Sound(b)
  BY <1>1 DEF Sound, Finished
<1>4. /\ t.urb \in {"idle", "wire"}
      /\ t.urb = "wire" => ~t.ack /\ ~t.timed_out
      /\ s.urb # "completed" \/ ~(s.ack \/ s.timed_out) =>
           t.urb = "idle" /\ t.Outbusy = s.Outbusy
  BY <1>1, <1>2, <1>3, MaybeFinishClears
<1>5. QED
  BY <1>4 DEF t

(* An ACK is a credit for a transfer in flight, or releases at once.       *)
LEMMA AckClears ==
  ASSUME ~Cm19a, NEW s \in TxState, Sound(s), NEW accepts \in BOOLEAN
  PROVE  LET t == ack_received(s, accepts)
         IN  /\ s.urb # "idle" => t.urb = s.urb
             /\ s.urb = "idle" =>
                  /\ t.urb \in {"idle", "wire"}
                  /\ t.urb = "wire" => ~t.ack /\ ~t.timed_out
<1> DEFINE b == [s EXCEPT !.ack = TRUE]
<1>1. /\ b \in TxState /\ b.urb = s.urb
      /\ b.submitted = s.submitted /\ b.canceling = s.canceling
      /\ b.completed = s.completed /\ b.rc = s.rc /\ b.Outbusy = s.Outbusy
      /\ b.PollTimeOut = s.PollTimeOut /\ b.Outhead = s.Outhead
      /\ b.Outtail = s.Outtail
  BY DEF TxState
<1>2. ack_received(s, accepts) = maybe_finish_x10_transmit(b, accepts)
  BY DEF ack_received
<1> HIDE DEF b
<1>3. Sound(b)
  BY <1>1 DEF Sound
<1>4. QED
  BY <1>1, <1>2, <1>3, MaybeFinishClears

(* x10_write(): queued, nothing changes on the wire; else handed over      *)
(* without a credit, or refused and idle again.                            *)
LEMMA X10WriteClears ==
  ASSUME NEW s \in TxState, Sound(s), NEW c \in Cmds, NEW accepts \in BOOLEAN
  PROVE  LET t == x10_write(s, c, accepts)
         IN  /\ s.Outbusy => /\ t.urb = s.urb /\ t.Outbusy = s.Outbusy
                             /\ t.ack = s.ack /\ t.timed_out = s.timed_out
             /\ ~s.Outbusy => /\ t.urb \in {"idle", "wire"}
                              /\ t.urb = "wire" => ~t.ack /\ ~t.timed_out
<1> DEFINE b == [s EXCEPT !.Outbusy = TRUE]
           w == write_usb(b, c, accepts)
           t == x10_write(s, c, accepts)
<1>1. CASE s.Outbusy
  BY <1>1 DEF x10_write, add_x10out, TxState
<1>2. CASE ~s.Outbusy
  <2>1. b \in TxState /\ ~b.submitted /\ ~b.canceling /\ b.urb = "idle"
    BY <1>2 DEF Sound, TxState
  <2> HIDE DEF b
  <2>2. /\ w.urb \in {"idle", "wire"} /\ ~w.ack /\ ~w.timed_out
        /\ [w EXCEPT !.PollTimeOut = AckTimeout].urb = w.urb
        /\ [w EXCEPT !.PollTimeOut = AckTimeout].ack = w.ack
        /\ [w EXCEPT !.PollTimeOut = AckTimeout].timed_out = w.timed_out
        /\ [w EXCEPT !.Outbusy = FALSE, !.PollTimeOut = Never].urb = w.urb
        /\ [w EXCEPT !.Outbusy = FALSE, !.PollTimeOut = Never].ack = w.ack
        /\ [w EXCEPT !.Outbusy = FALSE, !.PollTimeOut = Never].timed_out = w.timed_out
    BY <2>1 DEF write_usb, TxState
  <2>3. \/ t = [w EXCEPT !.PollTimeOut = AckTimeout]
        \/ t = [w EXCEPT !.Outbusy = FALSE, !.PollTimeOut = Never]
    BY <1>2 DEF x10_write, b
  <2> HIDE DEF w, t
  <2>4. t.urb \in {"idle", "wire"} /\ (t.urb = "wire" => ~t.ack /\ ~t.timed_out)
    BY <2>2, <2>3
  <2>5. QED
    BY <1>2, <2>4 DEF t
<1>3. QED
  BY <1>1, <1>2

-----------------------------------------------------------------------------
(* The controller has nothing when the loop starts.                        *)
LEMMA InitFlow == FlowInit => FlowIInv
<1> SUFFICES ASSUME FlowInit PROVE FlowIInv
  OBVIOUS
<1>1. IInv
  BY InitIInv DEF FlowInit
<1>2. Outstanding = 0 /\ tx.urb = "idle"
  BY DEF FlowInit, Init, InitTx, Outstanding
<1>3. Credit
  BY <1>2 DEF Credit
<1>4. QED
  BY <1>1, <1>3 DEF FlowIInv, FlowInit

(* Outstanding is a count, and counts a packet on the wire.                *)
LEMMA Counted ==
  ASSUME NEW o \in Nat, NEW u, NEW i
  PROVE  LET n == o + (IF u = "wire" THEN 1 ELSE 0) + (IF i = "ack" THEN 1 ELSE 0)
         IN  /\ n \in Nat
             /\ u = "wire" => n # 0
             /\ ~(n > 0) => n = 0
OBVIOUS

(* Once a timeout was charged, Credit holds again as soon as the           *)
(* controller owes nothing.                                                *)
LEMMA CaughtUp ==
  ASSUME IInv', Observe, slipped \/ Charged, ~slipped'
  PROVE  Credit'
<1>1. owed' \in Nat
  BY OwedAssumption DEF IInv, TypeOK
<1>2. ~(Outstanding' > 0)
  BY DEF Observe
<1>3. Outstanding' = 0 /\ tx'.urb # "wire"
  BY <1>1, <1>2, Counted DEF Outstanding
<1>4. QED
  BY <1>3 DEF Credit

(* A step that charges no timeout keeps Credit.                            *)
LEMMA StepCredit ==
  ASSUME ~Cm19a, IInv, IInv', Credit, Next, ~Charged
  PROVE  Credit'
<1>1. /\ owed \in Nat /\ owed' \in Nat
      /\ tx \in TxState /\ Sound(tx) /\ tx' \in TxState
      /\ tx'.urb = "wire" => tx'.Outbusy
      /\ tx.urb = "wire" => tx.Outbusy
  <2>1. owed' \in Nat /\ tx' \in TxState /\ Sound(tx')
    BY OwedAssumption DEF IInv, TypeOK
  <2>2. owed \in Nat /\ tx \in TxState /\ Sound(tx)
    BY OwedAssumption DEF IInv, TypeOK
  <2>3. QED
    BY <2>1, <2>2 DEF Sound
<1> USE DEF Credit, Outstanding
<1>2. ASSUME NEW c \in Cmds, NEW accepts \in BOOLEAN, Transmit(c, accepts)
      PROVE  Credit'
  <2>1. tx' = x10_write(tx, c, accepts) /\ inUrb' = inUrb /\ owed' = owed
    BY <1>2 DEF Transmit
  <2>2. CASE tx.Outbusy
    BY <1>1, <2>1, <2>2, X10WriteClears
  <2>3. CASE ~tx.Outbusy
    <3>1. tx.urb # "wire" /\ owed = 0 /\ inUrb # "ack"
      BY <1>1, <2>3
    <3>2. tx'.urb \in {"idle", "wire"} /\ (tx'.urb = "wire" => ~tx'.ack /\ ~tx'.timed_out)
      BY <1>1, <2>1, <2>3, X10WriteClears
    <3>3. QED
      BY <1>1, <2>1, <3>1, <3>2
  <2>4. QED
    BY <2>2, <2>3
<1>3. ASSUME NEW accepts \in BOOLEAN, OutCallback(accepts)
      PROVE  Credit'
  <2>1. /\ tx.urb \in Finished /\ tx' = IntrOut_cb(tx, accepts)
        /\ inUrb' = inUrb /\ owed' = owed /\ tx.urb # "wire"
    BY <1>3 DEF OutCallback, Finished
  <2>2. /\ tx'.urb \in {"idle", "wire"}
        /\ tx'.urb = "wire" => ~tx'.ack /\ ~tx'.timed_out
        /\ tx.urb # "completed" \/ ~(tx.ack \/ tx.timed_out) =>
             tx'.urb = "idle" /\ tx'.Outbusy = tx.Outbusy
    BY <1>1, <2>1, OutCbClears
  <2>3. CASE tx.urb = "completed" /\ (tx.ack \/ tx.timed_out)
    BY <1>1, <2>1, <2>2, <2>3
  <2>4. CASE ~(tx.urb = "completed" /\ (tx.ack \/ tx.timed_out))
    BY <1>1, <2>1, <2>2, <2>4
  <2>5. QED
    BY <2>3, <2>4
<1>4. ASSUME NEW accepts \in BOOLEAN, InAck(accepts)
      PROVE  Credit'
  <2>1. /\ inUrb = "ack" /\ inUrb' \in {"idle", "waiting"}
        /\ tx' = ack_received(tx, accepts) /\ owed' = owed
    BY <1>4 DEF InAck, Resubmit
  <2>2. owed = 0 /\ tx.urb # "wire"
    BY <1>1, <2>1
  <2>3. /\ tx.urb # "idle" => tx'.urb = tx.urb
        /\ tx.urb = "idle" =>
             /\ tx'.urb \in {"idle", "wire"}
             /\ tx'.urb = "wire" => ~tx'.ack /\ ~tx'.timed_out
    BY <1>1, <2>1, AckClears
  <2>4. QED
    BY <1>1, <2>1, <2>2, <2>3
<1>5. ASSUME NEW accepts \in BOOLEAN, ChargeTimeout(accepts)
      PROVE  FALSE
  BY <1>5 DEF ChargeTimeout, Charged
<1>6. CASE ControllerTakes \/ ControllerFails
  <2>1. PICK u \in {"completed", "failed"} : tx' = [tx EXCEPT !.urb = u]
    BY <1>6 DEF ControllerTakes, ControllerFails
  <2>2. /\ tx.urb = "wire" /\ inUrb' = inUrb
        /\ owed' = owed \/ owed' = owed + 1
    BY <1>6 DEF ControllerTakes, ControllerFails
  <2>3. tx'.urb = u /\ tx'.Outbusy /\ ~tx'.ack /\ ~tx'.timed_out
    BY <1>1, <2>1, <2>2 DEF TxState
  <2>4. owed = 0 /\ inUrb # "ack"
    BY <1>1, <2>2
  <2>5. QED
    BY <2>2, <2>3, <2>4
<1>7. CASE ControllerAcks \/ ControllerForgets \/ ControllerReports
  <2>1. /\ tx' = tx
        /\ \/ inUrb # "ack" /\ inUrb' = "ack" /\ owed' = owed - 1
           \/ inUrb' = inUrb /\ owed' = owed - 1
           \/ inUrb' # "ack" /\ owed' = owed
    BY <1>7 DEF ControllerAcks, ControllerForgets, ControllerReports
  <2>2. /\ Outstanding = 0 => Outstanding' = 0
        /\ Outstanding <= 1 => Outstanding' <= 1
    <3> DEFINE n(o, u, i) ==
                 o + (IF u = "wire" THEN 1 ELSE 0) + (IF i = "ack" THEN 1 ELSE 0)
    <3>1. \A o, p \in Nat : \A u, i, j :
            \/ i # "ack" /\ j = "ack" /\ p = o - 1
            \/ j = i /\ p = o - 1
            \/ j # "ack" /\ p = o
            => /\ n(o, u, i) = 0 => n(p, u, j) = 0
               /\ n(o, u, i) <= 1 => n(p, u, j) <= 1
      OBVIOUS
    <3>2. /\ Outstanding = n(owed, tx.urb, inUrb)
          /\ Outstanding' = n(owed', tx.urb, inUrb')
      BY <2>1
    <3> HIDE DEF n, Outstanding
    <3>3. QED
      BY <1>1, <2>1, <3>1, <3>2
  <2> HIDE DEF Outstanding
  <2>3. QED
    BY <2>1, <2>2
<1>8. CASE \/ StartupDone \/ EnterPoll \/ PollTimesOut \/ PollReady \/ PollFails
           \/ StopLoop \/ sighandler \/ InByte \/ InFrame \/ FrameDecoded \/ InError
           \/ ServeClients \/ ClientsServed
  <2>1. tx' = tx /\ owed' = owed /\ (inUrb' = inUrb \/ inUrb' # "ack")
    BY <1>8 DEF StartupDone, EnterPoll, PollTimesOut, PollReady, PollFails, StopLoop,
                sighandler, InByte, InFrame, FrameDecoded, InError, ServeClients,
                ClientsServed, Resubmit
  <2>2. QED
    BY <1>1, <2>1
<1>9. QED
  BY <1>2, <1>3, <1>4, <1>5, <1>6, <1>7, <1>8 DEF Next, Daemon, Controller

(* Any step of a CM15A's flow.                                             *)
LEMMA StepFlow ==
  ASSUME ~Cm19a
  PROVE  FlowIInv /\ [FlowNext]_flowVars => FlowIInv'
<1> SUFFICES ASSUME FlowIInv, [FlowNext]_flowVars PROVE FlowIInv'
  OBVIOUS
<1>1. CASE UNCHANGED flowVars
  <2>1. IInv'
    BY <1>1, StepIInv DEF FlowIInv, flowVars, vars
  <2>2. QED
    BY <1>1, <2>1 DEF FlowIInv, flowVars, Credit, Outstanding
<1>2. CASE FlowNext
  <2>1. IInv'
    BY <1>2, StepIInv DEF FlowIInv, FlowNext
  <2>2. slipped' \in BOOLEAN
    BY <1>2 DEF FlowNext, Observe
  <2>3. ~slipped' => Credit'
    BY <1>2, <2>1, CaughtUp, StepCredit DEF FlowIInv, FlowNext
  <2>4. QED
    BY <2>1, <2>2, <2>3 DEF FlowIInv
<1>3. QED
  BY <1>1, <1>2

-----------------------------------------------------------------------------
(* The history variables restrict nothing: everything proved of Spec holds *)
(* of FlowSpec.                                                            *)
THEOREM FlowObserves == FlowSpec => Spec
<1>1. FlowInit => Init
  BY DEF FlowInit
<1>2. [FlowNext]_flowVars => [Next]_vars
  BY DEF FlowNext, flowVars, vars
<1>3. QED
  BY <1>1, <1>2, PTL DEF FlowSpec, Spec

(* Flow control of a CM15A: as long as no timeout was charged that the     *)
(* controller has not caught up with, it never holds one packet while      *)
(* another is sent to it (x10_write.c:20-23, mochad.c:284-307).            *)
THEOREM OnePacket ==
  ASSUME ~Cm19a
  PROVE  FlowSpec => []OneAtController
<1>1. FlowIInv => OneAtController
  BY DEF FlowIInv, Credit, OneAtController
<1>2. QED
  BY <1>1, InitFlow, StepFlow, PTL DEF FlowSpec
=============================================================================
