----------------------------- MODULE ClientOutput -----------------------------
(***************************************************************************)
(* The output of one client slot, byte by byte: the ring buffer            *)
(* struct client_output_queue of src/core/mochad.c, its flush from the     *)
(* event loop when poll() reports POLLOUT, the mark stalled_since and its  *)
(* 30 second rule, send_all() of src/net/socket_io.c for the one reply     *)
(* that is sent past the queue, and (external) the kernel's send buffer    *)
(* and the peer.                                                           *)
(*                                                                         *)
(* Byte i of a message of n bytes is <<n, i>>: enough for a peer to tell   *)
(* a whole message from a torn one.                                        *)
(***************************************************************************)
EXTENDS Integers, Sequences

CONSTANTS
  QueueSize,  (* CLIENT_OUTPUT_QUEUE_SIZE, 16384                           *)
  Room,       (* external: the kernel's send buffer, bytes                 *)
  WriteMark,  (* external: free bytes from which poll() reports POLLOUT    *)
  MaxMsg,     (* bound: longest message                                    *)
  PolicyLen,  (* length of the policy reply                                *)
  Timeout     (* CLIENT_STALLED_TIMEOUT_SECONDS, 30                        *)

ASSUME OutputAssumption ==
  /\ QueueSize \in Nat \ {0} /\ MaxMsg \in Nat \ {0}
  /\ Room \in Nat \ {0} /\ WriteMark \in 1 .. Room
  /\ PolicyLen \in Nat \ {0} /\ Timeout \in Nat \ {0}

VARIABLES
  queue,    (* data, head, len of the ring; stalled is the age of the mark *)
            (* stalled_since, or NotStalled                                *)
  open,     (* the slot has a client                                       *)
  step,     (* where the event loop is                                     *)
  wire,     (* external: what the kernel holds for the peer                *)
  last,     (* external: the byte the peer read last                       *)
  garbled,  (* history: the peer read a byte that cannot follow the last   *)
  torn,     (* history: a policy reply was cut short, or put into a line   *)
  quiet     (* history: seconds since a byte left the queue, or since it   *)
            (* was empty                                                   *)

outputVars == <<queue, open, step, wire, last, garbled, torn, quiet>>

NotStalled == -1
Message(n) == [i \in 1 .. n |-> <<n, i>>]
Bytes == UNION {{<<n, i>> : i \in 1 .. n} : n \in 1 .. MaxMsg \cup {PolicyLen}}
Whole == <<1, 1>>  \* as last byte read: a message just ended

Ring == 0 .. QueueSize - 1
Ages == 0 .. Timeout

Queues == [data : [Ring -> Bytes], head : Ring, len : 0 .. QueueSize,
           stalled : Ages \cup {NotStalled}]

(* "poll": in poll(); "events": USB and the clients before this one;       *)
(* "flush": in flush_client_output(); "read": read() and what follows.     *)
Steps == {"poll", "events", "flush", "read"}

OutputTypeOK ==
  /\ queue \in Queues
  /\ open \in BOOLEAN /\ garbled \in BOOLEAN /\ torn \in BOOLEAN
  /\ step \in [at : Steps, out : BOOLEAN]
  /\ wire \in Seq(Bytes) /\ Len(wire) <= Room
  /\ last \in Bytes
  /\ quiet \in Ages

Min2(a, b) == IF a <= b THEN a ELSE b

-----------------------------------------------------------------------------
(* client_output_init(): the bytes stay where they are.                    *)
client_output_init(q) == [q EXCEPT !.head = 0, !.len = 0, !.stalled = NotStalled]

client_output_space(q) == QueueSize - q.len

(* Mutant: the second memcpy() is forgotten.                               *)
client_output_enqueue_NoWrap(q, m) ==
  [q EXCEPT
     !.data = [i \in Ring |-> LET k == (i - q.head) - q.len
                              IN  IF k \in 0 .. Len(m) - 1 THEN m[k + 1] ELSE @[i]],
     !.len = @ + Len(m)]

(* client_output_enqueue() of a message that fits: the two memcpy()s.      *)
client_output_enqueue(q, m) ==
  [q EXCEPT
     !.data = [i \in Ring |-> LET k == ((i - q.head) - q.len) % QueueSize
                              IN  IF k < Len(m) THEN m[k + 1] ELSE @[i]],
     !.len = @ + Len(m)]

(* client_output_peek(): the contiguous bytes from head on.                *)
client_output_peek(q) ==
  [i \in 1 .. Min2(QueueSize - q.head, q.len) |-> q.data[q.head + i - 1]]

(* Mutant: head does not wrap but stays at the end of the data.            *)
client_output_consume_NoWrap(q, n) ==
  IF n >= q.len
    THEN client_output_init(q)
    ELSE [q EXCEPT !.head = Min2(@ + n, QueueSize - 1), !.len = @ - n]

client_output_consume(q, n) ==
  IF n >= q.len
    THEN client_output_init(q)
    ELSE [q EXCEPT !.head = (@ + n) % QueueSize, !.len = @ - n]

-----------------------------------------------------------------------------
OutputInit ==
  /\ \E b \in Bytes :
       queue = [data |-> [i \in Ring |-> b], head |-> 0, len |-> 0, stalled |-> NotStalled]
  /\ open = FALSE
  /\ step = [at |-> "poll", out |-> FALSE]
  /\ wire = <<>> /\ last = Whole
  /\ garbled = FALSE /\ torn = FALSE /\ quiet = 0

(* del_client(), and a peer that is of no further interest.                *)
Deleted ==
  /\ queue' = client_output_init(queue)
  /\ open' = FALSE
  /\ wire' = <<>> /\ last' = Whole
  /\ garbled' = FALSE /\ torn' = FALSE /\ quiet' = 0

Undisturbed == UNCHANGED <<wire, last, garbled, torn>>

Goto(at) == step' = [at |-> at, out |-> FALSE]

(* copy_clients() asks for POLLOUT when something waits.                   *)
PollOut == open /\ queue.len > 0 /\ Room - Len(wire) >= WriteMark

(* Mutant: the 30 second rule looks only at clients that have POLLOUT.     *)
Poll_OnlyWritable ==
  /\ step.at = "poll"
  /\ step' = [at |-> "events", out |-> PollOut]
  /\ IF PollOut /\ queue.stalled >= Timeout
       THEN Deleted
       ELSE UNCHANGED <<queue, open, quiet>> /\ Undisturbed

(* poll() returns, for this client or for another descriptor or signal;    *)
(* disconnect_stalled_clients().                                           *)
Poll ==
  /\ step.at = "poll"
  /\ step' = [at |-> "events", out |-> PollOut]
  /\ IF open /\ queue.len > 0 /\ queue.stalled >= Timeout
       THEN Deleted
       ELSE UNCHANGED <<queue, open, quiet>> /\ Undisturbed

(* add_client(), add_xmlclient(), add_or20client() into this slot.         *)
AddClient ==
  /\ step.at = "events" /\ ~open
  /\ open' = TRUE
  /\ queue' = client_output_init(queue)
  /\ UNCHANGED <<step, quiet>> /\ Undisturbed

(* queue_client_bytes(): an event for everyone, at any point of the        *)
(* iteration, or an answer to this client; a message that does not fit     *)
(* costs the client its connection.                                        *)
Enqueue(n) ==
  /\ open /\ step.at \in {"events", "read"}
  /\ IF n > client_output_space(queue)
       THEN Deleted
       ELSE /\ queue' = client_output_enqueue(queue, Message(n))
            /\ UNCHANGED <<open, quiet>> /\ Undisturbed
  /\ UNCHANGED step

(* The loop reaches the client: flush_client_output() if POLLOUT was       *)
(* reported and the client is still there.                                 *)
Reach ==
  /\ step.at = "events"
  /\ Goto(IF step.out /\ open THEN "flush" ELSE "read")
  /\ UNCHANGED <<queue, open, quiet>> /\ Undisturbed

(* Mutant: progress does not clear the mark, an empty queue does.          *)
SendSome_KeepsMark(k) ==
  /\ step.at = "flush" /\ k <= Len(client_output_peek(queue)) /\ k <= Room - Len(wire)
  /\ wire' = wire \o SubSeq(client_output_peek(queue), 1, k)
  /\ queue' = client_output_consume(queue, k)
  /\ quiet' = 0
  /\ UNCHANGED <<open, step, last, garbled, torn>>

(* One round of flush_client_output(): send() takes k bytes of the chunk.  *)
(* The write budget, four times the queue, is never used up.               *)
SendSome(k) ==
  /\ step.at = "flush" /\ k <= Len(client_output_peek(queue)) /\ k <= Room - Len(wire)
  /\ wire' = wire \o SubSeq(client_output_peek(queue), 1, k)
  /\ queue' = client_output_consume([queue EXCEPT !.stalled = NotStalled], k)
  /\ quiet' = 0
  /\ UNCHANGED <<open, step, last, garbled, torn>>

(* EAGAIN ends the flush and sets the mark.                                *)
WouldBlock ==
  /\ step.at = "flush" /\ queue.len > 0 /\ Len(wire) = Room
  /\ queue' = [queue EXCEPT !.stalled = IF @ = NotStalled THEN 0 ELSE @]
  /\ Goto("read")
  /\ UNCHANGED <<open, quiet>> /\ Undisturbed

Flushed ==
  /\ step.at = "flush" /\ queue.len = 0
  /\ Goto("read")
  /\ UNCHANGED <<queue, open, quiet>> /\ Undisturbed

(* send() or read() fails, or the peer has closed: del_client().           *)
Lost ==
  /\ open /\ (step.at = "read" \/ (step.at = "flush" /\ queue.len > 0))
  /\ Deleted
  /\ Goto("read")

(* A policy-file request: send_all() past the queue.  send() takes as many *)
(* bytes as there is room for and then fails with EAGAIN; the rest of the  *)
(* reply is given up, the client stays.                                    *)
PolicyReply ==
  /\ open /\ step.at = "read"
  /\ LET k == Min2(PolicyLen, Room - Len(wire)) IN
       /\ k > 0
       /\ wire' = wire \o SubSeq(Message(PolicyLen), 1, k)
       /\ torn' = (torn \/ k < PolicyLen \/ (queue.len > 0 /\ queue.data[queue.head][2] # 1))
  /\ UNCHANGED <<queue, open, step, quiet, last, garbled>>

Iterated ==
  /\ step.at = "read"
  /\ Goto("poll")
  /\ UNCHANGED <<queue, open, quiet>> /\ Undisturbed

-----------------------------------------------------------------------------
(* External: the peer reads a byte.                                        *)
Follows(b, a) == IF a[2] = a[1] THEN b[2] = 1 ELSE b = <<a[1], a[2] + 1>>

PeerReads ==
  /\ open /\ wire # <<>>
  /\ garbled' = (garbled \/ ~Follows(Head(wire), last))
  /\ last' = Head(wire) /\ wire' = Tail(wire)
  /\ UNCHANGED <<queue, open, step, torn, quiet>>

(* External: a second passes, while the daemon waits or works.             *)
Older(age) == Min2(age + 1, Timeout)

Second ==
  /\ queue.len > 0
  /\ quiet' = Older(quiet)
  /\ queue' = [queue EXCEPT !.stalled = IF @ = NotStalled THEN @ ELSE Older(@)]
  /\ UNCHANGED <<open, step>> /\ Undisturbed

OutputNext ==
  \/ Poll \/ AddClient \/ Reach \/ WouldBlock \/ Flushed \/ Lost
  \/ PolicyReply \/ Iterated \/ PeerReads \/ Second
  \/ \E n \in 1 .. MaxMsg : Enqueue(n)
  \/ \E k \in 1 .. QueueSize : SendSome(k)

OutputSpec == OutputInit /\ [][OutputNext]_outputVars

(* The loop is one thread that runs on until it is in poll() again, and    *)
(* the clock runs.  Nothing is assumed of the peer, and nothing of poll(): *)
(* with PollTimeOut = -1 it may wait for ever.                             *)
OutputFairness ==
  /\ WF_outputVars(Reach) /\ WF_outputVars(Iterated)
  /\ WF_outputVars(WouldBlock) /\ WF_outputVars(Flushed)
  /\ WF_outputVars(\E k \in 1 .. QueueSize : SendSome(k))
  /\ WF_outputVars(Second)

OutputLive == OutputSpec /\ OutputFairness

-----------------------------------------------------------------------------
(* The ring is a queue: bytes leave in the order in which they came, none  *)
(* lost, none twice, across every wrap of head and tail.                   *)
Pending == [i \in 1 .. queue.len |-> queue.data[(queue.head + i - 1) % QueueSize]]

Fifo == INSTANCE OutputFifo WITH
          Messages <- {Message(n) : n \in 1 .. MaxMsg}, Policy <- Message(PolicyLen),
          Capacity <- QueueSize, pending <- Pending, up <- open
ImplementsFifo == Fifo!FifoSpec

(* A peer that never asked for the policy file, or asked when nothing was  *)
(* half sent, reads whole messages: a full queue costs the connection,     *)
(* never a piece of a message.                                             *)
OnlyPolicyTearsLines == garbled => torn

(* disconnect_stalled_clients(): only a client whose queue has not moved   *)
(* for 30 seconds is dropped, so a slow reader that reads is kept.         *)
SlowReadersAreKept ==
  [][open /\ ~open' /\ step.at = "poll" => quiet >= Timeout]_outputVars

(* "stalled clients and queue overflows are disconnected" (CHANGELOG.md:   *)
(* 83-84): while poll() keeps returning, a client that was marked as       *)
(* stalled is served again or dropped.  Output that never met EAGAIN, for  *)
(* want of a POLLOUT, has no mark and may wait for ever.                   *)
LoopTurns == []<>(step.at # "poll")
MarkedAreDropped == LoopTurns => (queue.stalled # NotStalled ~> queue.stalled = NotStalled)
=============================================================================
