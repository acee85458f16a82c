----------------------------- MODULE ClientLoop -----------------------------
(***************************************************************************)
(* The client side of mochad's event loop (mydaemon(), mochad.c:1834-1988) *)
(* with cm15a_encode_with_state() for each read(), and the peers           *)
(* (external).  One iteration is                                           *)
(*   poll -> drop stalled clients -> USB events -> accept -> serve         *)
(* and the array poll() filled is used to its end, although every step on  *)
(* the way may close descriptors, accept() may reuse them and libusb may   *)
(* change the number of its own, which tells where the clients begin.      *)
(***************************************************************************)
EXTENDS ClientTable, Sequences

CONSTANTS
  MaxUsb,           (* bound: NUsbPollfds                                  *)
  OnOpenRemotePort  (* the tables whose listener has OpenRemotePort: the   *)
                    (* OpenRemote one, or, if that is disabled, another    *)

ASSUME UsbAssumption == MaxUsb \in Nat \ {0} /\ OnOpenRemotePort \subseteq Types

VARIABLES
  t,        (* the client tables                                           *)
  inbox,    (* external: what a connection has for read()                  *)
  step,     (* where the iteration is                                      *)
  pollfds,  (* Pollfds from the USB records on: of the array poll() got,   *)
            (* what is still to be looked at                               *)
  nready,   (* poll()'s result, counted down                               *)
  knocks,   (* listeners with POLLIN still to accept                       *)
  usb,      (* NUsbPollfds now and when poll() was called; UsbPollfdError  *)
  fresh,    (* history: connections accepted in this iteration             *)
  due       (* history: connections that were reported and not read since  *)

clientVars == <<t, inbox, step, pollfds, nready, knocks, usb, fresh, due>>
iteration  == <<pollfds, nready, knocks, usb, fresh, due>>

(* What read() returns: nothing yet, part of a line, a line, a line and    *)
(* part of the next, end of file or an error.                              *)
Data   == {"part", "line", "line+part"}
Inputs == Data \cup {"eof"}

Steps == {"poll", "events", "accept", "serve", "killed", "stopped"}

UsbFd == 0  \* stands for each of libusb's descriptors
Entries == [fd : Fds \cup {UsbFd}, in : BOOLEAN, out : BOOLEAN]

ClientTypeOK ==
  /\ t \in TableType
  /\ inbox \in [Conns -> Inputs \cup {"empty"}]
  /\ step \in Steps
  /\ pollfds \in Seq(Entries)
  /\ nready \in 0 .. MaxUsb + 3 + Cardinality(Slots)
  /\ knocks \subseteq Types
  /\ usb \in [now : 0 .. MaxUsb, polled : 0 .. MaxUsb, err : BOOLEAN]
  /\ fresh \subseteq Conns /\ due \subseteq Conns

ClientInit ==
  /\ t = InitTable
  /\ inbox = [c \in Conns |-> "empty"]
  /\ step = "poll" /\ pollfds = <<>> /\ nready = 0 /\ knocks = {}
  /\ usb = [now |-> 1, polled |-> 1, err |-> FALSE]
  /\ fresh = {} /\ due = {}

Taken == {s \in Slots : t.fd[s] # NoFd}
Registered == {t.fd[s] : s \in Taken}

(* Names for a connection to come: of none that is open or remembered.     *)
Unused == {c \in Conns : t.fate[c] # "open" /\ \A s \in Slots : t.line[s] # c}

-----------------------------------------------------------------------------
(* The fate of a closed connection is of interest in its own iteration.    *)
forget(u) ==
  [u EXCEPT !.fate = [c \in Conns |-> IF @[c] = "open" THEN "open" ELSE "closed"]]

(* copy_clients(): main, XML and OpenRemote client of each index in turn.  *)
Listeners == <<"main", "xml", "or20">>
SlotOrder == [k \in 1 .. 3 * MaxClients |-> <<Listeners[((k - 1) % 3) + 1], ((k - 1) \div 3) + 1>>]
copied[k \in 0 .. 3 * MaxClients] ==
  IF k = 0 THEN <<>>
  ELSE IF SlotOrder[k] \in Taken THEN Append(copied[k - 1], SlotOrder[k])
  ELSE copied[k - 1]
copy_clients == copied[3 * MaxClients]

Readable(f) == inbox[t.conn[f]] # "empty"

(* poll() reports every descriptor with input, those of the clients with   *)
(* queued output that the kernel has room for, perhaps some of libusb's,   *)
(* and the listeners with a pending connection.  Then                      *)
(* disconnect_stalled_clients(); the array stays as it was.                *)
Poll ==
  /\ step = "poll" /\ ~usb.err
  /\ step' = "events"
  /\ knocks' \in SUBSET Types
  /\ \E room \in SUBSET {s \in Taken : t.out[s] > 0}, ready \in BOOLEAN :
       LET slots == copy_clients
           ours  == [i \in DOMAIN slots |-> [fd  |-> t.fd[slots[i]],
                                             in  |-> Readable(t.fd[slots[i]]),
                                             out |-> slots[i] \in room]]
           its   == [i \in 1 .. usb.now |-> [fd |-> UsbFd, in |-> ready, out |-> FALSE]]
       IN  /\ pollfds' = its \o ours
           /\ nready' = Cardinality(knocks') +
                Cardinality({i \in DOMAIN pollfds' : pollfds'[i].in \/ pollfds'[i].out})
  /\ usb' = [usb EXCEPT !.polled = usb.now]
  /\ due' = {t.conn[f] : f \in {g \in Registered : Readable(g)}}
  /\ \E late \in SUBSET {s \in Taken : t.stalled[s]} :
       t' = disconnect_stalled(forget(t), late)
  /\ inbox' = [c \in Conns |-> IF t.fate[c] = "open" THEN inbox[c] ELSE "empty"]
  /\ fresh' = {}

(* "poll descriptor update failed; shutting down": Do_exit = 2.            *)
PollfdsLost ==
  /\ step = "poll" /\ usb.err
  /\ step' = "stopped"
  /\ UNCHANGED <<t, inbox, iteration>>

(* libusb_handle_events_timeout(): a decoded frame is an event;            *)
UsbEvent ==
  /\ step = "events"
  /\ t' = broadcast(t)
  /\ UNCHANGED <<inbox, step, iteration>>

(* usb_pollfd_removed(), and usb_pollfd_added() with memory or without.    *)
UsbPollfdsChange ==
  /\ step = "events" /\ usb.now = usb.polled
  /\ \/ usb.now > 0 /\ usb' = [usb EXCEPT !.now = @ - 1]
     \/ usb.now < MaxUsb /\ usb' = [usb EXCEPT !.now = @ + 1]
     \/ usb' = [usb EXCEPT !.err = TRUE]
  /\ UNCHANGED <<t, inbox, step, pollfds, nready, knocks, fresh, due>>

(* The way back to poll(): what was local to the iteration is gone.        *)
Again == step' = "poll" /\ pollfds' = <<>> /\ nready' = 0 /\ knocks' = {} /\ fresh' = {}

(* After a poll() that timed out nothing else is looked at.                *)
EventsDone ==
  /\ step = "events"
  /\ IF nready = 0 THEN Again
     ELSE step' = "accept" /\ UNCHANGED <<pollfds, nready, knocks, fresh>>
  /\ UNCHANGED <<t, inbox, usb, due>>

(* --nready, for a descriptor that poll() counted and that has been dealt  *)
(* with; at zero the iteration is over.                                    *)
Count(rest, asking, accepted) ==
  IF nready <= 1
    THEN Again
    ELSE /\ nready' = nready - 1
         /\ pollfds' = rest /\ knocks' = asking /\ fresh' = accepted
         /\ UNCHANGED step

(* The listeners in the order of Pollfds[0 .. 2]; accept() makes the       *)
(* lowest free descriptor.                                                 *)
Accept(i) ==
  LET ty   == Listeners[i]
      free == {f \in Fds : t.conn[f] = NoConn}
      f    == CHOOSE g \in free : \A h \in free : g <= h
      c    == CHOOSE d \in Unused : \A e \in Unused : d <= e
      made == IF free = {} \/ Unused = {} THEN {} ELSE {c}
  IN  /\ step = "accept" /\ ty \in knocks
      /\ \A j \in 1 .. i - 1 : Listeners[j] \notin knocks
      /\ t' = IF made = {} THEN t ELSE add_client(t, ty, f, c)
      /\ due' = due \ made
      /\ Count(pollfds, knocks \ {ty}, fresh \cup made)
      /\ UNCHANGED <<inbox, usb>>

(* i = 3 + NUsbPollfds: whatever that is by now.                           *)
AcceptDone ==
  /\ step = "accept" /\ knocks = {}
  /\ step' = "serve"
  /\ pollfds' = SubSeq(pollfds, usb.now + 1, Len(pollfds))
  /\ UNCHANGED <<t, inbox, nready, knocks, usb, fresh, due>>

-----------------------------------------------------------------------------
(* The next entry, POLLOUT before POLLIN.                                  *)
At == Head(pollfds)
Flushing == step = "serve" /\ pollfds # <<>> /\ At.out
Reading  == step = "serve" /\ pollfds # <<>> /\ ~At.out /\ At.in

(* An entry without a reported event is passed over.                       *)
PassOver ==
  /\ step = "serve" /\ pollfds # <<>> /\ ~At.out /\ ~At.in
  /\ pollfds' = Tail(pollfds)
  /\ UNCHANGED <<t, inbox, step, nready, knocks, usb, fresh, due>>

Flushed == IF At.in THEN <<[At EXCEPT !.out = FALSE]>> \o Tail(pollfds) ELSE Tail(pollfds)

(* Mutant: POLLOUT is counted as well as POLLIN.                           *)
Flush_Counts ==
  /\ Flushing
  /\ \/ SlotsOf(t, At.fd) = {} /\ pollfds' = Tail(pollfds) /\ UNCHANGED <<t, step, nready, knocks, fresh>>
     \/ \E s \in SlotsOf(t, At.fd), k \in 0 .. QueueSize :
          /\ k <= t.out[s]
          /\ t' = flush(t, s, k)
          /\ Count(Flushed, knocks, fresh)
     \/ /\ \E s \in SlotsOf(t, At.fd) : t.out[s] > 0
        /\ t' = del_client(t, At.fd, "closed")
        /\ pollfds' = Tail(pollfds) /\ UNCHANGED <<step, nready, knocks, fresh>>
  /\ UNCHANGED <<inbox, usb, due>>

(* flush_client_output().  A descriptor that is in no slot, before or      *)
(* after it, is passed over, its POLLIN with it.                           *)
Flush ==
  /\ Flushing
  /\ \/ SlotsOf(t, At.fd) = {} /\ pollfds' = Tail(pollfds) /\ UNCHANGED t
     \/ \E s \in SlotsOf(t, At.fd), k \in 0 .. QueueSize :
          /\ k <= t.out[s]
          /\ t' = flush(t, s, k)
          /\ pollfds' = Flushed
     \/ /\ \E s \in SlotsOf(t, At.fd) : t.out[s] > 0
        /\ t' = del_client(t, At.fd, "closed")
        /\ pollfds' = Tail(pollfds)
  /\ UNCHANGED <<inbox, step, nready, knocks, usb, fresh, due>>

(* send() without MSG_NOSIGNAL to a peer that is gone: SIGPIPE.            *)
FlushKills ==
  /\ Flushing
  /\ \E s \in SlotsOf(t, At.fd) : t.out[s] > 0 /\ inbox[t.conn[At.fd]] = "eof"
  /\ step' = "killed"
  /\ UNCHANGED <<t, inbox, iteration>>

(* processcommandline(): a transmit command is an event to everyone, a     *)
(* query or an error is answered; then a client that or20client() finds on *)
(* OpenRemotePort is closed, with what its queue holds.                    *)
(* does \subseteq {"event", "answer"}                                      *)
command(u, f, does) ==
  LET e    == IF "event" \in does THEN broadcast(u) ELSE u
      v    == IF "answer" \in does THEN reply(e, f) ELSE e
      or20 == {s \in SlotsOf(v, f) : s[1] \in OnOpenRemotePort}
      why  == IF \E s \in or20 : v.out[s] > 0 THEN "unheard" ELSE "closed"
  IN  del_clients(v, or20, why)

(* cm15a_encode_with_state() on slot s.  It holds a pointer to the slot's  *)
(* parser state throughout, whatever the command does to the slot.         *)
encode(u, s, f, data, does) ==
  LET v == IF data = "part" THEN u ELSE command(u, f, does)
      c == IF data = "line" THEN NoConn ELSE u.conn[f]
  IN  [v EXCEPT !.line[s] = c]

(* read() on the entry's descriptor and what follows.                      *)
ReadAndRun(f) ==
  LET c == IF f \in Fds THEN t.conn[f] ELSE NoConn IN
  /\ due' = due \ {c}
  /\ \/ SlotsOf(t, f) = {} /\ UNCHANGED <<t, inbox>>
     \/ /\ SlotsOf(t, f) # {} /\ inbox[c] = "empty"
        /\ t' = del_client(t, f, "off")
        /\ UNCHANGED inbox
     \/ /\ SlotsOf(t, f) # {} /\ inbox[c] = "eof"
        /\ t' = del_client(t, f, "closed")
        /\ UNCHANGED inbox
     \/ /\ SlotsOf(t, f) # {} /\ inbox[c] \in Data
        /\ \E s \in SlotsOf(t, f), does \in SUBSET {"event", "answer"} :
             t' = encode(t, s, f, inbox[c], does)
        /\ inbox' = [inbox EXCEPT ![c] = "empty"]

(* Mutant: the daemon reads on while read() has data.                      *)
Read_UntilEmpty ==
  /\ Reading
  /\ ReadAndRun(At.fd)
  /\ IF inbox' # inbox THEN UNCHANGED <<step, pollfds, nready, knocks, fresh>>
     ELSE Count(Tail(pollfds), knocks, fresh)
  /\ UNCHANGED usb

(* POLLIN or POLLERR, and one off nready.                                  *)
Read ==
  /\ Reading
  /\ ReadAndRun(At.fd)
  /\ Count(Tail(pollfds), knocks, fresh)
  /\ UNCHANGED usb

ServeDone ==
  /\ step = "serve" /\ pollfds = <<>>
  /\ Again
  /\ UNCHANGED <<t, inbox, usb, due>>

(* The peers (external).                                                   *)
PeerSends(c) ==
  /\ t.fate[c] = "open" /\ step \notin {"killed", "stopped"}
  /\ inbox[c] = "empty" /\ inbox' \in {[inbox EXCEPT ![c] = x] : x \in Inputs}
  /\ UNCHANGED <<t, step, iteration>>

ClientNext ==
  \/ Poll \/ PollfdsLost \/ UsbEvent \/ UsbPollfdsChange \/ EventsDone \/ AcceptDone
  \/ \E i \in 1 .. 3 : Accept(i)
  \/ PassOver \/ Flush \/ FlushKills \/ Read \/ ServeDone
  \/ \E c \in Conns : PeerSends(c)

ClientSpec == ClientInit /\ [][ClientNext]_clientVars

-----------------------------------------------------------------------------
(* "# of valid entries in Clientsocks" (mochad.c:104-106): the counts that *)
(* size Pollfds for copy_clients() are those of the slots it copies.       *)
CountsMatchSlots ==
  \A ty \in Types : t.n[ty] = Cardinality({s \in Taken : s[1] = ty})

(* "Socket close ownership belongs to del_client() for all client types":  *)
(* a slot's descriptor is open, and an open one is in exactly one slot, so *)
(* none is leaked, closed twice or polled after it was closed.             *)
SlotsOwnDescriptors ==
  /\ \A s, u \in Taken : t.fd[s] = t.fd[u] => s = u
  /\ Registered = {f \in Fds : t.conn[f] # NoConn}
  /\ \A f, g \in Registered : t.conn[f] = t.conn[g] => f = g

(* No client completes a line that another client of its slot began, even  *)
(* though the encoder stores into a slot that it may just have given up.   *)
NoInheritedBytes == \A s \in Taken : t.line[s] \in {NoConn, t.conn[t.fd[s]]}

(* A client is cut off because read() found nothing only when its          *)
(* descriptor is one that this very iteration closed and accepted again.   *)
OnlyReusedAreCutOff ==
  [][\A c \in Conns : t.fate[c] = "open" /\ t'.fate[c] = "off" => c \in fresh]_clientVars

(* An iteration that ends, by its array or by nready, leaves nobody        *)
(* waiting whom poll() had reported, unless libusb added a descriptor in   *)
(* it: then the first clients of the array are passed over until the next. *)
ReadyAreServed ==
  [][step # "poll" /\ step' = "poll" /\ usb.now <= usb.polled =>
       \A c \in due' : t'.fate[c] # "open"]_clientVars

(* The port 1101 "is similar to port 1099 ... OpenRemote polls for device  *)
(* events using getstatus and getstatussec" (CHANGELOG.md:151-153): the    *)
(* client that asked was sent the answer before it was closed.             *)
OpenRemoteIsAnswered == \A c \in Conns : t.fate[c] # "unheard"
=============================================================================
