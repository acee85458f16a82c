----------------------------- MODULE ClientTable -----------------------------
(***************************************************************************)
(* The TCP client tables of src/core/mochad.c: three arrays of             *)
(* MAXCLISOCKETS slots (main, Flash XML, OpenRemote 2.0), each slot with   *)
(* a descriptor, a partial command line and an output queue; and the C     *)
(* functions that change them, as functions from a table to a table.       *)
(*                                                                         *)
(* A connection is what accept() returned once; a descriptor is the number *)
(* the kernel gave it and gives again after close().  The tables know only *)
(* descriptors; "conn" is the kernel's view of them, and "fate" what       *)
(* became of a connection.                                                 *)
(***************************************************************************)
EXTENDS Integers, FiniteSets

CONSTANTS
  Types,       (* the tables: "main", "xml", "or20"                        *)
  MaxClients,  (* MAXCLISOCKETS, slots per table (32)                      *)
  Fds,         (* descriptor numbers free for clients                      *)
  MaxConn,     (* bound: names for the connections of one moment           *)
  QueueSize    (* output queue, in messages (16 KiB in the code)           *)

ASSUME ClientAssumption ==
  /\ Types \subseteq {"main", "xml", "or20"}
  /\ MaxClients \in Nat \ {0} /\ MaxConn \in Nat /\ QueueSize \in Nat \ {0}
  /\ Fds \subseteq Nat \ {0} /\ IsFiniteSet(Fds)

Slots == Types \X (1 .. MaxClients)
Conns == 1 .. MaxConn

NoFd == -1
NoConn == 0

(* A connection is "open" or not, and of one that was closed the tables'   *)
(* properties need to know no more than that it was cut "off", because     *)
(* read() found nothing to read, or closed "unheard", after an OpenRemote  *)
(* command whose reply was still in the queue.                             *)
Fates == {"closed", "open", "off", "unheard"}

TableType ==
  [ fd      : [Slots -> Fds \cup {NoFd}],       \* Clientsocks[i].fd
    line    : [Slots -> Conns \cup {NoConn}],   \* whose bytes wait in remainder
    out     : [Slots -> 0 .. QueueSize],        \* Clientoutputs[i].len
    stalled : [Slots -> BOOLEAN],               \* stalled_since # 0
    n       : [Types -> Int],                   \* NClients, NxmlClients, Nor20Clients
    conn    : [Fds -> Conns \cup {NoConn}],     \* the kernel's descriptors
    fate    : [Conns -> Fates] ]

(* init_client()                                                           *)
InitTable ==
  [ fd      |-> [s \in Slots |-> NoFd],   line |-> [s \in Slots |-> NoConn],
    out     |-> [s \in Slots |-> 0],      stalled |-> [s \in Slots |-> FALSE],
    n       |-> [ty \in Types |-> 0],
    conn    |-> [f \in Fds |-> NoConn],   fate |-> [c \in Conns |-> "closed"] ]

SlotsOf(t, f) == {s \in Slots : t.fd[s] = f}

(* Mutant: del_client() forgets NClients--.                                *)
del_clients_Uncounted(t, S, why) ==
  [t EXCEPT
     !.fd      = [s \in Slots |-> IF s \in S THEN NoFd ELSE @[s]],
     !.line    = [s \in Slots |-> IF s \in S THEN NoConn ELSE @[s]],
     !.out     = [s \in Slots |-> IF s \in S THEN 0 ELSE @[s]],
     !.stalled = [s \in Slots |-> s \notin S /\ @[s]],
     !.conn    = [f \in Fds |-> IF \E s \in S : t.fd[s] = f THEN NoConn ELSE @[f]],
     !.fate    = [c \in Conns |-> IF \E s \in S : t.conn[t.fd[s]] = c THEN why ELSE @[c]]]

(* del_client() of the clients in S: empty slot, empty line, empty queue,  *)
(* one client less, descriptor closed.                                     *)
del_clients(t, S, why) ==
  [t EXCEPT
     !.fd      = [s \in Slots |-> IF s \in S THEN NoFd ELSE @[s]],
     !.line    = [s \in Slots |-> IF s \in S THEN NoConn ELSE @[s]],
     !.out     = [s \in Slots |-> IF s \in S THEN 0 ELSE @[s]],
     !.stalled = [s \in Slots |-> s \notin S /\ @[s]],
     !.n       = [ty \in Types |-> @[ty] - Cardinality({s \in S : s[1] = ty})],
     !.conn    = [f \in Fds |-> IF \E s \in S : t.fd[s] = f THEN NoConn ELSE @[f]],
     !.fate    = [c \in Conns |-> IF \E s \in S : t.conn[t.fd[s]] = c THEN why ELSE @[c]]]

(* del_client(): a descriptor that is in no slot is left alone.            *)
del_client(t, f, why) == del_clients(t, SlotsOf(t, f), why)

FreeSlots(t, ty) == {i \in 1 .. MaxClients : t.fd[<<ty, i>>] = NoFd}
FirstFree(t, ty) ==
  <<ty, CHOOSE i \in FreeSlots(t, ty) : \A j \in FreeSlots(t, ty) : i <= j>>

(* Mutants: the caller forgets close(r < 0); cm15a_encode_state_init()     *)
(* forgotten.                                                              *)
add_client_KeepsRefused(t, ty, f, c) ==
  LET s == FirstFree(t, ty)
  IN  IF FreeSlots(t, ty) = {}
        THEN [t EXCEPT !.conn[f] = c, !.fate[c] = "open"]
        ELSE [t EXCEPT !.fd[s] = f, !.line[s] = NoConn, !.out[s] = 0,
                       !.stalled[s] = FALSE, !.n[ty] = @ + 1,
                       !.conn[f] = c, !.fate[c] = "open"]

add_client_KeepsLine(t, ty, f, c) ==
  LET s == FirstFree(t, ty)
  IN  IF FreeSlots(t, ty) = {}
        THEN t
        ELSE [t EXCEPT !.fd[s] = f, !.out[s] = 0, !.stalled[s] = FALSE,
                       !.n[ty] = @ + 1, !.conn[f] = c, !.fate[c] = "open"]

(* add_client(), add_xmlclient(), add_or20client() of a descriptor the     *)
(* kernel has just made, with the caller's close() when the table is full. *)
add_client(t, ty, f, c) ==
  LET s == FirstFree(t, ty)
  IN  IF FreeSlots(t, ty) = {}
        THEN t
        ELSE [t EXCEPT !.fd[s] = f, !.line[s] = NoConn, !.out[s] = 0,
                       !.stalled[s] = FALSE, !.n[ty] = @ + 1,
                       !.conn[f] = c, !.fate[c] = "open"]

(* Mutant: client_output_enqueue() without its length check.               *)
queue_bytes_NoLimit(t, S) ==
  [t EXCEPT !.out = [s \in Slots |-> IF s \in S THEN @[s] + 1 ELSE @[s]]]

(* queue_client_bytes() to each client in S: one message more, or the      *)
(* client is deleted when its queue is full.                               *)
queue_bytes(t, S) ==
  LET full == {s \in S : t.out[s] = QueueSize}
      more == [t EXCEPT !.out = [s \in Slots |-> IF s \in S \ full THEN @[s] + 1 ELSE @[s]]]
  IN  del_clients(more, full, "closed")

(* sockprintf(fd, ...): a reply.  A descriptor without slot is handed to   *)
(* send_all(), which fails: del_client() has closed it.                    *)
reply(t, f) == queue_bytes(t, SlotsOf(t, f))

(* sockprintf(-1, ...): an event, to every main and XML client.            *)
broadcast(t) == queue_bytes(t, {s \in Slots : s[1] # "or20" /\ t.fd[s] # NoFd})

(* flush_client_output() of slot s when send() takes k messages and then   *)
(* would block; the write budget is four times the queue.                  *)
flush(t, s, k) ==
  [t EXCEPT !.out[s] = @ - k, !.stalled[s] = (k < t.out[s])]

(* disconnect_stalled_clients(), for the stalled clients whose 30 seconds  *)
(* are over.                                                               *)
disconnect_stalled(t, S) ==
  del_clients(t, {s \in S : t.fd[s] # NoFd /\ t.out[s] > 0 /\ t.stalled[s]}, "closed")
=============================================================================
