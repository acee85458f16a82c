--------------------------- MODULE ClientLoopProofs ---------------------------
(***************************************************************************)
(* Proofs about the client tables and the loop that serves them, for every *)
(* number of slots, descriptors and connections.                           *)
(***************************************************************************)
EXTENDS ClientLoop, NaturalSets

(* ---- the tables ------------------------------------------------------- *)

Held(u) == {s \in Slots : u.fd[s] # NoFd}

(* A descriptor is open exactly when a slot has it, and no two slots have  *)
(* the same one; no two descriptors are of the same connection.            *)
Owned(u) ==
  /\ \A s, r \in Held(u) : u.fd[s] = u.fd[r] => s = r
  /\ \A f \in Fds : u.conn[f] # NoConn <=> \E s \in Held(u) : u.fd[s] = f
  /\ \A f, g \in Fds : u.conn[f] # NoConn /\ u.conn[f] = u.conn[g] => f = g

(* The connections that have a descriptor are the open ones.               *)
Alive(u) ==
  /\ \A f \in Fds : u.conn[f] # NoConn => u.fate[u.conn[f]] = "open"
  /\ \A c \in Conns : u.fate[c] = "open" => \E f \in Fds : u.conn[f] = c

(* The bytes of a started line are those of the slot's client.             *)
OwnLines(u) == \A s \in Held(u) : u.line[s] \in {NoConn, u.conn[u.fd[s]]}

HeldBy(u, ty) == {s \in Held(u) : s[1] = ty}
Counted(u) == \A ty \in Types : u.n[ty] = Cardinality(HeldBy(u, ty))

Table(u) == u \in TableType /\ Owned(u) /\ Alive(u) /\ OwnLines(u) /\ Counted(u)

(* What every step but accept() does to the tables: slots are given up and *)
(* descriptors closed; and what all but a read() that finds nothing do:    *)
(* nobody is cut off.                                                      *)
Shrinks(u, v) ==
  /\ \A s \in Slots : v.fd[s] \in {u.fd[s], NoFd}
  /\ \A f \in Fds : v.conn[f] \in {u.conn[f], NoConn}
  /\ \A c \in Conns : v.fate[c] = "open" => u.fate[c] = "open"

Drops(u, v) ==
  Shrinks(u, v) /\ \A c \in Conns : v.fate[c] = "off" => u.fate[c] = "off"

(* The arrays of mochad.c are finite; NoFd (-1) is no descriptor and       *)
(* UsbFd stands for none of the clients'.                                  *)
LEMMA Finite ==
  /\ IsFiniteSet(Types) /\ Cardinality(Types) <= 3
  /\ IsFiniteSet(Slots) /\ Cardinality(Slots) \in Nat
  /\ \A s \in Slots : s[1] \in Types /\ s[2] \in 1 .. MaxClients
  /\ NoFd \notin Fds /\ UsbFd \notin Fds /\ NoConn \notin Conns
<1>1. IsFiniteSet({"main"}) /\ Cardinality({"main"}) = 1
  BY FS_Singleton
<1>2. IsFiniteSet({"main"} \cup {"xml"}) /\ Cardinality({"main"} \cup {"xml"}) <= 2
  BY <1>1, FS_AddElement
<1>3. /\ IsFiniteSet(({"main"} \cup {"xml"}) \cup {"or20"})
      /\ Cardinality(({"main"} \cup {"xml"}) \cup {"or20"}) <= 3
  <2>1. Cardinality({"main"} \cup {"xml"}) \in Nat
    BY <1>2, FS_CardinalityType
  <2>2. QED
    BY <1>2, <2>1, FS_AddElement
<1>4. Types \in SUBSET (({"main"} \cup {"xml"}) \cup {"or20"})
  BY ClientAssumption
<1>5. IsFiniteSet(Types) /\ Cardinality(Types) <= 3
  <2>1. /\ IsFiniteSet(Types)
        /\ Cardinality(Types) <= Cardinality(({"main"} \cup {"xml"}) \cup {"or20"})
    BY <1>3, <1>4, FS_Subset
  <2>2. /\ Cardinality(Types) \in Nat
        /\ Cardinality(({"main"} \cup {"xml"}) \cup {"or20"}) \in Nat
    BY <1>3, <2>1, FS_CardinalityType
  <2>3. QED
    BY <1>3, <2>1, <2>2
<1>6. IsFiniteSet(1 .. MaxClients)
  BY ClientAssumption, FS_Interval
<1>7. IsFiniteSet(Slots) /\ Cardinality(Slots) \in Nat
  BY <1>5, <1>6, FS_Product, FS_CardinalityType DEF Slots
<1>8. QED
  BY <1>5, <1>7, ClientAssumption DEF Slots, NoFd, UsbFd, NoConn, Conns

(* Any set of slots can be counted.                                        *)
LEMMA SlotsFinite ==
  ASSUME NEW S \in SUBSET Slots
  PROVE  IsFiniteSet(S) /\ Cardinality(S) \in Nat /\ Cardinality(S) <= Cardinality(Slots)
  BY Finite, FS_Subset, FS_CardinalityType

(* init_client(): no slot is taken.                                        *)
LEMMA InitTableSound == Table(InitTable)
<1>1. InitTable \in TableType /\ Held(InitTable) = {}
  BY ClientAssumption, Finite DEF InitTable, TableType, Held, Fates
<1>2. \A ty \in Types : HeldBy(InitTable, ty) = {} /\ InitTable.n[ty] = 0
  BY <1>1 DEF HeldBy, InitTable
<1>3. Cardinality({}) = 0
  BY FS_EmptySet
<1>4. \A f \in Fds : InitTable.conn[f] = NoConn
  BY DEF InitTable
<1>5. \A c \in Conns : InitTable.fate[c] # "open"
  BY DEF InitTable
<1>6. QED
  BY <1>1, <1>2, <1>3, <1>4, <1>5 DEF Table, Owned, Alive, OwnLines, Counted

(* A table with the same clients in the same slots, whatever happened to   *)
(* queues and to the fates of connections that are gone.                   *)
LEMMA SameClients ==
  ASSUME NEW u, Table(u), NEW v \in TableType,
         v.fd = u.fd, v.conn = u.conn, v.n = u.n,
         \A c \in Conns : u.fate[c] = "open" <=> v.fate[c] = "open",
         \A s \in Held(u) : v.line[s] \in {NoConn, u.conn[u.fd[s]]}
  PROVE  Table(v)
<1>1. u \in TableType /\ Owned(u) /\ Alive(u) /\ Counted(u)
  BY DEF Table
<1>2. Held(v) = Held(u) /\ \A ty \in Types : HeldBy(v, ty) = HeldBy(u, ty)
  BY DEF Held, HeldBy
<1>3. Owned(v) /\ OwnLines(v) /\ Counted(v)
  BY <1>1, <1>2 DEF Owned, OwnLines, Counted
<1>4. Alive(v)
  BY <1>1 DEF Alive, TableType
<1>5. QED
  BY <1>3, <1>4 DEF Table

(* Dropping clients twice is dropping clients.                             *)
LEMMA DropsTwice ==
  ASSUME NEW u, NEW v, NEW w, Drops(u, v), Drops(v, w)
  PROVE  Drops(u, w)
  BY DEF Drops, Shrinks
(* The clients of S are gone, with "why" for their fate, and no other.     *)
Deletes(u, v, S, why) ==
  /\ \A s \in Slots : v.fd[s] = IF s \in S THEN NoFd ELSE u.fd[s]
  /\ \A f \in Fds : v.conn[f] \in {u.conn[f], NoConn}
  /\ \A c \in Conns : /\ v.fate[c] = "open" => u.fate[c] = "open"
                      /\ v.fate[c] # u.fate[c] =>
                           v.fate[c] = why /\ \E s \in S : u.conn[u.fd[s]] = c
  /\ \A s \in S : v.fate[u.conn[u.fd[s]]] = why

(* del_client(), for any set of clients and any fate but "open": counts,   *)
(* descriptors and slots stay in step, and only the clients of S go.       *)
LEMMA DelClients ==
  ASSUME NEW u, Table(u), NEW S \in SUBSET Held(u), NEW why \in Fates \ {"open"}
  PROVE  Table(del_clients(u, S, why)) /\ Deletes(u, del_clients(u, S, why), S, why)
<1> DEFINE v == del_clients(u, S, why)
<1>1. u \in TableType /\ Owned(u) /\ Alive(u) /\ OwnLines(u) /\ Counted(u)
  BY DEF Table
<1> DEFINE fd2 == [s \in Slots |-> IF s \in S THEN NoFd ELSE u.fd[s]]
           line2 == [s \in Slots |-> IF s \in S THEN NoConn ELSE u.line[s]]
           out2 == [s \in Slots |-> IF s \in S THEN 0 ELSE u.out[s]]
           stalled2 == [s \in Slots |-> s \notin S /\ u.stalled[s]]
           n2 == [ty \in Types |-> u.n[ty] - Cardinality({s \in S : s[1] = ty})]
           conn2 == [f \in Fds |-> IF \E s \in S : u.fd[s] = f THEN NoConn ELSE u.conn[f]]
           fate2 == [c \in Conns |-> IF \E s \in S : u.conn[u.fd[s]] = c THEN why ELSE u.fate[c]]
<1>2. v = [u EXCEPT !.fd = fd2, !.line = line2, !.out = out2, !.stalled = stalled2,
                    !.n = n2, !.conn = conn2, !.fate = fate2]
  BY DEF del_clients
<1>3. fd2 \in [Slots -> Fds \cup {NoFd}] /\ line2 \in [Slots -> Conns \cup {NoConn}]
  BY <1>1 DEF TableType
<1>4. out2 \in [Slots -> 0 .. QueueSize] /\ stalled2 \in [Slots -> BOOLEAN]
  BY <1>1, ClientAssumption DEF TableType
<1>5. conn2 \in [Fds -> Conns \cup {NoConn}] /\ fate2 \in [Conns -> Fates]
  BY <1>1 DEF TableType
<1>6. n2 \in [Types -> Int]
  <2>1. \A ty \in Types : {s \in S : s[1] = ty} \in SUBSET Slots
    BY DEF Held
  <2>2. QED
    BY <1>1, <2>1, SlotsFinite DEF TableType
<1>7. /\ v.fd = fd2 /\ v.line = line2 /\ v.n = n2 /\ v.conn = conn2 /\ v.fate = fate2
      /\ v \in TableType
  <2> HIDE DEF fd2, line2, out2, stalled2, n2, conn2, fate2, v
  <2>1. QED
    BY <1>1, <1>2, <1>3, <1>4, <1>5, <1>6 DEF TableType
<1> HIDE DEF v
<1>8. S \subseteq Slots /\ \A s \in Held(u) : u.fd[s] \in Fds
  BY <1>1 DEF Held, TableType
<1>9. Held(v) = Held(u) \ S /\ \A s \in Held(v) : v.fd[s] = u.fd[s]
  BY <1>7 DEF Held
<1>10. ASSUME NEW s \in Held(v)
      PROVE  v.conn[v.fd[s]] = u.conn[u.fd[s]] /\ u.conn[u.fd[s]] # NoConn
  <2>1. s \in Held(u) /\ s \notin S /\ v.fd[s] = u.fd[s] /\ u.fd[s] \in Fds
    BY <1>8, <1>9, <1>10
  <2>2. \A r \in S : u.fd[r] # u.fd[s]
    BY <1>1, <2>1 DEF Owned
  <2>3. v.conn[u.fd[s]] = u.conn[u.fd[s]]
    BY <1>7, <2>1, <2>2
  <2>4. QED
    BY <1>1, <2>1, <2>3 DEF Owned
<1>11. Owned(v)
  <2>1. \A s, r \in Held(v) : v.fd[s] = v.fd[r] => s = r
    BY <1>1, <1>9 DEF Owned
  <2>2. ASSUME NEW f \in Fds
        PROVE  v.conn[f] # NoConn <=> \E s \in Held(v) : v.fd[s] = f
    <3>1. CASE v.conn[f] # NoConn
      <4>1. u.conn[f] # NoConn /\ \A s \in S : u.fd[s] # f
        BY <1>7, <3>1
      <4>2. PICK s \in Held(u) : u.fd[s] = f
        BY <1>1, <4>1 DEF Owned
      <4>3. s \in Held(v) /\ v.fd[s] = f
        BY <1>9, <4>1, <4>2
      <4>4. QED
        BY <3>1, <4>3
    <3>2. CASE \E s \in Held(v) : v.fd[s] = f
      BY <1>10, <3>2
    <3>3. QED
      BY <3>1, <3>2
  <2>3. \A f, g \in Fds : v.conn[f] # NoConn /\ v.conn[f] = v.conn[g] => f = g
    BY <1>1, <1>7 DEF Owned
  <2>4. QED
    BY <2>1, <2>2, <2>3 DEF Owned
<1>12. ASSUME NEW f \in Fds, v.conn[f] # NoConn
       PROVE  v.fate[v.conn[f]] = "open"
  <2>1. v.conn[f] = u.conn[f] /\ ~ \E s \in S : u.fd[s] = f
    BY <1>7, <1>12
  <2>2. u.conn[f] \in Conns /\ u.fate[u.conn[f]] = "open"
    BY <1>1, <1>12, <2>1 DEF Alive, TableType
  <2>3. \A s \in S : u.conn[u.fd[s]] # u.conn[f]
    BY <1>1, <1>8, <1>12, <2>1 DEF Owned
  <2>4. QED
    BY <1>7, <2>1, <2>2, <2>3
<1>13. ASSUME NEW c \in Conns, v.fate[c] = "open"
      PROVE  \E f \in Fds : v.conn[f] = c
  <2>1. u.fate[c] = "open" /\ ~ \E s \in S : u.conn[u.fd[s]] = c
    BY <1>7, <1>13
  <2>2. PICK f \in Fds : u.conn[f] = c
    BY <1>1, <2>1 DEF Alive
  <2>3. ~ \E s \in S : u.fd[s] = f
    BY <2>1, <2>2
  <2>4. QED
    BY <1>7, <2>2, <2>3
<1>14. OwnLines(v)
  BY <1>1, <1>7, <1>9, <1>10 DEF OwnLines, Held
<1>15. ASSUME NEW ty \in Types
       PROVE  v.n[ty] = Cardinality(HeldBy(v, ty))
  <2> DEFINE A == HeldBy(u, ty)
             B == {s \in S : s[1] = ty}
  <2>1. A \in SUBSET Slots /\ A \cap B = B /\ HeldBy(v, ty) = A \ B
    BY <1>8, <1>9 DEF HeldBy, Held
  <2>2. Cardinality(A \ B) = Cardinality(A) - Cardinality(B)
    BY <2>1, SlotsFinite, FS_Difference
  <2>3. v.n[ty] = u.n[ty] - Cardinality(B) /\ u.n[ty] = Cardinality(A)
    BY <1>1, <1>7 DEF Counted
  <2>4. QED
    BY <2>1, <2>2, <2>3
<1>16. Table(v)
  BY <1>7, <1>11, <1>12, <1>13, <1>14, <1>15 DEF Table, Alive, Counted
<1>17. \A s \in S : v.fate[u.conn[u.fd[s]]] = why
  <2>1. \A s \in S : u.conn[u.fd[s]] \in Conns
    BY <1>1, <1>8 DEF Owned, TableType
  <2>2. QED
    BY <1>7, <2>1
<1>18. Deletes(u, v, S, why)
  <2>1. \A f \in Fds : v.conn[f] \in {u.conn[f], NoConn}
    BY <1>7
  <2>2. ASSUME NEW c \in Conns
        PROVE  /\ v.fate[c] = "open" => u.fate[c] = "open"
               /\ v.fate[c] # u.fate[c] => v.fate[c] = why /\ \E s \in S : u.conn[u.fd[s]] = c
    BY <1>7
  <2>3. \A s \in Slots : v.fd[s] = IF s \in S THEN NoFd ELSE u.fd[s]
    BY <1>7
  <2>4. QED
    BY <1>17, <2>1, <2>2, <2>3 DEF Deletes
<1>19. QED
  BY <1>16, <1>18 DEF v

(* The same when the fate is not "off".                                    *)
LEMMA DelDrops ==
  ASSUME NEW u, Table(u), NEW S \in SUBSET Held(u), NEW why \in {"closed", "unheard"}
  PROVE  Table(del_clients(u, S, why)) /\ Drops(u, del_clients(u, S, why))
<1> DEFINE v == del_clients(u, S, why)
<1>1. why \in Fates \ {"open"}
  BY DEF Fates
<1>2. Table(v) /\ Deletes(u, v, S, why)
  BY <1>1, DelClients
<1> HIDE DEF v
<1>3. \A c \in Conns : v.fate[c] = "off" => u.fate[c] = "off"
  BY <1>2 DEF Deletes
<1>4. Drops(u, v)
  BY <1>2, <1>3 DEF Drops, Shrinks, Deletes
<1>5. QED
  BY <1>2, <1>4 DEF v

(* queue_client_bytes(): a client with a full queue is deleted.            *)
LEMMA QueueBytes ==
  ASSUME NEW u, Table(u), NEW S \in SUBSET Held(u)
  PROVE  Table(queue_bytes(u, S)) /\ Drops(u, queue_bytes(u, S))
<1> DEFINE full == {s \in S : u.out[s] = QueueSize}
           more == [u EXCEPT !.out = [s \in Slots |-> IF s \in S \ full THEN @[s] + 1 ELSE @[s]]]
<1>1. u \in TableType /\ OwnLines(u)
  BY DEF Table
<1>2. /\ more.fd = u.fd /\ more.conn = u.conn /\ more.n = u.n /\ more.fate = u.fate
      /\ more.line = u.line /\ more.stalled = u.stalled
      /\ more.out = [s \in Slots |-> IF s \in S \ full THEN u.out[s] + 1 ELSE u.out[s]]
      /\ more \in [fd : {u.fd}, line : {u.line}, out : {more.out}, stalled : {u.stalled},
                   n : {u.n}, conn : {u.conn}, fate : {u.fate}]
  BY <1>1 DEF TableType
<1> HIDE DEF more
<1>3. \A s \in Slots : u.out[s] \in 0 .. QueueSize
  BY <1>1 DEF TableType
<1>4. more.out \in [Slots -> 0 .. QueueSize]
  BY <1>2, <1>3, ClientAssumption
<1>5. more \in TableType
  BY <1>1, <1>2, <1>4 DEF TableType
<1>6. Table(more)
  BY <1>1, <1>2, <1>5, SameClients DEF OwnLines
<1>7. full \in SUBSET Held(more)
  BY <1>2 DEF Held
<1>8. Table(del_clients(more, full, "closed")) /\ Drops(more, del_clients(more, full, "closed"))
  BY <1>6, <1>7, DelDrops
<1>9. queue_bytes(u, S) = del_clients(more, full, "closed")
  BY DEF queue_bytes, more
<1>10. Drops(u, more)
  BY <1>2 DEF Drops, Shrinks
<1>11. QED
  BY <1>8, <1>9, <1>10, DropsTwice
(* sockprintf(): what goes to a descriptor goes to the slot that has it,   *)
(* and an event to every main and XML client.                              *)
LEMMA Replies ==
  ASSUME NEW u, Table(u), NEW f \in Fds
  PROVE  /\ SlotsOf(u, f) \in SUBSET Held(u)
         /\ Table(reply(u, f)) /\ Drops(u, reply(u, f))
         /\ Table(broadcast(u)) /\ Drops(u, broadcast(u))
<1>1. SlotsOf(u, f) \in SUBSET Held(u)
  BY Finite DEF SlotsOf, Held
<1>2. {s \in Slots : s[1] # "or20" /\ u.fd[s] # NoFd} \in SUBSET Held(u)
  BY DEF Held
<1>3. QED
  BY <1>1, <1>2, QueueBytes DEF reply, broadcast

(* An event alone, for the USB side of the loop.                           *)
LEMMA Broadcasts ==
  ASSUME NEW u, Table(u)
  PROVE  Table(broadcast(u)) /\ Drops(u, broadcast(u))
<1>1. {s \in Slots : s[1] # "or20" /\ u.fd[s] # NoFd} \in SUBSET Held(u)
  BY DEF Held
<1>2. QED
  BY <1>1, QueueBytes DEF broadcast

(* processcommandline(): whatever the command says and to whom, it only    *)
(* drops clients.                                                          *)
LEMMA CommandDrops ==
  ASSUME NEW u, Table(u), NEW f \in Fds, NEW does
  PROVE  Table(command(u, f, does)) /\ Drops(u, command(u, f, does))
<1> DEFINE e == IF "event" \in does THEN broadcast(u) ELSE u
           v == IF "answer" \in does THEN reply(e, f) ELSE e
           or20 == {s \in SlotsOf(v, f) : s[1] \in OnOpenRemotePort}
           why == IF \E s \in or20 : v.out[s] > 0 THEN "unheard" ELSE "closed"
<1>1. Drops(u, u)
  BY DEF Drops, Shrinks
<1>2. Table(e) /\ Drops(u, e)
  BY <1>1, Broadcasts
<1> HIDE DEF e
<1>3. Table(v) /\ Drops(u, v)
  BY <1>2, Replies, DropsTwice
<1> HIDE DEF v
<1>4. or20 \in SUBSET Held(v)
  BY <1>3, Replies
<1>5. why \in {"closed", "unheard"}
  OBVIOUS
<1> HIDE DEF or20, why
<1>6. Table(del_clients(v, or20, why)) /\ Drops(v, del_clients(v, or20, why))
  BY <1>3, <1>4, <1>5, DelDrops
<1>7. command(u, f, does) = del_clients(v, or20, why)
  BY DEF command, e, v, or20, why
<1>8. QED
  BY <1>3, <1>6, <1>7, DropsTwice

(* cm15a_encode_with_state(): the remainder is stored in the slot although *)
(* the command may have given it up; if it did not, the slot's client is   *)
(* the one whose bytes they are.                                           *)
LEMMA EncodeDrops ==
  ASSUME NEW u, Table(u), NEW f \in Fds, NEW s \in SlotsOf(u, f), NEW data, NEW does
  PROVE  Table(encode(u, s, f, data, does)) /\ Drops(u, encode(u, s, f, data, does))
<1> DEFINE v == IF data = "part" THEN u ELSE command(u, f, does)
           c == IF data = "line" THEN NoConn ELSE u.conn[f]
           w == [v EXCEPT !.line[s] = c]
<1>1. Table(v) /\ Drops(u, v)
  <2>1. Drops(u, u)
    BY DEF Drops, Shrinks
  <2>2. QED
    BY <2>1, CommandDrops
<1>2. u \in TableType /\ v \in TableType /\ s \in Held(u) /\ s \in Slots /\ u.fd[s] = f
  BY <1>1, Replies DEF Table, SlotsOf
<1>3. c \in Conns \cup {NoConn}
  BY <1>2 DEF TableType
<1> HIDE DEF v, c
<1>4. /\ w \in TableType /\ w.fd = v.fd /\ w.conn = v.conn /\ w.n = v.n /\ w.fate = v.fate
      /\ w.line = [v.line EXCEPT ![s] = c]
  BY <1>2, <1>3 DEF TableType
<1> HIDE DEF w
<1>5. ASSUME NEW r \in Held(v)
      PROVE  w.line[r] \in {NoConn, v.conn[v.fd[r]]}
  <2>1. CASE r # s
    <3>1. w.line[r] = v.line[r]
      BY <1>2, <1>4, <2>1 DEF Held, TableType
    <3>2. QED
      BY <1>1, <3>1 DEF Table, OwnLines
  <2>2. CASE r = s
    <3>1. w.line[s] = c
      BY <1>2, <1>4 DEF TableType
    <3>2. v.fd[s] = f
      BY <1>1, <1>2, <2>2 DEF Held, Drops, Shrinks
    <3>3. v.conn[f] # NoConn
      BY <1>1, <2>2, <3>2 DEF Table, Owned
    <3>4. v.conn[f] = u.conn[f]
      BY <1>1, <3>3 DEF Drops, Shrinks
    <3>5. QED
      BY <2>2, <3>1, <3>2, <3>4 DEF c
  <2>3. QED
    BY <2>1, <2>2
<1>6. Table(w)
  BY <1>1, <1>4, <1>5, SameClients
<1>7. Drops(u, w)
  BY <1>1, <1>4 DEF Drops, Shrinks
<1>8. QED
  BY <1>6, <1>7 DEF encode, w, v, c

(* flush_client_output() as far as send() takes messages.                  *)
LEMMA FlushDrops ==
  ASSUME NEW u, Table(u), NEW s \in Slots, NEW k \in 0 .. QueueSize, k <= u.out[s]
  PROVE  Table(flush(u, s, k)) /\ Drops(u, flush(u, s, k))
<1> DEFINE v == flush(u, s, k)
<1>1. u \in TableType /\ OwnLines(u)
  BY DEF Table
<1>2. u.out[s] - k \in 0 .. QueueSize
  BY <1>1, ClientAssumption DEF TableType
<1> DEFINE out2 == [u.out EXCEPT ![s] = @ - k]
           stalled2 == [u.stalled EXCEPT ![s] = (k < u.out[s])]
<1>3. out2 \in [Slots -> 0 .. QueueSize] /\ stalled2 \in [Slots -> BOOLEAN]
  BY <1>1, <1>2 DEF TableType
<1>4. v = [u EXCEPT !.out = out2, !.stalled = stalled2]
  BY DEF flush
<1> HIDE DEF v, out2, stalled2
<1>5. /\ v \in TableType /\ v.fd = u.fd /\ v.conn = u.conn /\ v.n = u.n
      /\ v.fate = u.fate /\ v.line = u.line
  BY <1>1, <1>3, <1>4 DEF TableType
<1>6. Table(v)
  BY <1>1, <1>5, SameClients DEF OwnLines
<1>7. QED
  BY <1>5, <1>6 DEF Drops, Shrinks, v

(* What the next poll() begins with: fates are forgotten and the stalled   *)
(* clients disconnected.                                                   *)
LEMMA PollDrops ==
  ASSUME NEW u, Table(u), NEW S \in SUBSET Slots
  PROVE  /\ Table(disconnect_stalled(forget(u), S))
         /\ Drops(u, disconnect_stalled(forget(u), S))
<1> DEFINE v == forget(u)
           D == {s \in S : v.fd[s] # NoFd /\ v.out[s] > 0 /\ v.stalled[s]}
           fate2 == [c \in Conns |-> IF u.fate[c] = "open" THEN "open" ELSE "closed"]
<1>1. u \in TableType /\ OwnLines(u)
  BY DEF Table
<1>2. fate2 \in [Conns -> Fates]
  BY DEF Fates
<1>3. v = [u EXCEPT !.fate = fate2]
  BY DEF forget
<1>4. /\ v \in TableType /\ v.fd = u.fd /\ v.conn = u.conn /\ v.n = u.n
      /\ v.fate = fate2 /\ v.line = u.line
  <2> HIDE DEF v, fate2
  <2>1. QED
    BY <1>1, <1>2, <1>3 DEF TableType
<1> HIDE DEF v
<1>5. Table(v)
  BY <1>1, <1>4, SameClients DEF OwnLines
<1>6. Drops(u, v)
  BY <1>4 DEF Drops, Shrinks
<1>7. D \in SUBSET Held(v)
  BY DEF Held
<1>8. Table(del_clients(v, D, "closed")) /\ Drops(v, del_clients(v, D, "closed"))
  BY <1>5, <1>7, DelDrops
<1>9. disconnect_stalled(v, S) = del_clients(v, D, "closed")
  BY DEF disconnect_stalled
<1>10. QED
  BY <1>6, <1>8, <1>9, DropsTwice DEF v

(* The slot add_client() takes: the free one of the lowest index.          *)
LEMMA FirstFreeSlot ==
  ASSUME NEW u, NEW ty \in Types, FreeSlots(u, ty) # {}
  PROVE  /\ FirstFree(u, ty) \in Slots /\ FirstFree(u, ty)[1] = ty
         /\ u.fd[FirstFree(u, ty)] = NoFd
<1> DEFINE S == FreeSlots(u, ty)
           i == CHOOSE i \in S : \A j \in S : i <= j
<1>1. S \in SUBSET Nat /\ S \in SUBSET (1 .. MaxClients)
  BY ClientAssumption DEF FreeSlots
<1>2. \E m \in S : \A k \in S : m <= k
  <2> HIDE DEF S
  <2>1. QED
    BY <1>1, Least DEF S
<1>3. i \in S
  <2> HIDE DEF S
  <2>1. QED
    BY <1>2
<1>4. i \in 1 .. MaxClients /\ u.fd[<<ty, i>>] = NoFd
  <2> HIDE DEF i
  <2>1. QED
    BY <1>1, <1>3 DEF FreeSlots
<1>5. FirstFree(u, ty) = <<ty, i>>
  BY DEF FirstFree
<1> HIDE DEF i
<1>6. QED
  BY <1>4, <1>5 DEF Slots
(* add_client(): a descriptor the kernel has just made goes to one free    *)
(* slot, with an empty line, and is counted; when there is no free slot it *)
(* is closed again.                                                        *)
LEMMA AddClient ==
  ASSUME NEW u, Table(u), NEW ty \in Types, NEW f \in Fds, u.conn[f] = NoConn,
         NEW c \in Conns, u.fate[c] # "open"
  PROVE  /\ Table(add_client(u, ty, f, c))
         /\ \A g \in Fds : add_client(u, ty, f, c).conn[g] \in
                             {u.conn[g]} \cup (IF g = f THEN {c} ELSE {})
         /\ \A d \in Conns : add_client(u, ty, f, c).fate[d] \in
                               {u.fate[d]} \cup (IF d = c THEN {"open"} ELSE {})
<1>1. CASE FreeSlots(u, ty) = {}
  BY <1>1 DEF add_client
<1>2. CASE FreeSlots(u, ty) # {}
  <2> DEFINE s == FirstFree(u, ty)
             v == add_client(u, ty, f, c)
  <2>1. s \in Slots /\ s[1] = ty /\ u.fd[s] = NoFd
    BY <1>2, FirstFreeSlot
  <2>2. u \in TableType /\ Owned(u) /\ Alive(u) /\ OwnLines(u) /\ Counted(u)
    BY DEF Table
  <2> HIDE DEF s
  <2>3. v = [u EXCEPT !.fd[s] = f, !.line[s] = NoConn, !.out[s] = 0, !.stalled[s] = FALSE,
                      !.n[ty] = @ + 1, !.conn[f] = c, !.fate[c] = "open"]
    BY <1>2 DEF add_client, s
  <2> HIDE DEF v
  <2> DEFINE fd2 == [u.fd EXCEPT ![s] = f]
             line2 == [u.line EXCEPT ![s] = NoConn]
             out2 == [u.out EXCEPT ![s] = 0]
             stalled2 == [u.stalled EXCEPT ![s] = FALSE]
             n2 == [u.n EXCEPT ![ty] = @ + 1]
             conn2 == [u.conn EXCEPT ![f] = c]
             fate2 == [u.fate EXCEPT ![c] = "open"]
  <2>4. v = [u EXCEPT !.fd = fd2, !.line = line2, !.out = out2, !.stalled = stalled2,
                      !.n = n2, !.conn = conn2, !.fate = fate2]
    BY <2>3
  <2>5. fd2 \in [Slots -> Fds \cup {NoFd}] /\ line2 \in [Slots -> Conns \cup {NoConn}]
    BY <2>2 DEF TableType
  <2>6. out2 \in [Slots -> 0 .. QueueSize] /\ stalled2 \in [Slots -> BOOLEAN]
    <3>1. u.out \in [Slots -> 0 .. QueueSize] /\ u.stalled \in [Slots -> BOOLEAN]
      BY <2>2 DEF TableType
    <3>2. 0 \in 0 .. QueueSize
      BY ClientAssumption
    <3>3. QED
      BY <3>1, <3>2
  <2>7. conn2 \in [Fds -> Conns \cup {NoConn}] /\ fate2 \in [Conns -> Fates]
    BY <2>2 DEF TableType, Fates
  <2>8. n2 \in [Types -> Int]
    BY <2>2 DEF TableType
  <2>9. /\ v.fd = fd2 /\ v.line = line2 /\ v.n = n2 /\ v.conn = conn2 /\ v.fate = fate2
        /\ v \in TableType
    <3> HIDE DEF fd2, line2, out2, stalled2, n2, conn2, fate2
    <3>1. QED
      BY <2>2, <2>4, <2>5, <2>6, <2>7, <2>8 DEF TableType
  <2>10. /\ v.fd[s] = f /\ v.line[s] = NoConn /\ v.conn[f] = c /\ v.fate[c] = "open"
         /\ \A r \in Slots : r # s => v.fd[r] = u.fd[r] /\ v.line[r] = u.line[r]
         /\ \A g \in Fds : g # f => v.conn[g] = u.conn[g]
         /\ \A d \in Conns : d # c => v.fate[d] = u.fate[d]
         /\ v.n[ty] = u.n[ty] + 1 /\ \A tz \in Types : tz # ty => v.n[tz] = u.n[tz]
    BY <2>1, <2>2, <2>9 DEF TableType
  <2> HIDE DEF fd2, line2, out2, stalled2, n2, conn2, fate2
  <2>11. Held(v) = Held(u) \cup {s} /\ s \notin Held(u)
    BY <2>1, <2>10, Finite DEF Held
  <2>12. \A r \in Held(u) : r \in Slots /\ r # s /\ v.fd[r] = u.fd[r] /\ u.fd[r] \in Fds
    BY <2>2, <2>10, <2>11 DEF Held, TableType
  <2>13. \A r \in Held(u) : u.fd[r] # f
    BY <2>2 DEF Owned
  <2>14. \A g \in Fds : u.conn[g] # c
    BY <2>2, Finite DEF Alive
  <2>15. Owned(v)
    <3>1. \A r, q \in Held(v) : v.fd[r] = v.fd[q] => r = q
      BY <2>2, <2>10, <2>11, <2>12, <2>13 DEF Owned
    <3>2. \A g \in Fds : v.conn[g] # NoConn <=> \E r \in Held(v) : v.fd[r] = g
      <4>1. SUFFICES ASSUME NEW g \in Fds
                     PROVE  v.conn[g] # NoConn <=> \E r \in Held(v) : v.fd[r] = g
        OBVIOUS
      <4>2. CASE g = f
        BY <2>10, <2>11, <4>2, Finite
      <4>3. CASE g # f
        <5>1. v.conn[g] = u.conn[g]
          BY <2>10, <4>3
        <5>2. (\E r \in Held(v) : v.fd[r] = g) <=> \E r \in Held(u) : u.fd[r] = g
          BY <2>10, <2>11, <2>12, <4>3
        <5>3. QED
          BY <2>2, <5>1, <5>2 DEF Owned
      <4>4. QED
        BY <4>2, <4>3
    <3>3. \A g, h \in Fds : v.conn[g] # NoConn /\ v.conn[g] = v.conn[h] => g = h
      BY <2>2, <2>10, <2>14 DEF Owned
    <3>4. QED
      BY <3>1, <3>2, <3>3 DEF Owned
  <2>16. Alive(v)
    <3>1. ASSUME NEW d \in Conns, v.fate[d] = "open"
          PROVE  \E g \in Fds : v.conn[g] = d
      <4>1. CASE d = c
        BY <2>10, <4>1
      <4>2. CASE d # c
        <5>1. PICK g \in Fds : u.conn[g] = d
          BY <2>2, <2>10, <3>1, <4>2 DEF Alive
        <5>2. g # f
          BY <5>1, Finite
        <5>3. QED
          BY <2>10, <5>1, <5>2
      <4>3. QED
        BY <4>1, <4>2
    <3>2. SUFFICES ASSUME NEW g \in Fds, v.conn[g] # NoConn
                   PROVE  v.fate[v.conn[g]] = "open"
      BY <3>1 DEF Alive
    <3>3. CASE g = f
      BY <2>10, <3>3
    <3>4. CASE g # f
      <4>1. v.conn[g] = u.conn[g] /\ u.conn[g] \in Conns /\ u.conn[g] # c
        BY <2>2, <2>10, <2>14, <3>2, <3>4 DEF TableType
      <4>2. QED
        BY <2>2, <2>10, <3>2, <4>1 DEF Alive
    <3>5. QED
      BY <3>3, <3>4
  <2>17. OwnLines(v)
    <3>1. SUFFICES ASSUME NEW r \in Held(v)
                   PROVE  v.line[r] \in {NoConn, v.conn[v.fd[r]]}
      BY DEF OwnLines
    <3>2. CASE r = s
      BY <2>10, <3>2
    <3>3. CASE r # s
      <4>1. r \in Held(u) /\ r \in Slots
        BY <2>11, <2>12, <3>3
      <4>2. v.line[r] = u.line[r] /\ v.fd[r] = u.fd[r] /\ v.conn[u.fd[r]] = u.conn[u.fd[r]]
        BY <2>10, <2>12, <2>13, <3>3, <4>1
      <4>3. QED
        BY <2>2, <4>1, <4>2 DEF OwnLines
    <3>4. QED
      BY <3>2, <3>3
  <2>18. Counted(v)
    <3>1. SUFFICES ASSUME NEW tz \in Types
                   PROVE  v.n[tz] = Cardinality(HeldBy(v, tz))
      BY DEF Counted
    <3>2. HeldBy(u, tz) \in SUBSET Slots /\ s \notin HeldBy(u, tz)
      BY <2>11 DEF HeldBy, Held
    <3>3. CASE tz = ty
      <4>1. HeldBy(v, tz) = HeldBy(u, tz) \cup {s}
        BY <2>1, <2>11, <3>3 DEF HeldBy
      <4>2. Cardinality(HeldBy(v, tz)) = Cardinality(HeldBy(u, tz)) + 1
        BY <3>2, <4>1, SlotsFinite, FS_AddElement
      <4>3. QED
        BY <2>2, <2>10, <3>3, <4>2 DEF Counted
    <3>4. CASE tz # ty
      <4>1. HeldBy(v, tz) = HeldBy(u, tz)
        BY <2>1, <2>11, <3>4 DEF HeldBy
      <4>2. QED
        BY <2>2, <2>10, <3>4, <4>1 DEF Counted
    <3>5. QED
      BY <3>3, <3>4
  <2>19. QED
    BY <2>9, <2>10, <2>15, <2>16, <2>17, <2>18 DEF Table, v
<1>3. QED
  BY <1>1, <1>2
(* ---- the array of poll() ---------------------------------------------- *)

(* Row k of copy_clients(): what the array holds after k slots.            *)
CopyStep(g, k) ==
  IF k = 0 THEN <<>>
  ELSE IF SlotOrder[k] \in Taken THEN Append(g[k - 1], SlotOrder[k])
  ELSE g[k - 1]

(* The loop of copy_clients() has a result for every number of slots.      *)
LEMMA CopyExists ==
  ASSUME NEW n \in Nat
  PROVE  \E g : g = [k \in 0 .. n |-> CopyStep(g, k)]
<1> DEFINE T == {m \in Nat : \E g : g = [k \in 0 .. m |-> CopyStep(g, k)]}
<1>1. 0 \in T
  <2> DEFINE g == [k \in 0 .. 0 |-> <<>>]
  <2>1. g = [k \in 0 .. 0 |-> CopyStep(g, k)]
    BY DEF CopyStep
  <2>2. QED
    BY <2>1
<1>2. \A m \in Nat : m \in T => m + 1 \in T
  <2>1. SUFFICES ASSUME NEW m \in Nat, m \in T
                 PROVE  \E h : h = [k \in 0 .. m + 1 |-> CopyStep(h, k)]
    OBVIOUS
  <2>2. PICK g : g = [k \in 0 .. m |-> CopyStep(g, k)]
    BY <2>1
  <2> DEFINE h == [k \in 0 .. m + 1 |-> IF k <= m THEN g[k] ELSE CopyStep(g, k)]
  <2>3. ASSUME NEW k \in 0 .. m + 1
        PROVE  h[k] = CopyStep(h, k)
    <3>1. CASE k = 0
      BY <2>2, <3>1 DEF CopyStep
    <3>2. CASE k # 0
      <4>1. k - 1 \in 0 .. m /\ h[k - 1] = g[k - 1]
        BY <3>2
      <4>2. h[k] = CopyStep(g, k)
        BY <2>2
      <4>3. QED
        BY <3>2, <4>1, <4>2 DEF CopyStep
    <3>3. QED
      BY <3>1, <3>2
  <2> HIDE DEF h
  <2>4. h = [k \in 0 .. m + 1 |-> h[k]]
    BY DEF h
  <2>5. h = [k \in 0 .. m + 1 |-> CopyStep(h, k)]
    BY <2>3, <2>4
  <2>6. QED
    BY <2>5
<1> HIDE DEF T
<1>3. \A m \in Nat : m \in T
  BY <1>1, <1>2, SetInduction
<1>4. QED
  BY <1>3 DEF T

(* copy_clients() goes through the slots one by one: its recursive function*)
(* is defined on every prefix of the order.                                *)
LEMMA CopiedDef ==
  copied = [k \in 0 .. 3 * MaxClients |-> CopyStep(copied, k)]
<1>1. 3 * MaxClients \in Nat
  BY ClientAssumption
<1>2. \E g : g = [k \in 0 .. 3 * MaxClients |-> CopyStep(g, k)]
  BY <1>1, CopyExists
<1>3. copied = CHOOSE g : g = [k \in 0 .. 3 * MaxClients |-> CopyStep(g, k)]
  BY DEF copied, CopyStep
<1>4. QED
  BY <1>2, <1>3

(* Each slot has one place in the order of copy_clients().                 *)
LEMMA Order ==
  /\ \A i, j \in 1 .. 3 * MaxClients : SlotOrder[i] = SlotOrder[j] => i = j
  /\ \A s \in Slots : \E i \in 1 .. 3 * MaxClients : SlotOrder[i] = s
<1>1. MaxClients \in Nat /\ MaxClients >= 1
  BY ClientAssumption
<1>2. ASSUME NEW i \in 1 .. 3 * MaxClients, NEW j \in 1 .. 3 * MaxClients,
             SlotOrder[i] = SlotOrder[j]
      PROVE  i = j
  <2>1. /\ Listeners[((i - 1) % 3) + 1] = Listeners[((j - 1) % 3) + 1]
        /\ ((i - 1) \div 3) + 1 = ((j - 1) \div 3) + 1
    BY <1>2 DEF SlotOrder
  <2>2. (i - 1) % 3 \in 0 .. 2 /\ (j - 1) % 3 \in 0 .. 2
    OBVIOUS
  <2>3. \A x, y \in 0 .. 2 : Listeners[x + 1] = Listeners[y + 1] => x = y
    BY DEF Listeners
  <2>4. (i - 1) % 3 = (j - 1) % 3
    BY <2>1, <2>2, <2>3
  <2>5. /\ i - 1 = 3 * ((i - 1) \div 3) + ((i - 1) % 3)
        /\ j - 1 = 3 * ((j - 1) \div 3) + ((j - 1) % 3)
    OBVIOUS
  <2>6. QED
    BY <2>1, <2>4, <2>5
<1>3. ASSUME NEW s \in Slots
      PROVE  \E i \in 1 .. 3 * MaxClients : SlotOrder[i] = s
  <2>1. s = <<s[1], s[2]>> /\ s[1] \in {"main", "xml", "or20"} /\ s[2] \in 1 .. MaxClients
    <3>1. PICK ty \in Types, k \in 1 .. MaxClients : s = <<ty, k>>
      BY DEF Slots
    <3>2. ty \in {"main", "xml", "or20"}
      BY ClientAssumption
    <3>3. QED
      BY <3>1, <3>2
  <2>2. PICK x \in 0 .. 2 : Listeners[x + 1] = s[1]
    <3>1. Listeners[0 + 1] = "main" /\ Listeners[1 + 1] = "xml" /\ Listeners[2 + 1] = "or20"
      BY DEF Listeners
    <3>2. QED
      BY <2>1, <3>1
  <2> DEFINE i == 3 * (s[2] - 1) + x + 1
  <2>3. i \in 1 .. 3 * MaxClients /\ (i - 1) % 3 = x /\ ((i - 1) \div 3) + 1 = s[2]
    BY <1>1, <2>1, <2>2
  <2> HIDE DEF i
  <2>4. SlotOrder[i] = s
    BY <2>1, <2>2, <2>3 DEF SlotOrder
  <2>5. QED
    BY <2>3, <2>4
<1>4. QED
  BY <1>2, <1>3

(* copy_clients() copies each taken slot once and nothing else.            *)
LEMMA CopyClients ==
  /\ copy_clients \in Seq(Taken)
  /\ \A i, j \in 1 .. Len(copy_clients) : copy_clients[i] = copy_clients[j] => i = j
  /\ \A s \in Taken : \E i \in 1 .. Len(copy_clients) : copy_clients[i] = s
<1> DEFINE N == 3 * MaxClients
           Sofar(k) ==
             /\ copied[k] \in Seq(Taken)
             /\ \A i, j \in 1 .. Len(copied[k]) : copied[k][i] = copied[k][j] => i = j
             /\ \A i \in 1 .. Len(copied[k]) : \E m \in 1 .. k : copied[k][i] = SlotOrder[m]
             /\ \A m \in 1 .. k : SlotOrder[m] \in Taken =>
                  \E i \in 1 .. Len(copied[k]) : copied[k][i] = SlotOrder[m]
           T == {k \in Nat : k <= N => Sofar(k)}
<1>1. N \in Nat
  BY ClientAssumption
<1>2. Sofar(0)
  <2>1. copied[0] = <<>>
    BY <1>1, CopiedDef DEF CopyStep
  <2>2. QED
    BY <2>1
<1>3. ASSUME NEW k \in Nat, k + 1 <= N, Sofar(k)
      PROVE  Sofar(k + 1)
  <2> DEFINE q == copied[k]
             x == SlotOrder[k + 1]
             r == copied[k + 1]
  <2>1. r = IF x \in Taken THEN Append(q, x) ELSE q
    <3>1. k + 1 \in 0 .. N /\ k + 1 # 0 /\ (k + 1) - 1 = k
      BY <1>1, <1>3
    <3>2. copied[k + 1] = CopyStep(copied, k + 1)
      BY <3>1, CopiedDef
    <3>3. QED
      BY <3>1, <3>2 DEF CopyStep
  <2>2. /\ q \in Seq(Taken) /\ Len(q) \in Nat
        /\ \A i, j \in 1 .. Len(q) : q[i] = q[j] => i = j
        /\ \A i \in 1 .. Len(q) : \E m \in 1 .. k : q[i] = SlotOrder[m]
        /\ \A m \in 1 .. k : SlotOrder[m] \in Taken => \E i \in 1 .. Len(q) : q[i] = SlotOrder[m]
    BY <1>3
  <2>3. \A m \in 1 .. k : SlotOrder[m] # x
    <3>1. 1 .. k \subseteq 1 .. N /\ k + 1 \in 1 .. N /\ k + 1 \notin 1 .. k
      BY <1>1, <1>3
    <3>2. QED
      BY <3>1, Order
  <2>4. \A m \in 1 .. k + 1 : m \in 1 .. k \/ m = k + 1
    OBVIOUS
  <2> HIDE DEF q, x, r
  <2>5. CASE x \notin Taken
    <3>1. r = q
      BY <2>1, <2>5
    <3>2. \A m \in 1 .. k : m \in 1 .. k + 1
      OBVIOUS
    <3>3. QED
      BY <2>2, <2>4, <2>5, <3>1, <3>2 DEF r, x
  <2>6. CASE x \in Taken
    <3>1. /\ r \in Seq(Taken) /\ Len(r) = Len(q) + 1 /\ r[Len(q) + 1] = x
          /\ \A i \in 1 .. Len(q) : r[i] = q[i]
      BY <2>1, <2>2, <2>6
    <3>2. \A i \in 1 .. Len(r) : i \in 1 .. Len(q) \/ i = Len(q) + 1
      BY <2>2, <3>1
    <3>3. \A i \in 1 .. Len(q) : r[i] # x
      BY <2>2, <2>3, <3>1
    <3>4. \A i, j \in 1 .. Len(r) : r[i] = r[j] => i = j
      BY <2>2, <3>1, <3>2, <3>3
    <3>5. \A i \in 1 .. Len(r) : \E m \in 1 .. k + 1 : r[i] = SlotOrder[m]
      BY <2>2, <3>1, <3>2 DEF x
    <3>6. \A m \in 1 .. k + 1 : SlotOrder[m] \in Taken =>
            \E i \in 1 .. Len(r) : r[i] = SlotOrder[m]
      <4>1. Len(q) + 1 \in 1 .. Len(r) /\ \A i \in 1 .. Len(q) : i \in 1 .. Len(r)
        BY <2>2, <3>1
      <4>2. QED
        BY <2>2, <2>4, <3>1, <4>1 DEF x
    <3>7. QED
      BY <3>1, <3>4, <3>5, <3>6 DEF r
  <2>7. QED
    BY <2>5, <2>6
<1> HIDE DEF Sofar
<1>4. 0 \in T /\ \A k \in Nat : k \in T => k + 1 \in T
  BY <1>1, <1>2, <1>3
<1> HIDE DEF T
<1>5. \A k \in Nat : k \in T
  BY <1>4, SetInduction
<1>6. Sofar(N)
  BY <1>1, <1>5 DEF T
<1>7. ASSUME NEW s \in Taken
      PROVE  \E i \in 1 .. Len(copied[N]) : copied[N][i] = s
  <2>1. PICK m \in 1 .. N : SlotOrder[m] = s
    BY Order DEF Taken
  <2>2. QED
    BY <1>6, <2>1 DEF Sofar
<1>8. QED
  BY <1>6, <1>7 DEF Sofar, copy_clients
(* ---- one iteration of the loop ---------------------------------------- *)

Counts(e) == e.in \/ e.out
ToCount(q) == {i \in 1 .. Len(q) : Counts(q[i])}

(* Entry i is a client's and asks for read().                              *)
Asks(q, i) == q[i].fd # UsbFd /\ q[i].in

(* No descriptor of a client is twice in the array q.                      *)
Once(q) ==
  \A i, j \in 1 .. Len(q) : q[i].fd # UsbFd /\ q[i].fd = q[j].fd => i = j

(* Who is still to be read has something to read, or is a newcomer behind  *)
(* the number of a client that is gone, or is gone.                        *)
Reported(q, u, box, new) ==
  \A i \in 1 .. Len(q) :
    Asks(q, i) => \/ u.conn[q[i].fd] \in new \cup {NoConn}
                  \/ box[u.conn[q[i].fd]] # "empty"

(* Whoever of D is still connected is still in the array.                  *)
Pending(q, u, D) ==
  \A c \in D : u.fate[c] = "open" =>
    \E i \in 1 .. Len(q) : Asks(q, i) /\ u.conn[q[i].fd] = c

(* poll()'s result covers what is still to be dealt with.                  *)
Ready ==
  /\ step \in {"events", "accept", "serve"} =>
       Cardinality(knocks) + Cardinality(ToCount(pollfds)) <= nready
  /\ step = "serve" => knocks = {}

(* The USB records are the first of the array; and whoever poll() reported *)
(* and nobody has read is in it, unless libusb moved the clients down.     *)
UsbFirst ==
  step \in {"events", "accept"} =>
    \A i \in 1 .. Len(pollfds) : i <= usb.polled => pollfds[i].fd = UsbFd
NotMoved == step \in {"events", "accept"} \/ (step = "serve" /\ usb.now <= usb.polled)

ClientIInv ==
  /\ ClientTypeOK
  /\ Table(t)
  /\ Once(pollfds)
  /\ Reported(pollfds, t, inbox, fresh)
  /\ Ready
  /\ UsbFirst
  /\ NotMoved => Pending(pollfds, t, due)

(* r is what is left of the array q after its first n entries; POLLOUT may *)
(* have been dealt with.                                                   *)
Behind(q, r, n) ==
  /\ r \in Seq(Entries) /\ Len(r) = (IF n <= Len(q) THEN Len(q) - n ELSE 0)
  /\ \A i \in 1 .. Len(r) :
       /\ i + n \in 1 .. Len(q)
       /\ r[i].fd = q[i + n].fd /\ r[i].in = q[i + n].in
       /\ r[i].out => q[i + n].out

(* for (i = ...; i < npollfds; i++): the next entry, or the first of a     *)
(* client.                                                                 *)
LEMMA Rest ==
  ASSUME NEW q \in Seq(Entries)
  PROVE  /\ Behind(q, q, 0)
         /\ q # <<>> => Behind(q, Tail(q), 1)
         /\ \A n \in Nat : Behind(q, SubSeq(q, n + 1, Len(q)), n)
<1>1. Len(q) \in Nat /\ \A i \in 1 .. Len(q) : q[i] \in Entries
  OBVIOUS
<1>2. Behind(q, q, 0)
  BY <1>1 DEF Behind
<1>3. ASSUME q # <<>>
      PROVE  Behind(q, Tail(q), 1)
  <2>1. /\ Tail(q) \in Seq(Entries) /\ Len(Tail(q)) = Len(q) - 1 /\ 1 <= Len(q)
        /\ \A i \in 1 .. Len(q) - 1 : Tail(q)[i] = q[i + 1] /\ i + 1 \in 1 .. Len(q)
    BY <1>1, <1>3
  <2>2. QED
    BY <2>1 DEF Behind
<1>4. ASSUME NEW n \in Nat
      PROVE  Behind(q, SubSeq(q, n + 1, Len(q)), n)
  <2> DEFINE r == SubSeq(q, n + 1, Len(q))
  <2>1. r \in Seq(Entries)
    BY <1>1
  <2>2. Len(r) = IF n <= Len(q) THEN Len(q) - n ELSE 0
    BY <1>1
  <2>3. \A i \in 1 .. Len(r) : i + n \in 1 .. Len(q) /\ r[i] = q[i + n]
    BY <1>1, <2>2
  <2> HIDE DEF r
  <2>4. QED
    BY <2>1, <2>2, <2>3 DEF Behind, r
<1>5. QED
  BY <1>2, <1>3, <1>4

(* The entries that count and can be counted.                              *)
LEMMA Countable ==
  ASSUME NEW q \in Seq(Entries)
  PROVE  /\ IsFiniteSet(ToCount(q)) /\ Cardinality(ToCount(q)) \in Nat
         /\ Cardinality(ToCount(q)) <= Len(q)
<1>1. Len(q) \in Nat /\ ToCount(q) \in SUBSET (1 .. Len(q))
  BY DEF ToCount
<1>2. \A m \in Nat : IsFiniteSet(1 .. m) /\ Cardinality(1 .. m) = m
  BY FS_Interval
<1>3. QED
  BY <1>1, <1>2, FS_Subset, FS_CardinalityType

(* What is left of the array counts no more than it did, and the entry     *)
(* that has been dealt with one less.                                      *)
LEMMA RestCounts ==
  ASSUME NEW q \in Seq(Entries), NEW r, NEW n \in Nat, Behind(q, r, n)
  PROVE  /\ Cardinality(ToCount(r)) <= Cardinality(ToCount(q))
         /\ n >= 1 /\ q # <<>> /\ Counts(q[1]) =>
              Cardinality(ToCount(r)) <= Cardinality(ToCount(q)) - 1
<1> DEFINE R == ToCount(r)
           Q == ToCount(q) \ (1 .. n)
           g == [i \in R |-> i + n]
<1>1. /\ r \in Seq(Entries) /\ Len(r) \in Nat /\ Len(q) \in Nat
      /\ \A i \in 1 .. Len(r) : i + n \in 1 .. Len(q)
      /\ \A i \in 1 .. Len(r) : Counts(r[i]) => Counts(q[i + n])
  <2>1. r \in Seq(Entries) /\ Len(r) \in Nat /\ Len(q) \in Nat
    BY DEF Behind
  <2>2. ASSUME NEW i \in 1 .. Len(r)
        PROVE  i + n \in 1 .. Len(q) /\ (Counts(r[i]) => Counts(q[i + n]))
    BY DEF Behind, Counts
  <2>3. QED
    BY <2>1, <2>2
<1>2. R \subseteq Nat /\ \A i \in R : i >= 1 /\ i + n \in Q
  BY <1>1 DEF ToCount
<1>3. IsFiniteSet(ToCount(q)) /\ Cardinality(ToCount(q)) \in Nat
  BY Countable
<1>4. IsFiniteSet(Q) /\ Cardinality(Q) \in Nat /\ Cardinality(Q) <= Cardinality(ToCount(q))
  <2>1. Q \in SUBSET ToCount(q)
    OBVIOUS
  <2>2. QED
    BY <1>3, <2>1, FS_Subset, FS_CardinalityType
<1> HIDE DEF R, Q
<1>5. g \in [R -> Q] /\ \A i, j \in R : g[i] = g[j] => i = j
  BY <1>2
<1> HIDE DEF g
<1>6. g \in Injection(R, Q)
  BY <1>5 DEF Injection, IsInjective
<1>7. Cardinality(R) <= Cardinality(Q)
  BY <1>4, <1>6, FS_Injection
<1>8. Cardinality(R) \in Nat
  BY <1>1, Countable DEF R
<1>9. ASSUME n >= 1, q # <<>>, Counts(q[1])
      PROVE  Cardinality(Q) <= Cardinality(ToCount(q)) - 1
  <2>1. 1 \in ToCount(q) /\ Q \in SUBSET (ToCount(q) \ {1})
    BY <1>1, <1>9 DEF ToCount, Q
  <2>2. /\ IsFiniteSet(ToCount(q) \ {1})
        /\ Cardinality(ToCount(q) \ {1}) = Cardinality(ToCount(q)) - 1
    BY <1>3, <2>1, FS_RemoveElement
  <2>3. QED
    BY <2>1, <2>2, FS_Subset
<1>10. QED
  BY <1>3, <1>4, <1>7, <1>8, <1>9 DEF R
(* The three facts about the array are kept by going on in it.  Here u and *)
(* v are the tables before and after.                                      *)
LEMMA OnceKept ==
  ASSUME NEW q \in Seq(Entries), NEW r, NEW n \in Nat, Behind(q, r, n), Once(q)
  PROVE  Once(r)
<1>1. Len(r) \in Nat
  BY DEF Behind
<1>2. ASSUME NEW i \in 1 .. Len(r), NEW j \in 1 .. Len(r),
             r[i].fd # UsbFd, r[i].fd = r[j].fd
      PROVE  i = j
  <2>1. /\ i + n \in 1 .. Len(q) /\ j + n \in 1 .. Len(q)
        /\ q[i + n].fd # UsbFd /\ q[i + n].fd = q[j + n].fd
    BY <1>2 DEF Behind
  <2>2. i + n = j + n
    BY <2>1 DEF Once
  <2>3. QED
    BY <1>1, <2>2
<1>3. QED
  BY <1>2 DEF Once

(* What the array says of a descriptor stays true while poll()'s entries are*)
(* worked off: the input is still there, or the descriptor has a new owner.*)
LEMMA ReportedKept ==
  ASSUME NEW q \in Seq(Entries), NEW r, NEW n \in Nat, Behind(q, r, n),
         NEW u, NEW v, NEW box, NEW box2, NEW new, NEW new2,
         Reported(q, u, box, new), new \subseteq new2,
         \A f \in Fds : v.conn[f] \in {u.conn[f], NoConn} \cup new2,
         \A i \in 1 .. Len(r) :
           Asks(r, i) /\ box2[u.conn[r[i].fd]] = "empty" =>
             \/ v.conn[r[i].fd] = NoConn
             \/ box[u.conn[r[i].fd]] = "empty"
  PROVE  Reported(r, v, box2, new2)
<1>1. SUFFICES ASSUME NEW i \in 1 .. Len(r), Asks(r, i)
               PROVE  \/ v.conn[r[i].fd] \in new2 \cup {NoConn}
                      \/ box2[v.conn[r[i].fd]] # "empty"
  BY DEF Reported
<1> DEFINE f == r[i].fd
<1>2. i + n \in 1 .. Len(q) /\ q[i + n].fd = f /\ q[i + n].in = r[i].in /\ r[i] \in Entries
  BY DEF Behind
<1>3. f \in Fds /\ Asks(q, i + n)
  BY <1>1, <1>2 DEF Entries, Asks
<1>4. u.conn[f] \in new \cup {NoConn} \/ box[u.conn[f]] # "empty"
  BY <1>2, <1>3 DEF Reported
<1>5. QED
  BY <1>1, <1>3, <1>4

(* A client that poll() reported and the loop has not reached stays in the *)
(* rest of the array, for deletions only shorten the list of those due.    *)
LEMMA PendingKept ==
  ASSUME NEW q \in Seq(Entries), NEW r, NEW n \in Nat, Behind(q, r, n),
         NEW u, NEW v, NEW D, NEW E \in SUBSET Conns, E \subseteq D,
         Table(u), Table(v), Shrinks(u, v), Pending(q, u, D),
         \A i \in 1 .. Len(q) : i <= n /\ Asks(q, i) =>
           u.conn[q[i].fd] \notin E \/ v.fate[u.conn[q[i].fd]] # "open"
  PROVE  Pending(r, v, E)
<1>1. SUFFICES ASSUME NEW c \in E, v.fate[c] = "open"
               PROVE  \E i \in 1 .. Len(r) : Asks(r, i) /\ v.conn[r[i].fd] = c
  BY DEF Pending
<1>2. c \in Conns /\ u.fate[c] = "open"
  BY <1>1 DEF Shrinks
<1>3. PICK i \in 1 .. Len(q) : Asks(q, i) /\ u.conn[q[i].fd] = c
  BY <1>2 DEF Pending
<1> DEFINE f == q[i].fd
<1>4. f \in Fds
  <2>1. q[i] \in Entries /\ f # UsbFd
    BY <1>3 DEF Asks
  <2>2. QED
    BY <2>1 DEF Entries
<1>5. i \notin 1 .. n
  BY <1>1, <1>3
<1>6. i - n \in 1 .. Len(r) /\ (i - n) + n = i
  <2>1. Len(q) \in Nat /\ Len(r) = Len(q) - n /\ i > n /\ i <= Len(q)
    BY <1>3, <1>5 DEF Behind
  <2>2. QED
    BY <2>1
<1>7. Asks(r, i - n) /\ r[i - n].fd = f
  BY <1>3, <1>6 DEF Asks, Behind
<1>8. PICK g \in Fds : v.conn[g] = c
  BY <1>1, <1>2 DEF Table, Alive
<1>9. u.conn[g] = c
  BY <1>2, <1>8, Finite DEF Shrinks
<1>10. g = f
  BY <1>2, <1>3, <1>4, <1>9, Finite DEF Table, Owned
<1>11. QED
  BY <1>6, <1>7, <1>8, <1>10

(* poll()'s result is within the type, for it was when poll() returned.    *)
LEMMA Bound ==
  MaxUsb + 3 + Cardinality(Slots) \in Nat
  BY Finite, UsbAssumption

(* The way back to poll() forgets the array.                               *)
LEMMA AgainIInv ==
  ASSUME ClientIInv, Again, Table(t)', inbox' \in [Conns -> Inputs \cup {"empty"}],
         usb' = usb, due' \subseteq Conns
  PROVE  ClientIInv'
<1>1. step' = "poll" /\ pollfds' = <<>> /\ nready' = 0 /\ knocks' = {} /\ fresh' = {}
  BY DEF Again
<1>2. Len(pollfds') = 0 /\ pollfds' \in Seq(Entries)
  BY <1>1
<1>3. ClientTypeOK'
  <2>1. t' \in TableType
    BY DEF Table
  <2>2. 0 \in 0 .. MaxUsb + 3 + Cardinality(Slots)
    BY Bound
  <2>3. QED
    BY <1>1, <1>2, <2>1, <2>2 DEF ClientIInv, ClientTypeOK, Steps
<1>4. Once(pollfds') /\ Reported(pollfds', t', inbox', fresh')
  BY <1>2 DEF Once, Reported
<1>5. Ready' /\ UsbFirst' /\ ~NotMoved'
  BY <1>1 DEF Ready, UsbFirst, NotMoved
<1>6. QED
  BY <1>3, <1>4, <1>5 DEF ClientIInv

(* main() begins with no client.                                           *)
LEMMA ClientInitIInv == ClientInit => ClientIInv
<1>1. SUFFICES ASSUME ClientInit
               PROVE  ClientIInv
  OBVIOUS
<1>2. Table(t) /\ t \in TableType
  BY <1>1, InitTableSound DEF ClientInit, Table
<1>3. ClientTypeOK
  <2>1. 0 \in 0 .. MaxUsb + 3 + Cardinality(Slots)
    BY Bound
  <2>2. usb \in [now : 0 .. MaxUsb, polled : 0 .. MaxUsb, err : BOOLEAN]
    BY <1>1, UsbAssumption DEF ClientInit
  <2>3. QED
    BY <1>1, <1>2, <2>1, <2>2 DEF ClientInit, ClientTypeOK, Steps
<1>4. QED
  BY <1>1, <1>2, <1>3 DEF ClientInit, ClientIInv, Once, Reported, Ready, UsbFirst, NotMoved
(* What a step from a state of the invariant keeps and never does: it cuts *)
(* off nobody but newcomers, and does not go back to poll() past a client  *)
(* that was reported.                                                      *)
CutsReused == \A c \in Conns : t.fate[c] = "open" /\ t'.fate[c] = "off" => c \in fresh
Serves ==
  step # "poll" /\ step' = "poll" /\ usb.now <= usb.polled =>
    \A c \in due' : t'.fate[c] # "open"
GoodStep == ClientIInv' /\ CutsReused /\ Serves

(* Nobody is cut off by what only drops clients.                           *)
LEMMA DropsCutNobody ==
  ASSUME Drops(t, t') \/ t' = t
  PROVE  CutsReused
  BY DEF Drops, Shrinks, CutsReused

(* copy_clients() fills no more than one record for each slot.             *)
LEMMA CopyFits ==
  /\ Len(copy_clients) \in Nat /\ Len(copy_clients) <= Cardinality(Slots)
  /\ \A i \in 1 .. Len(copy_clients) : copy_clients[i] \in Taken
<1> DEFINE q == copy_clients
<1>1. /\ q \in Seq(Taken) /\ Len(q) \in Nat
      /\ \A i \in 1 .. Len(q) : q[i] \in Taken
      /\ \A i, j \in 1 .. Len(q) : q[i] = q[j] => i = j
  BY CopyClients
<1> HIDE DEF q
<1> DEFINE g == [i \in 1 .. Len(q) |-> q[i]]
<1>2. g \in [1 .. Len(q) -> Slots] /\ \A i, j \in 1 .. Len(q) : g[i] = g[j] => i = j
  BY <1>1 DEF Taken
<1> HIDE DEF g
<1>3. g \in Injection(1 .. Len(q), Slots)
  BY <1>2 DEF Injection, IsInjective
<1>4. Cardinality(1 .. Len(q)) <= Cardinality(Slots)
  BY <1>3, Finite, FS_Injection
<1>5. \A m \in Nat : Cardinality(1 .. m) = m
  BY FS_Interval
<1>6. QED
  BY <1>1, <1>4, <1>5 DEF q

(* The clients' records come behind the USB records.                       *)
LEMMA Concat ==
  ASSUME NEW a \in Seq(Entries), NEW b \in Seq(Entries)
  PROVE  /\ a \o b \in Seq(Entries) /\ Len(a \o b) = Len(a) + Len(b)
         /\ \A i \in 1 .. Len(a) : (a \o b)[i] = a[i]
         /\ \A i \in 1 .. Len(b) : (a \o b)[Len(a) + i] = b[i]
  OBVIOUS

(* poll(): each readable client has its one place behind the USB records,  *)
(* and the result counts every entry.                                      *)
LEMMA PollStep ==
  ASSUME ClientIInv, Poll
  PROVE  GoodStep
<1> DEFINE q == copy_clients
           m == Len(q)
           n == usb.now
           p == pollfds'
<1>1. /\ t \in TableType /\ Owned(t) /\ Alive(t) /\ Table(t)
      /\ inbox \in [Conns -> Inputs \cup {"empty"}] /\ n \in 0 .. MaxUsb
      /\ usb \in [now : 0 .. MaxUsb, polled : 0 .. MaxUsb, err : BOOLEAN]
  BY DEF ClientIInv, ClientTypeOK, Table
<1>2. /\ step = "poll" /\ step' = "events" /\ knocks' \in SUBSET Types
      /\ usb' = [usb EXCEPT !.polled = usb.now]
      /\ due' = {t.conn[f] : f \in {g \in Registered : Readable(g)}}
      /\ \E late \in SUBSET {s \in Taken : t.stalled[s]} :
           t' = disconnect_stalled(forget(t), late)
      /\ inbox' = [c \in Conns |-> IF t.fate[c] = "open" THEN inbox[c] ELSE "empty"]
      /\ fresh' = {}
  BY DEF Poll
<1>3. PICK room \in SUBSET {s \in Taken : t.out[s] > 0}, ready \in BOOLEAN :
        LET slots == copy_clients
            ours  == [i \in DOMAIN slots |-> [fd  |-> t.fd[slots[i]],
                                              in  |-> Readable(t.fd[slots[i]]),
                                              out |-> slots[i] \in room]]
            its   == [i \in 1 .. usb.now |-> [fd |-> UsbFd, in |-> ready, out |-> FALSE]]
        IN  /\ pollfds' = its \o ours
            /\ nready' = Cardinality(knocks') +
                 Cardinality({i \in DOMAIN pollfds' : pollfds'[i].in \/ pollfds'[i].out})
  BY DEF Poll
<1>4. /\ q \in Seq(Taken) /\ m \in Nat /\ m <= Cardinality(Slots)
      /\ \A i \in 1 .. m : q[i] \in Taken
      /\ \A i, j \in 1 .. m : q[i] = q[j] => i = j
      /\ \A s \in Taken : \E i \in 1 .. m : q[i] = s
  BY CopyClients, CopyFits
<1>5. \A s \in Taken : s \in Slots /\ t.fd[s] \in Fds /\ t.fd[s] # UsbFd /\ t.conn[t.fd[s]] \in Conns
  BY <1>1, Finite DEF Taken, Owned, Held, TableType
<1> DEFINE its  == [i \in 1 .. n |-> [fd |-> UsbFd, in |-> ready, out |-> FALSE]]
           ours == [i \in 1 .. m |-> [fd  |-> t.fd[q[i]],
                                      in  |-> Readable(t.fd[q[i]]),
                                      out |-> q[i] \in room]]
<1>6. p = its \o ours
  <2>1. DOMAIN q = 1 .. m
    BY <1>4
  <2>2. QED
    BY <1>3, <2>1
<1>7. /\ its \in Seq(Entries) /\ Len(its) = n
      /\ \A i \in 1 .. n : its[i].fd = UsbFd
  <2>1. [fd |-> UsbFd, in |-> ready, out |-> FALSE] \in Entries
    BY DEF Entries
  <2>2. its \in [1 .. n -> Entries] /\ n \in Nat
    BY <1>1, <2>1
  <2>3. \A i \in 1 .. n : its[i].fd = UsbFd
    OBVIOUS
  <2> HIDE DEF its
  <2>4. QED
    BY <2>2, <2>3
<1>8. /\ ours \in Seq(Entries) /\ Len(ours) = m
      /\ \A i \in 1 .. m : ours[i].fd = t.fd[q[i]] /\ ours[i].in = Readable(t.fd[q[i]])
  <2>1. \A i \in 1 .. m : ours[i] \in Entries
    BY <1>4, <1>5 DEF Entries, Readable
  <2>2. QED
    BY <1>4, <2>1
<1>9. /\ p \in Seq(Entries) /\ Len(p) = n + m
      /\ \A i \in 1 .. n : p[i].fd = UsbFd
      /\ \A i \in 1 .. m : p[n + i].fd = t.fd[q[i]] /\ p[n + i].in = Readable(t.fd[q[i]])
      /\ \A i \in 1 .. Len(p) : i \in 1 .. n \/ (i - n \in 1 .. m /\ n + (i - n) = i)
  <2> HIDE DEF its, ours, q, m, n
  <2>1. /\ its \o ours \in Seq(Entries) /\ Len(its \o ours) = Len(its) + Len(ours)
        /\ \A i \in 1 .. Len(its) : (its \o ours)[i] = its[i]
        /\ \A i \in 1 .. Len(ours) : (its \o ours)[Len(its) + i] = ours[i]
    BY <1>7, <1>8, Concat
  <2>2. p \in Seq(Entries) /\ Len(p) = n + m
    BY <1>6, <1>7, <1>8, <2>1
  <2>3. \A i \in 1 .. n : p[i] = its[i]
    BY <1>6, <1>7, <2>1
  <2>4. \A i \in 1 .. m : p[n + i] = ours[i]
    BY <1>6, <1>7, <1>8, <2>1
  <2>5. \A i \in 1 .. Len(p) : i \in 1 .. n \/ (i - n \in 1 .. m /\ n + (i - n) = i)
    BY <1>1, <1>4, <2>2
  <2>6. QED
    BY <1>7, <1>8, <2>2, <2>3, <2>4, <2>5
<1> HIDE DEF q, m, its, ours
<1>10. Table(t') /\ Drops(t, t')
  BY <1>1, <1>2, PollDrops DEF Taken
<1>11. Once(p)
  <2>1. SUFFICES ASSUME NEW i \in 1 .. Len(p), NEW j \in 1 .. Len(p),
                        p[i].fd # UsbFd, p[i].fd = p[j].fd
                 PROVE  i = j
    BY DEF Once
  <2>2. /\ i - n \in 1 .. m /\ n + (i - n) = i
        /\ j - n \in 1 .. m /\ n + (j - n) = j
    BY <1>9, <2>1
  <2>3. t.fd[q[i - n]] = t.fd[q[j - n]]
    BY <1>9, <2>1, <2>2
  <2>4. q[i - n] = q[j - n]
    <3>1. \A s, r \in Taken : t.fd[s] = t.fd[r] => s = r
      BY <1>1 DEF Owned, Held, Taken
    <3>2. q[i - n] \in Taken /\ q[j - n] \in Taken
      BY <1>4, <2>2
    <3>3. QED
      BY <2>3, <3>1, <3>2
  <2>5. i - n = j - n
    BY <1>4, <2>2, <2>4
  <2>6. QED
    BY <2>2, <2>5
<1>12. Reported(p, t', inbox', fresh')
  <2>1. SUFFICES ASSUME NEW i \in 1 .. Len(p), Asks(p, i)
                 PROVE  t'.conn[p[i].fd] = NoConn \/ inbox'[t'.conn[p[i].fd]] # "empty"
    BY DEF Reported
  <2> DEFINE f == t.fd[q[i - n]]
  <2>2. i - n \in 1 .. m /\ n + (i - n) = i
    BY <1>9, <2>1 DEF Asks
  <2>3. p[i].fd = f /\ Readable(f)
    BY <1>9, <2>1, <2>2 DEF Asks
  <2>4. f \in Fds /\ t.conn[f] \in Conns
    BY <1>4, <1>5, <2>2
  <2> HIDE DEF f
  <2>5. inbox'[t.conn[f]] # "empty"
    BY <1>1, <1>2, <2>3, <2>4, Finite DEF Alive, Readable
  <2>6. t'.conn[f] \in {t.conn[f], NoConn}
    BY <1>10, <2>4 DEF Drops, Shrinks
  <2>7. QED
    BY <2>3, <2>5, <2>6
<1>13. Pending(p, t', due')
  <2>1. SUFFICES ASSUME NEW c \in due', t'.fate[c] = "open"
                 PROVE  \E i \in 1 .. Len(p) : Asks(p, i) /\ t'.conn[p[i].fd] = c
    BY DEF Pending
  <2>2. PICK s \in Taken : c = t.conn[t.fd[s]] /\ Readable(t.fd[s])
    BY <1>2, <2>1 DEF Registered
  <2>3. c \in Conns /\ t.fd[s] \in Fds /\ t.fd[s] # UsbFd
    BY <1>5, <2>2
  <2>4. PICK i \in 1 .. m : q[i] = s
    BY <1>4
  <2>5. n + i \in 1 .. Len(p)
    BY <1>1, <1>4, <1>9
  <2>6. Asks(p, n + i) /\ p[n + i].fd = t.fd[s]
    BY <1>9, <2>2, <2>3, <2>4 DEF Asks
  <2>7. PICK g \in Fds : t'.conn[g] = c
    BY <1>10, <2>1, <2>3 DEF Table, Alive
  <2>8. t.conn[g] = c
    BY <1>10, <2>3, <2>7, Finite DEF Drops, Shrinks
  <2>9. g = t.fd[s]
    BY <1>1, <2>2, <2>3, <2>8, Finite DEF Owned
  <2>10. QED
    BY <2>5, <2>6, <2>7, <2>9
<1>14. nready' = Cardinality(knocks') + Cardinality(ToCount(p))
  <2>1. DOMAIN p = 1 .. Len(p)
    BY <1>9
  <2>2. QED
    BY <1>3, <2>1 DEF ToCount, Counts
<1>15. Cardinality(knocks') \in Nat /\ Cardinality(knocks') <= 3
  <2>1. IsFiniteSet(knocks') /\ Cardinality(knocks') <= Cardinality(Types)
    BY <1>2, Finite, FS_Subset
  <2>2. Cardinality(knocks') \in Nat /\ Cardinality(Types) \in Nat
    BY <2>1, Finite, FS_CardinalityType
  <2>3. QED
    BY <2>1, <2>2, Finite
<1>16. Cardinality(ToCount(p)) \in Nat /\ Cardinality(ToCount(p)) <= n + m
  BY <1>9, Countable
<1>17. nready' \in 0 .. MaxUsb + 3 + Cardinality(Slots)
  BY <1>1, <1>4, <1>14, <1>15, <1>16, Finite, UsbAssumption
<1>18. ClientTypeOK'
  <2>1. t' \in TableType
    BY <1>10 DEF Table
  <2>2. inbox' \in [Conns -> Inputs \cup {"empty"}]
    BY <1>1, <1>2
  <2>3. usb' \in [now : 0 .. MaxUsb, polled : 0 .. MaxUsb, err : BOOLEAN]
    BY <1>1, <1>2
  <2>4. due' \subseteq Conns
    BY <1>2, <1>5 DEF Registered
  <2>5. QED
    BY <1>2, <1>9, <1>17, <2>1, <2>2, <2>3, <2>4 DEF ClientTypeOK, Steps
<1>19. Ready'
  BY <1>2, <1>14, <1>15, <1>16 DEF Ready
<1>20. UsbFirst'
  <2>1. usb'.polled = n
    BY <1>1, <1>2
  <2>2. QED
    BY <1>1, <1>9, <2>1 DEF UsbFirst
<1>21. ClientIInv'
  BY <1>10, <1>11, <1>12, <1>13, <1>18, <1>19, <1>20 DEF ClientIInv
<1>22. QED
  BY <1>2, <1>10, <1>21, DropsCutNobody DEF GoodStep, Serves
(* A step that drops clients at most and goes on in the array by n entries *)
(* of which the daemon is done.                                            *)
LEMMA GoesOn ==
  ASSUME ClientIInv, NEW n \in {0, 1}, n = 0 \/ step = "serve",
         Behind(pollfds, pollfds', n), n = 1 => pollfds # <<>>,
         Table(t'), Shrinks(t, t'),
         inbox' \in [Conns -> Inputs \cup {"empty"}],
         UNCHANGED <<step, knocks, usb, fresh>>, due' \subseteq due,
         nready' = nready \/ (n = 1 /\ Counts(pollfds[1]) /\ nready > 1 /\ nready' = nready - 1),
         \A i \in 1 .. Len(pollfds') :
           Asks(pollfds', i) /\ inbox'[t.conn[pollfds'[i].fd]] = "empty" =>
             t'.conn[pollfds'[i].fd] = NoConn \/ inbox[t.conn[pollfds'[i].fd]] = "empty",
         n = 1 /\ Asks(pollfds, 1) =>
           t.conn[pollfds[1].fd] \notin due' \/ t'.fate[t.conn[pollfds[1].fd]] # "open"
  PROVE  ClientIInv'
<1>1. /\ ClientTypeOK /\ Table(t) /\ Once(pollfds) /\ Reported(pollfds, t, inbox, fresh)
      /\ Ready /\ UsbFirst /\ (NotMoved => Pending(pollfds, t, due))
  BY DEF ClientIInv
<1>2. pollfds \in Seq(Entries) /\ pollfds' \in Seq(Entries) /\ n \in Nat
  BY <1>1 DEF ClientTypeOK, Behind
<1>3. Len(pollfds') = Len(pollfds) - n
  <2>1. n <= Len(pollfds)
    BY <1>2
  <2>2. QED
    BY <1>2, <2>1 DEF Behind
<1>4. Once(pollfds')
  BY <1>1, <1>2, OnceKept
<1>5. Reported(pollfds', t', inbox', fresh')
  <2>1. \A f \in Fds : t'.conn[f] \in {t.conn[f], NoConn} \cup fresh'
    BY DEF Shrinks
  <2>2. QED
    BY <1>1, <1>2, <2>1, ReportedKept
<1>6. NotMoved' => Pending(pollfds', t', due')
  <2>1. SUFFICES ASSUME NotMoved'
                 PROVE  Pending(pollfds', t', due')
    OBVIOUS
  <2>2. Pending(pollfds, t, due)
    BY <1>1, <2>1 DEF NotMoved
  <2>3. due' \in SUBSET Conns
    BY <1>1 DEF ClientTypeOK
  <2>4. \A i \in 1 .. Len(pollfds) : i <= n /\ Asks(pollfds, i) =>
          t.conn[pollfds[i].fd] \notin due' \/ t'.fate[t.conn[pollfds[i].fd]] # "open"
    OBVIOUS
  <2>5. QED
    BY <1>1, <1>2, <1>3, <2>2, <2>3, <2>4, PendingKept
<1>7. /\ nready \in 0 .. MaxUsb + 3 + Cardinality(Slots) /\ knocks \subseteq Types
      /\ nready' \in 0 .. MaxUsb + 3 + Cardinality(Slots)
  BY <1>1, Bound DEF ClientTypeOK
<1>8. /\ Cardinality(knocks) \in Nat /\ Cardinality(ToCount(pollfds)) \in Nat
      /\ Cardinality(ToCount(pollfds')) \in Nat
      /\ Cardinality(ToCount(pollfds')) <= Cardinality(ToCount(pollfds))
      /\ n = 1 /\ Counts(pollfds[1]) =>
           Cardinality(ToCount(pollfds')) <= Cardinality(ToCount(pollfds)) - 1
  <2>1. Cardinality(knocks) \in Nat
    BY <1>7, Finite, FS_Subset, FS_CardinalityType
  <2>2. QED
    BY <1>2, <2>1, Countable, RestCounts
<1>9. Ready'
  <2>1. ASSUME step \in {"events", "accept", "serve"}
        PROVE  Cardinality(knocks) + Cardinality(ToCount(pollfds')) <= nready'
    <3>1. Cardinality(knocks) + Cardinality(ToCount(pollfds)) <= nready
      BY <1>1, <2>1 DEF Ready
    <3>2. QED
      BY <1>7, <1>8, <3>1
  <2>2. QED
    BY <1>1, <2>1 DEF Ready
<1>10. UsbFirst'
  <2>1. ASSUME step \in {"events", "accept"}, NEW i \in 1 .. Len(pollfds'), i <= usb.polled
        PROVE  pollfds'[i].fd = UsbFd
    <3>1. n = 0
      BY <2>1
    <3>2. i \in 1 .. Len(pollfds) /\ pollfds'[i].fd = pollfds[i].fd
      BY <1>2, <1>3, <2>1, <3>1 DEF Behind
    <3>3. QED
      BY <1>1, <2>1, <3>2 DEF UsbFirst
  <2>2. QED
    BY <2>1 DEF UsbFirst
<1>11. ClientTypeOK'
  BY <1>1, <1>2, <1>7 DEF ClientTypeOK, Table
<1>12. QED
  BY <1>4, <1>5, <1>6, <1>9, <1>10, <1>11 DEF ClientIInv

(* libusb's callbacks, and the peers.                                      *)
LEMMA UsbStep ==
  ASSUME ClientIInv, UsbEvent \/ PollfdsLost \/ FlushKills \/ UNCHANGED clientVars
  PROVE  GoodStep
<1>1. Table(t) /\ ClientTypeOK /\ pollfds \in Seq(Entries)
  BY DEF ClientIInv, ClientTypeOK
<1>2. Behind(pollfds, pollfds, 0)
  BY <1>1, Rest
<1>3. CASE UsbEvent
  <2>1. Table(t') /\ Drops(t, t')
    BY <1>1, <1>3, Broadcasts DEF UsbEvent
  <2>2. UNCHANGED <<inbox, step, pollfds, nready, knocks, usb, fresh, due>> /\ step = "events"
    BY <1>3 DEF UsbEvent, iteration
  <2>3. inbox' \in [Conns -> Inputs \cup {"empty"}]
    BY <1>1, <2>2 DEF ClientTypeOK
  <2>4. ClientIInv'
    BY <1>2, <2>1, <2>2, <2>3, GoesOn DEF Drops
  <2>5. QED
    BY <2>1, <2>2, <2>4, DropsCutNobody DEF GoodStep, Serves
<1>4. CASE PollfdsLost \/ FlushKills
  <2>1. /\ UNCHANGED <<t, inbox, pollfds, nready, knocks, usb, fresh, due>>
        /\ step' \in {"stopped", "killed"}
    BY <1>4 DEF PollfdsLost, FlushKills, iteration
  <2>2. ClientIInv'
    BY <2>1 DEF ClientIInv, ClientTypeOK, Ready, UsbFirst, NotMoved, Steps
  <2>3. QED
    BY <2>1, <2>2, DropsCutNobody DEF GoodStep, Serves
<1>5. CASE UNCHANGED clientVars
  <2>1. UNCHANGED <<t, inbox, step, pollfds, nready, knocks, usb, fresh, due>>
    BY <1>5 DEF clientVars
  <2>2. ClientIInv'
    BY <2>1 DEF ClientIInv, ClientTypeOK, Ready, UsbFirst, NotMoved
  <2>3. QED
    BY <2>1, <2>2, DropsCutNobody DEF GoodStep, Serves
<1>6. QED
  BY <1>3, <1>4, <1>5

(* usb_pollfd_added() and usb_pollfd_removed() come before anything is     *)
(* taken from the array.                                                   *)
LEMMA PollfdsChangeStep ==
  ASSUME ClientIInv, UsbPollfdsChange
  PROVE  GoodStep
<1>1. /\ step = "events" /\ UNCHANGED <<t, inbox, step, pollfds, nready, knocks, fresh, due>>
      /\ usb \in [now : 0 .. MaxUsb, polled : 0 .. MaxUsb, err : BOOLEAN]
  BY DEF UsbPollfdsChange, ClientIInv, ClientTypeOK
<1>2. usb' \in [now : 0 .. MaxUsb, polled : 0 .. MaxUsb, err : BOOLEAN] /\ usb'.polled = usb.polled
  <2>1. CASE usb.now > 0 /\ usb' = [usb EXCEPT !.now = @ - 1]
    BY <1>1, <2>1, UsbAssumption
  <2>2. CASE usb.now < MaxUsb /\ usb' = [usb EXCEPT !.now = @ + 1]
    BY <1>1, <2>2, UsbAssumption
  <2>3. CASE usb' = [usb EXCEPT !.err = TRUE]
    BY <1>1, <2>3
  <2>4. QED
    BY <2>1, <2>2, <2>3 DEF UsbPollfdsChange
<1>3. ClientIInv'
  BY <1>1, <1>2 DEF ClientIInv, ClientTypeOK, Ready, UsbFirst, NotMoved
<1>4. QED
  BY <1>1, <1>3, DropsCutNobody DEF GoodStep, Serves

(* A peer sends or closes while the loop is anywhere: no table changes.    *)
LEMMA PeerStep ==
  ASSUME ClientIInv, NEW c \in Conns, PeerSends(c)
  PROVE  GoodStep
<1>1. /\ Table(t) /\ ClientTypeOK /\ pollfds \in Seq(Entries)
      /\ inbox \in [Conns -> Inputs \cup {"empty"}]
  BY DEF ClientIInv, ClientTypeOK
<1>2. Behind(pollfds, pollfds, 0)
  BY <1>1, Rest
<1>3. UNCHANGED <<t, step, pollfds, nready, knocks, usb, fresh, due>>
  BY DEF PeerSends, iteration
<1>4. PICK x \in Inputs : inbox' = [inbox EXCEPT ![c] = x]
  BY DEF PeerSends
<1>5. /\ inbox' \in [Conns -> Inputs \cup {"empty"}]
      /\ \A d \in Conns : inbox'[d] = "empty" => inbox[d] = "empty"
  BY <1>1, <1>4 DEF Inputs, Data
<1>6. \A i \in 1 .. Len(pollfds) : Asks(pollfds, i) /\ inbox'[t.conn[pollfds[i].fd]] = "empty" =>
        t'.conn[pollfds[i].fd] = NoConn \/ inbox[t.conn[pollfds[i].fd]] = "empty"
  <2>1. SUFFICES ASSUME NEW i \in 1 .. Len(pollfds), Asks(pollfds, i),
                        t.conn[pollfds[i].fd] # NoConn
                 PROVE  t.conn[pollfds[i].fd] \in Conns
    BY <1>3, <1>5
  <2>2. pollfds[i] \in Entries
    BY <1>1
  <2>3. pollfds[i].fd \in Fds
    BY <2>1, <2>2 DEF Entries, Asks
  <2>4. QED
    BY <1>1, <2>1, <2>3 DEF Table, TableType
<1>7. Drops(t, t') /\ Table(t')
  BY <1>1, <1>3 DEF Drops, Shrinks
<1>8. ClientIInv'
  BY <1>2, <1>3, <1>5, <1>6, <1>7, GoesOn DEF Drops
<1>9. QED
  BY <1>3, <1>8, DropsCutNobody DEF GoodStep, Serves
(* When no entry counts any more, nobody who was reported waits.           *)
LEMMA NobodyLeft ==
  ASSUME NEW q \in Seq(Entries), NEW u, NEW D, Pending(q, u, D),
         Cardinality(ToCount(q)) <= 0
  PROVE  \A c \in D : u.fate[c] # "open"
<1>1. ToCount(q) = {}
  <2>1. IsFiniteSet(ToCount(q)) /\ Cardinality(ToCount(q)) = 0
    BY Countable
  <2>2. QED
    BY <2>1, FS_EmptySet
<1>2. QED
  BY <1>1 DEF Pending, Asks, ToCount, Counts

(* After a timeout of poll(), or on to the listeners.                      *)
LEMMA EventsDoneStep ==
  ASSUME ClientIInv, EventsDone
  PROVE  GoodStep
<1>1. /\ step = "events" /\ UNCHANGED <<t, inbox, usb, due>>
      /\ Table(t) /\ ClientTypeOK /\ pollfds \in Seq(Entries)
      /\ Pending(pollfds, t, due) /\ Ready
  BY DEF EventsDone, ClientIInv, ClientTypeOK, NotMoved
<1>2. CASE nready = 0
  <2>1. Again
    BY <1>2 DEF EventsDone
  <2>2. ClientIInv'
    BY <1>1, <2>1, AgainIInv DEF ClientTypeOK
  <2>3. Cardinality(ToCount(pollfds)) <= 0
    <3>1. Cardinality(knocks) \in Nat
      BY <1>1, Finite, FS_Subset, FS_CardinalityType DEF ClientTypeOK
    <3>2. QED
      BY <1>1, <1>2, <3>1, Countable DEF Ready
  <2>4. \A c \in due : t.fate[c] # "open"
    BY <1>1, <2>3, NobodyLeft
  <2>5. QED
    BY <1>1, <2>2, <2>4, DropsCutNobody DEF GoodStep, Serves
<1>3. CASE nready # 0
  <2>1. step' = "accept" /\ UNCHANGED <<pollfds, nready, knocks, fresh>>
    BY <1>3 DEF EventsDone
  <2>2. ClientIInv'
    BY <1>1, <2>1 DEF ClientIInv, ClientTypeOK, Ready, UsbFirst, NotMoved, Steps
  <2>3. QED
    BY <1>1, <2>1, <2>2, DropsCutNobody DEF GoodStep, Serves
<1>4. QED
  BY <1>2, <1>3

(* accept() on one listener.  The descriptor and the connection are new,   *)
(* so whoever was in the array before still is who he was.                 *)
LEMMA AcceptStep ==
  ASSUME ClientIInv, NEW k \in 1 .. 3, Accept(k)
  PROVE  GoodStep
<1> DEFINE ty   == Listeners[k]
           free == {f \in Fds : t.conn[f] = NoConn}
           f    == CHOOSE g \in free : \A h \in free : g <= h
           c    == CHOOSE d \in Unused : \A e \in Unused : d <= e
           made == IF free = {} \/ Unused = {} THEN {} ELSE {c}
<1>1. /\ step = "accept" /\ ty \in knocks /\ UNCHANGED <<inbox, usb>>
      /\ t' = IF made = {} THEN t ELSE add_client(t, ty, f, c)
      /\ due' = due \ made
      /\ Count(pollfds, knocks \ {ty}, fresh \cup made)
  BY DEF Accept
<1>2. /\ Table(t) /\ ClientTypeOK /\ pollfds \in Seq(Entries) /\ ty \in Types
      /\ Once(pollfds) /\ Reported(pollfds, t, inbox, fresh) /\ Ready /\ UsbFirst
      /\ Pending(pollfds, t, due)
  BY <1>1 DEF ClientIInv, ClientTypeOK, NotMoved
<1>3. /\ Table(t')
      /\ \A g \in Fds : t'.conn[g] \in {t.conn[g]} \cup made
      /\ \A g \in Fds : t.conn[g] # NoConn => t'.conn[g] = t.conn[g]
      /\ \A d \in Conns : d \notin made => t'.fate[d] = t.fate[d]
      /\ \A d \in Conns : t'.fate[d] \in {t.fate[d], "open"}
      /\ made \subseteq Conns
  <2>1. CASE made = {}
    BY <1>1, <1>2, <2>1
  <2>2. CASE made # {}
    <3>1. free \in SUBSET Nat /\ free # {} /\ Unused \in SUBSET Nat /\ Unused # {}
      <4>1. Fds \subseteq Nat /\ Conns \subseteq Nat
        BY ClientAssumption DEF Conns
      <4>2. free \subseteq Fds /\ Unused \subseteq Conns
        BY DEF Unused
      <4>3. free # {} /\ Unused # {}
        BY <2>2
      <4>4. QED
        BY <4>1, <4>2, <4>3
    <3>2. f \in free /\ c \in Unused
      <4>1. \E g \in free : \A h \in free : g <= h
        <5> HIDE DEF free
        <5>1. QED
          BY <3>1, Least
      <4>2. \E d \in Unused : \A e \in Unused : d <= e
        BY <3>1, Least
      <4> HIDE DEF free
      <4>3. QED
        BY <4>1, <4>2
    <3> HIDE DEF f, c
    <3>3. f \in Fds /\ t.conn[f] = NoConn /\ c \in Conns /\ t.fate[c] # "open"
      BY <3>2 DEF Unused
    <3>4. made = {c} /\ t' = add_client(t, ty, f, c)
      BY <1>1, <2>2
    <3> HIDE DEF made, free, ty
    <3>5. /\ Table(t')
          /\ \A g \in Fds : t'.conn[g] \in {t.conn[g]} \cup (IF g = f THEN {c} ELSE {})
          /\ \A d \in Conns : t'.fate[d] \in {t.fate[d]} \cup (IF d = c THEN {"open"} ELSE {})
      BY <1>2, <3>3, <3>4, AddClient
    <3>6. QED
      BY <3>3, <3>4, <3>5
  <2>3. QED
    BY <2>1, <2>2
<1> HIDE DEF made, ty
<1>4. CutsReused
  BY <1>3 DEF CutsReused
<1>5. inbox' \in [Conns -> Inputs \cup {"empty"}] /\ due' \subseteq Conns
  BY <1>1, <1>2 DEF ClientTypeOK
<1>6. /\ nready \in Nat /\ Cardinality(ToCount(pollfds)) \in Nat
      /\ Cardinality(knocks) \in Nat /\ Cardinality(knocks) >= 1
      /\ Cardinality(knocks \ {ty}) = Cardinality(knocks) - 1
      /\ Cardinality(knocks) + Cardinality(ToCount(pollfds)) <= nready
  <2>1. IsFiniteSet(knocks) /\ Cardinality(knocks) \in Nat
    BY <1>2, Finite, FS_Subset, FS_CardinalityType DEF ClientTypeOK
  <2>2. Cardinality(knocks \ {ty}) = Cardinality(knocks) - 1 /\ Cardinality(knocks \ {ty}) \in Nat
    BY <1>1, <2>1, FS_RemoveElement, FS_CardinalityType
  <2>3. nready \in Nat
    BY <1>2, Bound DEF ClientTypeOK
  <2>4. QED
    BY <1>1, <1>2, <2>1, <2>2, <2>3, Countable DEF Ready
<1>7. CASE nready <= 1
  <2>1. Again
    BY <1>1, <1>7 DEF Count
  <2>2. ClientIInv'
    BY <1>1, <1>3, <1>5, <2>1, AgainIInv
  <2>3. Cardinality(ToCount(pollfds)) <= 0
    BY <1>6, <1>7
  <2>4. \A d \in due : t.fate[d] # "open"
    BY <1>2, <2>3, NobodyLeft
  <2>5. \A d \in due' : t'.fate[d] # "open"
    BY <1>1, <1>3, <1>5, <2>4
  <2>6. QED
    BY <1>4, <2>2, <2>5 DEF GoodStep, Serves
<1>8. CASE ~(nready <= 1)
  <2>1. /\ nready' = nready - 1 /\ pollfds' = pollfds /\ knocks' = knocks \ {ty}
        /\ fresh' = fresh \cup made /\ step' = step
    BY <1>1, <1>8 DEF Count
  <2>2. Behind(pollfds, pollfds, 0)
    BY <1>2, Rest
  <2>3. Reported(pollfds, t', inbox, fresh \cup made)
    <3>1. \A g \in Fds : t'.conn[g] \in {t.conn[g], NoConn} \cup (fresh \cup made)
      BY <1>3
    <3>2. QED
      BY <1>2, <2>2, <3>1, ReportedKept
  <2>4. Pending(pollfds, t', due')
    <3>1. SUFFICES ASSUME NEW d \in due', t'.fate[d] = "open"
                   PROVE  \E i \in 1 .. Len(pollfds) :
                            Asks(pollfds, i) /\ t'.conn[pollfds[i].fd] = d
      BY DEF Pending
    <3>2. d \in due /\ d \in Conns /\ t.fate[d] = "open"
      BY <1>1, <1>3, <1>5, <3>1
    <3>3. PICK i \in 1 .. Len(pollfds) : Asks(pollfds, i) /\ t.conn[pollfds[i].fd] = d
      BY <1>2, <3>2 DEF Pending
    <3>4. pollfds[i] \in Entries
      BY <1>2
    <3>5. pollfds[i].fd \in Fds /\ d # NoConn
      BY <3>2, <3>3, <3>4, Finite DEF Entries, Asks
    <3>6. QED
      BY <1>3, <3>3, <3>5
  <2>5. Ready'
    BY <1>1, <1>6, <2>1 DEF Ready
  <2>6. UsbFirst'
    BY <1>1, <1>2, <2>1 DEF UsbFirst
  <2>7. ClientTypeOK'
    <3>1. nready' \in 0 .. MaxUsb + 3 + Cardinality(Slots)
      BY <1>2, <1>6, <1>8, <2>1, Bound DEF ClientTypeOK
    <3>2. QED
      BY <1>1, <1>2, <1>3, <1>5, <2>1, <3>1 DEF ClientTypeOK, Table
  <2>8. ClientIInv'
    BY <1>1, <1>2, <1>3, <2>1, <2>3, <2>4, <2>5, <2>6, <2>7 DEF ClientIInv
  <2>9. QED
    BY <1>1, <1>4, <2>1, <2>8 DEF GoodStep, Serves
<1>9. QED
  BY <1>7, <1>8

(* From the listeners to the clients: the USB records are skipped.         *)
LEMMA AcceptDoneStep ==
  ASSUME ClientIInv, AcceptDone
  PROVE  GoodStep
<1> DEFINE n == usb.now
<1>1. /\ step = "accept" /\ knocks = {} /\ step' = "serve"
      /\ pollfds' = SubSeq(pollfds, n + 1, Len(pollfds))
      /\ UNCHANGED <<t, inbox, nready, knocks, usb, fresh, due>>
  BY DEF AcceptDone
<1>2. /\ Table(t) /\ ClientTypeOK /\ pollfds \in Seq(Entries) /\ n \in Nat
      /\ usb.polled \in Nat /\ nready \in Nat
      /\ Once(pollfds) /\ Reported(pollfds, t, inbox, fresh) /\ Ready /\ UsbFirst
      /\ Pending(pollfds, t, due)
  BY <1>1, Bound, UsbAssumption DEF ClientIInv, ClientTypeOK, NotMoved
<1> HIDE DEF n
<1>3. Behind(pollfds, pollfds', n)
  BY <1>1, <1>2, Rest
<1>4. pollfds' \in Seq(Entries)
  BY <1>3 DEF Behind
<1>5. Once(pollfds')
  BY <1>2, <1>3, OnceKept
<1>6. Reported(pollfds', t, inbox, fresh)
  BY <1>2, <1>3, ReportedKept
<1>7. Shrinks(t, t)
  BY DEF Shrinks
<1>8. n <= usb.polled => Pending(pollfds', t, due)
  <2>1. SUFFICES ASSUME n <= usb.polled
                 PROVE  Pending(pollfds', t, due)
    OBVIOUS
  <2>2. \A i \in 1 .. Len(pollfds) : i <= n => ~Asks(pollfds, i)
    BY <1>1, <1>2, <2>1 DEF UsbFirst, Asks
  <2>3. due \in SUBSET Conns
    BY <1>2 DEF ClientTypeOK
  <2>4. QED
    BY <1>2, <1>3, <1>7, <2>2, <2>3, PendingKept
<1>9. Ready'
  <2>1. Cardinality(knocks) = 0
    BY <1>1, FS_EmptySet
  <2>2. Cardinality(ToCount(pollfds)) <= nready
    BY <1>1, <1>2, <2>1, Countable DEF Ready
  <2>3. Cardinality(ToCount(pollfds')) <= nready
    BY <1>2, <1>3, <1>4, <2>2, RestCounts, Countable
  <2>4. Cardinality(knocks') = 0 /\ nready' = nready /\ knocks' = {}
    BY <1>1, <2>1
  <2>5. Cardinality(ToCount(pollfds')) \in Nat
    BY <1>4, Countable
  <2>6. \A x, y \in Nat : x <= y => 0 + x <= y
    OBVIOUS
  <2>7. QED
    BY <1>2, <2>3, <2>4, <2>5, <2>6 DEF Ready
<1>10. ClientTypeOK'
  BY <1>1, <1>2, <1>4 DEF ClientTypeOK, Steps
<1>11. ClientIInv'
  BY <1>1, <1>2, <1>5, <1>6, <1>8, <1>9, <1>10 DEF ClientIInv, UsbFirst, NotMoved, n
<1>12. QED
  BY <1>1, <1>11, DropsCutNobody DEF GoodStep, Serves

(* The end of the array.                                                   *)
LEMMA ServeDoneStep ==
  ASSUME ClientIInv, ServeDone
  PROVE  GoodStep
<1>1. /\ step = "serve" /\ pollfds = <<>> /\ Again /\ UNCHANGED <<t, inbox, usb, due>>
      /\ Table(t) /\ ClientTypeOK
  BY DEF ServeDone, ClientIInv
<1>2. ClientIInv'
  BY <1>1, AgainIInv DEF ClientTypeOK
<1>3. usb.now <= usb.polled => \A c \in due : t.fate[c] # "open"
  BY <1>1 DEF ClientIInv, NotMoved, Pending
<1>4. QED
  BY <1>1, <1>2, <1>3, DropsCutNobody DEF GoodStep, Serves
(* ---- serving the clients ---------------------------------------------- *)

(* del_client() of a descriptor of the array, whoever has it.              *)
LEMMA DelClient ==
  ASSUME NEW u, Table(u), NEW f \in Fds, NEW why \in Fates \ {"open"}
  PROVE  /\ Table(del_client(u, f, why)) /\ Shrinks(u, del_client(u, f, why))
         /\ \A c \in Conns : del_client(u, f, why).fate[c] # u.fate[c] =>
              del_client(u, f, why).fate[c] = why /\ c = u.conn[f]
         /\ SlotsOf(u, f) # {} => del_client(u, f, why).fate[u.conn[f]] = why
<1>1. SlotsOf(u, f) \in SUBSET Held(u) /\ \A s \in SlotsOf(u, f) : u.fd[s] = f
  BY Finite DEF SlotsOf, Held
<1> DEFINE v == del_client(u, f, why)
<1>2. Table(v) /\ Deletes(u, v, SlotsOf(u, f), why)
  BY <1>1, DelClients DEF del_client
<1> HIDE DEF v
<1>3. Shrinks(u, v)
  BY <1>2 DEF Deletes, Shrinks
<1>4. QED
  BY <1>1, <1>2, <1>3 DEF Deletes, v

(* Head of the array, and what is in it.                                   *)
LEMMA Served ==
  ASSUME ClientIInv, step = "serve", pollfds # <<>>
  PROVE  /\ At = pollfds[1] /\ 1 \in 1 .. Len(pollfds) /\ At \in Entries
         /\ Behind(pollfds, Tail(pollfds), 1) /\ pollfds \in Seq(Entries)
         /\ At.fd \in Fds \/ SlotsOf(t, At.fd) = {}
         /\ At.fd \in Fds /\ SlotsOf(t, At.fd) = {} => t.conn[At.fd] = NoConn
         /\ At.fd \in Fds /\ SlotsOf(t, At.fd) # {} => t.conn[At.fd] \in Conns
<1>1. Table(t) /\ pollfds \in Seq(Entries)
  BY DEF ClientIInv, ClientTypeOK
<1>2. At = pollfds[1] /\ 1 \in 1 .. Len(pollfds) /\ At \in Entries
  BY <1>1 DEF At
<1>3. At.fd \in Fds \/ At.fd = UsbFd
  BY <1>2 DEF Entries
<1>4. SlotsOf(t, UsbFd) = {}
  BY <1>1, Finite DEF SlotsOf, Table, TableType, NoFd, UsbFd
<1>5. ASSUME At.fd \in Fds
      PROVE  IF SlotsOf(t, At.fd) = {} THEN t.conn[At.fd] = NoConn ELSE t.conn[At.fd] \in Conns
  <2>1. t.conn[At.fd] # NoConn <=> \E s \in Held(t) : t.fd[s] = At.fd
    BY <1>1, <1>5 DEF Table, Owned
  <2>2. SlotsOf(t, At.fd) # {} <=> \E s \in Held(t) : t.fd[s] = At.fd
    BY <1>5, Finite DEF SlotsOf, Held
  <2>3. t.conn[At.fd] \in Conns \cup {NoConn}
    BY <1>1, <1>5 DEF Table, TableType
  <2>4. QED
    BY <2>1, <2>2, <2>3
<1>6. QED
  BY <1>1, <1>2, <1>3, <1>4, <1>5, Rest

(* An entry without an event.                                              *)
LEMMA PassOverStep ==
  ASSUME ClientIInv, PassOver
  PROVE  GoodStep
<1>1. /\ step = "serve" /\ pollfds # <<>> /\ ~At.out /\ ~At.in /\ pollfds' = Tail(pollfds)
      /\ UNCHANGED <<t, inbox, step, nready, knocks, usb, fresh, due>>
  BY DEF PassOver
<1>2. Behind(pollfds, pollfds', 1) /\ ~Asks(pollfds, 1)
  BY <1>1, Served DEF Asks
<1>3. /\ Table(t') /\ Shrinks(t, t') /\ inbox' \in [Conns -> Inputs \cup {"empty"}]
      /\ due' \subseteq due
  BY <1>1 DEF ClientIInv, ClientTypeOK, Shrinks
<1>4. ClientIInv'
  BY <1>1, <1>2, <1>3, GoesOn
<1>5. QED
  BY <1>1, <1>4, DropsCutNobody DEF GoodStep, Serves

(* flush_client_output(), in its three outcomes: no such client, as much   *)
(* sent as the kernel took, the client deleted after an error.             *)
LEMMA FlushStep ==
  ASSUME ClientIInv, Flush
  PROVE  GoodStep
<1>1. /\ step = "serve" /\ pollfds # <<>> /\ At.out
      /\ UNCHANGED <<inbox, step, nready, knocks, usb, fresh, due>>
  BY DEF Flush, Flushing
<1>2. /\ Table(t) /\ inbox' \in [Conns -> Inputs \cup {"empty"}] /\ due' \subseteq due
      /\ due \subseteq Conns
  BY <1>1 DEF ClientIInv, ClientTypeOK
<1>3. /\ At = pollfds[1] /\ 1 \in 1 .. Len(pollfds) /\ At \in Entries
      /\ Behind(pollfds, Tail(pollfds), 1) /\ pollfds \in Seq(Entries)
  BY <1>1, Served
<1>4. CASE SlotsOf(t, At.fd) = {} /\ pollfds' = Tail(pollfds) /\ UNCHANGED t
  <2>1. Table(t') /\ Shrinks(t, t')
    BY <1>2, <1>4 DEF Shrinks
  <2>2. Asks(pollfds, 1) => t.conn[pollfds[1].fd] \notin due'
    BY <1>1, <1>2, <1>3, <1>4, Served, Finite DEF Asks, Entries
  <2>3. ClientIInv'
    BY <1>1, <1>2, <1>3, <1>4, <2>1, <2>2, GoesOn
  <2>4. QED
    BY <1>1, <1>4, <2>3, DropsCutNobody DEF GoodStep, Serves
<1>5. CASE \E s \in SlotsOf(t, At.fd), k \in 0 .. QueueSize :
             k <= t.out[s] /\ t' = flush(t, s, k) /\ pollfds' = Flushed
  <2>1. Table(t') /\ Drops(t, t')
    BY <1>2, <1>5, FlushDrops DEF SlotsOf
  <2>2. CASE At.in
    <3> DEFINE r == <<[At EXCEPT !.out = FALSE]>> \o Tail(pollfds)
               e == [At EXCEPT !.out = FALSE]
    <3>1. e \in Entries /\ e.fd = At.fd /\ e.in = At.in /\ e.out = FALSE
      BY <1>3 DEF Entries
    <3> HIDE DEF e
    <3>2. /\ <<e>> \in Seq(Entries) /\ Len(<<e>>) = 1 /\ <<e>>[1] = e
          /\ Tail(pollfds) \in Seq(Entries) /\ Len(Tail(pollfds)) = Len(pollfds) - 1
          /\ \A i \in 1 .. Len(Tail(pollfds)) :
               Tail(pollfds)[i] = pollfds[1 + i] /\ 1 + i \in 1 .. Len(pollfds)
      BY <1>1, <1>3, <3>1
    <3>3. /\ <<e>> \o Tail(pollfds) \in Seq(Entries)
          /\ Len(<<e>> \o Tail(pollfds)) = Len(pollfds)
          /\ (<<e>> \o Tail(pollfds))[1] = e
          /\ \A i \in 1 .. Len(Tail(pollfds)) :
               (<<e>> \o Tail(pollfds))[1 + i] = pollfds[1 + i]
      <4>1. 1 \in 1 .. Len(<<e>>)
        BY <3>2
      <4>2. QED
        BY <1>3, <3>2, <4>1, Concat
    <3>4. pollfds' = <<e>> \o Tail(pollfds)
      BY <1>5, <2>2 DEF Flushed, e
    <3>5. ASSUME NEW i \in 1 .. Len(pollfds)
          PROVE  /\ pollfds'[i].fd = pollfds[i].fd /\ pollfds'[i].in = pollfds[i].in
                 /\ pollfds'[i].out => pollfds[i].out
      <4>1. CASE i = 1
        BY <1>3, <3>1, <3>3, <3>4, <4>1
      <4>2. CASE i # 1
        <5>1. i - 1 \in 1 .. Len(Tail(pollfds)) /\ 1 + (i - 1) = i
          BY <3>2, <4>2
        <5>2. QED
          BY <3>3, <3>4, <5>1
      <4>3. QED
        BY <4>1, <4>2
    <3>6. Behind(pollfds, pollfds', 0)
      <4>1. Len(pollfds) \in Nat /\ \A i \in 1 .. Len(pollfds) : i + 0 = i
        BY <1>3
      <4>2. QED
        BY <3>3, <3>4, <3>5, <4>1 DEF Behind
    <3>7. ClientIInv'
      BY <1>1, <1>2, <2>1, <3>6, GoesOn DEF Drops
    <3>8. QED
      BY <1>1, <2>1, <3>7, DropsCutNobody DEF GoodStep, Serves
  <2>3. CASE ~At.in
    <3>1. pollfds' = Tail(pollfds) /\ ~Asks(pollfds, 1)
      BY <1>3, <1>5, <2>3 DEF Flushed, Asks
    <3>2. ClientIInv'
      BY <1>1, <1>2, <1>3, <2>1, <3>1, GoesOn DEF Drops
    <3>3. QED
      BY <1>1, <2>1, <3>2, DropsCutNobody DEF GoodStep, Serves
  <2>4. QED
    BY <2>2, <2>3
<1>6. CASE /\ \E s \in SlotsOf(t, At.fd) : t.out[s] > 0
           /\ t' = del_client(t, At.fd, "closed")
           /\ pollfds' = Tail(pollfds)
  <2>1. At.fd \in Fds /\ SlotsOf(t, At.fd) # {}
    BY <1>1, <1>6, Served
  <2>2. "closed" \in Fates \ {"open"}
    BY DEF Fates
  <2>3. /\ Table(t') /\ Shrinks(t, t') /\ t'.fate[t.conn[At.fd]] = "closed"
        /\ \A c \in Conns : t'.fate[c] # t.fate[c] => t'.fate[c] = "closed"
    BY <1>2, <1>6, <2>1, <2>2, DelClient
  <2>4. ClientIInv'
    BY <1>1, <1>2, <1>3, <1>6, <2>3, GoesOn
  <2>5. CutsReused
    BY <2>3 DEF CutsReused
  <2>6. QED
    BY <1>1, <2>4, <2>5 DEF GoodStep, Serves
<1>7. QED
  BY <1>4, <1>5, <1>6 DEF Flush
(* read() and what the line does: the client of the entry is heard, and if *)
(* nothing was there to read it was a newcomer.                            *)
LEMMA ReadEffect ==
  ASSUME ClientIInv, step = "serve", pollfds # <<>>, At.in, ReadAndRun(At.fd)
  PROVE  /\ Table(t') /\ Shrinks(t, t') /\ CutsReused
         /\ inbox' \in [Conns -> Inputs \cup {"empty"}]
         /\ due' \subseteq due /\ (At.fd \in Fds => t.conn[At.fd] \notin due')
         /\ \A i \in 1 .. Len(Tail(pollfds)) :
              Asks(Tail(pollfds), i) /\ inbox'[t.conn[Tail(pollfds)[i].fd]] = "empty" =>
                \/ t'.conn[Tail(pollfds)[i].fd] = NoConn
                \/ inbox[t.conn[Tail(pollfds)[i].fd]] = "empty"
<1> DEFINE f == At.fd
           c == IF f \in Fds THEN t.conn[f] ELSE NoConn
           r == Tail(pollfds)
<1>1. /\ Table(t) /\ inbox \in [Conns -> Inputs \cup {"empty"}] /\ due \subseteq Conns
      /\ Once(pollfds) /\ Reported(pollfds, t, inbox, fresh)
  BY DEF ClientIInv, ClientTypeOK
<1>2. /\ At = pollfds[1] /\ 1 \in 1 .. Len(pollfds) /\ At \in Entries
      /\ Behind(pollfds, r, 1) /\ pollfds \in Seq(Entries)
      /\ f \in Fds \/ SlotsOf(t, f) = {}
      /\ f \in Fds /\ SlotsOf(t, f) = {} => t.conn[f] = NoConn
      /\ f \in Fds /\ SlotsOf(t, f) # {} => t.conn[f] \in Conns
  BY Served
<1>3. due' = due \ {c}
  BY DEF ReadAndRun
<1>4. due' \subseteq due /\ (f \in Fds => t.conn[f] \notin due')
  BY <1>3
<1>5. ASSUME UNCHANGED inbox
      PROVE  /\ inbox' \in [Conns -> Inputs \cup {"empty"}]
             /\ \A i \in 1 .. Len(r) :
                  Asks(r, i) /\ inbox'[t.conn[r[i].fd]] = "empty" =>
                    t'.conn[r[i].fd] = NoConn \/ inbox[t.conn[r[i].fd]] = "empty"
  BY <1>1, <1>5
<1>6. CASE SlotsOf(t, f) = {} /\ UNCHANGED <<t, inbox>>
  BY <1>1, <1>4, <1>5, <1>6, DropsCutNobody DEF Shrinks
<1>7. CASE SlotsOf(t, f) # {} /\ inbox[c] = "empty" /\ t' = del_client(t, f, "off") /\ UNCHANGED inbox
  <2>1. f \in Fds /\ c = t.conn[f] /\ c \in Conns /\ "off" \in Fates \ {"open"}
    BY <1>2, <1>7 DEF Fates
  <2>2. /\ Table(t') /\ Shrinks(t, t')
        /\ \A d \in Conns : t'.fate[d] # t.fate[d] => d = c
    BY <1>1, <1>7, <2>1, DelClient
  <2>3. Asks(pollfds, 1)
    BY <1>2, <2>1, Finite DEF Asks
  <2>4. c \in fresh
    BY <1>1, <1>2, <1>7, <2>1, <2>3, Finite DEF Reported
  <2>5. CutsReused
    BY <2>2, <2>4 DEF CutsReused
  <2>6. QED
    BY <1>4, <1>5, <1>7, <2>2, <2>5
<1>8. CASE SlotsOf(t, f) # {} /\ inbox[c] = "eof" /\ t' = del_client(t, f, "closed") /\ UNCHANGED inbox
  <2>1. f \in Fds /\ "closed" \in Fates \ {"open"}
    BY <1>2, <1>8 DEF Fates
  <2>2. /\ Table(t') /\ Shrinks(t, t')
        /\ \A d \in Conns : t'.fate[d] # t.fate[d] => t'.fate[d] = "closed"
    BY <1>1, <1>8, <2>1, DelClient
  <2>3. CutsReused
    BY <2>2 DEF CutsReused
  <2>4. QED
    BY <1>4, <1>5, <1>8, <2>2, <2>3
<1>9. CASE /\ SlotsOf(t, f) # {} /\ inbox[c] \in Data
           /\ \E s \in SlotsOf(t, f), does \in SUBSET {"event", "answer"} :
                t' = encode(t, s, f, inbox[c], does)
           /\ inbox' = [inbox EXCEPT ![c] = "empty"]
  <2>1. f \in Fds /\ c = t.conn[f] /\ c \in Conns
    BY <1>2, <1>9
  <2>2. Table(t') /\ Drops(t, t')
    BY <1>1, <1>9, <2>1, EncodeDrops
  <2>3. inbox' \in [Conns -> Inputs \cup {"empty"}] /\ \A d \in Conns : d # c => inbox'[d] = inbox[d]
    BY <1>1, <1>9, <2>1
  <2>4. ASSUME NEW i \in 1 .. Len(r), Asks(r, i), inbox'[t.conn[r[i].fd]] = "empty"
        PROVE  t'.conn[r[i].fd] = NoConn \/ inbox[t.conn[r[i].fd]] = "empty"
    <3> DEFINE g == r[i].fd
    <3>1. /\ i + 1 \in 1 .. Len(pollfds) /\ pollfds[i + 1].fd = g /\ r \in Seq(Entries)
          /\ r[i] \in Entries /\ i \in Nat /\ i >= 1
      BY <1>2, <2>4 DEF Behind
    <3>2. g \in Fds /\ g # UsbFd
      BY <2>4, <3>1 DEF Asks, Entries
    <3>3. g # f
      BY <1>1, <1>2, <3>1, <3>2 DEF Once
    <3>4. CASE t.conn[g] = NoConn
      BY <2>2, <3>2, <3>4 DEF Drops, Shrinks
    <3>5. CASE t.conn[g] # NoConn
      <4>1. t.conn[g] \in Conns /\ t.conn[g] # c
        BY <1>1, <2>1, <3>2, <3>3, <3>5 DEF Table, TableType, Owned
      <4>2. QED
        BY <2>3, <2>4, <4>1
    <3>6. QED
      BY <3>4, <3>5
  <2>5. QED
    BY <1>4, <2>2, <2>3, <2>4, DropsCutNobody DEF Drops
<1>10. QED
  BY <1>6, <1>7, <1>8, <1>9 DEF ReadAndRun

(* POLLIN: one entry and one off nready; when that was the last of poll()'s *)
(* result, nobody who was reported is left.                                *)
LEMMA ReadStep ==
  ASSUME ClientIInv, Read
  PROVE  GoodStep
<1>1. /\ step = "serve" /\ pollfds # <<>> /\ ~At.out /\ At.in
      /\ ReadAndRun(At.fd) /\ Count(Tail(pollfds), knocks, fresh) /\ UNCHANGED usb
  BY DEF Read, Reading
<1>2. /\ Table(t) /\ Ready /\ due \subseteq Conns /\ nready \in Nat
      /\ (NotMoved => Pending(pollfds, t, due))
  BY Bound DEF ClientIInv, ClientTypeOK
<1>3. /\ At = pollfds[1] /\ At \in Entries
      /\ Behind(pollfds, Tail(pollfds), 1) /\ pollfds \in Seq(Entries)
  BY <1>1, Served
<1>4. /\ Table(t') /\ Shrinks(t, t') /\ CutsReused
      /\ inbox' \in [Conns -> Inputs \cup {"empty"}]
      /\ due' \subseteq due /\ (At.fd \in Fds => t.conn[At.fd] \notin due')
      /\ \A i \in 1 .. Len(Tail(pollfds)) :
           Asks(Tail(pollfds), i) /\ inbox'[t.conn[Tail(pollfds)[i].fd]] = "empty" =>
             \/ t'.conn[Tail(pollfds)[i].fd] = NoConn
             \/ inbox[t.conn[Tail(pollfds)[i].fd]] = "empty"
  BY <1>1, ReadEffect
<1>5. Counts(pollfds[1]) /\ (Asks(pollfds, 1) => t.conn[pollfds[1].fd] \notin due')
  BY <1>1, <1>3, <1>4 DEF Counts, Asks, Entries
<1>6. CASE nready <= 1
  <2>1. Again
    BY <1>1, <1>6 DEF Count
  <2>2. ClientIInv'
    BY <1>1, <1>2, <1>4, <2>1, AgainIInv
  <2>3. Serves
    <3>1. SUFFICES ASSUME usb.now <= usb.polled
                   PROVE  \A c \in due' : t'.fate[c] # "open"
      BY DEF Serves
    <3>2. Pending(pollfds, t, due)
      BY <1>1, <1>2, <3>1 DEF NotMoved
    <3>3. due' \in SUBSET Conns
      BY <1>2, <1>4
    <3>4. Pending(Tail(pollfds), t', due')
      <4>1. \A i \in 1 .. Len(pollfds) : i <= 1 /\ Asks(pollfds, i) =>
              t.conn[pollfds[i].fd] \notin due' \/ t'.fate[t.conn[pollfds[i].fd]] # "open"
        <5>1. \A i \in 1 .. Len(pollfds) : i <= 1 => i = 1
          OBVIOUS
        <5>2. QED
          BY <1>5, <5>1
      <4>2. QED
        BY <1>2, <1>3, <1>4, <3>2, <3>3, <4>1, PendingKept
    <3>5. Tail(pollfds) \in Seq(Entries)
      BY <1>3 DEF Behind
    <3>6. Cardinality(ToCount(Tail(pollfds))) <= 0
      <4>1. Cardinality(ToCount(Tail(pollfds))) <= Cardinality(ToCount(pollfds)) - 1
        BY <1>1, <1>3, <1>5, RestCounts
      <4>2. knocks = {} /\ Cardinality(knocks) = 0
        BY <1>1, <1>2, FS_EmptySet DEF Ready
      <4>3. Cardinality(ToCount(pollfds)) <= nready
        BY <1>1, <1>2, <1>3, <4>2, Countable DEF Ready
      <4>4. Cardinality(ToCount(pollfds)) \in Nat /\ Cardinality(ToCount(Tail(pollfds))) \in Nat
        BY <1>3, <3>5, Countable
      <4>5. \A x, y, z \in Nat : x <= y - 1 /\ y <= z /\ z <= 1 => x <= 0
        OBVIOUS
      <4>6. QED
        BY <1>2, <1>6, <4>1, <4>3, <4>4, <4>5
    <3>7. QED
      BY <3>4, <3>5, <3>6, NobodyLeft
  <2>4. QED
    BY <1>4, <2>2, <2>3 DEF GoodStep
<1>7. CASE ~(nready <= 1)
  <2>1. /\ nready' = nready - 1 /\ nready > 1 /\ pollfds' = Tail(pollfds)
        /\ UNCHANGED <<step, knocks, fresh>>
    BY <1>1, <1>2, <1>7 DEF Count
  <2>2. ClientIInv'
    BY <1>1, <1>3, <1>4, <1>5, <2>1, GoesOn
  <2>3. QED
    BY <1>1, <1>4, <2>1, <2>2 DEF GoodStep, Serves
<1>8. QED
  BY <1>6, <1>7

(* ---- the theorems ----------------------------------------------------- *)

(* Every step of the iteration, one lemma for each action.                 *)
LEMMA ClientStep ==
  ASSUME ClientIInv, [ClientNext]_clientVars
  PROVE  GoodStep
  BY PollStep, UsbStep, PollfdsChangeStep, EventsDoneStep, AcceptDoneStep, AcceptStep,
     PassOverStep, FlushStep, ReadStep, ServeDoneStep, PeerStep DEF ClientNext

(* The invariant of the client tables and of the array poll() filled.      *)
LEMMA ClientInductive == ClientSpec => []ClientIInv
<1>1. ClientIInv /\ [ClientNext]_clientVars => ClientIInv'
  BY ClientStep DEF GoodStep
<1>2. QED
  BY ClientInitIInv, <1>1, PTL DEF ClientSpec

(* Types of the client side: in particular the array holds only            *)
(* descriptors of clients and of libusb, and poll()'s result counts down   *)
(* within its bound.                                                       *)
THEOREM ClientTypeCorrect == ClientSpec => []ClientTypeOK
<1>1. ClientIInv => ClientTypeOK
  BY DEF ClientIInv
<1>2. QED
  BY <1>1, ClientInductive, PTL

(* NClients, NxmlClients and Nor20Clients, which size Pollfds, are at all  *)
(* times the numbers of slots that copy_clients() copies, whatever order   *)
(* of full queues, stalls, errors and commands closed clients.             *)
THEOREM CountsCorrect == ClientSpec => []CountsMatchSlots
<1>1. ClientIInv => CountsMatchSlots
  BY DEF ClientIInv, Table, Counted, HeldBy, Held, CountsMatchSlots, Taken
<1>2. QED
  BY <1>1, ClientInductive, PTL

(* del_client() owns close(): no descriptor is leaked, closed twice, or in *)
(* two slots of the three tables.                                          *)
THEOREM DescriptorsOwned == ClientSpec => []SlotsOwnDescriptors
<1>1. ClientIInv => SlotsOwnDescriptors
  <2>1. SUFFICES ASSUME ClientIInv
                 PROVE  SlotsOwnDescriptors
    OBVIOUS
  <2>2. Owned(t) /\ t \in TableType /\ Held(t) = Taken
    BY <2>1 DEF ClientIInv, Table, Held, Taken
  <2>3. \A s \in Taken : t.fd[s] \in Fds
    BY <2>2 DEF TableType, Taken
  <2>4. Registered = {f \in Fds : t.conn[f] # NoConn}
    BY <2>2, <2>3 DEF Owned, Registered
  <2>5. QED
    BY <2>2, <2>4 DEF Owned, SlotsOwnDescriptors
<1>2. QED
  BY <1>1, ClientInductive, PTL

(* The encoder stores the unfinished line of a client into its slot even   *)
(* after the slot was given up; no later client of the slot gets it.       *)
THEOREM BytesNotInherited == ClientSpec => []NoInheritedBytes
<1>1. ClientIInv => NoInheritedBytes
  BY DEF ClientIInv, Table, OwnLines, NoInheritedBytes, Held, Taken
<1>2. QED
  BY <1>1, ClientInductive, PTL

(* The array that poll() filled is used to its end although descriptors    *)
(* are closed and accepted again on the way; a client that is cut off by a *)
(* read() that finds nothing was accepted in the same iteration.           *)
THEOREM CutOffAreReused == ClientSpec => OnlyReusedAreCutOff
<1>1. ClientIInv /\ [ClientNext]_clientVars =>
        [\A c \in Conns : t.fate[c] = "open" /\ t'.fate[c] = "off" => c \in fresh]_clientVars
  BY ClientStep DEF GoodStep, CutsReused
<1>2. QED
  BY <1>1, ClientInductive, PTL DEF ClientSpec, OnlyReusedAreCutOff

(* An iteration that ends because nready reached zero, or its array ended, *)
(* leaves nobody waiting whom poll() had reported, unless libusb added a   *)
(* descriptor in it.                                                       *)
THEOREM ReportedAreServed == ClientSpec => ReadyAreServed
<1>1. ClientIInv /\ [ClientNext]_clientVars =>
        [step # "poll" /\ step' = "poll" /\ usb.now <= usb.polled =>
           \A c \in due' : t'.fate[c] # "open"]_clientVars
  BY ClientStep DEF GoodStep, Serves
<1>2. QED
  BY <1>1, ClientInductive, PTL DEF ClientSpec, ReadyAreServed
=============================================================================
