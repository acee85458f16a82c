------------------------------ MODULE OutputFifo ------------------------------
(***************************************************************************)
(* What the output queue of a client promises: a message is put whole      *)
(* behind those that wait, or the client is dropped; what waits goes out   *)
(* in order, nothing lost and nothing twice; and only the policy reply may *)
(* go past it.                                                             *)
(***************************************************************************)
EXTENDS Sequences, Integers

CONSTANTS
  Messages,  (* sequences of bytes                                         *)
  Policy,    (* the one that is sent past the queue                        *)
  Capacity,  (* bytes that may wait                                        *)
  Room       (* external: bytes the kernel holds for the peer              *)

VARIABLES
  pending,   (* bytes that wait                                            *)
  wire,      (* bytes handed to the kernel that the peer has not read      *)
  up         (* the connection exists                                      *)

fifoVars == <<pending, wire, up>>

FifoInit == pending = <<>> /\ wire = <<>> /\ up = FALSE

Connect == ~up /\ up' = TRUE /\ wire' = <<>> /\ pending' = <<>>

Put(m) ==
  /\ up /\ Len(pending) + Len(m) <= Capacity
  /\ pending' = pending \o m
  /\ UNCHANGED <<wire, up>>

Send(k) ==
  /\ up /\ Len(wire) + k <= Room
  /\ wire' = wire \o SubSeq(pending, 1, k)
  /\ pending' = SubSeq(pending, k + 1, Len(pending))
  /\ UNCHANGED up

Bypass(k) ==
  /\ up /\ Len(wire) + k <= Room
  /\ wire' = wire \o SubSeq(Policy, 1, k)
  /\ UNCHANGED <<pending, up>>

Deliver ==
  /\ up /\ wire # <<>>
  /\ wire' = Tail(wire)
  /\ UNCHANGED <<pending, up>>

Drop == up /\ up' = FALSE /\ wire' = <<>> /\ pending' = <<>>

FifoNext ==
  \/ Connect \/ Deliver \/ Drop
  \/ \E m \in Messages : Put(m)
  \/ \E k \in 1 .. Len(pending) : Send(k)
  \/ \E k \in 1 .. Len(Policy) : Bypass(k)

FifoSpec == FifoInit /\ [][FifoNext]_fifoVars
=============================================================================
