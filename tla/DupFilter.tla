------------------------------ MODULE DupFilter ------------------------------
(***************************************************************************)
(* The duplicate filter for RF frames, dup_filter() of src/x10/decode.c:   *)
(* DUP_MAX entries, each a frame with its marker byte (0x5D received, 0xEB *)
(* transmitted) and the time until which equal frames are swallowed.       *)
(* Times are kept relative to now: "left" is what remains of DUP_TIME, and *)
(* an entry with left = Expired has run out.                               *)
(***************************************************************************)
EXTENDS Integers

CONSTANTS
  DupMax,   (* entries (16)                                                *)
  DupTime   (* DUP_TIME, 650 ms, in ticks                                  *)

ASSUME DupAssumption == DupMax \in Nat \ {0} /\ DupTime \in Nat

Expired == -1
Unused  == [used |-> FALSE]
Entry(frame, left) == [used |-> TRUE, frame |-> frame, left |-> left]

InitDups == [i \in 1 .. DupMax |-> Unused]

tick(dups) ==
  [i \in 1 .. DupMax |->
     IF dups[i].used /\ dups[i].left # Expired
       THEN Entry(dups[i].frame, dups[i].left - 1) ELSE dups[i]]

Match(dups, frame) == {i \in 1 .. DupMax : dups[i].used /\ dups[i].frame = frame}

(* is_dup: dup_filter() returns 1.                                         *)
is_dup(dups, frame) ==
  \E i \in Match(dups, frame) : dups[i].left # Expired

(* The scan marks expired entries of other frames unused, up to the match. *)
swept(dups, frame) ==
  [i \in 1 .. DupMax |->
     IF /\ dups[i].used /\ dups[i].left = Expired
        /\ dups[i].frame # frame
        /\ \A m \in Match(dups, frame) : i < m
       THEN Unused ELSE dups[i]]

First(S) == CHOOSE i \in S : \A j \in S : i <= j

(* Where an unknown frame goes: the first unused entry, else the first of  *)
(* those closest to expiring.                                              *)
add_index(dups) ==
  LET free == {i \in 1 .. DupMax : ~dups[i].used}
  IN  IF free # {}
        THEN First(free)
        ELSE First({i \in 1 .. DupMax : \A j \in 1 .. DupMax : dups[i].left <= dups[j].left})

(* Mutant: an expired entry is found again but its time is not renewed.    *)
dup_filter_NotRenewed(dups, frame) ==
  LET rest == swept(dups, frame)
      m    == Match(dups, frame)
  IN  IF m # {} THEN rest ELSE [rest EXCEPT ![add_index(rest)] = Entry(frame, DupTime)]

(* The table after dup_filter(frame).                                      *)
dup_filter(dups, frame) ==
  LET rest == swept(dups, frame)
      m    == Match(dups, frame)
      at   == IF m # {} THEN First(m) ELSE add_index(rest)
  IN  IF is_dup(dups, frame) THEN rest ELSE [rest EXCEPT ![at] = Entry(frame, DupTime)]
=============================================================================
