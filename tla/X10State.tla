------------------------------ MODULE X10State ------------------------------
(***************************************************************************)
(* What the daemon remembers of X10 traffic: src/x10/x10state.c, as        *)
(* functions from a table to a table.                                      *)
(*                                                                         *)
(* A house is one row of HouseUnitState, HouseUnitDim, HouseUnitSelected   *)
(* and X10protostate.  No function touches two rows, so one row stands for *)
(* the sixteen.                                                            *)
(***************************************************************************)
EXTENDS Integers, Sequences

CONSTANTS
  Units,      (* unit codes (16)                                           *)
  MaxSensors  (* records in X10sensors (512)                               *)

ASSUME StateAssumption == MaxSensors \in Nat \ {0}

Power == {"on", "off"}
FullDim == 63

House ==
  [ state    : [Units -> Power \cup {"unknown"}],
    dim      : [Units -> 0 .. 255],
    selected : SUBSET Units,
    function : BOOLEAN ]     \* X10protostate = 1: a function came last

(* hua_sec_init(), also the command "st 0".                                *)
InitHouse ==
  [ state |-> [u \in Units |-> "unknown"], dim |-> [u \in Units |-> 0],
    selected |-> {}, function |-> FALSE ]

(* Mutant: a new address does not end the selection before the function.   *)
hua_add_KeepsSelection(h, u) ==
  [h EXCEPT !.selected = @ \cup {u}, !.function = FALSE]

(* hua_add(): an address joins the selection, or begins one after a        *)
(* function.                                                               *)
hua_add(h, u) ==
  [h EXCEPT !.selected = IF h.function THEN {u} ELSE @ \cup {u}, !.function = FALSE]

switch(h, S, power) ==
  [h EXCEPT !.function = TRUE,
            !.state = [u \in Units |-> IF u \in S THEN power ELSE @[u]],
            !.dim   = [u \in Units |-> IF u \notin S THEN @[u]
                                       ELSE IF power = "on" THEN FullDim ELSE 0]]

(* hua_func_on(), hua_func_off(); hua_func_all_on(), hua_func_all_off().   *)
hua_func(h, power)     == switch(h, h.selected, power)
hua_func_all(h, power) == switch(h, Units, power)

hua_setstatus_xdim(h, u, level) ==
  [h EXCEPT !.selected = {u}, !.function = TRUE, !.dim[u] = level,
            !.state[u] = IF level > 0 THEN "on" ELSE "off"]

-----------------------------------------------------------------------------
(* Security sensors: an 8-bit ("short") or a 17-bit address and the last   *)
(* status byte.                                                            *)

known(sensors, addr) == {i \in 1 .. Len(sensors) : sensors[i].addr = addr}

(* Mutant: the table is not checked for room.                              *)
hua_sec_event_NoLimit(sensors, addr, short, status) ==
  IF known(sensors, addr) # {}
    THEN [i \in DOMAIN sensors |->
            IF i \in known(sensors, addr) THEN [sensors[i] EXCEPT !.status = status]
                                          ELSE sensors[i]]
    ELSE Append(sensors, [addr |-> addr, short |-> short, status |-> status])

(* Mutant: the record of a known sensor keeps its first status.            *)
hua_sec_event_KeepsFirst(sensors, addr, short, status) ==
  IF known(sensors, addr) # {} \/ Len(sensors) + 1 >= MaxSensors
    THEN sensors
    ELSE Append(sensors, [addr |-> addr, short |-> short, status |-> status])

(* hua_sec_event(): the address alone identifies a record; the last record *)
(* of the table is never used.                                             *)
hua_sec_event(sensors, addr, short, status) ==
  IF known(sensors, addr) # {}
    THEN [i \in DOMAIN sensors |->
            IF i \in known(sensors, addr) THEN [sensors[i] EXCEPT !.status = status]
                                          ELSE sensors[i]]
  ELSE IF Len(sensors) + 1 >= MaxSensors
    THEN sensors
    ELSE Append(sensors, [addr |-> addr, short |-> short, status |-> status])

(* 0x04, 0x84; 0x00, 0x01, 0x04, 0x05, 0x0C, 0x0D and the same with bit 7. *)
Alert(short)  == IF short THEN {4} ELSE {0, 1, 4, 5, 12, 13}
Normal(short) == {128 + status : status \in Alert(short)}

(* hua_getstatus_sec(): 1 for an alert, 0 for normal, else -1.             *)
hua_getstatus_sec(sensors, short, addr) ==
  LET reads(S) == \E i \in 1 .. Len(sensors) :
                    /\ sensors[i].addr = addr /\ sensors[i].short = short
                    /\ sensors[i].status \in S
  IN  IF reads(Alert(short)) THEN 1 ELSE IF reads(Normal(short)) THEN 0 ELSE -1
=============================================================================
