----------------------------- MODULE X10Station -----------------------------
(***************************************************************************)
(* The daemon between its clients, the radio and the power line: the       *)
(* decoders of src/x10/decode.c and the commands of processcommandline()   *)
(* in src/x10/encode.c, over the tables of X10State and the RF filter of   *)
(* DupFilter.  The receivers on the power line are an external party.      *)
(*                                                                         *)
(* The daemon records a power line command when it is given and not when   *)
(* it is sent: pl_tx_...() runs the decoder on the packet, then calls      *)
(* x10_write(), and processcommandline() drops the result.  x10_write() is *)
(* here the queue of TransmitFifo, which X10Transmit implements.           *)
(*                                                                         *)
(* A C function that transmits is an operator to the set of states it may  *)
(* leave: the choice is whether libusb takes the packet.                   *)
(***************************************************************************)
EXTENDS X10State, DupFilter, FiniteSets, SequencesExt

CONSTANTS
  Profiles,  (* kinds of traffic: power line codes, RF frames, and whether *)
             (* "st 0", the repeater switches and raw packets are used;    *)
             (* and the units that are on before the daemon starts         *)
  Capacity,  (* packets x10_write() can hold back (255)                    *)
  Cm19a,     (* an RF-only controller: no bridge to the power line         *)
  Lamps      (* units with a lamp module                                   *)

(* Power line codes; "dim" is any function the record ignores.  Of the     *)
(* extended codes, type 3 function 1 presets a receiver.                   *)
Addr(u) == [kind |-> "addr", unit |-> u]
Func(f) == [kind |-> "func", func |-> f]
Ext(u, command, data) == [kind |-> "ext", unit |-> u, command |-> command, data |-> data]

Preset == 49  \* 0x31

(* RF frames; the mark tells received (0x5D) from transmitted (0xEB).      *)
UnitFrame(m, u, power)   == [kind |-> "unit", mark |-> m, unit |-> u, power |-> power]
DimFrame(m)              == [kind |-> "house", mark |-> m]
CamFrame(m)              == [kind |-> "cam", mark |-> m]
SecFrame(m, s, status)   == [kind |-> "sec", mark |-> m, sensor |-> s, status |-> status]

Functions ==
  {"on", "off", "status_on", "status_off", "all_on", "lights_off", "all_off", "dim"}

IsCode(c) ==
  \/ \E u \in Units : c = Addr(u)
  \/ \E f \in Functions : c = Func(f)
  \/ \E u \in Units, command, data \in 0 .. 255 : c = Ext(u, command, data)

IsFrame(fr) ==
  /\ fr.mark \in {"rx", "tx"}
  /\ \/ fr \in {DimFrame(fr.mark), CamFrame(fr.mark)}
     \/ \E u \in Units, power \in Power : fr = UnitFrame(fr.mark, u, power)
     \/ /\ fr = SecFrame(fr.mark, fr.sensor, fr.status)
        /\ fr.sensor \in [addr : Int, short : BOOLEAN] /\ fr.status \in 0 .. 255

ASSUME StationAssumption ==
  /\ Capacity \in Nat /\ Lamps \subseteq Units
  /\ \A p \in Profiles : /\ IsFiniteSet(p.rf)
                         /\ \A c \in p.pl : IsCode(c)
                         /\ \A fr \in p.rf : IsFrame(fr)

VARIABLES
  profile,
  d,       (* the daemon, with the history below                           *)
  line     (* receivers: addressed, function heard since, switched on      *)

vars == <<profile, d, line>>

Sensors == {fr.sensor : fr \in {f \in profile.rf : f.kind = "sec"}}

(* History in d.                                                           *)
(*   tracked : no power line code was lost, crossed one on the line,       *)
(*             differs between radio and line or was forgotten by "st 0"   *)
(*   ended   : the last power line code was a function                     *)
(*   joined  : an address joined a selection a function had used           *)
(*   divided : a bridged RF command joined a selection that others are in; *)
(*             the line still has them all, the record its unit only       *)
(*   parted  : units that receivers have otherwise than the record: by a   *)
(*             code that means less to them, or from before the record     *)
(*   since   : ticks since a frame last passed the filter                  *)
(*   heard   : the last status of a sensor that passed the filter          *)
Init ==
  /\ profile \in Profiles
  /\ line = [ power |-> [u \in Units |-> IF u \in profile.lit THEN "on" ELSE "off"],
              selected |-> {}, closed |-> FALSE ]
  /\ d = [ h |-> InitHouse, sensors |-> <<>>, dups |-> InitDups,
           RfToPl |-> TRUE, RfToRf |-> FALSE,
           active |-> FALSE, flying |-> <<>>, pending |-> <<>>,
           tracked |-> TRUE, ended |-> FALSE, joined |-> FALSE, divided |-> FALSE,
           parted |-> Units \cap profile.lit,
           since |-> [fr \in profile.rf |-> DupTime + 1],
           heard |-> [s \in Sensors |-> -1] ]

Drained(s) == s.flying = <<>> /\ s.pending = <<>>

-----------------------------------------------------------------------------
(* Transmission.                                                           *)

IsPl(p) == p.kind \in {"addr", "func", "ext"}

Lost(s, p) == [s EXCEPT !.tracked = @ /\ ~IsPl(p)]

x10_write(s, p) ==
  IF ~s.active
    THEN {[s EXCEPT !.active = TRUE, !.flying = <<p>>], Lost(s, p)}
  ELSE IF Len(s.pending) < Capacity
    THEN {[s EXCEPT !.pending = Append(@, p)]}
    ELSE {Lost(s, p)}

-----------------------------------------------------------------------------
(* Power line: cm15a_decode_plc(), pl_tx_houseunit(), pl_tx_housefunc()    *)
(* and pl_tx_extended_code_1().                                            *)

select(s, u) ==
  [s EXCEPT !.h = hua_add(@, u),
            !.joined = @ \/ (s.ended /\ ~s.h.function /\ s.h.selected # {})]

hfc(h, f) ==
  CASE f \in {"on", "status_on"}       -> hua_func(h, "on")
    [] f \in {"off", "status_off"}     -> hua_func(h, "off")
    [] f = "all_on"                    -> hua_func_all(h, "on")
    [] f \in {"all_off", "lights_off"} -> hua_func_all(h, "off")
    [] f = "dim"                       -> h

(* The units that receivers switch at a code, if S are addressed, and how. *)
(* All lights are the lamp modules; a status or another extended code      *)
(* switches none; the level of a preset is the low six bits of its data.   *)
Reached(S, c) ==
  CASE c.kind = "addr" -> {}
    [] c.kind = "ext"  -> IF c.command = Preset THEN {c.unit} ELSE {}
    [] c.kind = "func" -> CASE c.func \in {"on", "off"} -> S
                            [] c.func \in {"all_on", "lights_off"} -> Lamps
                            [] c.func = "all_off" -> Units
                            [] c.func \in {"status_on", "status_off", "dim"} -> {}

Given(c) ==
  LET on == IF c.kind = "ext" THEN c.data % 64 # 0 ELSE c.func \in {"on", "all_on"}
  IN  IF on THEN "on" ELSE "off"

(* The units whose record changes otherwise than they do: the record takes *)
(* a status for a command, every unit for a lamp, every extended code for  *)
(* a preset and all eight bits for the level.                              *)
Parting(S, c) ==
  CASE c.kind = "addr" -> {}
    [] c.kind = "ext"  ->
         IF c.command = Preset /\ (c.data % 64 = 0 => c.data = 0) THEN {} ELSE {c.unit}
    [] c.kind = "func" -> CASE c.func \in {"status_on", "status_off"} -> S
                            [] c.func \in {"all_on", "lights_off"} -> Units \ Lamps
                            [] c.func \in {"on", "off", "all_off", "dim"} -> {}

parting(s, c) == (s.parted \ Reached(s.h.selected, c)) \cup Parting(s.h.selected, c)

cm15a_decode_plc(s, c) ==
  CASE c.kind = "addr" -> [select(s, c.unit) EXCEPT !.ended = FALSE]
    [] c.kind = "func" -> [s EXCEPT !.h = hfc(@, c.func), !.ended = TRUE, !.parted = parting(s, c)]
    [] c.kind = "ext"  -> [s EXCEPT !.h = hua_setstatus_xdim(@, c.unit, c.data), !.ended = TRUE,
                                    !.parted = parting(s, c)]

pl_tx(S, c) == UNION {x10_write(cm15a_decode_plc(s, c), c) : s \in S}

pl_unit_func(S, u, f) == pl_tx(pl_tx(S, Addr(u)), Func(f))

(* A receiver acts on functions that follow its address; an address after  *)
(* any function begins anew, an extended code addresses its unit.          *)
hear(l, c) ==
  IF ~IsPl(c) THEN l
  ELSE [ selected |-> CASE c.kind = "addr" -> IF l.closed THEN {c.unit} ELSE l.selected \cup {c.unit}
                        [] c.kind = "func" -> l.selected
                        [] c.kind = "ext"  -> {c.unit},
         closed   |-> c.kind # "addr",
         power    |-> [u \in Units |-> IF u \in Reached(l.selected, c) THEN Given(c) ELSE l.power[u]] ]

-----------------------------------------------------------------------------
(* Radio.                                                                  *)

repeatRF(s, fr) ==
  IF s.RfToRf THEN x10_write(s, [fr EXCEPT !.mark = "tx"]) ELSE {s}

bridges(s) == s.RfToPl /\ ~Cm19a

(* cm15a_decode_rf() on a frame with good checksums.                       *)
cm15a_decode_rf(s, fr) ==
  LET t == [s EXCEPT !.dups = dup_filter(@, fr), !.since[fr] = 0]
  IN
  IF is_dup(s.dups, fr) THEN {[s EXCEPT !.dups = dup_filter(@, fr)]}
  ELSE CASE fr.kind = "cam" -> repeatRF(t, fr)
         [] fr.kind = "sec" ->
              repeatRF([t EXCEPT !.sensors = hua_sec_event(@, fr.sensor.addr, fr.sensor.short, fr.status),
                                 !.heard[fr.sensor] = fr.status], fr)
         [] fr.kind = "house" ->
              IF bridges(t) THEN pl_tx(repeatRF(t, fr), Func("dim")) ELSE repeatRF(t, fr)
         [] fr.kind = "unit" ->
              LET a == select(t, fr.unit)
                  b == [a EXCEPT !.h = hua_func(@, fr.power), !.tracked = @ /\ bridges(a),
                             !.divided = @ \/ a.h.selected # {fr.unit}]
              IN  IF bridges(b) THEN pl_unit_func(repeatRF(b, fr), fr.unit, fr.power)
                  ELSE repeatRF(b, fr)

-----------------------------------------------------------------------------
(* processcommandline().                                                   *)

(* "pl a1", "pl a on", "pl a1 xdim 31", "pl a1 extended_code_1 0 0 5".      *)
PlCode ==
  /\ \E c \in profile.pl : d' \in pl_tx({d}, c)
  /\ UNCHANGED <<profile, line>>

(* "pl a1 on".                                                             *)
PlUnitFunc ==
  /\ \E a, f \in profile.pl :
       /\ a.kind = "addr" /\ f.kind = "func"
       /\ d' \in pl_unit_func({d}, a.unit, f.func)
  /\ UNCHANGED <<profile, line>>

(* "rf a1 on", "rf a dim", "rfcam", "rfsec": decoded as if received, then  *)
(* transmitted, also when the filter swallowed it.                         *)
RfCommand ==
  /\ \E fr \in profile.rf :
       /\ fr.mark = "tx"
       /\ d' \in UNION {x10_write(s, fr) : s \in cm15a_decode_rf(d, fr)}
  /\ UNCHANGED <<profile, line>>

(* "rftopl" and "rftorf".                                                  *)
RepeaterSwitch ==
  /\ profile.switches
  /\ \E b \in BOOLEAN :
       d' \in {[d EXCEPT !.RfToPl = b], [d EXCEPT !.RfToRf = b]}
  /\ UNCHANGED <<profile, line>>

(* setClock() when the controller asks (0xa5), and "pt" with bytes that    *)
(* are no power line code: x10_write() and nothing else.                   *)
RawPacket ==
  /\ profile.raw
  /\ d' \in x10_write(d, [kind |-> "raw"])
  /\ UNCHANGED <<profile, line>>

(* "st 0": hua_sec_init().  The receivers keep what is addressed.          *)
Reset ==
  /\ profile.reset
  /\ d' = [d EXCEPT !.h = InitHouse, !.sensors = <<>>,
                    !.tracked = @ /\ d.h.selected = {},
                    !.parted = @ \cup {u \in Units : d.h.state[u] = "on"},
                    !.heard = [s \in Sensors |-> -1]]
  /\ UNCHANGED <<profile, line>>

(* "st": hua_show() sorts the sensors by address.                          *)
Show ==
  /\ \E order \in Bijection(DOMAIN d.sensors, DOMAIN d.sensors) :
       LET shown == [i \in DOMAIN d.sensors |-> d.sensors[order[i]]] IN
         /\ \A i, j \in DOMAIN shown : i < j => shown[i].addr < shown[j].addr
         /\ d' = [d EXCEPT !.sensors = shown]
  /\ UNCHANGED <<profile, line>>

-----------------------------------------------------------------------------
(* A code another transmitter puts on the line, heard by all.              *)
ReceivePl ==
  /\ \E c \in profile.pl :
       /\ d' = [cm15a_decode_plc(d, c) EXCEPT !.tracked = @ /\ Drained(d)]
       /\ line' = hear(line, c)
  /\ UNCHANGED profile

ReceiveRf ==
  /\ \E fr \in profile.rf : fr.mark = "rx" /\ d' \in cm15a_decode_rf(d, fr)
  /\ UNCHANGED <<profile, line>>

(* The controller puts the packet it has on the air or the line.           *)
Transmitted ==
  /\ d.flying # <<>>
  /\ line' = hear(line, d.flying[1])
  /\ d' = [d EXCEPT !.flying = <<>>]
  /\ UNCHANGED profile

(* Its ACK or the timeout: the next packet, or idle.                       *)
Released ==
  /\ d.active /\ d.flying = <<>>
  /\ d' = IF d.pending # <<>>
            THEN [d EXCEPT !.flying = <<Head(d.pending)>>, !.pending = Tail(@)]
            ELSE [d EXCEPT !.active = FALSE]
  /\ UNCHANGED <<profile, line>>

Tick ==
  /\ d' = [d EXCEPT !.dups = tick(@),
                    !.since = [fr \in profile.rf |-> IF @[fr] > DupTime THEN @[fr] ELSE @[fr] + 1]]
  /\ UNCHANGED <<profile, line>>

Next ==
  \/ PlCode \/ PlUnitFunc \/ RfCommand \/ RepeaterSwitch \/ RawPacket
  \/ Reset \/ Show \/ ReceivePl \/ ReceiveRf \/ Transmitted \/ Released \/ Tick

Spec == Init /\ [][Next]_vars
-----------------------------------------------------------------------------
(* Every part of the daemon keeps its shape: the house rows, the sensors   *)
(* and dups arrays (a count over the table would be a write beyond it, two *)
(* records of one address would hide each other) and the output ring.      *)
StationTypeOK ==
  /\ profile \in Profiles
  /\ d.h \in House
  /\ Len(d.sensors) < MaxSensors
  /\ IsInjective([i \in 1 .. Len(d.sensors) |-> d.sensors[i].addr])
  /\ \A i \in 1 .. DupMax : d.dups[i].used => d.dups[i].left \in Expired .. DupTime
  /\ Len(d.pending) <= Capacity /\ Len(d.flying) <= 1
  /\ Drained(d) \/ d.active

(* "getstatus a1": what is not known to be on is "off".                    *)
getstatus(h, u) == IF h.state[u] = "on" THEN "on" ELSE "off"

(* What "getstatus" reports of a unit once the queue is empty is what its  *)
(* receiver does, though the record runs ahead of the queue, through all   *)
(* mixtures of addresses, functions, presets and bridged RF, as long as no *)
(* code was lost or crossed another, no dim was followed by an address and *)
(* no RF command was bridged into a selection others were in.  A unit is   *)
(* left out from when a code parts its record from it (a status, all       *)
(* lights for a unit that is no lamp, an extended code that is no preset,  *)
(* a preset above 0 whose six bits are 0), or from the start or "st 0" if  *)
(* it is on then, to the next command that switches it.                    *)
RecordMatchesLine ==
  d.tracked /\ ~d.joined /\ ~d.divided /\ Drained(d) =>
    \A u \in Units \ d.parted : getstatus(d.h, u) = line.power[u]

(* The filter swallows a frame only within DUP_TIME of the last equal one  *)
(* it let pass, and forgets one before that only to make room for DUP_MAX  *)
(* frames that passed no earlier (dup_filter(), "the entry closest to      *)
(* expiring").                                                             *)
FilterRemembers ==
  \A fr \in profile.rf :
    /\ is_dup(d.dups, fr) => d.since[fr] <= DupTime
    /\ d.since[fr] <= DupTime /\ ~is_dup(d.dups, fr) =>
         Cardinality({g \in profile.rf \ {fr} : d.since[g] <= d.since[fr]}) >= DupMax

(* "getstatussec" reports the last status that passed the filter for every *)
(* sensor, however often the table was sorted, until more addresses were   *)
(* heard than it holds or both kinds of sensor shared one.                 *)
SensorsReadBack ==
  LET spoke == {s \in Sensors : d.heard[s] # -1} IN
  (Cardinality({s.addr : s \in spoke}) < MaxSensors) =>
    \A s \in spoke :
      (\A t \in spoke : t.addr = s.addr => t = s) =>
        /\ hua_getstatus_sec(d.sensors, s.short, s.addr) = 1
             <=> d.heard[s] \in Alert(s.short)
        /\ hua_getstatus_sec(d.sensors, s.short, s.addr) = 0
             <=> d.heard[s] \in Normal(s.short)
=============================================================================
