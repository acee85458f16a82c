---------------------------- MODULE MCX10Station ----------------------------
(* Instances of X10Station for TLC: traffic on the power line, codes that  *)
(* receivers take otherwise, RF remotes with the repeaters and the bridge, *)
(* security sensors.                                                       *)
EXTENDS X10Station

Switching(S) ==
  {Addr(u) : u \in S} \cup {Func(f) : f \in {"on", "off", "all_off", "dim"}}

PowerLine ==
  [ pl |-> Switching(Units) \cup {Ext(1, Preset, 31), Ext(1, Preset, 0)}, rf |-> {},
    switches |-> FALSE, reset |-> TRUE, raw |-> TRUE, lit |-> {} ]

(* What receivers take otherwise than the record; unit 2 is no lamp.       *)
Misread ==
  [ pl |-> {Addr(1), Addr(2), Func("on"), Func("off"), Func("status_on"), Func("status_off"),
            Func("all_on"), Func("lights_off"), Ext(1, Preset, 64), Ext(2, 0, 5)}, rf |-> {},
    switches |-> FALSE, reset |-> FALSE, raw |-> FALSE, lit |-> {1} ]

Remotes ==
  [ pl |-> {Addr(1), Func("on")},
    rf |-> {UnitFrame("rx", 1, "on"), UnitFrame("tx", 2, "off"), DimFrame("rx")},
    switches |-> TRUE, reset |-> FALSE, raw |-> FALSE, lit |-> {2} ]

Door   == [addr |-> 2, short |-> FALSE]
Motion == [addr |-> 1, short |-> FALSE]
Keyfob == [addr |-> 1, short |-> TRUE]
Window == [addr |-> 3, short |-> FALSE]

Alarm ==
  [ pl |-> {},
    rf |-> {SecFrame("rx", Door, 4), SecFrame("rx", Door, 132), SecFrame("rx", Motion, 12),
            SecFrame("rx", Keyfob, 132), SecFrame("rx", Window, 0), CamFrame("tx")},
    switches |-> FALSE, reset |-> TRUE, raw |-> FALSE, lit |-> {} ]

MCProfiles == {PowerLine, Misread, Remotes, Alarm}

(* Once the record and the line are known to differ, there is nothing left *)
(* to compare; sensors and the filter do not depend on either.             *)
StillComparable == (d.tracked /\ ~d.joined /\ ~d.divided) \/ profile = Alarm
=============================================================================
