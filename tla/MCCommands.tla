------------------------------ MODULE MCCommands ------------------------------
(* Lines of up to four words, and the long ones that meet a limit.         *)
EXTENDS Commands

MCWords == {"A", "A1", "ON", "ALL_UNITS_OFF", "DIM", "XDIM", "EXTENDED_CODE_1", "0", "5", "300",
            "0X1F", "0123AB", "ARM", "ARM_HOME_MIN", "MOTION_ALERT", "UP", "BOGUS"}

MCNames == {"PL", "RF", "RFSEC", "RFCAM", "PT", "RFTOPL", "RFTORF", "ST", "GETSTATUS",
            "GETSTATUSSEC", "HEX", "INFO", "QUIT", "HELLO", "BOGUS"}

MCLines ==
  {<<n>> \o a : n \in MCNames, a \in UNION {[1 .. k -> MCWords] : k \in 0 .. 3}} \cup
  {<<"PL", "A1">> \o a : a \in [1 .. 3 -> {"DIM", "EXTENDED_CODE_1", "5", "300", "BOGUS"}]} \cup
  {<<"PL", "A1", "EXTENDED_CODE_1">> \o a :
     a \in UNION {[1 .. k -> {"0", "5", "300", "BOGUS"}] : k \in 3 .. 4}} \cup
  {<<"PT">> \o [i \in 1 .. k |-> "5"] : k \in 4 .. 17} \cup
  {<<"PT">> \o [i \in 1 .. k |-> IF i = k THEN "BOGUS" ELSE "A1"] : k \in 4 .. 9} \cup
  {<<>>, <<"<POLICY-FILE-REQUEST/>">>, <<"<POLICY-FILE-REQUEST/>", "A">>}
=============================================================================
