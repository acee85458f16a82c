------------------------------- MODULE Commands -------------------------------
(***************************************************************************)
(* processcommandline() of src/x10/encode.c: what a command line does.  A  *)
(* line is a sequence of words (tokenize_command() has no more to it than  *)
(* its limit), and what it does a sequence of effects: packets sent,       *)
(* settings and replies, in their order.  What the packets then do to the  *)
(* tables and the queue is in X10Station.                                  *)
(***************************************************************************)
EXTENDS Integers, Sequences, FiniteSets

CONSTANTS
  Lines,         (* bound: the lines to try                                *)
  MaxTokens,     (* MAX_COMMAND_TOKENS, 16                                 *)
  MaxBytes       (* length of x10bytes8, 8                                 *)

ASSUME CommandAssumption ==
  Lines \subseteq Seq(STRING) /\ MaxTokens \in Nat /\ MaxBytes \in Nat

(* What the words are.  Several are of more than one kind.                 *)
Address  == [w \in {"A", "A1"} |-> IF w = "A" THEN <<0, -1>> ELSE <<0, 0>>]
Function == {"ON", "ALL_UNITS_OFF", "DIM", "XDIM", "EXTENDED_CODE_1"}
Decimal  == [w \in {"0", "5", "300"} |-> CASE w = "0" -> 0 [] w = "5" -> 5 [] w = "300" -> 300]
Hex      == [w \in {"0", "5", "300", "A", "A1", "0X1F"} |->
               CASE w = "0" -> 0 [] w = "5" -> 5 [] w = "300" -> 768
                 [] w = "A" -> 10 [] w = "A1" -> 161 [] w = "0X1F" -> 31]
RfAddress == {"0X1F", "0123AB"}  \* the first one a short address
ShortKeys == {"ARM", "ARM_HOME_MIN"}
LongKeys  == {"ARM", "MOTION_ALERT"}
CamKeys   == {"UP"}
Keys(r)   == IF r = "0X1F" THEN ShortKeys ELSE LongKeys

Diagnostics == {"HELLO", "CAPABILITIES", "HEALTH", "CLIENTS", "CONFIG", "VERSION"}
Chatter     == {"INFO", "QUIT", "HELP", "?"}
Policy      == "<POLICY-FILE-REQUEST/>"

VARIABLES
  line,   (* the command line                                              *)
  or20,   (* it is from an OpenRemote client                               *)
  does,   (* its effects                                                   *)
  ret     (* what processcommandline() returns, or "not yet"; "bytes" is   *)
          (* any count of bytes above 0                                    *)

commandVars == <<line, or20, does, ret>>

CommandInit == line \in Lines /\ or20 \in BOOLEAN /\ does = <<>> /\ ret = "not yet"

-----------------------------------------------------------------------------
(* The outcome of one command: effects, the words it has left, and whether *)
(* it goes "on" to the check for more words or has returned.               *)
On(effects, rest) == [does |-> effects, rest |-> rest, ret |-> "on"]
Returns(effects, code) == [does |-> effects, rest |-> <<>>, ret |-> code]
Refused == Returns(<<>>, "-1")

Rest(l) == IF l = <<>> THEN <<>> ELSE Tail(l)
Is(l, S) == l # <<>> /\ Head(l) \in S

(* getparam() with the default its callers put in place of its -1.  The    *)
(* word is used up even when it is no number.                              *)
Param(l, default) ==
  IF Is(l, DOMAIN Decimal) /\ Decimal[Head(l)] <= 255 THEN Decimal[Head(l)] ELSE default

HouseUnit(a)         == <<"send", "unit", a>>
HouseFunc(a, f, n)   == <<"send", "func", a[1], f, n>>
Extended(a, c, s, d) == <<"send", "extended", a, c, s, d>>

(* "pl", for a house and for a unit of it.  BRIGHT is as DIM.              *)
pl_house(a, f) ==
  CASE ~Is(f, Function \ {"XDIM"}) -> Refused
    [] Is(f, {"DIM"})              -> On(<<HouseFunc(a, "DIM", Param(Tail(f), 1))>>, Rest(Tail(f)))
    [] OTHER                       -> On(<<HouseFunc(a, Head(f), 0)>>, Tail(f))

pl_unit(a, f) ==
  CASE ~Is(f, Function)  -> Returns(<<HouseUnit(a)>>, "-1")
    [] Is(f, {"XDIM"})   -> On(<<Extended(a, 3, 1, Param(Tail(f), 1))>>, Rest(Tail(f)))
    [] Is(f, {"DIM"})    -> On(<<HouseUnit(a), HouseFunc(a, "DIM", Param(Tail(f), 1))>>, Rest(Tail(f)))
    [] Is(f, {"EXTENDED_CODE_1"}) ->
         LET p == Tail(f)  q == Rest(p)  r == Rest(q)
         IN  On(<<Extended(a, Param(p, 0), Param(q, 0), Param(r, 0))>>, Rest(r))
    [] OTHER             -> On(<<HouseUnit(a), HouseFunc(a, Head(f), 0)>>, Tail(f))

(* Mutant: a missing function is refused before anything is sent.          *)
pl_NoAddressAlone(l) ==
  IF ~Is(l, DOMAIN Address) \/ Tail(l) = <<>> THEN Refused
  ELSE IF Address[Head(l)][2] < 0 THEN pl_house(Address[Head(l)], Tail(l))
  ELSE pl_unit(Address[Head(l)], Tail(l))

pl(l) ==
  IF ~Is(l, DOMAIN Address) THEN Refused
  ELSE IF Address[Head(l)][2] < 0 THEN pl_house(Address[Head(l)], Tail(l))
  ELSE pl_unit(Address[Head(l)], Tail(l))

(* "rf": ON and OFF need a unit, and no other function but DIM and BRIGHT  *)
(* can be sent; what cannot is let pass without a word.                    *)
rf(l) ==
  IF ~Is(l, DOMAIN Address) \/ ~Is(Tail(l), Function) THEN Refused
  ELSE LET a == Address[Head(l)]  f == Head(Tail(l))
           sent == f = "DIM" \/ (f = "ON" /\ a[2] >= 0)
       IN  On(IF sent THEN <<<<"send", "rf", a, f>>>> ELSE <<>>, Tail(Tail(l)))

rfsec(l) ==
  IF ~Is(l, RfAddress) \/ ~Is(Tail(l), Keys(Head(l))) THEN Refused
  ELSE On(<<<<"send", "rfsec", Head(l), Head(Tail(l))>>>>, Tail(Tail(l)))

rfcam(l) ==
  IF ~Is(l, DOMAIN Address) \/ Tail(l) = <<>> THEN Refused
  ELSE On(IF Is(Tail(l), CamKeys) THEN <<<<"send", "rfcam", Address[Head(l)][1], Head(Tail(l))>>>>
                                  ELSE <<<<"reply", "invalid">>>>, Tail(Tail(l)))

(* "pt": gethexdata() takes every word there is.                           *)
pt(l) ==
  IF l = <<>> \/ Len(l) > MaxBytes \/ \E i \in DOMAIN l : l[i] \notin DOMAIN Hex \/ Hex[l[i]] > 255
    THEN Refused
    ELSE On(<<<<"send", "bytes", [i \in DOMAIN l |-> Hex[l[i]]]>>>>, <<>>)

(* gethousecodes() makes a bitmap of the letters A to P in any word, and   *)
(* an empty one of no word; here the word stands for its bitmap.           *)
rftopl(l) ==
  On(<<<<"set", "RfToPl", IF l = <<>> THEN "none" ELSE Head(l)>>, <<"reply", "RfToPl">>>>, Rest(l))

rftorf(l) ==
  CASE l = <<>>               -> On(<<<<"reply", "RfToRf">>>>, <<>>)
    [] Is(l, DOMAIN Decimal)  -> On(<<<<"set", "RfToRf", Decimal[Head(l)]>>, <<"reply", "RfToRf">>>>,
                                    Tail(l))
    [] OTHER                  -> Refused

st(l) == On(IF Is(l, {"0"}) THEN <<<<"set", "tables", "empty">>>> ELSE <<<<"reply", "tables">>>>, Rest(l))

getstatus(l) ==
  IF ~Is(l, DOMAIN Address) \/ Address[Head(l)][2] < 0 THEN Refused
  ELSE CASE Tail(l) = <<>>        -> On(<<<<"reply", "status", Head(l)>>>>, <<>>)
         [] Is(Tail(l), {"XDIM"}) -> On(<<<<"reply", "xdim", Head(l)>>>>, Tail(Tail(l)))
         [] OTHER                 -> On(<<<<"reply", "-1", Head(l)>>>>, Tail(Tail(l)))

getstatussec(l) ==
  IF Is(l, RfAddress) THEN On(<<<<"reply", "status", Head(l)>>>>, Tail(l)) ELSE Refused

hex(l) == IF l = <<>> THEN Refused ELSE Returns(<<<<"reply", "hex", Head(l)>>>>, "0")

(* The chain of strcmp().  A diagnostic command returns what statusprintf() *)
(* does.                                                                   *)
Command(name, l) ==
  CASE name \in Diagnostics -> Returns(<<<<"reply", name>>>>, "bytes")
    [] name \in Chatter     -> Returns(<<<<"reply", name>>>>, "0")
    [] name = "PL"           -> pl(l)
    [] name = "RF"           -> rf(l)
    [] name = "RFSEC"        -> rfsec(l)
    [] name = "RFCAM"        -> rfcam(l)
    [] name = "PT"           -> pt(l)
    [] name = "RFTOPL"       -> rftopl(l)
    [] name = "RFTORF"       -> rftorf(l)
    [] name = "ST"           -> st(l)
    [] name = "HEX"          -> hex(l)
    [] name = "GETSTATUS"    -> getstatus(l)
    [] name = "GETSTATUSSEC" -> getstatussec(l)
    [] OTHER                 -> Refused

(* An OpenRemote client hears "ok" first, whatever comes of the command.   *)
SaysOk == {"PL", "RF", "RFSEC", "RFCAM", "PT", "RFTOPL", "RFTORF"}
Ok(name) == IF or20 /\ name \in SaysOk THEN <<<<"reply", "ok">>>> ELSE <<>>

(* What becomes of a code that a command has returned: the reply that      *)
(* statusprintf() cannot queue for the client makes it -1.                 *)
Code(code) == IF code = "bytes" THEN {"bytes", "-1"} ELSE {code}

(* Mutant: what is left of the line is not looked at.                      *)
Process_LeavesRest ==
  /\ ret = "not yet" /\ line # <<Policy>>
  /\ Len(line) \in 1 .. MaxTokens
  /\ LET out == Command(Head(line), Tail(line)) IN
       /\ does' = Ok(Head(line)) \o out.does
       /\ ret' \in Code(IF out.ret = "on" THEN "0" ELSE out.ret)
  /\ UNCHANGED <<line, or20>>

(* processcommandline() of a line with words, and the check for words that *)
(* are left when the command has been executed.                            *)
Process ==
  /\ ret = "not yet" /\ line # <<Policy>>
  /\ Len(line) \in 1 .. MaxTokens
  /\ LET out  == Command(Head(line), Tail(line))
         more == out.ret = "on" /\ out.rest # <<>>
     IN  /\ does' = Ok(Head(line)) \o out.does
                      \o (IF more THEN <<<<"reply", "unexpected argument">>>> ELSE <<>>)
         /\ ret' \in Code(IF more THEN "-1" ELSE IF out.ret = "on" THEN "0" ELSE out.ret)
  /\ UNCHANGED <<line, or20>>

(* Too many words, none at all, and the line that is no command.           *)
Other ==
  /\ ret = "not yet"
  /\ \/ Len(line) > MaxTokens /\ does' = <<<<"reply", "too many arguments">>>> /\ ret' = "-1"
     \/ line = <<>> /\ does' = <<>> /\ ret' = "0"
     \/ line = <<Policy>> /\ does' = <<<<"reply", "policy">>>> /\ ret' = "0"
  /\ UNCHANGED <<line, or20>>

CommandNext == Process \/ Other

CommandSpec == CommandInit /\ [][CommandNext]_commandVars

-----------------------------------------------------------------------------
(* The grammar: a sentence is a shape, which has at each place the set of  *)
(* words that may stand there, and what it means, in terms of the words    *)
(* that do.  Any word may stand for an optional number, and counts as its  *)
(* default.                                                                *)
Fits(l, shape) == Len(l) >= Len(shape) /\ \A i \in DOMAIN shape : l[i] \in shape[i]

Sentence(l, shape, meaning) ==
  IF Fits(l, shape) THEN {[length |-> Len(shape), does |-> meaning]} ELSE {}

Any   == STRING
House == {w \in DOMAIN Address : Address[w][2] < 0}
Unit  == DOMAIN Address \ House
Byte  == {w \in DOMAIN Hex : Hex[w] <= 255}
Value(w, default) == IF w \in DOMAIN Decimal /\ Decimal[w] <= 255 THEN Decimal[w] ELSE default

(* The sentences that a line begins with.                                  *)
HouseSentences(l) ==
  LET a == Address[l[2]] IN
  UNION
  { Sentence(l, <<{"PL"}, House, Function \ {"DIM", "XDIM"}>>, <<HouseFunc(a, l[3], 0)>>),
    Sentence(l, <<{"PL"}, House, {"DIM"}>>,      <<HouseFunc(a, "DIM", 1)>>),
    Sentence(l, <<{"PL"}, House, {"DIM"}, Any>>, <<HouseFunc(a, "DIM", Value(l[4], 1))>>) }

UnitSentences(l) ==
  LET a == Address[l[2]] IN
  UNION
  { Sentence(l, <<{"PL"}, Unit>>, <<HouseUnit(a)>>),
    Sentence(l, <<{"PL"}, Unit, {"ON", "ALL_UNITS_OFF"}>>, <<HouseUnit(a), HouseFunc(a, l[3], 0)>>),
    Sentence(l, <<{"PL"}, Unit, {"DIM"}>>,      <<HouseUnit(a), HouseFunc(a, "DIM", 1)>>),
    Sentence(l, <<{"PL"}, Unit, {"DIM"}, Any>>, <<HouseUnit(a), HouseFunc(a, "DIM", Value(l[4], 1))>>),
    Sentence(l, <<{"PL"}, Unit, {"XDIM"}>>,      <<Extended(a, 3, 1, 1)>>),
    Sentence(l, <<{"PL"}, Unit, {"XDIM"}, Any>>, <<Extended(a, 3, 1, Value(l[4], 1))>>) }

ExtendedSentences(l) ==
  LET a == Address[l[2]]  v(i) == Value(l[i], 0) IN
  UNION
  { Sentence(l, <<{"PL"}, Unit, {"EXTENDED_CODE_1"}>>,           <<Extended(a, 0, 0, 0)>>),
    Sentence(l, <<{"PL"}, Unit, {"EXTENDED_CODE_1"}, Any>>,      <<Extended(a, v(4), 0, 0)>>),
    Sentence(l, <<{"PL"}, Unit, {"EXTENDED_CODE_1"}, Any, Any>>, <<Extended(a, v(4), v(5), 0)>>),
    Sentence(l, <<{"PL"}, Unit, {"EXTENDED_CODE_1"}, Any, Any, Any>>,
                                                                 <<Extended(a, v(4), v(5), v(6))>>) }

RadioSentences(l) ==
  LET sent(f) == <<<<"send", "rf", Address[l[2]], f>>>>
      code == <<<<"send", "rfsec", l[2], l[3]>>>> IN
  UNION
  { Sentence(l, <<{"RF"}, Unit, {"ON"}>>, sent("ON")),
    Sentence(l, <<{"RF"}, House, {"ON"}>>, <<>>),
    Sentence(l, <<{"RF"}, DOMAIN Address, {"DIM"}>>, sent("DIM")),
    Sentence(l, <<{"RF"}, DOMAIN Address, Function \ {"ON", "DIM"}>>, <<>>),
    Sentence(l, <<{"RFSEC"}, {"0X1F"}, ShortKeys>>, code),
    Sentence(l, <<{"RFSEC"}, {"0123AB"}, LongKeys>>, code),
    Sentence(l, <<{"RFCAM"}, DOMAIN Address, CamKeys>>,
                <<<<"send", "rfcam", Address[l[2]][1], l[3]>>>>) }

QuerySentences(l) ==
  UNION
  { Sentence(l, <<{"RFTOPL"}>>,      <<<<"set", "RfToPl", "none">>, <<"reply", "RfToPl">>>>),
    Sentence(l, <<{"RFTOPL"}, Any>>, <<<<"set", "RfToPl", l[2]>>, <<"reply", "RfToPl">>>>),
    Sentence(l, <<{"RFTORF"}, DOMAIN Decimal>>,
                <<<<"set", "RfToRf", Decimal[l[2]]>>, <<"reply", "RfToRf">>>>),
    Sentence(l, <<{"ST"}>>,              <<<<"reply", "tables">>>>),
    Sentence(l, <<{"ST"}, {"0"}>>,       <<<<"set", "tables", "empty">>>>),
    Sentence(l, <<{"ST"}, Any \ {"0"}>>, <<<<"reply", "tables">>>>),
    Sentence(l, <<{"GETSTATUS"}, Unit>>,           <<<<"reply", "status", l[2]>>>>),
    Sentence(l, <<{"GETSTATUS"}, Unit, {"XDIM"}>>, <<<<"reply", "xdim", l[2]>>>>),
    Sentence(l, <<{"GETSTATUSSEC"}, RfAddress>>,   <<<<"reply", "status", l[2]>>>>),
    Sentence(l, <<{"HEX"}, Any>>,                  <<<<"reply", "hex", l[2]>>>>),
    Sentence(l, <<Diagnostics \cup Chatter>>,      <<<<"reply", l[1]>>>>) }

(* The words that the code lets pass where the language has no such        *)
(* sentence, and answers.                                                  *)
Leniences(l) ==
  UNION
  { Sentence(l, <<{"RFCAM"}, DOMAIN Address, Any \ CamKeys>>, <<<<"reply", "invalid">>>>),
    Sentence(l, <<{"GETSTATUS"}, Unit, Any \ {"XDIM"}>>,      <<<<"reply", "-1", l[2]>>>>) }

(* Sentences that stand alone: no other line begins with them.             *)
IsPt(l) == Len(l) \in 2 .. MaxBytes + 1 /\ l[1] = "PT" /\ \A i \in 2 .. Len(l) : l[i] \in Byte
Pt(l)   == <<<<"send", "bytes", [i \in 1 .. Len(l) - 1 |-> Hex[l[i + 1]]]>>>>

Alone(l) ==
  (IF IsPt(l) THEN {[length |-> Len(l), does |-> Pt(l)]} ELSE {}) \cup
  (IF l = <<"RFTORF">> THEN {[length |-> 1, does |-> <<<<"reply", "RfToRf">>>>]} ELSE {})

Sentences(l) ==
  HouseSentences(l) \cup UnitSentences(l) \cup ExtendedSentences(l) \cup RadioSentences(l)
    \cup QuerySentences(l) \cup Leniences(l) \cup Alone(l)

Longest(l) ==
  CHOOSE s \in Sentences(l) : \A q \in Sentences(l) : q.length <= s.length
Meaning(l) == IF Sentences(l) = {} THEN <<>> ELSE Longest(l).does

Commanded == ret # "not yet" /\ Len(line) \in 1 .. MaxTokens /\ line # <<Policy>>
IgnoresRest == Diagnostics \cup Chatter \cup {"HEX"}

(* What a line sets, sends and answers is what the longest sentence it     *)
(* begins with means, once, and nothing if it begins with none: a line     *)
(* that goes wrong later has never done something else.  An "ok" may come  *)
(* before, a complaint about the words that are left after it.             *)
DoesTheLongestSentence ==
  Commanded =>
    \E before \in {<<>>, <<<<"reply", "ok">>>>},
       after  \in {<<>>, <<<<"reply", "unexpected argument">>>>} :
      does = before \o Meaning(line) \o after

(* processcommandline() returns 0 if and only if the line is a sentence,    *)
(* apart from the commands that do not look at what follows them, and an   *)
(* address alone, which is sent and still refused.  A diagnostic command   *)
(* (HELLO to VERSION) does not look either, and returns the bytes of its   *)
(* reply, or -1 if the client's queue does not take it.  The language is   *)
(* the code's: "pl a1 dim x" is a sentence of it, where CHANGELOG.md:81    *)
(* speaks of strict numeric validation.                                    *)
AcceptsSentences ==
  Commanded =>
    IF line[1] \in Diagnostics
      THEN ret \in {"bytes", "-1"}
      ELSE ret = "0" <=> /\ Sentences(line) # {}
                         /\ ~(Len(line) = 2 /\ line[1] = "PL")
                         /\ line[1] \in IgnoresRest \/ Longest(line).length = Len(line)
=============================================================================
