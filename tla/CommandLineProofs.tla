-------------------------- MODULE CommandLineProofs --------------------------
(***************************************************************************)
(* Proofs about the two halves of a command line in src/x10/encode.c, for  *)
(* every value of their constants: LineAssembler, in which bytes become    *)
(* lines, and Commands, in which a line becomes what it means.             *)
(***************************************************************************)
EXTENDS LineAssembler, Commands, SequenceTheorems, TLAPS

-----------------------------------------------------------------------------
(* Bytes to lines, for a store of any size, any number of lines and lines  *)
(* of any length.                                                          *)

(* m bytes of line n.                                                      *)
Copies(n, m) == [k \in 1 .. m |-> n]

(* What the store holds is the current line from its first byte; what is   *)
(* thrown away is the rest of a line too long for the store, or the whole  *)
(* line after one that filled it.                                          *)
Assembling ==
  /\ ~discarding => remainder = Copies(current, length[current])
  /\ discarding =>
       /\ remainder = <<>>
       /\ \/ length[current] >= Size
          \/ current > 1 /\ length[current - 1] = Size - 1

(* A command is a line that has ended, is not empty, and comes after the   *)
(* commands before it.                                                     *)
WholeCommands ==
  /\ \A i \in 1 .. Len(executed) :
       \E n \in Complete : length[n] >= 1 /\ executed[i] = Copies(n, length[n])
  /\ \A i, j \in 1 .. Len(executed) : i < j => executed[i][1] < executed[j][1]

LineIInv == LineTypeOK /\ Assembling /\ WholeCommands /\ ShortLinesRun

-----------------------------------------------------------------------------
(* Copies are sequences, and one more byte of the line is one more copy.   *)
LEMMA CopiesProperties ==
  ASSUME NEW n, NEW m \in Nat
  PROVE  /\ Copies(n, m) \in Seq({n})
         /\ Copies(n, 0) = <<>>
         /\ Len(Copies(n, m)) = m
         /\ m >= 1 => Copies(n, m)[1] = n
         /\ Append(Copies(n, m), n) = Copies(n, m + 1)
BY DEF Copies

(* The sizes in play.                                                      *)
LEMMA Sizes ==
  ASSUME LineTypeOK
  PROVE  /\ Size \in Nat /\ Size >= 2
         /\ current \in Nat /\ current >= 1 /\ current = Len(length)
         /\ \A n \in 1 .. current : length[n] \in Nat
         /\ length[current] \in Nat
         /\ Len(remainder) \in Nat
         /\ ~discarding /\ Assembling => Len(remainder) = length[current]
<1>1. /\ Size \in Nat /\ Size >= 2
      /\ current \in Nat /\ current >= 1 /\ current = Len(length)
      /\ \A n \in 1 .. current : length[n] \in 0 .. MaxLength
      /\ Len(remainder) \in Nat
  BY LineAssumption DEF LineTypeOK, current
<1>2. (\A n \in 1 .. current : length[n] \in Nat) /\ length[current] \in Nat
  BY <1>1, LineAssumption
<1>3. ASSUME ~discarding, Assembling PROVE Len(remainder) = length[current]
  <2>1. remainder = Copies(current, length[current])
    BY <1>3 DEF Assembling
  <2>2. QED
    BY <1>2, <2>1, CopiesProperties
<1>4. QED
  BY <1>1, <1>2, <1>3

-----------------------------------------------------------------------------
(* The first byte of the first line is still to come.                      *)
LEMMA InitLine == LineInit => LineIInv
<1> SUFFICES ASSUME LineInit PROVE LineIInv
  OBVIOUS
<1>1. LineTypeOK
  <2>1. 0 \in 0 .. MaxLength /\ 1 \in 1 .. MaxLines + 1 /\ 0 < Size
    BY LineAssumption
  <2>2. <<0>> \in Seq(0 .. MaxLength) /\ Len(<<0>>) = 1
    BY <2>1
  <2>3. length \in Seq(0 .. MaxLength) /\ Len(length) \in 1 .. MaxLines + 1
    BY <2>1, <2>2 DEF LineInit
  <2>4. <<>> \in Seq(Line) /\ <<>> \in Seq(Seq(Line)) /\ Len(<<>>) < Size
    BY <2>1
  <2>5. /\ remainder \in Seq(Line) /\ Len(remainder) < Size
        /\ executed \in Seq(Seq(Line)) /\ discarding \in BOOLEAN
    BY <2>4 DEF LineInit
  <2>6. QED
    BY <2>3, <2>5 DEF LineTypeOK
<1>2. current = 1 /\ length[current] = 0
  BY DEF LineInit, current
<1>3. Copies(1, 0) = <<>>
  BY CopiesProperties
<1>4. Assembling
  BY <1>2, <1>3 DEF LineInit, Assembling
<1>5. WholeCommands /\ ShortLinesRun
  BY <1>2 DEF LineInit, WholeCommands, ShortLinesRun, Complete
<1>6. QED
  BY <1>1, <1>4, <1>5 DEF LineIInv

(* Lines that have ended keep their length and commands stay executed, so  *)
(* what was said about them stays true.                                    *)
LEMMA EndedLines ==
  ASSUME LineIInv, NEW n \in Complete,
         \A m \in Complete : length'[m] = length[m],
         Len(executed') \in Nat, Len(executed') >= Len(executed),
         \A i \in 1 .. Len(executed) : executed'[i] = executed[i],
         length'[n] \in 1 .. Size - 2,
         n = 1 \/ length'[n - 1] # Size - 1
  PROVE  RanWhole(n)'
<1>1. current \in Nat /\ n \in 1 .. current - 1
  BY Sizes DEF LineIInv, Complete
<1>2. n = 1 \/ n - 1 \in Complete
  BY <1>1 DEF Complete
<1>3. RanWhole(n)
  BY <1>2 DEF LineIInv, ShortLinesRun
<1>4. PICK i \in 1 .. Len(executed) : executed[i] = [k \in 1 .. length[n] |-> n]
  BY <1>3 DEF RanWhole
<1>5. i \in 1 .. Len(executed')
  BY DEF LineIInv, LineTypeOK
<1>6. executed'[i] = [k \in 1 .. length'[n] |-> n]
  BY <1>4
<1>7. QED
  BY <1>5, <1>6 DEF RanWhole

(* A character arrives.                                                    *)
LEMMA StepCharacter ==
  ASSUME LineIInv, Character
  PROVE  LineIInv'
<1>0. /\ LineTypeOK /\ Assembling /\ WholeCommands
      /\ Size \in Nat /\ Size >= 2 /\ current \in Nat /\ current >= 1
      /\ \A n \in 1 .. current : length[n] \in Nat
      /\ length[current] \in Nat
  BY Sizes DEF LineIInv
<1>1. /\ length' = [length EXCEPT ![current] = @ + 1]
      /\ current <= MaxLines /\ length[current] < MaxLength /\ executed' = executed
  BY DEF Character, TooLong, Overflow, Store
<1>2. /\ current' = current /\ Complete' = Complete
      /\ length'[current] = length[current] + 1
      /\ \A n \in 1 .. current - 1 : length'[n] = length[n]
      /\ length' \in Seq(0 .. MaxLength) /\ Len(length') \in 1 .. MaxLines + 1
  BY <1>0, <1>1, LineAssumption DEF LineTypeOK, current, Complete
<1>3. LineTypeOK' /\ Assembling'
  <2>1. CASE discarding /\ UNCHANGED <<remainder, discarding, executed>>
    BY <1>0, <1>1, <1>2, <2>1 DEF LineTypeOK, Assembling
  <2>2. CASE TooLong
    <3>1. length[current] >= Size - 1
      BY <1>0, <2>2, Sizes DEF TooLong, Full
    <3>2. remainder' = <<>> /\ discarding' = TRUE
      BY <2>2 DEF TooLong, Overflow
    <3>3. QED
      BY <1>0, <1>1, <1>2, <3>1, <3>2 DEF LineTypeOK, Assembling
  <2>3. CASE Store
    <3>1. /\ remainder' = Append(remainder, current) /\ discarding' = FALSE
          /\ remainder = Copies(current, length[current])
          /\ Len(remainder) < Size - 1
      BY <1>0, <2>3 DEF Store, Full, Assembling, LineTypeOK
    <3>2. remainder' = Copies(current, length[current] + 1)
      BY <1>0, <3>1, CopiesProperties
    <3>3. current \in Line
      BY <1>0, <1>1, LineAssumption DEF Line
    <3>4. remainder' \in Seq(Line) /\ Len(remainder') < Size
      BY <1>0, <3>1, <3>3 DEF LineTypeOK
    <3>5. QED
      BY <1>0, <1>1, <1>2, <3>1, <3>2, <3>4 DEF LineTypeOK, Assembling
  <2>4. QED
    BY <2>1, <2>2, <2>3 DEF Character
<1>4. WholeCommands'
  BY <1>0, <1>1, <1>2 DEF WholeCommands, Complete
<1>5. ShortLinesRun'
  <2>1. Len(executed) \in Nat
    BY <1>0 DEF LineTypeOK
  <2>2. \A m \in Complete : length'[m] = length[m]
    BY <1>2 DEF Complete
  <2>3. QED
    BY <1>1, <1>2, <2>1, <2>2, EndedLines DEF ShortLinesRun
<1>6. QED
  BY <1>3, <1>4, <1>5 DEF LineIInv

(* The delimiter of a line arrives: the line has ended, the next begins.   *)
LEMMA LineEnds ==
  ASSUME LineIInv, Delimiter
  PROVE  /\ current' = current + 1 /\ Complete' = Complete \cup {current}
         /\ \A n \in 1 .. current : length'[n] = length[n]
         /\ length'[current'] = 0
         /\ length' \in Seq(0 .. MaxLength) /\ Len(length') \in 1 .. MaxLines + 1
         /\ current <= MaxLines
<1>1. length' = Append(length, 0) /\ current <= MaxLines
  BY DEF Delimiter
<1>2. /\ length \in Seq(0 .. MaxLength) /\ current = Len(length)
      /\ current \in Nat /\ current >= 1 /\ 0 \in 0 .. MaxLength
  BY LineAssumption DEF LineIInv, LineTypeOK, current
<1>3. /\ length' \in Seq(0 .. MaxLength) /\ Len(length') = current + 1
      /\ \A n \in 1 .. current : length'[n] = length[n]
      /\ length'[current + 1] = 0
  BY <1>1, <1>2
<1>4. current' = current + 1
  BY <1>3 DEF current
<1>5. Complete' = Complete \cup {current}
  BY <1>2, <1>4 DEF Complete
<1>6. QED
  BY <1>1, <1>2, <1>3, <1>4, <1>5, LineAssumption

(* ... what it does to the commands: nothing, or the line is one more.     *)
LEMMA StepDelimiter ==
  ASSUME LineIInv, Delimiter
  PROVE  LineIInv'
<1>0. /\ LineTypeOK /\ Assembling /\ WholeCommands
      /\ Size \in Nat /\ Size >= 2 /\ current \in Nat /\ current >= 1
      /\ length[current] \in Nat /\ Len(remainder) \in Nat
      /\ ~discarding => Len(remainder) = length[current]
      /\ Len(executed) \in Nat
  BY Sizes DEF LineIInv, LineTypeOK
<1>1. /\ current' = current + 1 /\ Complete' = Complete \cup {current}
      /\ \A n \in 1 .. current : length'[n] = length[n]
      /\ length'[current'] = 0
      /\ length' \in Seq(0 .. MaxLength) /\ Len(length') \in 1 .. MaxLines + 1
      /\ current <= MaxLines
  BY LineEnds
<1>2. \A m \in Complete : length'[m] = length[m]
  BY <1>0, <1>1 DEF Complete
<1>3. Copies(current', 0) = <<>>
  BY CopiesProperties
<1>4. ASSUME executed' = executed, LineTypeOK', Assembling',
             length[current] \in 1 .. Size - 2 => current # 1 /\ length[current - 1] = Size - 1
      PROVE  LineIInv'
  <2>1. WholeCommands'
    BY <1>0, <1>1, <1>2, <1>4 DEF WholeCommands
  <2>2. ASSUME NEW n \in Complete', length'[n] \in 1 .. Size - 2,
               n = 1 \/ length'[n - 1] # Size - 1
        PROVE  RanWhole(n)'
    <3>1. CASE n \in Complete
      BY <1>0, <1>2, <1>4, <2>2, <3>1, EndedLines
    <3>2. CASE n = current
      <4>1. length'[n] = length[current]
        BY <1>0, <1>1, <3>2
      <4>2. current # 1 => length'[current - 1] = length[current - 1]
        BY <1>0, <1>1
      <4>3. QED
        BY <1>4, <2>2, <3>2, <4>1, <4>2
    <3>3. QED
      BY <1>1, <3>1, <3>2
  <2>3. ShortLinesRun'
    BY <2>2 DEF ShortLinesRun
  <2>4. QED
    BY <1>4, <2>1, <2>3 DEF LineIInv
<1>5. CASE EndDiscard
  <2>1. discarding /\ discarding' = FALSE /\ remainder' = <<>> /\ executed' = executed
    BY <1>0, <1>5 DEF EndDiscard, Assembling
  <2>2. LineTypeOK'
    BY <1>0, <1>1, <1>5, <2>1 DEF LineTypeOK, EndDiscard
  <2>3. Assembling'
    BY <1>1, <1>3, <2>1 DEF Assembling
  <2>4. length[current] \in 1 .. Size - 2 => current # 1 /\ length[current - 1] = Size - 1
    BY <1>0, <2>1 DEF Assembling
  <2>5. QED
    BY <1>4, <2>1, <2>2, <2>3, <2>4
<1>6. CASE TooLong
  <2>1. /\ ~discarding /\ discarding' = TRUE /\ remainder' = <<>> /\ executed' = executed
        /\ length[current] >= Size - 1
    BY <1>0, <1>6 DEF TooLong, Overflow, Full
  <2>2. length[current] = Size - 1
    BY <1>0, <2>1 DEF LineTypeOK
  <2>3. LineTypeOK'
    BY <1>0, <1>1, <2>1 DEF LineTypeOK
  <2>4. Assembling'
    BY <1>0, <1>1, <2>1, <2>2 DEF Assembling
  <2>5. QED
    BY <1>0, <1>4, <2>1, <2>2, <2>3, <2>4
<1>7. CASE Execute
  <2>1. /\ ~discarding /\ discarding' = discarding /\ remainder' = <<>>
        /\ executed' = IF remainder = <<>> THEN executed ELSE Append(executed, remainder)
        /\ remainder = Copies(current, length[current])
    BY <1>0, <1>7 DEF Execute, Assembling
  <2>2. Assembling'
    BY <1>1, <1>3, <2>1 DEF Assembling
  <2>3. CASE remainder = <<>>
    <3>1. length[current] = 0
      BY <1>0, <2>1, <2>3
    <3>2. LineTypeOK'
      BY <1>0, <1>1, <2>1, <2>3 DEF LineTypeOK
    <3>3. QED
      BY <1>4, <2>1, <2>2, <2>3, <3>1, <3>2
  <2>4. CASE remainder # <<>>
    <3>1. executed' = Append(executed, remainder) /\ length[current] >= 1
      BY <1>0, <2>1, <2>4, CopiesProperties
    <3>2. /\ remainder \in Seq(Line) /\ executed \in Seq(Seq(Line))
          /\ executed' \in Seq(Seq(Line))
          /\ Len(executed') = Len(executed) + 1
          /\ \A i \in 1 .. Len(executed) : executed'[i] = executed[i]
          /\ executed'[Len(executed) + 1] = Copies(current, length[current])
      BY <1>0, <2>1, <3>1 DEF LineTypeOK
    <3>3. LineTypeOK'
      BY <1>0, <1>1, <2>1, <3>2 DEF LineTypeOK
    <3> DEFINE last == Len(executed) + 1
    <3>4. WholeCommands'
      <4>1. ASSUME NEW i \in 1 .. last
            PROVE  \E n \in Complete' : length'[n] >= 1 /\ executed'[i] = Copies(n, length'[n])
        <5>1. CASE i = last
          <6>1. current \in Complete' /\ length'[current] = length[current]
            BY <1>0, <1>1
          <6>2. QED
            BY <3>1, <3>2, <5>1, <6>1
        <5>2. CASE i # last
          <6>1. i \in 1 .. Len(executed)
            BY <1>0, <5>2
          <6>2. PICK n \in Complete : length[n] >= 1 /\ executed[i] = Copies(n, length[n])
            BY <1>0, <6>1 DEF WholeCommands
          <6>3. n \in Complete' /\ length'[n] = length[n] /\ executed'[i] = executed[i]
            BY <1>1, <1>2, <3>2, <6>1
          <6>4. QED
            BY <6>2, <6>3
        <5>3. QED
          BY <5>1, <5>2
      <4>2. ASSUME NEW i \in 1 .. Len(executed)
            PROVE  executed'[i][1] = executed[i][1] /\ executed[i][1] < current
        <5>1. PICK n \in Complete : length[n] >= 1 /\ executed[i] = Copies(n, length[n])
          BY <1>0 DEF WholeCommands
        <5>2. n < current /\ length[n] \in Nat
          BY <1>0, Sizes DEF LineIInv, Complete
        <5>3. executed[i][1] = n
          <6>1. Copies(n, length[n])[1] = n
            BY <5>1, <5>2, CopiesProperties
          <6>2. QED
            BY <5>1, <6>1
        <5>4. QED
          BY <3>2, <5>2, <5>3
      <4>3. executed'[last][1] = current
        <5>1. Copies(current, length[current])[1] = current
          BY <1>0, <3>1, CopiesProperties
        <5>2. QED
          BY <3>2, <5>1
      <4>4. ASSUME NEW i \in 1 .. last, NEW j \in 1 .. last, i < j
            PROVE  executed'[i][1] < executed'[j][1]
        <5>1. i \in 1 .. Len(executed) /\ i # last
          BY <1>0, <4>4
        <5>2. CASE j = last
          BY <4>2, <4>3, <5>1, <5>2
        <5>3. CASE j # last
          <6>1. j \in 1 .. Len(executed)
            BY <1>0, <5>3
          <6>2. executed[i][1] < executed[j][1]
            BY <1>0, <4>4, <5>1, <6>1 DEF WholeCommands
          <6>3. QED
            BY <4>2, <5>1, <6>1, <6>2
        <5>4. QED
          BY <5>2, <5>3
      <4>5. QED
        BY <3>2, <4>1, <4>4 DEF WholeCommands
    <3>5. ASSUME NEW n \in Complete', length'[n] \in 1 .. Size - 2,
                 n = 1 \/ length'[n - 1] # Size - 1
          PROVE  RanWhole(n)'
      <4>1. CASE n \in Complete
        BY <1>0, <1>2, <3>2, <3>5, <4>1, EndedLines
      <4>2. CASE n = current
        <5>1. length'[current] = length[current]
          BY <1>0, <1>1
        <5>2. last \in 1 .. Len(executed')
          BY <1>0, <3>2
        <5>3. executed'[last] = [k \in 1 .. length'[n] |-> n]
          BY <3>2, <4>2, <5>1 DEF Copies
        <5>4. QED
          BY <5>2, <5>3 DEF RanWhole
      <4>3. QED
        BY <1>1, <4>1, <4>2
    <3>6. ShortLinesRun'
      BY <3>5 DEF ShortLinesRun
    <3>7. QED
      BY <2>2, <3>3, <3>4, <3>6 DEF LineIInv
  <2>5. QED
    BY <2>3, <2>4
<1>8. QED
  BY <1>5, <1>6, <1>7 DEF Delimiter

(* A step that changes nothing.                                            *)
LEMMA StepNothing ==
  ASSUME LineIInv, UNCHANGED lineVars
  PROVE  LineIInv'
BY DEF LineIInv, lineVars, LineTypeOK, Assembling, WholeCommands, ShortLinesRun, RanWhole,
       Complete, current

(* The invariant holds throughout.                                         *)
LEMMA LineInvariance == LineSpec => []LineIInv
<1>1. LineIInv /\ [LineNext]_lineVars => LineIInv'
  BY StepCharacter, StepDelimiter, StepNothing DEF LineNext
<1>2. QED
  BY <1>1, InitLine, PTL DEF LineSpec

-----------------------------------------------------------------------------
(* remainder never runs over sizeof(remainder), whatever the peer sends    *)
(* (encode.c:957-966).                                                     *)
THEOREM LineTypeCorrect == LineSpec => []LineTypeOK
<1>1. LineIInv => LineTypeOK
  BY DEF LineIInv
<1>2. QED
  BY <1>1, LineInvariance, PTL

(* A command is one whole line, in the order the lines were sent: never    *)
(* the tail of a line that was too long, nor two lines joined              *)
(* (encode.c:944-985).                                                     *)
THEOREM WholeLines == LineSpec => []CommandsAreWholeLines
<1>1. LineIInv => CommandsAreWholeLines
  BY DEF LineIInv, WholeCommands, CommandsAreWholeLines, Copies
<1>2. QED
  BY <1>1, LineInvariance, PTL

(* Only a line that does not fit, or one after a line that filled the      *)
(* store, is not executed (encode.c:957-966).                              *)
THEOREM ShortRun == LineSpec => []ShortLinesRun
<1>1. LineIInv => ShortLinesRun
  BY DEF LineIInv
<1>2. QED
  BY <1>1, LineInvariance, PTL

-----------------------------------------------------------------------------
(* Lines to effects, for any set of lines: what the words of a line do is  *)
(* what the longest sentence says.                                         *)

(* A sentence of k words that means m; and one that is the longest that l  *)
(* begins with.                                                            *)
Of(k, m) == [length |-> k, does |-> m]

Says(l, k, m) ==
  /\ k \in Nat /\ Of(k, m) \in Sentences(l)
  /\ \A q \in Sentences(l) : q.length \in Nat /\ q.length <= k /\ (q.length = k => q = Of(k, m))

(* What a command does and leaves of its line, by the grammar.             *)
Agrees(l, out) ==
  \/ Sentences(l) = {} /\ out = Refused
  \/ \E k \in Nat :
       /\ Says(l, k, out.does)
       /\ \/ /\ out.ret = "on" /\ l[1] \notin IgnoresRest
             /\ out.rest = <<>> <=> k = Len(l)
             /\ l[1] = "PL" => k # 2
          \/ out.ret = (IF l[1] \in Diagnostics THEN "bytes" ELSE "0") /\ l[1] \in IgnoresRest
          \/ out.ret = "-1" /\ l[1] = "PL" /\ k = 2

(* What a longest sentence means is the meaning of the line.               *)
LEMMA SaysMeaning ==
  ASSUME NEW l, NEW k, NEW m, Says(l, k, m)
  PROVE  Sentences(l) # {} /\ Meaning(l) = m /\ Longest(l) = Of(k, m) /\ Longest(l).length = k
<1>1. Of(k, m) \in Sentences(l) /\ Of(k, m).length = k /\ Of(k, m).does = m
  BY DEF Says, Of
<1>2. \A q \in Sentences(l) : q.length \in Nat /\ q.length <= k /\ (q.length = k => q = Of(k, m))
  BY DEF Says
<1>3. k \in Nat
  BY DEF Says
<1>4. \E s \in Sentences(l) : \A q \in Sentences(l) : q.length <= s.length
  BY <1>1, <1>2
<1>5. Longest(l) \in Sentences(l) /\ \A q \in Sentences(l) : q.length <= Longest(l).length
  BY <1>4 DEF Longest
<1>6. Longest(l).length = k
  BY <1>1, <1>2, <1>3, <1>5
<1>7. Longest(l) = Of(k, m)
  BY <1>2, <1>5, <1>6
<1>8. QED
  BY <1>1, <1>6, <1>7 DEF Meaning

(* The three ways for a command and the grammar to agree.                  *)
LEMMA AgreesOn ==
  ASSUME NEW l, NEW k, NEW m, NEW rest, Says(l, k, m), rest = <<>> <=> k = Len(l),
         l[1] \notin IgnoresRest, l[1] = "PL" => k # 2
  PROVE  Agrees(l, On(m, rest))
<1> DEFINE out == On(m, rest)
<1>1. out.does = m /\ out.rest = rest /\ out.ret = "on"
  BY DEF On
<1> HIDE DEF out
<1>2. k \in Nat
  BY DEF Says
<1>3. Agrees(l, out)
  BY <1>1, <1>2 DEF Agrees
<1>4. QED
  BY <1>3 DEF out

(* ... or it has returned by itself: a query that looks no further, or an   *)
(* address that was sent without a function.                               *)
LEMMA AgreesReturns ==
  ASSUME NEW l, NEW k, NEW m, NEW code, Says(l, k, m),
         \/ code = (IF l[1] \in Diagnostics THEN "bytes" ELSE "0") /\ l[1] \in IgnoresRest
         \/ code = "-1" /\ l[1] = "PL" /\ k = 2
  PROVE  Agrees(l, Returns(m, code))
<1> DEFINE out == Returns(m, code)
<1>1. out.does = m /\ out.ret = code
  BY DEF Returns
<1> HIDE DEF out
<1>2. k \in Nat
  BY DEF Says
<1>3. Agrees(l, out)
  BY <1>1, <1>2 DEF Agrees
<1>4. QED
  BY <1>3 DEF out

(* Which groups of sentences begin with which word.                        *)
Radio   == {"RF", "RFSEC", "RFCAM"}
Queries == {"RFTOPL", "RFTORF", "ST", "GETSTATUS", "GETSTATUSSEC", "HEX"} \cup Diagnostics \cup Chatter

(* No other word begins a sentence of the group.                           *)
LEMMA FirstWord ==
  ASSUME NEW l
  PROVE  /\ l[1] # "PL" => HouseSentences(l) = {} /\ UnitSentences(l) = {} /\ ExtendedSentences(l) = {}
         /\ l[1] \notin Radio => RadioSentences(l) = {}
         /\ l[1] \notin Queries => QuerySentences(l) = {}
         /\ l[1] \notin {"RFCAM", "GETSTATUS"} => Leniences(l) = {}
         /\ l[1] \notin {"PT", "RFTORF"} => Alone(l) = {}
<1>1. l[1] # "PL" => HouseSentences(l) = {}
  BY DEF HouseSentences, Sentence, Fits
<1>2. l[1] # "PL" => UnitSentences(l) = {} /\ ExtendedSentences(l) = {}
  BY DEF UnitSentences, ExtendedSentences, Sentence, Fits
<1>3. l[1] \notin Radio => RadioSentences(l) = {}
  BY DEF RadioSentences, Sentence, Fits, Radio
<1>4. l[1] \notin Queries => QuerySentences(l) = {}
  BY DEF QuerySentences, Sentence, Fits, Queries
<1>5. l[1] \notin {"RFCAM", "GETSTATUS"} => Leniences(l) = {}
  BY DEF Leniences, Sentence, Fits
<1>6. l[1] \notin {"PT", "RFTORF"} => Alone(l) = {}
  BY DEF Alone, IsPt
<1>7. QED
  BY <1>1, <1>2, <1>3, <1>4, <1>5, <1>6

(* The first word leaves one or two groups, or none.                       *)
LEMMA Only ==
  ASSUME NEW l
  PROVE  /\ l[1] = "PL" => Sentences(l) = HouseSentences(l) \cup UnitSentences(l) \cup ExtendedSentences(l)
         /\ l[1] \in {"RF", "RFSEC"} => Sentences(l) = RadioSentences(l)
         /\ l[1] = "RFCAM" => Sentences(l) = RadioSentences(l) \cup Leniences(l)
         /\ l[1] = "PT" => Sentences(l) = Alone(l)
         /\ l[1] = "RFTORF" => Sentences(l) = QuerySentences(l) \cup Alone(l)
         /\ l[1] = "GETSTATUS" => Sentences(l) = QuerySentences(l) \cup Leniences(l)
         /\ l[1] \in Queries \ {"RFTORF", "GETSTATUS"} => Sentences(l) = QuerySentences(l)
         /\ l[1] \notin {"PL", "PT"} \cup Radio \cup Queries => Sentences(l) = {}
<1>1. l[1] = "PL" => l[1] \notin Radio \cup Queries
  BY DEF Radio, Queries, Diagnostics, Chatter
<1>2. l[1] = "PT" => l[1] \notin Radio \cup Queries
  BY DEF Radio, Queries, Diagnostics, Chatter
<1>3. l[1] \in Radio => l[1] \notin Queries /\ l[1] \notin {"PL", "PT", "RFTORF", "GETSTATUS"}
  BY DEF Radio, Queries, Diagnostics, Chatter
<1>4. l[1] \in Queries => l[1] \notin Radio /\ l[1] \notin {"PL", "PT", "RFCAM"}
  BY DEF Radio, Queries, Diagnostics, Chatter
<1>5. {"RF", "RFSEC", "RFCAM"} \subseteq Radio /\ {"RFTORF", "GETSTATUS"} \subseteq Queries
  BY DEF Radio, Queries
<1>6. QED
  BY <1>1, <1>2, <1>3, <1>4, <1>5, FirstWord DEF Sentences

(* The words of a line from the k-th on, as next_token() finds them.       *)
From(l, k) == SubSeq(l, k, Len(l))

(* The words from the k-th on: when there are none, which is the first,    *)
(* and which are those after it.                                           *)
LEMMA FromTail ==
  ASSUME NEW l \in Seq(Any), NEW k \in Nat \ {0}
  PROVE  /\ From(l, k) = <<>> <=> Len(l) < k
         /\ Len(l) >= k => Head(From(l, k)) = l[k] /\ Tail(From(l, k)) = From(l, k + 1)
         /\ Rest(From(l, k)) = From(l, k + 1)
<1> DEFINE s == From(l, k)
<1>0. Len(l) \in Nat /\ DOMAIN l = 1 .. Len(l) /\ \A i \in 1 .. Len(l) : l[i] \in Any
  BY ElementOfSeq
<1>1. s \in Seq(Any) /\ Len(s) = IF Len(l) < k THEN 0 ELSE Len(l) - k + 1
  BY <1>0, SubSeqProperties DEF From
<1>2. \A i \in 1 .. Len(s) : s[i] = l[k + i - 1]
  BY DEF From
<1>3. s = <<>> <=> Len(l) < k
  BY <1>0, <1>1
<1>4. CASE Len(l) < k
  <2>1. From(l, k + 1) = <<>>
    BY <1>4 DEF From
  <2>2. QED
    BY <1>3, <1>4, <2>1 DEF Rest
<1>5. CASE Len(l) >= k
  <2>0. s # <<>>
    BY <1>0, <1>3, <1>5
  <2>1. Head(s) = l[k]
    BY <1>1, <1>2, <1>5
  <2>2. Tail(s) = From(l, k + 1)
    <3> DEFINE t == Tail(s)
               u == From(l, k + 1)
    <3>1. t \in Seq(Any) /\ Len(t) = Len(l) - k
      BY <1>1, <1>5
    <3>2. u \in Seq(Any) /\ Len(u) = Len(l) - k
      BY <1>5 DEF From
    <3>3. \A i \in 1 .. Len(t) : t[i] = l[k + i]
      BY <1>1, <1>2, <1>5
    <3>4. \A i \in 1 .. Len(u) : u[i] = l[k + i]
      BY <1>5 DEF From
    <3> HIDE DEF t, u
    <3>5. t = u
      BY <3>1, <3>2, <3>3, <3>4, SeqEqual
    <3>6. QED
      BY <3>5 DEF t, u
  <2> HIDE DEF s
  <2>3. Rest(s) = Tail(s)
    BY <2>0 DEF Rest
  <2>4. QED
    BY <1>0, <1>3, <1>5, <2>1, <2>2, <2>3 DEF s
<1>6. QED
  BY <1>0, <1>4, <1>5

(* Whether the k-th word is one of a set, and the number getparam() takes  *)
(* from it.                                                                *)
LEMMA FromWord ==
  ASSUME NEW l \in Seq(Any), NEW k \in Nat \ {0}
  PROVE  /\ \A S : Is(From(l, k), S) <=> Len(l) >= k /\ l[k] \in S
         /\ \A d : Param(From(l, k), d) = IF Len(l) >= k THEN Value(l[k], d) ELSE d
<1>1. From(l, k) = <<>> <=> Len(l) < k
  BY FromTail
<1>2. Len(l) >= k => Head(From(l, k)) = l[k]
  BY FromTail
<1>3. \A S : Is(From(l, k), S) <=> Len(l) >= k /\ l[k] \in S
  BY <1>1, <1>2 DEF Is
<1>4. QED
  BY <1>2, <1>3 DEF Param, Value

(* The words after the command's name.                                     *)
LEMMA FromFirst ==
  ASSUME NEW l \in Seq(Any), l # <<>>
  PROVE  Tail(l) = From(l, 2) /\ Head(l) = l[1] /\ Len(l) \in Nat /\ Len(l) >= 1
BY DEF From

(* One word after the other, and whether there is none.                    *)
LEMMA FromNext ==
  ASSUME NEW l \in Seq(Any)
  PROVE  /\ Rest(From(l, 2)) = From(l, 3) /\ Rest(From(l, 3)) = From(l, 4)
         /\ Rest(From(l, 4)) = From(l, 5) /\ Rest(From(l, 5)) = From(l, 6)
         /\ Rest(From(l, 6)) = From(l, 7)
<1>1. 2 + 1 = 3 /\ 3 + 1 = 4 /\ 4 + 1 = 5 /\ 5 + 1 = 6 /\ 6 + 1 = 7
  OBVIOUS
<1>2. Rest(From(l, 2)) = From(l, 2 + 1)
  BY FromTail
<1>3. Rest(From(l, 3)) = From(l, 3 + 1)
  BY FromTail
<1>4. Rest(From(l, 4)) = From(l, 4 + 1)
  BY FromTail
<1>5. Rest(From(l, 5)) = From(l, 5 + 1)
  BY FromTail
<1>6. Rest(From(l, 6)) = From(l, 6 + 1)
  BY FromTail
<1>7. QED
  BY <1>1, <1>2, <1>3, <1>4, <1>5, <1>6

(* A line that ends before the k-th word has nothing from there on.        *)
LEMMA FromPast ==
  ASSUME NEW l \in Seq(Any), Len(l) >= 1
  PROVE  /\ ~(Len(l) >= 2) => From(l, 3) = <<>> /\ 1 = Len(l)
         /\ Len(l) >= 2 /\ ~(Len(l) >= 3) => 2 = Len(l)
         /\ Len(l) >= 3 /\ ~(Len(l) >= 4) => From(l, 5) = <<>> /\ From(l, 7) = <<>> /\ 3 = Len(l)
         /\ Len(l) >= 4 /\ ~(Len(l) >= 5) => From(l, 7) = <<>> /\ 4 = Len(l)
         /\ Len(l) >= 5 /\ ~(Len(l) >= 6) => From(l, 7) = <<>> /\ 5 = Len(l)
<1>1. Len(l) \in Nat
  OBVIOUS
<1>2. From(l, 5) = <<>> <=> Len(l) < 5
  BY FromTail
<1>3. From(l, 7) = <<>> <=> Len(l) < 7
  BY FromTail
<1>4. From(l, 3) = <<>> <=> Len(l) < 3
  BY FromTail
<1>5. \A n \in Nat : /\ n >= 1 /\ ~(n >= 2) => n < 3 /\ 1 = n
                     /\ n >= 2 /\ ~(n >= 3) => 2 = n
                     /\ n >= 3 /\ ~(n >= 4) => n < 5 /\ n < 7 /\ 3 = n
                     /\ n >= 4 /\ ~(n >= 5) => n < 7 /\ 4 = n
                     /\ n >= 5 /\ ~(n >= 6) => n < 7 /\ 5 = n
  OBVIOUS
<1>6. QED
  BY <1>1, <1>2, <1>3, <1>4, <1>5

(* Nothing is left after the k-th word when it is the last.                *)
LEMMA FromNone ==
  ASSUME NEW l \in Seq(Any)
  PROVE  /\ Len(l) >= 1 => (From(l, 2) = <<>> <=> 1 = Len(l))
         /\ Len(l) >= 2 => (From(l, 3) = <<>> <=> 2 = Len(l))
         /\ Len(l) >= 3 => (From(l, 4) = <<>> <=> 3 = Len(l))
         /\ Len(l) >= 4 => (From(l, 5) = <<>> <=> 4 = Len(l))
         /\ Len(l) >= 5 => (From(l, 6) = <<>> <=> 5 = Len(l))
         /\ Len(l) >= 6 => (From(l, 7) = <<>> <=> 6 = Len(l))
<1>1. Len(l) \in Nat
  OBVIOUS
<1>2. Len(l) >= 1 => (From(l, 2) = <<>> <=> 1 = Len(l))
  <2>1. From(l, 2) = <<>> <=> Len(l) < 2
    BY FromTail
  <2>2. \A n \in Nat : n >= 1 => (n < 2 <=> 1 = n)
    OBVIOUS
  <2>3. QED
    BY <1>1, <2>1, <2>2
<1>3. Len(l) >= 2 => (From(l, 3) = <<>> <=> 2 = Len(l))
  <2>1. From(l, 3) = <<>> <=> Len(l) < 3
    BY FromTail
  <2>2. \A n \in Nat : n >= 2 => (n < 3 <=> 2 = n)
    OBVIOUS
  <2>3. QED
    BY <1>1, <2>1, <2>2
<1>4. Len(l) >= 3 => (From(l, 4) = <<>> <=> 3 = Len(l))
  <2>1. From(l, 4) = <<>> <=> Len(l) < 4
    BY FromTail
  <2>2. \A n \in Nat : n >= 3 => (n < 4 <=> 3 = n)
    OBVIOUS
  <2>3. QED
    BY <1>1, <2>1, <2>2
<1>5. Len(l) >= 4 => (From(l, 5) = <<>> <=> 4 = Len(l))
  <2>1. From(l, 5) = <<>> <=> Len(l) < 5
    BY FromTail
  <2>2. \A n \in Nat : n >= 4 => (n < 5 <=> 4 = n)
    OBVIOUS
  <2>3. QED
    BY <1>1, <2>1, <2>2
<1>6. Len(l) >= 5 => (From(l, 6) = <<>> <=> 5 = Len(l))
  <2>1. From(l, 6) = <<>> <=> Len(l) < 6
    BY FromTail
  <2>2. \A n \in Nat : n >= 5 => (n < 6 <=> 5 = n)
    OBVIOUS
  <2>3. QED
    BY <1>1, <2>1, <2>2
<1>7. Len(l) >= 6 => (From(l, 7) = <<>> <=> 6 = Len(l))
  <2>1. From(l, 7) = <<>> <=> Len(l) < 7
    BY FromTail
  <2>2. \A n \in Nat : n >= 6 => (n < 7 <=> 6 = n)
    OBVIOUS
  <2>3. QED
    BY <1>1, <2>1, <2>2
<1>8. QED
  BY <1>2, <1>3, <1>4, <1>5, <1>6, <1>7

(* The words that are there are taken one by one.                          *)
LEMMA FromHere ==
  ASSUME NEW l \in Seq(Any)
  PROVE  /\ Len(l) >= 2 => Head(From(l, 2)) = l[2] /\ Tail(From(l, 2)) = From(l, 3)
         /\ Len(l) >= 3 => Head(From(l, 3)) = l[3] /\ Tail(From(l, 3)) = From(l, 4)
<1>1. 2 + 1 = 3 /\ 3 + 1 = 4
  OBVIOUS
<1>2. Len(l) >= 2 => Head(From(l, 2)) = l[2] /\ Tail(From(l, 2)) = From(l, 2 + 1)
  BY FromTail
<1>3. Len(l) >= 3 => Head(From(l, 3)) = l[3] /\ Tail(From(l, 3)) = From(l, 3 + 1)
  BY FromTail
<1>4. QED
  BY <1>1, <1>2, <1>3

(* The addresses of the model: a house, and a unit of it.                  *)
LEMMA Addresses ==
  /\ House = {"A"} /\ Unit = {"A1"} /\ DOMAIN Address = {"A", "A1"}
  /\ Address["A"][2] = -1 /\ Address["A1"][2] = 0
BY DEF House, Unit, Address

(* "rf" sends or lets pass what the radio sentences say.                   *)
LEMMA AgreesRf ==
  ASSUME NEW l \in Seq(Any), l # <<>>, l[1] = "RF"
  PROVE  Agrees(l, rf(Tail(l)))
<1> DEFINE a == Address[l[2]]
           f == l[3]
           sent == f = "DIM" \/ (f = "ON" /\ a[2] >= 0)
           m == IF sent THEN <<<<"send", "rf", a, f>>>> ELSE <<>>
<1>1. Tail(l) = From(l, 2) /\ Len(l) \in Nat /\ Len(l) >= 1
  BY FromFirst
<1>2. Sentences(l) = RadioSentences(l)
  BY Only
<1>3. CASE ~(Len(l) >= 3 /\ l[2] \in DOMAIN Address /\ l[3] \in Function)
  <2>1. ~Is(From(l, 2), DOMAIN Address) \/ ~Is(From(l, 3), Function)
    BY <1>1, <1>3, FromWord
  <2>2. Is(From(l, 2), DOMAIN Address) => Tail(From(l, 2)) = From(l, 3)
    BY <1>1, FromWord, FromHere
  <2>3. rf(Tail(l)) = Refused
    BY <1>1, <2>1, <2>2 DEF rf
  <2>4. RadioSentences(l) = {}
    BY <1>1, <1>3, Addresses DEF RadioSentences, Sentence, Fits, Function
  <2>5. QED
    BY <1>2, <2>3, <2>4 DEF Agrees
<1>4. CASE Len(l) >= 3 /\ l[2] \in DOMAIN Address /\ l[3] \in Function
  <2>1. rf(Tail(l)) = On(m, From(l, 4))
    <3>1. Is(From(l, 2), DOMAIN Address) /\ Is(From(l, 3), Function)
      BY <1>1, <1>4, FromWord
    <3>2. /\ Tail(From(l, 2)) = From(l, 3) /\ Tail(From(l, 3)) = From(l, 4)
          /\ Head(From(l, 2)) = l[2] /\ Head(From(l, 3)) = l[3]
      BY <1>1, <1>4, FromHere
    <3>3. QED
      BY <1>1, <3>1, <3>2 DEF rf
  <2>2. From(l, 4) = <<>> <=> 3 = Len(l)
    BY <1>4, FromNone
  <2>3. \A q : q \in RadioSentences(l) <=> q = Of(3, m)
    BY <1>1, <1>4, Addresses DEF RadioSentences, Sentence, Fits, Of, Function
  <2>4. Says(l, 3, m)
    BY <1>2, <2>3 DEF Says, Of
  <2>5. QED
    BY <2>1, <2>2, <2>4, AgreesOn DEF IgnoresRest, Diagnostics, Chatter
<1>5. QED
  BY <1>3, <1>4

(* The sentences of "pl" are those about a house or those about a unit, by *)
(* the address.                                                            *)
LEMMA OnlyPl ==
  ASSUME NEW l, l[1] = "PL"
  PROVE  /\ l[2] \in House => Sentences(l) = HouseSentences(l)
         /\ l[2] \in Unit => Sentences(l) = UnitSentences(l) \cup ExtendedSentences(l)
         /\ ~(Len(l) >= 2 /\ l[2] \in DOMAIN Address) => Sentences(l) = {}
<1>1. Sentences(l) = HouseSentences(l) \cup UnitSentences(l) \cup ExtendedSentences(l)
  BY Only
<1>2. l[2] \notin House => HouseSentences(l) = {}
  BY DEF HouseSentences, Sentence, Fits
<1>3. l[2] \notin Unit => UnitSentences(l) = {} /\ ExtendedSentences(l) = {}
  BY DEF UnitSentences, ExtendedSentences, Sentence, Fits
<1>4. ~(Len(l) >= 2) => HouseSentences(l) = {} /\ UnitSentences(l) = {} /\ ExtendedSentences(l) = {}
  BY DEF HouseSentences, UnitSentences, ExtendedSentences, Sentence, Fits
<1>5. House \cap Unit = {} /\ House \subseteq DOMAIN Address /\ Unit \subseteq DOMAIN Address
  BY DEF House, Unit
<1>6. QED
  BY <1>1, <1>2, <1>3, <1>4, <1>5

(* "pl" with a house: a function is needed, DIM takes a number or its      *)
(* default.                                                                *)
LEMMA AgreesHouse ==
  ASSUME NEW l \in Seq(Any), Len(l) >= 2, l[1] = "PL", l[2] \in House
  PROVE  Agrees(l, pl_house(Address[l[2]], From(l, 3)))
<1> DEFINE a == Address[l[2]]
           d == HouseFunc(a, "DIM", 1)
<1>1. Sentences(l) = HouseSentences(l)
  BY OnlyPl
<1>2. l[1] \notin IgnoresRest /\ 3 # 2 /\ 4 # 2
  BY DEF IgnoresRest, Diagnostics, Chatter
<1>3. CASE ~(Len(l) >= 3 /\ l[3] \in Function \ {"XDIM"})
  <2>1. pl_house(a, From(l, 3)) = Refused
    <3>1. ~Is(From(l, 3), Function \ {"XDIM"}) /\ ~Is(From(l, 3), {"DIM"})
      BY <1>3, FromWord DEF Function
    <3>2. QED
      BY <3>1 DEF pl_house
  <2>2. HouseSentences(l) = {}
    BY <1>3 DEF HouseSentences, Sentence, Fits, Function
  <2>3. QED
    BY <1>1, <2>1, <2>2 DEF Agrees
<1>4. CASE Len(l) >= 3 /\ l[3] \in Function \ {"DIM", "XDIM"}
  <2> DEFINE m == <<HouseFunc(a, l[3], 0)>>
  <2>1. pl_house(a, From(l, 3)) = On(m, From(l, 4))
    <3>1. Is(From(l, 3), Function \ {"XDIM"}) /\ ~Is(From(l, 3), {"DIM"})
      BY <1>4, FromWord
    <3>2. Head(From(l, 3)) = l[3] /\ Tail(From(l, 3)) = From(l, 4)
      BY <1>4, FromHere
    <3>3. QED
      BY <3>1, <3>2 DEF pl_house
  <2>2. \A q : q \in HouseSentences(l) <=> q = Of(3, m)
    BY <1>4 DEF HouseSentences, Sentence, Fits, Of
  <2>3. Says(l, 3, m)
    BY <1>1, <2>2 DEF Says, Of
  <2>4. From(l, 4) = <<>> <=> 3 = Len(l)
    BY <1>4, FromNone
  <2>5. QED
    BY <1>2, <2>1, <2>3, <2>4, AgreesOn
<1>5. CASE Len(l) >= 3 /\ l[3] = "DIM"
  <2> DEFINE n == Param(From(l, 4), 1)
             m == <<HouseFunc(a, "DIM", n)>>
  <2>1. pl_house(a, From(l, 3)) = On(m, From(l, 5))
    <3>1. Is(From(l, 3), {"DIM"}) /\ Is(From(l, 3), Function \ {"XDIM"})
      BY <1>5, FromWord DEF Function
    <3>2. Tail(From(l, 3)) = From(l, 4) /\ Rest(From(l, 4)) = From(l, 5)
      BY <1>5, FromHere, FromNext
    <3>3. QED
      BY <3>1, <3>2 DEF pl_house
  <2>2. CASE ~(Len(l) >= 4)
    <3>1. n = 1
      BY <2>2, FromWord
    <3>2. \A q : q \in HouseSentences(l) <=> q = Of(3, m)
      BY <1>5, <2>2, <3>1 DEF HouseSentences, Sentence, Fits, Of, Function
    <3>3. Says(l, 3, m)
      BY <1>1, <3>2 DEF Says, Of
    <3>4. From(l, 5) = <<>> /\ 3 = Len(l)
      BY <1>5, <2>2, FromPast
    <3>5. QED
      BY <1>2, <2>1, <3>3, <3>4, AgreesOn
  <2>3. CASE Len(l) >= 4
    <3>1. n = Value(l[4], 1)
      BY <2>3, FromWord
    <3>2. \A q : q \in HouseSentences(l) <=> q = Of(3, <<d>>) \/ q = Of(4, m)
      BY <1>5, <2>3, <3>1 DEF HouseSentences, Sentence, Fits, Of, Function, Any
    <3>3. Says(l, 4, m)
      BY <1>1, <3>2 DEF Says, Of
    <3>4. From(l, 5) = <<>> <=> 4 = Len(l)
      BY <2>3, FromNone
    <3>5. QED
      BY <1>2, <2>1, <3>3, <3>4, AgreesOn
  <2>4. QED
    BY <2>2, <2>3
<1>6. QED
  BY <1>3, <1>4, <1>5

(* The sentences about a unit, told by the function.                       *)
SaysOfUnit(l, q) ==
  LET a == Address[l[2]] IN
  \/ q = Of(2, <<HouseUnit(a)>>)
  \/ /\ Len(l) >= 3 /\ l[3] \in {"ON", "ALL_UNITS_OFF"}
     /\ q = Of(3, <<HouseUnit(a), HouseFunc(a, l[3], 0)>>)
  \/ /\ Len(l) >= 3 /\ l[3] = "DIM"
     /\ \/ q = Of(3, <<HouseUnit(a), HouseFunc(a, "DIM", 1)>>)
        \/ Len(l) >= 4 /\ q = Of(4, <<HouseUnit(a), HouseFunc(a, "DIM", Value(l[4], 1))>>)
  \/ /\ Len(l) >= 3 /\ l[3] = "XDIM"
     /\ \/ q = Of(3, <<Extended(a, 3, 1, 1)>>)
        \/ Len(l) >= 4 /\ q = Of(4, <<Extended(a, 3, 1, Value(l[4], 1))>>)

(* They are all the sentences of a unit but those of the extended code.    *)
LEMMA UnitHas ==
  ASSUME NEW l \in Seq(Any), Len(l) >= 2, l[1] = "PL", l[2] \in Unit
  PROVE  \A q : q \in UnitSentences(l) <=> SaysOfUnit(l, q)
<1> DEFINE a == Address[l[2]]
           s1 == Sentence(l, <<{"PL"}, Unit>>, <<HouseUnit(a)>>)
           s2 == Sentence(l, <<{"PL"}, Unit, {"ON", "ALL_UNITS_OFF"}>>,
                                 <<HouseUnit(a), HouseFunc(a, l[3], 0)>>)
           s3 == Sentence(l, <<{"PL"}, Unit, {"DIM"}>>,
                                 <<HouseUnit(a), HouseFunc(a, "DIM", 1)>>)
           s4 == Sentence(l, <<{"PL"}, Unit, {"DIM"}, Any>>,
                                 <<HouseUnit(a), HouseFunc(a, "DIM", Value(l[4], 1))>>)
           s5 == Sentence(l, <<{"PL"}, Unit, {"XDIM"}>>,      <<Extended(a, 3, 1, 1)>>)
           s6 == Sentence(l, <<{"PL"}, Unit, {"XDIM"}, Any>>,
                                 <<Extended(a, 3, 1, Value(l[4], 1))>>)
<1>1. \A q : q \in s1 <=> q = Of(2, <<HouseUnit(a)>>)
  BY DEF Sentence, Fits, Of
<1>2. \A q : q \in s2 <=>
        /\ Len(l) >= 3 /\ l[3] \in {"ON", "ALL_UNITS_OFF"}
        /\ q = Of(3, <<HouseUnit(a), HouseFunc(a, l[3], 0)>>)
  BY DEF Sentence, Fits, Of
<1>3. \A q : q \in s3 <=>
        /\ Len(l) >= 3 /\ l[3] = "DIM"
        /\ q = Of(3, <<HouseUnit(a), HouseFunc(a, "DIM", 1)>>)
  BY DEF Sentence, Fits, Of
<1>4. \A q : q \in s4 <=>
        /\ Len(l) >= 4 /\ l[3] = "DIM"
        /\ q = Of(4, <<HouseUnit(a), HouseFunc(a, "DIM", Value(l[4], 1))>>)
  BY DEF Sentence, Fits, Of, Any
<1>5. \A q : q \in s5 <=> Len(l) >= 3 /\ l[3] = "XDIM" /\ q = Of(3, <<Extended(a, 3, 1, 1)>>)
  BY DEF Sentence, Fits, Of
<1>6. \A q : q \in s6 <=>
        /\ Len(l) >= 4 /\ l[3] = "XDIM"
        /\ q = Of(4, <<Extended(a, 3, 1, Value(l[4], 1))>>)
  BY DEF Sentence, Fits, Of, Any
<1>7. UnitSentences(l) = UNION {s1, s2, s3, s4, s5, s6}
  BY DEF UnitSentences
<1>8. \A q : q \in UnitSentences(l) <=>
                q \in s1 \/ q \in s2 \/ q \in s3 \/ q \in s4 \/ q \in s5 \/ q \in s6
  <2> HIDE DEF s1, s2, s3, s4, s5, s6
  <2>1. QED
    BY <1>7
<1> HIDE DEF s1, s2, s3, s4, s5, s6
<1>9. Len(l) \in Nat
  OBVIOUS
<1>10. Len(l) >= 4 => Len(l) >= 3
  BY <1>9
<1>11. ASSUME NEW q
       PROVE  q \in UnitSentences(l) <=> SaysOfUnit(l, q)
  <2>1. q \in UnitSentences(l) <=>
          q \in s1 \/ q \in s2 \/ q \in s3 \/ q \in s4 \/ q \in s5 \/ q \in s6
    BY <1>8
  <2>2. QED
    BY <1>1, <1>2, <1>3, <1>4, <1>5, <1>6, <1>10, <2>1, Zenon DEF SaysOfUnit
<1>12. QED
  BY <1>11

(* No other function has an extended sentence.                             *)
LEMMA NoExtended ==
  ASSUME NEW l \in Seq(Any), ~(Len(l) >= 3 /\ l[3] = "EXTENDED_CODE_1")
  PROVE  ExtendedSentences(l) = {}
<1>1. CASE ~(Len(l) >= 3)
  BY <1>1 DEF ExtendedSentences, Sentence, Fits
<1>2. CASE l[3] # "EXTENDED_CODE_1"
  <2>1. \A m : Sentence(l, <<{"PL"}, Unit, {"EXTENDED_CODE_1"}>>, m) = {}
    BY <1>2 DEF Sentence, Fits
  <2>2. \A m : Sentence(l, <<{"PL"}, Unit, {"EXTENDED_CODE_1"}, Any>>, m) = {}
    BY <1>2 DEF Sentence, Fits
  <2>3. \A m : Sentence(l, <<{"PL"}, Unit, {"EXTENDED_CODE_1"}, Any, Any>>, m) = {}
    BY <1>2 DEF Sentence, Fits
  <2>4. \A m : Sentence(l, <<{"PL"}, Unit, {"EXTENDED_CODE_1"}, Any, Any, Any>>, m) = {}
    BY <1>2 DEF Sentence, Fits
  <2>5. QED
    BY <2>1, <2>2, <2>3, <2>4 DEF ExtendedSentences
<1>3. QED
  BY <1>1, <1>2

(* "pl" with a unit: the address alone is sent and refused; the functions  *)
(* take up to three numbers, each with its default.                        *)
LEMMA AgreesUnit ==
  ASSUME NEW l \in Seq(Any), Len(l) >= 2, l[1] = "PL", l[2] \in Unit
  PROVE  Agrees(l, pl_unit(Address[l[2]], From(l, 3)))
<1> DEFINE a == Address[l[2]]
           h == <<HouseUnit(a)>>
<1>1. Sentences(l) = UnitSentences(l) \cup ExtendedSentences(l)
  BY OnlyPl
<1>2. l[1] \notin IgnoresRest /\ 3 # 2 /\ 4 # 2 /\ 5 # 2 /\ 6 # 2
  BY DEF IgnoresRest, Diagnostics, Chatter
<1>3. \A S : Is(From(l, 3), S) <=> Len(l) >= 3 /\ l[3] \in S
  BY FromWord
<1>4. \A q : q \in UnitSentences(l) <=> SaysOfUnit(l, q)
  BY UnitHas
<1>5. CASE ~(Len(l) >= 3 /\ l[3] \in Function)
  <2>1. pl_unit(a, From(l, 3)) = Returns(h, "-1")
    BY <1>3, <1>5 DEF pl_unit, Function
  <2>2. ExtendedSentences(l) = {}
    BY <1>5, NoExtended DEF Function
  <2>3. \A q : q \in UnitSentences(l) <=> q = Of(2, h)
    BY <1>5, <1>4 DEF Function, SaysOfUnit
  <2>4. Says(l, 2, h)
    BY <1>1, <2>2, <2>3 DEF Says, Of
  <2>5. QED
    BY <2>1, <2>4, AgreesReturns
<1>6. CASE Len(l) >= 3 /\ l[3] \in {"ON", "ALL_UNITS_OFF"}
  <2> DEFINE m == <<HouseUnit(a), HouseFunc(a, l[3], 0)>>
  <2>1. pl_unit(a, From(l, 3)) = On(m, From(l, 4))
    <3>1. Head(From(l, 3)) = l[3] /\ Tail(From(l, 3)) = From(l, 4)
      BY <1>6, FromHere
    <3>2. /\ Is(From(l, 3), Function)
          /\ ~Is(From(l, 3), {"XDIM"}) /\ ~Is(From(l, 3), {"DIM"})
          /\ ~Is(From(l, 3), {"EXTENDED_CODE_1"})
      BY <1>3, <1>6 DEF Function
    <3>3. QED
      BY <3>1, <3>2 DEF pl_unit
  <2>2. ExtendedSentences(l) = {}
    BY <1>6, NoExtended
  <2>3. \A q : q \in UnitSentences(l) <=> q = Of(2, h) \/ q = Of(3, m)
    BY <1>6, <1>4 DEF SaysOfUnit
  <2>4. Says(l, 3, m)
    BY <1>1, <2>2, <2>3 DEF Says, Of
  <2>5. From(l, 4) = <<>> <=> 3 = Len(l)
    BY <1>6, FromNone
  <2>6. QED
    BY <1>2, <2>1, <2>4, <2>5, AgreesOn
<1>7. CASE Len(l) >= 3 /\ l[3] = "DIM"
  <2> DEFINE n == Param(From(l, 4), 1)
             m == <<HouseUnit(a), HouseFunc(a, "DIM", n)>>
             d == <<HouseUnit(a), HouseFunc(a, "DIM", 1)>>
  <2>1. pl_unit(a, From(l, 3)) = On(m, From(l, 5))
    <3>1. Tail(From(l, 3)) = From(l, 4) /\ Rest(From(l, 4)) = From(l, 5)
      BY <1>7, FromHere, FromNext
    <3>2. /\ Is(From(l, 3), Function)
          /\ ~Is(From(l, 3), {"XDIM"}) /\ Is(From(l, 3), {"DIM"})
          /\ ~Is(From(l, 3), {"EXTENDED_CODE_1"})
      BY <1>3, <1>7 DEF Function
    <3>3. QED
      BY <3>1, <3>2 DEF pl_unit
  <2>2. ExtendedSentences(l) = {}
    BY <1>7, NoExtended
  <2>3. CASE ~(Len(l) >= 4)
    <3>1. n = 1
      BY <2>3, FromWord
    <3>2. \A q : q \in UnitSentences(l) <=> q = Of(2, h) \/ q = Of(3, m)
      BY <1>7, <2>3, <3>1, <1>4 DEF SaysOfUnit
    <3>3. Says(l, 3, m)
      BY <1>1, <2>2, <3>2 DEF Says, Of
    <3>4. From(l, 5) = <<>> /\ 3 = Len(l)
      BY <1>7, <2>3, FromPast
    <3>5. QED
      BY <1>2, <2>1, <3>3, <3>4, AgreesOn
  <2>4. CASE Len(l) >= 4
    <3>1. n = Value(l[4], 1)
      BY <2>4, FromWord
    <3>2. \A q : q \in UnitSentences(l) <=> q = Of(2, h) \/ q = Of(3, d) \/ q = Of(4, m)
      BY <1>7, <2>4, <3>1, <1>4 DEF SaysOfUnit
    <3>3. Says(l, 4, m)
      BY <1>1, <2>2, <3>2 DEF Says, Of
    <3>4. From(l, 5) = <<>> <=> 4 = Len(l)
      BY <2>4, FromNone
    <3>5. QED
      BY <1>2, <2>1, <3>3, <3>4, AgreesOn
  <2>5. QED
    BY <2>3, <2>4
<1>8. CASE Len(l) >= 3 /\ l[3] = "XDIM"
  <2> DEFINE n == Param(From(l, 4), 1)
             m == <<Extended(a, 3, 1, n)>>
             d == <<Extended(a, 3, 1, 1)>>
  <2>1. pl_unit(a, From(l, 3)) = On(m, From(l, 5))
    <3>1. Tail(From(l, 3)) = From(l, 4) /\ Rest(From(l, 4)) = From(l, 5)
      BY <1>8, FromHere, FromNext
    <3>2. /\ Is(From(l, 3), Function)
          /\ Is(From(l, 3), {"XDIM"}) /\ ~Is(From(l, 3), {"DIM"})
          /\ ~Is(From(l, 3), {"EXTENDED_CODE_1"})
      BY <1>3, <1>8 DEF Function
    <3>3. QED
      BY <3>1, <3>2 DEF pl_unit
  <2>2. ExtendedSentences(l) = {}
    BY <1>8, NoExtended
  <2>3. CASE ~(Len(l) >= 4)
    <3>1. n = 1
      BY <2>3, FromWord
    <3>2. \A q : q \in UnitSentences(l) <=> q = Of(2, h) \/ q = Of(3, m)
      BY <1>8, <2>3, <3>1, <1>4 DEF SaysOfUnit
    <3>3. Says(l, 3, m)
      BY <1>1, <2>2, <3>2 DEF Says, Of
    <3>4. From(l, 5) = <<>> /\ 3 = Len(l)
      BY <1>8, <2>3, FromPast
    <3>5. QED
      BY <1>2, <2>1, <3>3, <3>4, AgreesOn
  <2>4. CASE Len(l) >= 4
    <3>1. n = Value(l[4], 1)
      BY <2>4, FromWord
    <3>2. \A q : q \in UnitSentences(l) <=> q = Of(2, h) \/ q = Of(3, d) \/ q = Of(4, m)
      BY <1>8, <2>4, <3>1, <1>4 DEF SaysOfUnit
    <3>3. Says(l, 4, m)
      BY <1>1, <2>2, <3>2 DEF Says, Of
    <3>4. From(l, 5) = <<>> <=> 4 = Len(l)
      BY <2>4, FromNone
    <3>5. QED
      BY <1>2, <2>1, <3>3, <3>4, AgreesOn
  <2>5. QED
    BY <2>3, <2>4
<1>9. CASE Len(l) >= 3 /\ l[3] = "EXTENDED_CODE_1"
  <2> DEFINE c == Param(From(l, 4), 0)
             x == Param(From(l, 5), 0)
             y == Param(From(l, 6), 0)
             m == <<Extended(a, c, x, y)>>
  <2>1. pl_unit(a, From(l, 3)) = On(m, From(l, 7))
    <3>1. /\ Tail(From(l, 3)) = From(l, 4) /\ Rest(From(l, 4)) = From(l, 5)
          /\ Rest(From(l, 5)) = From(l, 6) /\ Rest(From(l, 6)) = From(l, 7)
      BY <1>9, FromHere, FromNext
    <3>2. /\ Is(From(l, 3), Function)
          /\ ~Is(From(l, 3), {"XDIM"}) /\ ~Is(From(l, 3), {"DIM"})
          /\ Is(From(l, 3), {"EXTENDED_CODE_1"})
      BY <1>3, <1>9 DEF Function
    <3>3. QED
      BY <3>1, <3>2 DEF pl_unit
  <2>2. \A q : q \in UnitSentences(l) <=> q = Of(2, h)
    BY <1>9, <1>4 DEF SaysOfUnit
  <2>3. CASE ~(Len(l) >= 4)
    <3>0. Len(l) \in Nat
      OBVIOUS
    <3>1. c = 0
      BY <1>9, <2>3, <3>0, FromWord
    <3>2. x = 0
      BY <1>9, <2>3, <3>0, FromWord
    <3>3. y = 0
      BY <1>9, <2>3, <3>0, FromWord
    <3>4. \A q : q \in ExtendedSentences(l) <=>
                q = Of(3, m)
      BY <1>9, <2>3, <3>0, <3>1, <3>2, <3>3 DEF ExtendedSentences, Sentence, Fits, Of, Any
    <3>5. Says(l, 3, m)
      BY <1>1, <2>2, <3>4 DEF Says, Of
    <3>6. From(l, 7) = <<>> <=> 3 = Len(l)
      BY <1>9, <2>3, FromPast
    <3>7. QED
      BY <1>2, <2>1, <3>5, <3>6, AgreesOn
  <2>4. CASE Len(l) >= 4 /\ ~(Len(l) >= 5)
    <3>0. Len(l) \in Nat
      OBVIOUS
    <3>1. c = Value(l[4], 0)
      BY <1>9, <2>4, <3>0, FromWord
    <3>2. x = 0
      BY <1>9, <2>4, <3>0, FromWord
    <3>3. y = 0
      BY <1>9, <2>4, <3>0, FromWord
    <3>4. \A q : q \in ExtendedSentences(l) <=>
                \/ q = Of(3, <<Extended(a, 0, 0, 0)>>)
                \/ q = Of(4, m)
      BY <1>9, <2>4, <3>0, <3>1, <3>2, <3>3 DEF ExtendedSentences, Sentence, Fits, Of, Any
    <3>5. Says(l, 4, m)
      BY <1>1, <2>2, <3>4 DEF Says, Of
    <3>6. From(l, 7) = <<>> <=> 4 = Len(l)
      BY <1>9, <2>4, FromPast
    <3>7. QED
      BY <1>2, <2>1, <3>5, <3>6, AgreesOn
  <2>5. CASE Len(l) >= 5 /\ ~(Len(l) >= 6)
    <3>0. Len(l) \in Nat
      OBVIOUS
    <3>1. c = Value(l[4], 0)
      BY <1>9, <2>5, <3>0, FromWord
    <3>2. x = Value(l[5], 0)
      BY <1>9, <2>5, <3>0, FromWord
    <3>3. y = 0
      BY <1>9, <2>5, <3>0, FromWord
    <3>4. \A q : q \in ExtendedSentences(l) <=>
                \/ q = Of(3, <<Extended(a, 0, 0, 0)>>)
                \/ q = Of(4, <<Extended(a, c, 0, 0)>>)
                \/ q = Of(5, m)
      BY <1>9, <2>5, <3>0, <3>1, <3>2, <3>3 DEF ExtendedSentences, Sentence, Fits, Of, Any
    <3>5. Says(l, 5, m)
      BY <1>1, <2>2, <3>4 DEF Says, Of
    <3>6. From(l, 7) = <<>> <=> 5 = Len(l)
      BY <1>9, <2>5, FromPast
    <3>7. QED
      BY <1>2, <2>1, <3>5, <3>6, AgreesOn
  <2>6. CASE Len(l) >= 6
    <3>0. Len(l) \in Nat
      OBVIOUS
    <3>1. c = Value(l[4], 0)
      BY <1>9, <2>6, <3>0, FromWord
    <3>2. x = Value(l[5], 0)
      BY <1>9, <2>6, <3>0, FromWord
    <3>3. y = Value(l[6], 0)
      BY <1>9, <2>6, <3>0, FromWord
    <3>4. \A q : q \in ExtendedSentences(l) <=>
                \/ q = Of(3, <<Extended(a, 0, 0, 0)>>)
                \/ q = Of(4, <<Extended(a, c, 0, 0)>>)
                \/ q = Of(5, <<Extended(a, c, x, 0)>>)
                \/ q = Of(6, m)
      BY <1>9, <2>6, <3>0, <3>1, <3>2, <3>3 DEF ExtendedSentences, Sentence, Fits, Of, Any
    <3>5. Says(l, 6, m)
      BY <1>1, <2>2, <3>4 DEF Says, Of
    <3>6. From(l, 7) = <<>> <=> 6 = Len(l)
      BY <1>9, <2>6, FromNone
    <3>7. QED
      BY <1>2, <2>1, <3>5, <3>6, AgreesOn
  <2>7. QED
    BY <1>9, <2>3, <2>4, <2>5, <2>6
<1>10. QED
  BY <1>5, <1>6, <1>7, <1>8, <1>9 DEF Function

(* "pl" with any address, or none.                                         *)
LEMMA AgreesPl ==
  ASSUME NEW l \in Seq(Any), l # <<>>, l[1] = "PL"
  PROVE  Agrees(l, pl(Tail(l)))
<1>1. Tail(l) = From(l, 2)
  BY FromFirst
<1>2. CASE ~(Len(l) >= 2 /\ l[2] \in DOMAIN Address)
  <2>1. ~Is(From(l, 2), DOMAIN Address)
    BY <1>2, FromWord
  <2>2. pl(Tail(l)) = Refused
    BY <1>1, <2>1 DEF pl
  <2>3. Sentences(l) = {}
    BY <1>2, OnlyPl
  <2>4. QED
    BY <2>2, <2>3 DEF Agrees
<1>3. CASE Len(l) >= 2 /\ l[2] \in DOMAIN Address
  <2>1. Is(From(l, 2), DOMAIN Address)
    BY <1>3, FromWord
  <2>2. Head(From(l, 2)) = l[2] /\ Tail(From(l, 2)) = From(l, 3)
    BY <1>3, FromHere
  <2>3. CASE l[2] \in House
    <3>1. Address[l[2]][2] < 0
      BY <2>3 DEF House
    <3>2. pl(Tail(l)) = pl_house(Address[l[2]], From(l, 3))
      BY <1>1, <2>1, <2>2, <3>1 DEF pl
    <3>3. QED
      BY <1>3, <2>3, <3>2, AgreesHouse
  <2>4. CASE l[2] \in Unit
    <3>1. ~(Address[l[2]][2] < 0)
      BY <2>4 DEF House, Unit
    <3>2. pl(Tail(l)) = pl_unit(Address[l[2]], From(l, 3))
      BY <1>1, <2>1, <2>2, <3>1 DEF pl
    <3>3. QED
      BY <1>3, <2>4, <3>2, AgreesUnit
  <2>5. QED
    BY <1>3, <2>3, <2>4 DEF Unit
<1>4. QED
  BY <1>2, <1>3

(* "rfsec": the keys are those of the address, short or long.              *)
LEMMA AgreesRfsec ==
  ASSUME NEW l \in Seq(Any), l # <<>>, l[1] = "RFSEC"
  PROVE  Agrees(l, rfsec(Tail(l)))
<1> DEFINE m == <<<<"send", "rfsec", l[2], l[3]>>>>
<1>1. Tail(l) = From(l, 2)
  BY FromFirst
<1>2. Sentences(l) = RadioSentences(l)
  BY Only
<1>3. CASE ~(Len(l) >= 3 /\ l[2] \in RfAddress /\ l[3] \in Keys(l[2]))
  <2>1. ~Is(From(l, 2), RfAddress) \/ ~Is(From(l, 3), Keys(l[2]))
    BY <1>3, FromWord
  <2>2. Is(From(l, 2), RfAddress) => Head(From(l, 2)) = l[2] /\ Tail(From(l, 2)) = From(l, 3)
    BY FromWord, FromHere
  <2>3. rfsec(Tail(l)) = Refused
    BY <1>1, <2>1, <2>2 DEF rfsec
  <2>4. RadioSentences(l) = {}
    BY <1>3 DEF RadioSentences, Sentence, Fits, RfAddress, Keys
  <2>5. QED
    BY <1>2, <2>3, <2>4 DEF Agrees
<1>4. CASE Len(l) >= 3 /\ l[2] \in RfAddress /\ l[3] \in Keys(l[2])
  <2>1. rfsec(Tail(l)) = On(m, From(l, 4))
    <3>1. /\ Head(From(l, 2)) = l[2] /\ Head(From(l, 3)) = l[3]
          /\ Tail(From(l, 2)) = From(l, 3) /\ Tail(From(l, 3)) = From(l, 4)
      BY <1>4, FromHere
    <3>2. Is(From(l, 2), RfAddress) /\ Is(From(l, 3), Keys(l[2]))
      BY <1>4, FromWord
    <3>3. QED
      BY <1>1, <3>1, <3>2 DEF rfsec
  <2>2. From(l, 4) = <<>> <=> 3 = Len(l)
    BY <1>4, FromNone
  <2>3. \A q : q \in RadioSentences(l) <=> q = Of(3, m)
    BY <1>4 DEF RadioSentences, Sentence, Fits, Of, RfAddress, Keys
  <2>4. Says(l, 3, m)
    BY <1>2, <2>3 DEF Says, Of
  <2>5. QED
    BY <2>1, <2>2, <2>4, AgreesOn DEF IgnoresRest, Diagnostics, Chatter
<1>5. QED
  BY <1>3, <1>4

(* "rfcam": any word is taken for a key, and an unknown one answered.      *)
LEMMA AgreesRfcam ==
  ASSUME NEW l \in Seq(Any), l # <<>>, l[1] = "RFCAM"
  PROVE  Agrees(l, rfcam(Tail(l)))
<1> DEFINE m == IF l[3] \in CamKeys THEN <<<<"send", "rfcam", Address[l[2]][1], l[3]>>>>
                                    ELSE <<<<"reply", "invalid">>>>
<1>1. Tail(l) = From(l, 2)
  BY FromFirst
<1>2. Sentences(l) = RadioSentences(l) \cup Leniences(l)
  BY Only
<1>3. CASE ~(Len(l) >= 3 /\ l[2] \in DOMAIN Address)
  <2>0. From(l, 3) = <<>> <=> Len(l) < 3
    BY FromTail
  <2>1. ~Is(From(l, 2), DOMAIN Address) \/ From(l, 3) = <<>>
    BY <1>3, <2>0, FromWord
  <2>2. Is(From(l, 2), DOMAIN Address) => Tail(From(l, 2)) = From(l, 3)
    BY FromWord, FromHere
  <2>3. rfcam(Tail(l)) = Refused
    BY <1>1, <2>1, <2>2 DEF rfcam
  <2>4. RadioSentences(l) = {} /\ Leniences(l) = {}
    BY <1>3 DEF RadioSentences, Leniences, Sentence, Fits
  <2>5. QED
    BY <1>2, <2>3, <2>4 DEF Agrees
<1>4. CASE Len(l) >= 3 /\ l[2] \in DOMAIN Address
  <2>1. rfcam(Tail(l)) = On(m, From(l, 4))
    <3>1. /\ Head(From(l, 2)) = l[2] /\ Head(From(l, 3)) = l[3]
          /\ Tail(From(l, 2)) = From(l, 3) /\ Tail(From(l, 3)) = From(l, 4)
      BY <1>4, FromHere
    <3>2. Is(From(l, 2), DOMAIN Address) /\ (Is(From(l, 3), CamKeys) <=> l[3] \in CamKeys)
      BY <1>4, FromWord
    <3>3. From(l, 3) = <<>> <=> Len(l) < 3
      BY FromTail
    <3>4. From(l, 3) # <<>>
      BY <1>4, <3>3
    <3>5. QED
      BY <1>1, <3>1, <3>2, <3>4 DEF rfcam
  <2>2. From(l, 4) = <<>> <=> 3 = Len(l)
    BY <1>4, FromNone
  <2>3. \A q : q \in RadioSentences(l) \cup Leniences(l) <=> q = Of(3, m)
    BY <1>4 DEF RadioSentences, Leniences, Sentence, Fits, Of, Any
  <2>4. Says(l, 3, m)
    BY <1>2, <2>3 DEF Says, Of
  <2>5. QED
    BY <2>1, <2>2, <2>4, AgreesOn DEF IgnoresRest, Diagnostics, Chatter
<1>5. QED
  BY <1>3, <1>4

(* "pt": every word that follows is a byte of the packet.                  *)
LEMMA AgreesPt ==
  ASSUME NEW l \in Seq(Any), l # <<>>, l[1] = "PT"
  PROVE  Agrees(l, pt(Tail(l)))
<1> DEFINE t == Tail(l)
<1>1. Sentences(l) = Alone(l) /\ l # <<"RFTORF">>
  BY Only
<1>2. t \in Seq(Any) /\ Len(l) \in Nat /\ Len(t) = Len(l) - 1 /\ DOMAIN t = 1 .. Len(l) - 1
  OBVIOUS
<1>3. \A i \in 1 .. Len(l) - 1 : t[i] = l[i + 1]
  OBVIOUS
<1>4. t = <<>> <=> Len(l) < 2
  <2>1. t = From(l, 2)
    BY FromFirst
  <2>2. From(l, 2) = <<>> <=> Len(l) < 2
    BY FromTail
  <2>3. QED
    BY <2>1, <2>2
<1>5. (\E i \in DOMAIN t : t[i] \notin DOMAIN Hex \/ Hex[t[i]] > 255) <=>
      ~(\A i \in 2 .. Len(l) : l[i] \in Byte)
  <2>1. \A w : w \in Byte <=> ~(w \notin DOMAIN Hex \/ Hex[w] > 255)
    BY DEF Byte, Hex
  <2>2. (\A i \in 2 .. Len(l) : l[i] \in Byte) <=> \A i \in 1 .. Len(l) - 1 : l[i + 1] \in Byte
    <3>1. ASSUME \A i \in 1 .. Len(l) - 1 : l[i + 1] \in Byte, NEW i \in 2 .. Len(l)
          PROVE  l[i] \in Byte
      <4>1. i - 1 \in 1 .. Len(l) - 1 /\ (i - 1) + 1 = i
        BY <1>2
      <4>2. QED
        BY <3>1, <4>1
    <3>2. \A i \in 1 .. Len(l) - 1 : i + 1 \in 2 .. Len(l)
      BY <1>2
    <3>3. QED
      BY <3>1, <3>2
  <2>3. QED
    BY <1>2, <1>3, <2>1, <2>2
<1>6. CASE ~IsPt(l)
  <2>1. pt(t) = Refused
    BY <1>2, <1>4, <1>5, <1>6, CommandAssumption DEF pt, IsPt
  <2>2. Alone(l) = {}
    BY <1>1, <1>6 DEF Alone
  <2>3. QED
    BY <1>1, <2>1, <2>2 DEF Agrees
<1>7. CASE IsPt(l)
  <2>1. pt(t) = On(Pt(l), <<>>)
    <3>1. [i \in DOMAIN t |-> Hex[t[i]]] = [i \in 1 .. Len(l) - 1 |-> Hex[l[i + 1]]]
      BY <1>2, <1>3
    <3>2. ~(t = <<>> \/ Len(t) > MaxBytes \/ \E i \in DOMAIN t : t[i] \notin DOMAIN Hex \/ Hex[t[i]] > 255)
      BY <1>2, <1>4, <1>5, <1>7, CommandAssumption DEF IsPt
    <3>3. QED
      BY <3>1, <3>2 DEF pt, Pt
  <2>2. Alone(l) = {Of(Len(l), Pt(l))}
    BY <1>1, <1>7 DEF Alone, Of
  <2>3. Says(l, Len(l), Pt(l))
    BY <1>1, <1>2, <2>2 DEF Says, Of
  <2>4. QED
    BY <2>1, <2>3, AgreesOn DEF IgnoresRest, Diagnostics, Chatter
<1>8. QED
  BY <1>6, <1>7

(* The sentences that set, ask and answer, told by the first word.         *)
SaysOfQuery(l, q) ==
  \/ l[1] = "RFTOPL" /\ q = Of(1, <<<<"set", "RfToPl", "none">>, <<"reply", "RfToPl">>>>)
  \/ /\ l[1] = "RFTOPL" /\ Len(l) >= 2
     /\ q = Of(2, <<<<"set", "RfToPl", l[2]>>, <<"reply", "RfToPl">>>>)
  \/ /\ l[1] = "RFTORF" /\ Len(l) >= 2 /\ l[2] \in DOMAIN Decimal
     /\ q = Of(2, <<<<"set", "RfToRf", Decimal[l[2]]>>, <<"reply", "RfToRf">>>>)
  \/ l[1] = "ST" /\ q = Of(1, <<<<"reply", "tables">>>>)
  \/ l[1] = "ST" /\ Len(l) >= 2 /\ l[2] = "0" /\ q = Of(2, <<<<"set", "tables", "empty">>>>)
  \/ l[1] = "ST" /\ Len(l) >= 2 /\ l[2] # "0" /\ q = Of(2, <<<<"reply", "tables">>>>)
  \/ /\ l[1] = "GETSTATUS" /\ Len(l) >= 2 /\ l[2] \in Unit
     /\ q = Of(2, <<<<"reply", "status", l[2]>>>>)
  \/ /\ l[1] = "GETSTATUS" /\ Len(l) >= 3 /\ l[2] \in Unit /\ l[3] = "XDIM"
     /\ q = Of(3, <<<<"reply", "xdim", l[2]>>>>)
  \/ /\ l[1] = "GETSTATUSSEC" /\ Len(l) >= 2 /\ l[2] \in RfAddress
     /\ q = Of(2, <<<<"reply", "status", l[2]>>>>)
  \/ l[1] = "HEX" /\ Len(l) >= 2 /\ q = Of(2, <<<<"reply", "hex", l[2]>>>>)
  \/ l[1] \in Diagnostics \cup Chatter /\ q = Of(1, <<<<"reply", l[1]>>>>)

(* They are all the query sentences.                                       *)
LEMMA QueryHas ==
  ASSUME NEW l \in Seq(Any), Len(l) >= 1
  PROVE  \A q : q \in QuerySentences(l) <=> SaysOfQuery(l, q)
<1> DEFINE s1 == Sentence(l, <<{"RFTOPL"}>>, <<<<"set", "RfToPl", "none">>, <<"reply", "RfToPl">>>>)
           s2 == Sentence(l, <<{"RFTOPL"}, Any>>,
                                 <<<<"set", "RfToPl", l[2]>>, <<"reply", "RfToPl">>>>)
           s3 == Sentence(l, <<{"RFTORF"}, DOMAIN Decimal>>,
                                 <<<<"set", "RfToRf", Decimal[l[2]]>>, <<"reply", "RfToRf">>>>)
           s4 == Sentence(l, <<{"ST"}>>, <<<<"reply", "tables">>>>)
           s5 == Sentence(l, <<{"ST"}, {"0"}>>, <<<<"set", "tables", "empty">>>>)
           s6 == Sentence(l, <<{"ST"}, Any \ {"0"}>>, <<<<"reply", "tables">>>>)
           s7 == Sentence(l, <<{"GETSTATUS"}, Unit>>, <<<<"reply", "status", l[2]>>>>)
           s8 == Sentence(l, <<{"GETSTATUS"}, Unit, {"XDIM"}>>, <<<<"reply", "xdim", l[2]>>>>)
           s9 == Sentence(l, <<{"GETSTATUSSEC"}, RfAddress>>, <<<<"reply", "status", l[2]>>>>)
           s10 == Sentence(l, <<{"HEX"}, Any>>, <<<<"reply", "hex", l[2]>>>>)
           s11 == Sentence(l, <<Diagnostics \cup Chatter>>, <<<<"reply", l[1]>>>>)
<1>1. \A q : q \in s1 <=>
        /\ l[1] = "RFTOPL"
        /\ q = Of(1, <<<<"set", "RfToPl", "none">>, <<"reply", "RfToPl">>>>)
  BY DEF Sentence, Fits, Of
<1>2. \A q : q \in s2 <=>
        /\ l[1] = "RFTOPL" /\ Len(l) >= 2
        /\ q = Of(2, <<<<"set", "RfToPl", l[2]>>, <<"reply", "RfToPl">>>>)
  BY DEF Sentence, Fits, Of, Any
<1>3. \A q : q \in s3 <=>
        /\ l[1] = "RFTORF" /\ Len(l) >= 2 /\ l[2] \in DOMAIN Decimal
        /\ q = Of(2, <<<<"set", "RfToRf", Decimal[l[2]]>>, <<"reply", "RfToRf">>>>)
  BY DEF Sentence, Fits, Of
<1>4. \A q : q \in s4 <=> l[1] = "ST" /\ q = Of(1, <<<<"reply", "tables">>>>)
  BY DEF Sentence, Fits, Of
<1>5. \A q : q \in s5 <=>
        /\ l[1] = "ST" /\ Len(l) >= 2 /\ l[2] = "0"
        /\ q = Of(2, <<<<"set", "tables", "empty">>>>)
  BY DEF Sentence, Fits, Of
<1>6. \A q : q \in s6 <=>
        /\ l[1] = "ST" /\ Len(l) >= 2 /\ l[2] # "0"
        /\ q = Of(2, <<<<"reply", "tables">>>>)
  BY DEF Sentence, Fits, Of, Any
<1>7. \A q : q \in s7 <=>
        /\ l[1] = "GETSTATUS" /\ Len(l) >= 2 /\ l[2] \in Unit
        /\ q = Of(2, <<<<"reply", "status", l[2]>>>>)
  BY DEF Sentence, Fits, Of
<1>8. \A q : q \in s8 <=>
        /\ l[1] = "GETSTATUS" /\ Len(l) >= 3 /\ l[2] \in Unit /\ l[3] = "XDIM"
        /\ q = Of(3, <<<<"reply", "xdim", l[2]>>>>)
  BY DEF Sentence, Fits, Of
<1>9. \A q : q \in s9 <=>
        /\ l[1] = "GETSTATUSSEC" /\ Len(l) >= 2 /\ l[2] \in RfAddress
        /\ q = Of(2, <<<<"reply", "status", l[2]>>>>)
  BY DEF Sentence, Fits, Of
<1>10. \A q : q \in s10 <=>
        /\ l[1] = "HEX" /\ Len(l) >= 2
        /\ q = Of(2, <<<<"reply", "hex", l[2]>>>>)
  BY DEF Sentence, Fits, Of, Any
<1>11. \A q : q \in s11 <=>
        /\ l[1] \in Diagnostics \cup Chatter
        /\ q = Of(1, <<<<"reply", l[1]>>>>)
  BY DEF Sentence, Fits, Of
<1>12. QuerySentences(l) = UNION {s1, s2, s3, s4, s5, s6, s7, s8, s9, s10, s11}
  BY DEF QuerySentences
<1> HIDE DEF s1, s2, s3, s4, s5, s6, s7, s8, s9, s10, s11
<1>13. \A q : q \in QuerySentences(l) <=>
                q \in s1 \/ q \in s2 \/ q \in s3 \/ q \in s4 \/ q \in s5 \/ q \in s6
                \/ q \in s7 \/ q \in s8 \/ q \in s9 \/ q \in s10 \/ q \in s11
  BY <1>12
<1>14. ASSUME NEW q
       PROVE  q \in QuerySentences(l) <=> SaysOfQuery(l, q)
  <2>1. q \in QuerySentences(l) <=>
          q \in s1 \/ q \in s2 \/ q \in s3 \/ q \in s4 \/ q \in s5 \/ q \in s6
          \/ q \in s7 \/ q \in s8 \/ q \in s9 \/ q \in s10 \/ q \in s11
    BY <1>13
  <2>2. QED
    BY <1>1, <1>2, <1>3, <1>4, <1>5, <1>6, <1>7, <1>8, <1>9, <1>10, <1>11, <2>1, Zenon DEF SaysOfQuery
<1>15. QED
  BY <1>14

(* "rftopl": without a word it sets the empty bitmap.                      *)
LEMMA AgreesRftopl ==
  ASSUME NEW l \in Seq(Any), l # <<>>, l[1] = "RFTOPL"
  PROVE  Agrees(l, rftopl(Tail(l)))
<1> DEFINE r == From(l, 2)
           d == <<<<"set", "RfToPl", "none">>, <<"reply", "RfToPl">>>>
           m == <<<<"set", "RfToPl", IF r = <<>> THEN "none" ELSE Head(r)>>, <<"reply", "RfToPl">>>>
<1>1. Tail(l) = r /\ Len(l) \in Nat /\ Len(l) >= 1
  BY FromFirst
<1>2. Sentences(l) = QuerySentences(l)
  BY Only DEF Queries
<1>3. rftopl(Tail(l)) = On(m, From(l, 3))
  BY <1>1, FromNext DEF rftopl
<1>4. l[1] \notin IgnoresRest /\ 1 # 2
  BY DEF IgnoresRest, Diagnostics, Chatter
<1>5. r = <<>> <=> Len(l) < 2
  BY FromTail
<1>6. CASE ~(Len(l) >= 2)
  <2>1. m = d
    BY <1>1, <1>5, <1>6
  <2>2. \A q : q \in QuerySentences(l) <=> q = Of(1, d)
    BY <1>1, <1>6, QueryHas DEF SaysOfQuery, Diagnostics, Chatter
  <2>3. Says(l, 1, m)
    BY <1>2, <2>1, <2>2 DEF Says, Of
  <2>4. From(l, 3) = <<>> /\ 1 = Len(l)
    BY <1>1, <1>6, FromPast
  <2>5. QED
    BY <1>3, <1>4, <2>3, <2>4, AgreesOn
<1>7. CASE Len(l) >= 2
  <2>1. m = <<<<"set", "RfToPl", l[2]>>, <<"reply", "RfToPl">>>>
    BY <1>1, <1>5, <1>7, FromHere
  <2>2. \A q : q \in QuerySentences(l) <=> q = Of(1, d) \/ q = Of(2, m)
    BY <1>1, <1>7, <2>1, QueryHas DEF SaysOfQuery, Diagnostics, Chatter
  <2>3. Says(l, 2, m)
    BY <1>2, <2>2 DEF Says, Of
  <2>4. From(l, 3) = <<>> <=> 2 = Len(l)
    BY <1>7, FromNone
  <2>5. QED
    BY <1>3, <1>4, <2>3, <2>4, AgreesOn
<1>8. QED
  BY <1>6, <1>7

(* "rftorf": without a word it only asks; a word must be a number.         *)
LEMMA AgreesRftorf ==
  ASSUME NEW l \in Seq(Any), l # <<>>, l[1] = "RFTORF"
  PROVE  Agrees(l, rftorf(Tail(l)))
<1> DEFINE r == From(l, 2)
<1>1. Tail(l) = r /\ Len(l) \in Nat /\ Len(l) >= 1
  BY FromFirst
<1>2. Sentences(l) = QuerySentences(l) \cup Alone(l) /\ ~IsPt(l)
  BY Only DEF IsPt
<1>3. l[1] \notin IgnoresRest
  BY DEF IgnoresRest, Diagnostics, Chatter
<1>4. r = <<>> <=> Len(l) < 2
  BY FromTail
<1>5. Is(r, DOMAIN Decimal) <=> Len(l) >= 2 /\ l[2] \in DOMAIN Decimal
  BY FromWord
<1>6. CASE ~(Len(l) >= 2)
  <2> DEFINE m == <<<<"reply", "RfToRf">>>>
  <2>0. r = <<>> /\ ~Is(r, DOMAIN Decimal)
    BY <1>1, <1>4, <1>5, <1>6
  <2>1. rftorf(Tail(l)) = On(m, <<>>)
    BY <1>1, <2>0 DEF rftorf
  <2>2. 1 = Len(l)
    BY <1>1, <1>6, FromPast
  <2>3. l = <<"RFTORF">>
    BY <2>2
  <2>4. QuerySentences(l) = {}
    BY <1>1, <1>6, QueryHas DEF SaysOfQuery, Diagnostics, Chatter
  <2>5. \A q : q \in Sentences(l) <=> q = Of(1, m)
    BY <1>2, <2>3, <2>4 DEF Alone, Of
  <2>6. Says(l, 1, m)
    BY <2>5 DEF Says, Of
  <2>7. QED
    BY <1>3, <2>1, <2>2, <2>6, AgreesOn
<1>7. CASE Len(l) >= 2
  <2>1. Alone(l) = {}
    BY <1>2, <1>7 DEF Alone
  <2>2. CASE l[2] \in DOMAIN Decimal
    <3> DEFINE m == <<<<"set", "RfToRf", Decimal[l[2]]>>, <<"reply", "RfToRf">>>>
    <3>1. rftorf(Tail(l)) = On(m, From(l, 3))
      <4>1. Head(r) = l[2] /\ Tail(r) = From(l, 3)
        BY <1>7, FromHere
      <4>2. r # <<>> /\ Is(r, DOMAIN Decimal)
        BY <1>1, <1>4, <1>5, <1>7, <2>2
      <4>3. QED
        BY <1>1, <4>1, <4>2 DEF rftorf
    <3>2. \A q : q \in QuerySentences(l) <=> q = Of(2, m)
      BY <1>1, <1>7, <2>2, QueryHas DEF SaysOfQuery, Diagnostics, Chatter
    <3>3. Says(l, 2, m)
      BY <1>2, <2>1, <3>2 DEF Says, Of
    <3>4. From(l, 3) = <<>> <=> 2 = Len(l)
      BY <1>7, FromNone
    <3>5. QED
      BY <1>3, <3>1, <3>3, <3>4, AgreesOn
  <2>3. CASE l[2] \notin DOMAIN Decimal
    <3>0. r # <<>> /\ ~Is(r, DOMAIN Decimal)
      BY <1>1, <1>4, <1>5, <1>7, <2>3
    <3>1. rftorf(Tail(l)) = Refused
      BY <1>1, <3>0 DEF rftorf
    <3>2. QuerySentences(l) = {}
      BY <1>1, <2>3, QueryHas DEF SaysOfQuery, Diagnostics, Chatter
    <3>3. QED
      BY <1>2, <2>1, <3>1, <3>2 DEF Agrees
  <2>4. QED
    BY <2>2, <2>3
<1>8. QED
  BY <1>6, <1>7

(* "st": "0" empties the tables, any other word shows them.                *)
LEMMA AgreesSt ==
  ASSUME NEW l \in Seq(Any), l # <<>>, l[1] = "ST"
  PROVE  Agrees(l, st(Tail(l)))
<1> DEFINE r == From(l, 2)
           d == <<<<"reply", "tables">>>>
           m == IF Is(r, {"0"}) THEN <<<<"set", "tables", "empty">>>> ELSE d
<1>1. Tail(l) = r /\ Len(l) \in Nat /\ Len(l) >= 1
  BY FromFirst
<1>2. Sentences(l) = QuerySentences(l)
  BY Only DEF Queries
<1>3. st(Tail(l)) = On(m, From(l, 3))
  BY <1>1, FromNext DEF st
<1>4. l[1] \notin IgnoresRest
  BY DEF IgnoresRest, Diagnostics, Chatter
<1>5. Is(r, {"0"}) <=> Len(l) >= 2 /\ l[2] = "0"
  <2>1. Is(r, {"0"}) <=> Len(l) >= 2 /\ l[2] \in {"0"}
    BY FromWord
  <2>2. QED
    BY <2>1
<1>6. CASE ~(Len(l) >= 2)
  <2>1. m = d
    BY <1>5, <1>6
  <2>2. \A q : q \in QuerySentences(l) <=> q = Of(1, d)
    BY <1>1, <1>6, QueryHas DEF SaysOfQuery, Diagnostics, Chatter
  <2>3. Says(l, 1, m)
    BY <1>2, <2>1, <2>2 DEF Says, Of
  <2>4. From(l, 3) = <<>> /\ 1 = Len(l)
    BY <1>1, <1>6, FromPast
  <2>5. QED
    BY <1>3, <1>4, <2>3, <2>4, AgreesOn
<1>7. CASE Len(l) >= 2
  <2>1. m = IF l[2] = "0" THEN <<<<"set", "tables", "empty">>>> ELSE d
    BY <1>5, <1>7
  <2>2. \A q : q \in QuerySentences(l) <=> q = Of(1, d) \/ q = Of(2, m)
    BY <1>1, <1>7, <2>1, QueryHas DEF SaysOfQuery, Diagnostics, Chatter
  <2>3. Says(l, 2, m)
    BY <1>2, <2>2 DEF Says, Of
  <2>4. From(l, 3) = <<>> <=> 2 = Len(l)
    BY <1>7, FromNone
  <2>5. QED
    BY <1>3, <1>4, <2>3, <2>4, AgreesOn
<1>8. QED
  BY <1>6, <1>7

(* "getstatus": of a unit, and with a word, of its extended dim level.     *)
LEMMA AgreesGetstatus ==
  ASSUME NEW l \in Seq(Any), l # <<>>, l[1] = "GETSTATUS"
  PROVE  Agrees(l, getstatus(Tail(l)))
<1> DEFINE r == From(l, 2)
           d == <<<<"reply", "status", l[2]>>>>
<1>1. Tail(l) = r /\ Len(l) \in Nat /\ Len(l) >= 1
  BY FromFirst
<1>2. Sentences(l) = QuerySentences(l) \cup Leniences(l)
  BY Only
<1>3. l[1] \notin IgnoresRest
  BY DEF IgnoresRest, Diagnostics, Chatter
<1>4. Is(r, DOMAIN Address) <=> Len(l) >= 2 /\ l[2] \in DOMAIN Address
  BY FromWord
<1>5. Len(l) >= 2 => Head(r) = l[2] /\ Tail(r) = From(l, 3)
  BY FromHere
<1>6. CASE ~(Len(l) >= 2 /\ l[2] \in Unit)
  <2>1. getstatus(Tail(l)) = Refused
    BY <1>1, <1>4, <1>5, <1>6 DEF getstatus, Unit, House
  <2>2. QuerySentences(l) = {}
    <3>1. ~(Len(l) >= 2) => ~(Len(l) >= 3)
      BY <1>1
    <3>2. \A q : ~SaysOfQuery(l, q)
      BY <1>6, <3>1 DEF SaysOfQuery, Diagnostics, Chatter
    <3>3. QED
      BY <1>1, <3>2, QueryHas
  <2>3. Leniences(l) = {}
    <3>1. \A m : Sentence(l, <<{"RFCAM"}, DOMAIN Address, Any \ CamKeys>>, m) = {}
      BY DEF Sentence, Fits
    <3>2. \A m : Sentence(l, <<{"GETSTATUS"}, Unit, Any \ {"XDIM"}>>, m) = {}
      <4>1. ~(Len(l) >= 2) => ~(Len(l) >= 3)
        BY <1>1
      <4>2. QED
        BY <1>6, <4>1 DEF Sentence, Fits
    <3>3. QED
      BY <3>1, <3>2 DEF Leniences
  <2>4. QED
    BY <1>2, <2>1, <2>2, <2>3 DEF Agrees
<1>7. CASE Len(l) >= 2 /\ l[2] \in Unit
  <2>1. Is(r, DOMAIN Address) /\ ~(Address[Head(r)][2] < 0)
    BY <1>4, <1>5, <1>7 DEF Unit, House
  <2>2. Is(From(l, 3), {"XDIM"}) <=> Len(l) >= 3 /\ l[3] \in {"XDIM"}
    BY FromWord
  <2>3. From(l, 3) = <<>> <=> Len(l) < 3
    BY FromTail
  <2>4. Len(l) \in Nat
    OBVIOUS
  <2>5. CASE ~(Len(l) >= 3)
    <3>0. From(l, 3) = <<>> /\ ~Is(From(l, 3), {"XDIM"})
      BY <2>2, <2>3, <2>4, <2>5
    <3>1. getstatus(Tail(l)) = On(d, <<>>)
      BY <1>1, <1>5, <1>7, <2>1, <3>0 DEF getstatus
    <3>2. \A q : q \in QuerySentences(l) <=> q = Of(2, d)
      BY <1>1, <1>7, <2>5, QueryHas DEF SaysOfQuery, Diagnostics, Chatter
    <3>3. Leniences(l) = {}
      BY <2>5 DEF Leniences, Sentence, Fits
    <3>4. Says(l, 2, d)
      BY <1>2, <3>2, <3>3 DEF Says, Of
    <3>5. 2 = Len(l)
      BY <1>7, <2>4, <2>5, FromPast
    <3>6. QED
      BY <1>3, <3>1, <3>4, <3>5, AgreesOn
  <2>6. CASE Len(l) >= 3
    <3> DEFINE m == IF l[3] = "XDIM" THEN <<<<"reply", "xdim", l[2]>>>> ELSE <<<<"reply", "-1", l[2]>>>>
    <3>1. Tail(From(l, 3)) = From(l, 4)
      BY <2>6, FromHere
    <3>2. getstatus(Tail(l)) = On(m, From(l, 4))
      <4>1. From(l, 3) # <<>> /\ (Is(From(l, 3), {"XDIM"}) <=> l[3] = "XDIM")
        BY <2>2, <2>3, <2>4, <2>6
      <4>2. QED
        BY <1>1, <1>5, <1>7, <2>1, <3>1, <4>1 DEF getstatus
    <3>3. \A q : q \in QuerySentences(l) <=> q = Of(2, d) \/ (l[3] = "XDIM" /\ q = Of(3, m))
      BY <1>1, <1>7, <2>6, QueryHas DEF SaysOfQuery, Diagnostics, Chatter
    <3>4. \A q : q \in Leniences(l) <=> l[3] # "XDIM" /\ q = Of(3, m)
      BY <1>7, <2>6 DEF Leniences, Sentence, Fits, Of, Any
    <3>5. \A q : q \in Sentences(l) <=> q = Of(2, d) \/ q = Of(3, m)
      BY <1>2, <3>3, <3>4
    <3>6. Says(l, 3, m)
      BY <3>5 DEF Says, Of
    <3>7. From(l, 4) = <<>> <=> 3 = Len(l)
      BY <2>6, FromNone
    <3>8. QED
      BY <1>3, <3>2, <3>6, <3>7, AgreesOn
  <2>7. QED
    BY <2>5, <2>6
<1>8. QED
  BY <1>6, <1>7

(* "getstatussec": of a security address.                                  *)
LEMMA AgreesGetstatussec ==
  ASSUME NEW l \in Seq(Any), l # <<>>, l[1] = "GETSTATUSSEC"
  PROVE  Agrees(l, getstatussec(Tail(l)))
<1> DEFINE m == <<<<"reply", "status", l[2]>>>>
<1>1. Tail(l) = From(l, 2) /\ Len(l) \in Nat /\ Len(l) >= 1
  BY FromFirst
<1>2. Sentences(l) = QuerySentences(l)
  BY Only DEF Queries
<1>3. Is(From(l, 2), RfAddress) <=> Len(l) >= 2 /\ l[2] \in RfAddress
  BY FromWord
<1>4. CASE ~(Len(l) >= 2 /\ l[2] \in RfAddress)
  <2>1. getstatussec(Tail(l)) = Refused
    BY <1>1, <1>3, <1>4 DEF getstatussec
  <2>2. QuerySentences(l) = {}
    BY <1>1, <1>4, QueryHas DEF SaysOfQuery, Diagnostics, Chatter
  <2>3. QED
    BY <1>2, <2>1, <2>2 DEF Agrees
<1>5. CASE Len(l) >= 2 /\ l[2] \in RfAddress
  <2>1. Head(From(l, 2)) = l[2] /\ Tail(From(l, 2)) = From(l, 3)
    BY <1>5, FromHere
  <2>2. getstatussec(Tail(l)) = On(m, From(l, 3))
    BY <1>1, <1>3, <1>5, <2>1 DEF getstatussec
  <2>3. \A q : q \in QuerySentences(l) <=> q = Of(2, m)
    BY <1>1, <1>5, QueryHas DEF SaysOfQuery, Diagnostics, Chatter
  <2>4. Says(l, 2, m)
    BY <1>2, <2>3 DEF Says, Of
  <2>5. From(l, 3) = <<>> <=> 2 = Len(l)
    BY <1>5, FromNone
  <2>6. QED
    BY <2>2, <2>4, <2>5, AgreesOn DEF IgnoresRest, Diagnostics, Chatter
<1>6. QED
  BY <1>4, <1>5

(* "hex" answers the word that follows and looks no further.               *)
LEMMA AgreesHex ==
  ASSUME NEW l \in Seq(Any), l # <<>>, l[1] = "HEX"
  PROVE  Agrees(l, hex(Tail(l)))
<1> DEFINE m == <<<<"reply", "hex", l[2]>>>>
<1>1. Tail(l) = From(l, 2) /\ Len(l) \in Nat /\ Len(l) >= 1
  BY FromFirst
<1>2. Sentences(l) = QuerySentences(l)
  BY Only DEF Queries
<1>3. From(l, 2) = <<>> <=> Len(l) < 2
  BY FromTail
<1>4. CASE ~(Len(l) >= 2)
  <2>1. hex(Tail(l)) = Refused
    <3>1. Len(l) \in Nat
      OBVIOUS
    <3>2. QED
      BY <1>1, <1>3, <1>4, <3>1 DEF hex
  <2>2. QuerySentences(l) = {}
    BY <1>1, <1>4, QueryHas DEF SaysOfQuery, Diagnostics, Chatter
  <2>3. QED
    BY <1>2, <2>1, <2>2 DEF Agrees
<1>5. CASE Len(l) >= 2
  <2>1. Head(From(l, 2)) = l[2]
    BY <1>5, FromHere
  <2>2. hex(Tail(l)) = Returns(m, "0")
    <3>1. From(l, 2) # <<>>
      BY <1>1, <1>3, <1>5
    <3>2. QED
      BY <1>1, <2>1, <3>1 DEF hex
  <2>3. \A q : q \in QuerySentences(l) <=> q = Of(2, m)
    BY <1>1, <1>5, QueryHas DEF SaysOfQuery, Diagnostics, Chatter
  <2>4. Says(l, 2, m)
    BY <1>2, <2>3 DEF Says, Of
  <2>5. l[1] \in IgnoresRest /\ l[1] \notin Diagnostics
    BY DEF IgnoresRest, Diagnostics
  <2>6. QED
    BY <2>2, <2>4, <2>5, AgreesReturns
<1>6. QED
  BY <1>4, <1>5

(* The diagnostic commands and the chatter answer with no word more; the   *)
(* diagnostic ones return what statusprintf() does.                        *)
LEMMA AgreesDiagnostics ==
  ASSUME NEW l \in Seq(Any), l # <<>>, l[1] \in Diagnostics \cup Chatter
  PROVE  Agrees(l, Returns(<<<<"reply", l[1]>>>>, IF l[1] \in Diagnostics THEN "bytes" ELSE "0"))
<1> DEFINE m == <<<<"reply", l[1]>>>>
<1>1. Len(l) \in Nat /\ Len(l) >= 1
  BY FromFirst
<1>2. Sentences(l) = QuerySentences(l)
  BY Only DEF Queries, Diagnostics, Chatter
<1>3. \A q : q \in QuerySentences(l) <=> q = Of(1, m)
  BY <1>1, QueryHas DEF SaysOfQuery, Diagnostics, Chatter
<1>4. Says(l, 1, m)
  BY <1>2, <1>3 DEF Says, Of
<1>5. l[1] \in IgnoresRest
  BY DEF IgnoresRest
<1>6. QED
  BY <1>4, <1>5, AgreesReturns

(* A command does what the longest sentence means and leaves what is not   *)
(* of it: the lemmas of the single commands, along the chain of strcmp().  *)
LEMMA CommandAgrees ==
  ASSUME NEW l \in Seq(Any), l # <<>>
  PROVE  Agrees(l, Command(Head(l), Tail(l)))
<1> DEFINE t == Tail(l)
<1> HIDE DEF t
<1>1. Head(l) = l[1]
  BY FromFirst
<1>2. Agrees(l, Command(l[1], t))
  <2>1. CASE l[1] \in Diagnostics \cup Chatter
    <3>1. Command(l[1], t)
            = Returns(<<<<"reply", l[1]>>>>, IF l[1] \in Diagnostics THEN "bytes" ELSE "0")
      BY <2>1 DEF Command, Diagnostics, Chatter
    <3>2. QED
      BY <2>1, <3>1, AgreesDiagnostics
  <2>2. CASE l[1] = "PL"
    <3>1. Command(l[1], t) = pl(t)
      BY <2>2 DEF Command, Diagnostics, Chatter
    <3>2. QED
      BY <2>2, <3>1, AgreesPl DEF t
  <2>3. CASE l[1] = "RF"
    <3>1. Command(l[1], t) = rf(t)
      BY <2>3 DEF Command, Diagnostics, Chatter
    <3>2. QED
      BY <2>3, <3>1, AgreesRf DEF t
  <2>4. CASE l[1] = "RFSEC"
    <3>1. Command(l[1], t) = rfsec(t)
      BY <2>4 DEF Command, Diagnostics, Chatter
    <3>2. QED
      BY <2>4, <3>1, AgreesRfsec DEF t
  <2>5. CASE l[1] = "RFCAM"
    <3>1. Command(l[1], t) = rfcam(t)
      BY <2>5 DEF Command, Diagnostics, Chatter
    <3>2. QED
      BY <2>5, <3>1, AgreesRfcam DEF t
  <2>6. CASE l[1] = "PT"
    <3>1. Command(l[1], t) = pt(t)
      BY <2>6 DEF Command, Diagnostics, Chatter
    <3>2. QED
      BY <2>6, <3>1, AgreesPt DEF t
  <2>7. CASE l[1] = "RFTOPL"
    <3>1. Command(l[1], t) = rftopl(t)
      BY <2>7 DEF Command, Diagnostics, Chatter
    <3>2. QED
      BY <2>7, <3>1, AgreesRftopl DEF t
  <2>8. CASE l[1] = "RFTORF"
    <3>1. Command(l[1], t) = rftorf(t)
      BY <2>8 DEF Command, Diagnostics, Chatter
    <3>2. QED
      BY <2>8, <3>1, AgreesRftorf DEF t
  <2>9. CASE l[1] = "ST"
    <3>1. Command(l[1], t) = st(t)
      BY <2>9 DEF Command, Diagnostics, Chatter
    <3>2. QED
      BY <2>9, <3>1, AgreesSt DEF t
  <2>10. CASE l[1] = "GETSTATUS"
    <3>1. Command(l[1], t) = getstatus(t)
      BY <2>10 DEF Command, Diagnostics, Chatter
    <3>2. QED
      BY <2>10, <3>1, AgreesGetstatus DEF t
  <2>11. CASE l[1] = "GETSTATUSSEC"
    <3>1. Command(l[1], t) = getstatussec(t)
      BY <2>11 DEF Command, Diagnostics, Chatter
    <3>2. QED
      BY <2>11, <3>1, AgreesGetstatussec DEF t
  <2>12. CASE l[1] = "HEX"
    <3>1. Command(l[1], t) = hex(t)
      BY <2>12 DEF Command, Diagnostics, Chatter
    <3>2. QED
      BY <2>12, <3>1, AgreesHex DEF t
  <2>13. CASE l[1] \notin {"PL", "PT"} \cup Radio \cup Queries
    <3>1. Command(l[1], t) = Refused
      BY <2>13 DEF Command, Radio, Queries
    <3>2. Sentences(l) = {}
      BY <2>13, Only
    <3>3. QED
      BY <3>1, <3>2 DEF Agrees
  <2>14. QED
    BY <2>1, <2>2, <2>3, <2>4, <2>5, <2>6, <2>7, <2>8, <2>9, <2>10, <2>11, <2>12, <2>13 DEF Radio, Queries
<1>3. QED
  BY <1>1, <1>2 DEF t

(* The grammar gives a line one longest sentence: what the line means does *)
(* not depend on which one is chosen.                                      *)
THEOREM OneLongestSentence ==
  ASSUME NEW l \in Seq(STRING), l # <<>>,
         NEW s \in Sentences(l), s.length = Longest(l).length
  PROVE  s = Longest(l)
<1> DEFINE out == Command(Head(l), Tail(l))
<1>1. Agrees(l, out)
  BY CommandAgrees DEF Any
<1> HIDE DEF out
<1>2. PICK k \in Nat : Says(l, k, out.does)
  BY <1>1 DEF Agrees
<1>3. Longest(l) = Of(k, out.does) /\ Longest(l).length = k
  BY <1>2, SaysMeaning
<1>4. QED
  BY <1>2, <1>3 DEF Says

(* What processcommandline() makes of the outcome, before statusprintf()   *)
(* may have failed, and of which lines it should make 0.                   *)
Result(out) ==
  IF out.ret = "on" THEN IF out.rest # <<>> THEN "-1" ELSE "0" ELSE out.ret

Accepted(l) ==
  /\ Sentences(l) # {}
  /\ ~(Len(l) = 2 /\ l[1] = "PL")
  /\ l[1] \in IgnoresRest \/ Longest(l).length = Len(l)

(* A command that agrees with the grammar does what its line means, and is *)
(* accepted when it should be.                                             *)
LEMMA AgreesMeans ==
  ASSUME NEW l \in Seq(Any), NEW out, Agrees(l, out)
  PROVE  /\ out.does = Meaning(l)
         /\ l[1] \notin Diagnostics => Result(out) \in {"0", "-1"} /\ (Result(out) = "0" <=> Accepted(l))
         /\ l[1] \in Diagnostics => Result(out) \in {"bytes", "-1"}
<1>1. CASE Sentences(l) = {} /\ out = Refused
  <2>1. out.does = <<>> /\ out.ret = "-1"
    BY <1>1 DEF Refused, Returns
  <2>2. QED
    BY <1>1, <2>1 DEF Meaning, Result, Accepted
<1>2. CASE ~(Sentences(l) = {} /\ out = Refused)
  <2>1. PICK k \in Nat :
          /\ Says(l, k, out.does)
          /\ \/ /\ out.ret = "on" /\ l[1] \notin IgnoresRest
                /\ out.rest = <<>> <=> k = Len(l)
                /\ l[1] = "PL" => k # 2
             \/ out.ret = (IF l[1] \in Diagnostics THEN "bytes" ELSE "0") /\ l[1] \in IgnoresRest
             \/ out.ret = "-1" /\ l[1] = "PL" /\ k = 2
    BY <1>2 DEF Agrees
  <2>2. Sentences(l) # {} /\ Meaning(l) = out.does /\ Longest(l).length = k
    BY <2>1, SaysMeaning
  <2>3. l[1] = "PL" => l[1] \notin IgnoresRest
    BY DEF IgnoresRest, Diagnostics, Chatter
  <2>4. CASE /\ out.ret = "on" /\ l[1] \notin IgnoresRest
             /\ out.rest = <<>> <=> k = Len(l)
             /\ l[1] = "PL" => k # 2
    <3>1. l[1] \notin Diagnostics
      BY <2>4 DEF IgnoresRest
    <3>2. QED
      BY <2>2, <2>4, <3>1 DEF Result, Accepted
  <2>5. CASE out.ret = (IF l[1] \in Diagnostics THEN "bytes" ELSE "0") /\ l[1] \in IgnoresRest
    BY <2>2, <2>3, <2>5 DEF Result, Accepted
  <2>6. CASE out.ret = "-1" /\ l[1] = "PL" /\ k = 2
    <3>1. l[1] \notin Diagnostics
      BY <2>6 DEF Diagnostics
    <3>2. QED
      BY <2>2, <2>3, <2>6, <3>1 DEF Result, Accepted
  <2>7. QED
    BY <2>1, <2>4, <2>5, <2>6
<1>3. QED
  BY <1>1, <1>2

-----------------------------------------------------------------------------
(* The line is one of those tried and does not change; what has been done  *)
(* is right.                                                               *)
CommandInv == line \in Lines /\ DoesTheLongestSentence /\ AcceptsSentences

(* Nothing has been commanded at the start.                                *)
LEMMA CommandInvInit == CommandInit => CommandInv
BY DEF CommandInit, CommandInv, DoesTheLongestSentence, AcceptsSentences, Commanded

(* One call of processcommandline() for a line with words.                 *)
LEMMA ProcessRight ==
  ASSUME CommandInv, Process
  PROVE  CommandInv'
<1> DEFINE out == Command(Head(line), Tail(line))
           ok == Ok(Head(line))
           more == out.ret = "on" /\ out.rest # <<>>
           after == IF more THEN <<<<"reply", "unexpected argument">>>> ELSE <<>>
<1>1. line \in Seq(Any) /\ line # <<>> /\ line' = line
  <2>1. line \in Seq(STRING) /\ line' = line
    BY CommandAssumption DEF CommandInv, Process
  <2>2. Len(line) \in 1 .. MaxTokens
    BY DEF Process
  <2>3. QED
    BY <2>1, <2>2, CommandAssumption DEF Any
<1>2. Agrees(line, out)
  BY <1>1, CommandAgrees
<1>3. /\ does' = ok \o out.does \o after
      /\ ret' \in Code(IF more THEN "-1" ELSE IF out.ret = "on" THEN "0" ELSE out.ret)
  BY DEF Process
<1> HIDE DEF out
<1>4. out.does = Meaning(line)
  BY <1>1, <1>2, AgreesMeans
<1>5. IF line[1] \in Diagnostics THEN ret' \in {"bytes", "-1"} ELSE ret' = "0" <=> Accepted(line)
  <2>1. ret' \in Code(Result(out))
    BY <1>3 DEF Result
  <2>2. CASE line[1] \in Diagnostics
    <3>1. Result(out) \in {"bytes", "-1"}
      BY <1>1, <1>2, <2>2, AgreesMeans
    <3>2. QED
      BY <2>1, <2>2, <3>1 DEF Code
  <2>3. CASE line[1] \notin Diagnostics
    <3>1. Result(out) \in {"0", "-1"} /\ (Result(out) = "0" <=> Accepted(line))
      BY <1>1, <1>2, <2>3, AgreesMeans
    <3>2. QED
      BY <2>1, <2>3, <3>1 DEF Code
  <2>4. QED
    BY <2>2, <2>3
<1>6. ok \in {<<>>, <<<<"reply", "ok">>>>}
  BY DEF Ok
<1>7. after \in {<<>>, <<<<"reply", "unexpected argument">>>>}
  OBVIOUS
<1> HIDE DEF ok, after, more
<1>8. DoesTheLongestSentence'
  BY <1>1, <1>3, <1>4, <1>6, <1>7 DEF DoesTheLongestSentence
<1>9. AcceptsSentences'
  BY <1>1, <1>5 DEF AcceptsSentences, Accepted
<1>10. QED
  BY <1>1, <1>8, <1>9 DEF CommandInv

(* The other lines are no commands, and a line is processed once.          *)
LEMMA CommandInvNext ==
  ASSUME CommandInv, [CommandNext]_commandVars
  PROVE  CommandInv'
<1>1. CASE Process
  BY <1>1, ProcessRight
<1>2. CASE Other
  <2>1. line' = line /\ ~(Len(line) \in 1 .. MaxTokens /\ line # <<Policy>>)
    <3>1. line \in Seq(STRING)
      BY CommandAssumption DEF CommandInv
    <3>2. Len(line) \in Nat /\ (line = <<>> => Len(line) = 0)
      BY <3>1
    <3>3. \/ Len(line) > MaxTokens \/ line = <<>> \/ line = <<Policy>>
      BY <1>2 DEF Other
    <3>4. line' = line
      BY <1>2 DEF Other
    <3>5. QED
      BY <3>2, <3>3, <3>4, CommandAssumption
  <2>2. ~Commanded'
    BY <2>1 DEF Commanded
  <2>3. QED
    BY <2>1, <2>2 DEF CommandInv, DoesTheLongestSentence, AcceptsSentences
<1>3. CASE UNCHANGED commandVars
  BY <1>3 DEF commandVars, CommandInv, DoesTheLongestSentence, AcceptsSentences, Commanded
<1>4. QED
  BY <1>1, <1>2, <1>3 DEF CommandNext

(* So it holds of every reachable state.                                   *)
LEMMA CommandInvAlways == CommandSpec => []CommandInv
BY CommandInvInit, CommandInvNext, PTL DEF CommandSpec

(* What a command line sets, sends and answers is what the longest         *)
(* sentence it begins with means, and nothing if it begins with none.      *)
THEOREM CommandMeansItsSentence == CommandSpec => []DoesTheLongestSentence
<1>1. CommandInv => DoesTheLongestSentence
  BY DEF CommandInv
<1>2. QED
  BY <1>1, CommandInvAlways, PTL

(* processcommandline() returns 0 for the sentences of the code's language *)
(* and for no other line, but for those of commands that look no further;  *)
(* for a diagnostic command the bytes of its reply, or -1 if it could not  *)
(* be queued (encode.c:697-708).                                           *)
THEOREM CommandAcceptsItsLanguage == CommandSpec => []AcceptsSentences
<1>1. CommandInv => AcceptsSentences
  BY DEF CommandInv
<1>2. QED
  BY <1>1, CommandInvAlways, PTL
=============================================================================
