---------------------------- MODULE LineAssembler ----------------------------
(***************************************************************************)
(* How the bytes of one client become command lines:                       *)
(* cm15a_encode_with_state() of src/x10/encode.c and its state             *)
(* (remainder, remlen, discarding), fed one byte at a time.  The ends of   *)
(* the read()s do not show: the next call starts at remainder + remlen.    *)
(*                                                                         *)
(* A byte is the number of the line it belongs to: only from where a       *)
(* command's bytes come matters here, not what they say.  The peer         *)
(* (external) sends MaxLines lines of 0 .. MaxLength characters.           *)
(***************************************************************************)
EXTENDS Naturals, Sequences

CONSTANTS
  Size,       (* sizeof(remainder): 80                                     *)
  MaxLines,   (* bound: lines the peer sends                               *)
  MaxLength   (* bound: characters of a line                               *)

ASSUME LineAssumption ==
  /\ Size \in Nat \ {0, 1} /\ MaxLines \in Nat /\ MaxLength \in Nat

VARIABLES
  remainder,  (* the bytes stored so far, remainder[0 .. remptr - 1]       *)
  discarding,
  length,     (* external: characters of each line sent, the last growing  *)
  executed    (* history: what processcommandline() was given              *)

lineVars == <<remainder, discarding, length, executed>>

Line == 1 .. MaxLines

LineTypeOK ==
  /\ remainder \in Seq(Line) /\ Len(remainder) < Size
  /\ discarding \in BOOLEAN
  /\ length \in Seq(0 .. MaxLength) /\ Len(length) \in 1 .. MaxLines + 1
  /\ executed \in Seq(Seq(Line))

LineInit ==
  /\ remainder = <<>> /\ discarding = FALSE
  /\ length = <<0>> /\ executed = <<>>

(* The line the peer is sending: all before it are complete.               *)
current == Len(length)

-----------------------------------------------------------------------------
(* Mutant: one byte more.                                                  *)
Full_OffByOne == Len(remainder) >= Size

Full == Len(remainder) >= Size - 1

(* "command line too long": whatever the byte, it is dropped as well.      *)
Overflow == remainder' = <<>> /\ discarding' = TRUE /\ UNCHANGED executed

(* Mutant: the rest of a long line is taken for a new command.             *)
TooLong_Truncates ==
  /\ ~discarding /\ Full
  /\ remainder' = <<>>
  /\ UNCHANGED <<discarding, executed>>

TooLong == ~discarding /\ Full /\ Overflow

Store ==
  /\ ~discarding /\ ~Full
  /\ remainder' = Append(remainder, current)
  /\ UNCHANGED <<discarding, executed>>

(* Mutant: the discarding flag is left set.                                *)
EndDiscard_Forgotten == discarding /\ UNCHANGED <<remainder, discarding, executed>>

EndDiscard ==
  /\ discarding /\ discarding' = FALSE
  /\ UNCHANGED <<remainder, executed>>

(* An empty line is no command.                                            *)
Execute ==
  /\ ~discarding /\ ~Full
  /\ executed' = IF remainder = <<>> THEN executed ELSE Append(executed, remainder)
  /\ remainder' = <<>>
  /\ UNCHANGED discarding

(* A character arrives.                                                    *)
Character ==
  /\ current <= MaxLines /\ length[current] < MaxLength
  /\ length' = [length EXCEPT ![current] = @ + 1]
  /\ \/ discarding /\ UNCHANGED <<remainder, discarding, executed>>
     \/ TooLong
     \/ Store

(* One of LF, CR and NUL arrives.                                          *)
Delimiter ==
  /\ current <= MaxLines
  /\ length' = Append(length, 0)
  /\ EndDiscard \/ TooLong \/ Execute

LineNext == Character \/ Delimiter

LineSpec == LineInit /\ [][LineNext]_lineVars

-----------------------------------------------------------------------------
Complete == 1 .. current - 1

(* Line n was given to processcommandline() as it was sent.                *)
RanWhole(n) ==
  \E i \in 1 .. Len(executed) : executed[i] = [k \in 1 .. length[n] |-> n]

(* "Overlong partial commands are discarded ... instead of being truncated *)
(* into a new command" (docs/architecture/architecture.md:78-79): a command is one     *)
(* whole line, never a piece of one nor two joined, and each line runs at  *)
(* most once, in the order they were sent.                                 *)
CommandsAreWholeLines ==
  /\ \A i \in 1 .. Len(executed) :
       \E n \in Complete : executed[i] = [k \in 1 .. length[n] |-> n]
  /\ \A i, j \in 1 .. Len(executed) : i < j => executed[i][1] < executed[j][1]

(* A line that leaves room for its delimiter runs, unless the line before  *)
(* it filled the store to the last character, so that its own delimiter    *)
(* was the byte too many (encode.c:959).                                   *)
ShortLinesRun ==
  \A n \in Complete :
    /\ length[n] \in 1 .. Size - 2
    /\ n = 1 \/ length[n - 1] # Size - 1
    => RanWhole(n)
=============================================================================
