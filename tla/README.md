# A verification of mochad-redux in TLA+

mochad-redux is a single-threaded daemon between TCP clients and an X10
controller on USB (a CM15A, which does powerline and RF, or a CM19A, RF only).
One `poll()` loop (`mydaemon()` in `src/core/mochad.c`) serves listeners, clients
and libusb; libusb runs the transfer callbacks inside
`libusb_handle_events_timeout()`. There are no threads: what is hard is the order
in which callbacks, time-outs, signals, closes and reuses of descriptors meet,
and flags and queues that several functions share.

## 1. Inventory

| component | source | state | operations | hard because |
|---|---|---|---|---|
| transmit path | `usb/x10_write.c`; `core/mochad.c` 126-140, 284-307, 1371-1393, 1502-1541 | ring `Outrecs[256]`, `Outhead`, `Outtail`, `Outbusy`, `PollTimeOut`; `IntrOut_*` flags; `X10_ack_received`, `X10_ack_timed_out` | `x10_write`, `send_next_x10out`, `write_usb`, `maybe_finish_x10_transmit`, `IntrOut_cb` | OUT completion, ACK and time-out come in any order; submits are refused; an ACK names no packet |
| event loop | `core/mochad.c` 1352-1455, 1543-1546, 1834-1988 | `Do_exit`, `IntrIn_*`, the place in the loop | poll, time-out branch, `IntrIn_cb`, `sighandler` | what `poll()` saw is old when `handle_events` has run; signals between test and sleep |
| USB lifecycle | `core/mochad.c` 1032-1087, 1162-1227, 1457-1500, 1701-1834, 1989-2042 | transfer pointers, `*_canceling`, `Reattach`, `r` | startup with its gotos, cancel, drain, free, release | callbacks run during shutdown; libusb may refuse to cancel; every early exit |
| client tables | `core/mochad.c` 84-108, 418-481, 537-880, 1906-1986 | three tables of 32 slots: descriptor, parser state, output queue; three counters; `Pollfds`, `NUsbPollfds` | `add_*client`, `del_client`, `queue_client_bytes`, `disconnect_stalled_clients`, `copy_clients`, the serving loop with `nready` | a command can delete its own client; descriptors are reused within one iteration; the array's layout can change while it is read |
| client output | `core/mochad.c` 156-216, 699-794; `net/socket_io.c` | per slot a ring of 16384 bytes and `stalled_since` | enqueue, peek, consume, flush, stall rule, `send_all` | wraps and partial sends; a reply that is sent past the queue; time |
| command lines | `x10/encode.c` 927-993 | `remainder[80]`, `remlen`, `discarding` | `cm15a_encode_with_state` | overlong lines, partial reads |
| commands | `x10/encode.c` 98-925 | none (writes `RfToPl16`, `RfToRf16`) | `processcommandline`, `pl_tx_*`, `rf*_tx*` | two packets per command, results ignored; a word too many is noticed after the command was carried out |
| X10 state | `x10/x10state.c` | on/off per house and unit, selection, security table | `hua_*` | address and function arrive separately |
| decoding | `x10/decode.c` | duplicate filter table | `cm15a_decode*`, `dup_filter`, `repeatRF`, `setClock` | echoes of own transmissions, time window |
| configuration | `config/config.c` | configuration record | defaults, file, environment, argv, validation | argv is read by two readers; order of sources |
| endpoints, listeners | `usb/usb_endpoint_selection.c`; `core/mochad.c` 1092-1139, 1569-1699, 1801-1817 | endpoint addresses, three listening descriptors | choose, `create_listener`, `close_listener` | any call may fail; dual stack; partial success |
| events, diagnostics | `x10/mochad_event.c`, `net/diagnostics.c` | none | formatting | - |

Interactions. A client's `read()` goes to `cm15a_encode_with_state`, whose
commands call `x10_write` and queue replies and events to clients (which may
delete clients). `IntrIn_cb` credits ACKs to the transmit path or decodes a frame,
and decoding again calls `x10_write` (clock, repeater, bridge) and queues events.
`x10_write` arms `PollTimeOut`, the argument of the next `poll()`. A signal or a
USB error sets `Do_exit`; the loop then ends in cancel, drain and release.

Correctness, by component. *Transmit*: accepted packets go out once, in order, one
at a time; an idle path is really idle, a busy one always has something that will
wake it; an ACK releases one packet. *Loop*: a stop request ends it. *Lifecycle*:
no transfer is freed while libusb owns it, shutdown ends, an error is reported.
*Clients*: counters, slots and kernel descriptors agree; nobody inherits or
answers for another client; whoever poll() reported is served. *Output*: a peer reads
whole messages in order; a slow reader stays, a stalled one goes. *Lines*: a command is
one whole line, and does what the line says or nothing. *Startup*: the last source of a
setting wins, all enabled listeners listen or none is left open.

PROJECT.json lists what is hard to test, each at its line, under "hazards".

## 2. Modules

    X10Write          functions on the transmit state
      X10Transmit     event loop, callbacks, signals, controller
        AckFlow       + two history variables about ACKs     (MCAckFlow: TLC's view)
        UsbLifecycle  + startup and shutdown
        X10TransmitProofs, UsbLifecycleProofs
    TransmitFifo      what the transmit path promises (abstract)
    ClientTable       functions on the client tables
      ClientLoop      one iteration of the loop, seen from the clients
        ClientLoopProofs
    ClientOutput      the output ring of one client, byte by byte
      ClientOutputProofs
    OutputFifo        what that ring promises (abstract)
    LineAssembler     bytes to command lines
    Commands          command lines to effects            (MCCommands: TLC's lines)
      CommandLineProofs (of both)
    Config            functions of the configuration loader
      Boot            from main() to the loop: configuration, endpoints, listeners
                      (MCBoot: TLC's files, environments, command lines, descriptors)
        BootProofs
    X10State          functions on the recorded unit and sensor state
    DupFilter         functions on the RF duplicate filter
      X10Station      both, with commands, decoders and receivers (MCX10Station: TLC's traffic)
        X10StationProofs
    NaturalSets       induction over a set of naturals (used by Boot-, ClientLoop- and X10StationProofs)

**X10Write** translates each C function of the transmit path into a function from
a record (the C variables and libusb's view of the OUT transfer, `urb`) to a
record. A call inside a function is an application inside it, so an action of
the loop that runs a callback runs all of it. Only whether
`libusb_submit_transfer` accepts is left to the action (`accepts`). The `-ENODEV`
and `-EINVAL` results of `write_usb` and the length tests do not occur for the
packets this program makes (at most 8 bytes, transfers allocated) and are left out.

**X10Transmit** has one action per branch of the loop and of the callbacks. `loop`
is the place in `mydaemon()`: the test of `Do_exit` ("head"), `poll`,
`handle_events` after a time-out or after a ready descriptor, serving clients.
The controller (external) takes packets, ACKs them, forgets to, reports frames or
errors at any time. `Transmit` stands for each call of `x10_write`: the
startup table, a decoder inside `IntrIn_cb`, a client's command.

**TransmitFifo** is the promise: a bounded FIFO in front of a one-packet
transmitter. `ImplementsFifo` maps the ring to a sequence and checks that each
step of X10Transmit is a step or a stutter of it. A packet refused for a full ring, or
for a refused direct submit, leaves no trace in either.

**AckFlow** observes X10Transmit: `waited` says that since the last submit an ACK
came or a poll begun since ran out, `slipped` that a charged time-out left the
controller behind.

**UsbLifecycle** puts startup and shutdown around the loop, with each `goto`.
While `phase` is "up" or "drain" its steps are those of X10Transmit
(`Loops`), so callbacks in the drain are the same callbacks. `CancelAnswers` is what
`libusb_cancel_transfer()` may answer: success for a transfer in flight, NOT_FOUND for one
that has finished, also if its callback has not run, and an error for either.
`cancel_transfer_if_active()` takes NOT_FOUND for "already inactive" and clears the flags;
`forgotten` are the transfers of which the flags have since been wrong, until their callback
runs, and `refused` says that some answer was not success.

**ClientTable / ClientLoop** keep the three tables as functions on slots, plus the
kernel's view: which connection a descriptor stands for. `ready`, `writable` and
`knocks` are the snapshot `poll()` left, used to its end while steps close and
accept. A connection's `fate` remembers how it ended, for one iteration.
`or20client()` compares the connection's local port with `OpenRemotePort`:
`OnOpenRemotePort` are the tables whose clients have that port, the OpenRemote table in the
runs, and any set of tables in the proofs (section 6).
`accept()` gives the lowest free descriptor. `copied[k]` is the client part of the array
after k iterations of `copy_clients()`; `PassOver` is the serving loop at a slot whose
entry has no event. The array of `poll()` starts its clients at
3 + `NUsbPollfds`: `usb.polled` is that number when it was filled, `usb.now` when it is
read. `due` are the clients reported and not yet reached. Output is counted in messages;
a `send()` of part of a message counts as none of it. Client ids are left out (logging
only).

**ClientOutput / OutputFifo** are one slot's output queue. Byte i of a message of n is
`<<n, i>>`, so that a torn message shows in what the peer reads. One action per outcome
of `send()` in `flush_client_output()`; the write budget is four times the
queue, so it never ends a flush and is left out. `PolicyReply` is
`send_all()` past the queue. `stalled` is the age of `stalled_since`; `quiet` (history)
is the time since the kernel took a byte. OutputFifo is the promise: messages are put in
whole or the client is dropped, bytes leave in order, and only the policy reply may pass.

**LineAssembler** feeds one byte at a time. A byte is the number of the line it
comes from, so "whole line" is visible. Ends of `read()`s do not show:
the next call continues at `remainder + remlen`.

**Commands** is `processcommandline()`: a line is a sequence of words, its outcome the
sequence of packets, settings and replies, and the result: "0", "-1", or for the diagnostics
"bytes", the count that `statusprintf()` returns (`Code`: or -1, if the queue does not take
the reply). Each branch of the `strcmp`
chain is a function of the words that are left; a word is a member of classes (address,
function, number) and the characters of one are left out. The grammar at the end is the
reference: a sentence is a shape (at each place the set of words that may stand there) and its
meaning, without the order in which the code takes words and gives up.

**Config / Boot.** Config is `mochad_config_load()`: its loops over lines, variables and
words of argv as recursive functions, with both readers of argv (`find_config_file_arg`,
`apply_cli`). The same value may be written in several ways in the code; here a key takes a
word of its class or refuses it. Boot chains it to the endpoint choice, over a descriptor as
the sequence of its endpoints in the order in which the C loops visit them, and to
`create_listener()`, where `Counts` and `Closes` say for each failing call whether it
matters and whether the socket is closed. The USB steps between are UsbLifecycle's.

**X10State / DupFilter / X10Station** are the X10 side. X10State has the `hua_*`
functions on one house row (no function touches two) and on the sensor table;
DupFilter has `dup_filter()` with times relative to now. X10Station puts the
commands (`pl`, `rf`, `rfsec`, `rfcam`, `pt`, `rftopl`, `rftorf`, `st`) and the
decoders over them. A command decodes its own packet first, which changes the
record, and then calls `x10_write`, whose refusal nobody notices; `x10_write` is
the FIFO that X10Transmit implements. A C function that transmits gives the set
of states it may leave, one per choice of libusb. `line` is external: receivers that
keep addresses and obey functions, as the comment at x10state.c:58-62 assumes; a dim
leaves a receiver's power as it is. What a code means to them (`Reached`, `Given`) is
taken from the comments of the source, not from what the decoder records: "all lights" is
for lamp modules (`Lamps`; decode.c:367-371), a status switches nothing, of the extended codes
only type 3 function 1 (`Preset`) switches, and its level is the low six bits of the data
(encode.c:57-71). Where the two differ (`Parting`) the unit is `parted` from its record.
The history in `d` says whether record and line
can be expected to agree (`tracked`), whether an address joined a dimmed selection
(`joined`), whether a bridged RF command joined a selection others are in (`divided`), which
units are `parted`, when each frame last passed the filter (`since`) and each sensor's last
status (`heard`). All functions without effect on the record are "dim". Malformed packets change nothing and are left
out; so are event texts. `pt` with the bytes of a power line code is left out: it is
sent without being recorded.

Operators next to a definition with a suffix (`write_usb_KeepsCleared` next to
`write_usb`) are mutants: plausible bugs, used to see that the properties notice.

## 3. Runs

| run | instance | shows |
|---|---|---|
| `transmit_cm15a` | 2 packets, ring of 3, controller may owe 2 ACKs | types; `IdleIsDrained`, `BusyIsArmed`, `FlagsTellTheTransfer`, `NoSpareCredit`, `OneAtController`, `ImplementsFifo`; `HeadAdvancesWhenQuiet`, `StopsOnceWoken` |
| `ackflow_race` | owes up to 3 | **violated**: `EveryReleaseWaited` |
| `usb_stop` | CM19A, ring of 3, drain of 2 rounds | `NotFreedWhilePending`, `DrainedIsQuiet`, `LostDriverIsReported`, `NoWriteAfterCancel`, `ShutdownEnds`, `Cm19aPacedByCompletion` |
| `usb_freed` | CM15A, ring of 2 | **violated**: `AllocatedWhilePending` |
| `usb_exitcode` | CM19A, ring of 2 | **violated**: `ErrorExitIsReported` |
| `client_tables` | main and OpenRemote tables of 1 slot, 2 descriptors, queue of 1, up to 1 libusb descriptor | `CountsMatchSlots`, `SlotsOwnDescriptors`, `NoInheritedBytes`, `OnlyReusedAreCutOff`, `ReadyAreServed` |
| `client_openremote` | the same | **violated**: `OpenRemoteIsAnswered` |
| `output` | ring of 3 bytes, kernel buffer of 3, POLLOUT from 2 free, messages of 1 and 2, policy reply of 2, time-out of 2 | `ImplementsFifo`, `OnlyPolicyTearsLines`, `SlowReadersAreKept`, `MarkedAreDropped` |
| `lines_whole` | store of 4, 4 lines of up to 6 characters | `CommandsAreWholeLines`, `ShortLinesRun` |
| `commands` | 14 commands and an unknown one, 17 words, all lines of up to 4 words, chosen longer ones | `DoesTheLongestSentence`, `AcceptsSentences` |
| `boot` | 3 ports, both families, 20 files, 12 environments, 169 command lines, 9 descriptors | `Precedence`, `NoSelfCollision`, `AllOrNothing`, `EnableMeansDual`, `EndpointsAreTheOnlyPair` |
| `station_record` | 2 units, queue of 2, filter of 2, 2 usable sensor records, one unit a lamp; four kinds of traffic | `RecordMatchesLine`, `FilterRemembers`, `SensorsReadBack` |

Bounds. A ring of 3 slots is the least in which the ring can be empty, partly
filled, full and wrapped. Two packets tell order apart. `View` leaves out what the ring holds outside
the queue: a slot is written before it is read, so states that differ only there have the same
behaviours, and TLC's answer is that of the whole state. `MaxOwed` 2 lets one late ACK overtake a new one; 3 lets the timed-out
packet, its successor and the one wrongly released be with the controller
together. Drain rounds: the code's 100 only counts down, 2 has "some left", "last"
and "none". One slot per table and two descriptors make "table full" and "descriptor
freed by one client and accepted for another, of the other type, in the same
iteration" happen; the XML table differs from the main one only in the
terminator of a message, so main and OpenRemote stand for the three. Three names
of connections suffice: two open, one remembered. A queue of 1 has empty and full.
A store of 4 against lines of 0..6 has empty, shorter, one below, exact, and over
by one and two; what happens to a line depends only on the line before.
One libusb descriptor that comes and goes shifts the client part of the array by one
either way. A byte ring of 3 with messages of 2 wraps inside a message, is full with one
byte to spare and with none; a kernel buffer of 3 with POLLOUT from 2 free bytes has
"would block", "takes a part", "takes all" and "room, but no POLLOUT". A time-out of 2
has before, at and after. Lines of four words hold each command with one word too many;
the longer ones reach `EXTENDED_CODE_1` with three numbers and one more, `pt` with eight
bytes and nine, and 16 words and 17. Three ports can collide in pairs, be swapped
and stay distinct; three words of argv put every option before, after and in the place of
another's argument.
Two units tell "addressed" from "not addressed" and let a selection have two members.
A queue of 2 holds an address and its function, and drops the function alone. The
filter's two entries against four to six frames make eviction happen; a DUP_TIME of
one tick has "within", "at the limit" and "after". `MaxSensors` 3 leaves two usable
records for three addresses, one of them shared by a sensor of either kind. Traffic
comes in four profiles, one per behaviour: power line codes with `st 0`; codes that
receivers take otherwise than the record (status, all lights with a unit that is no lamp, a
preset of 64, an extended code that is no preset), with a unit that is on before the daemon
starts; RF remotes with bridge and repeater switched on and off; sensors. A profile joins
what shares state; the union of the four is explored. `StillComparable` ends a behaviour of the
first three once `RecordMatchesLine` excepts the whole record, for it says nothing then.

CHECK_DEADLOCK is off: the loop of X10Transmit ends in "stopped", the daemon of
UsbLifecycle and of Boot in "exited" (Boot's also with the configuration, under
`--check-config`), SIGPIPE in "killed", the peer of LineAssembler after its last line, a
line of Commands when it has its result.

## 4. Fairness

`LoopFairness`: a ready libusb descriptor wakes `poll()`; a finished transfer's
callback runs; `handle_events` returns although the controller may keep it busy (so
strong fairness); the clients of one poll are finitely many; the controller or libusb
finishes every OUT transfer one way or the other; libusb does not refuse
each submit for ever. Of ACKs nothing is assumed. `QuietFairness` (in `FlowQuietSpec`) adds strong fairness
of `PollTimesOut`: a poll that is left alone again and again is once left alone for
the whole 2 s. The code does not provide for that: every wake-up starts the 2 s anew,
and with weak fairness of the time-out alone the queue stands still (section 6).
`ShutdownFairness` assumes only the daemon's own
shutdown steps and that `libusb_handle_events` returns (its default limit is 60 s);
nothing is assumed of cancellations or the controller.
`OutputLive` has weak fairness of the loop's own steps on the client's output, of the
outcome of a `send()` (some outcome comes) and of the clock; none of `poll()` returning,
of the peer reading or of a new message. `poll()` sleeps with -1 as a rule, so that the
loop turns again is a premise of `MarkedAreDropped` (`LoopTurns`), not an assumption of
the specification.

## 5. Proofs

Each theorem is proved for every value of the constants, from the assumptions
declared with them: a transmit ring of at least two slots and a `NoCmd` that is no packet
(`RingAssumption`), any number of ACKs a controller may owe (`OwedAssumption`), positive
sizes of tables, rings, stores and time-outs (`ClientAssumption`, `UsbAssumption`,
`OutputAssumption`, `LineAssumption`, `EventsAssumption`, `StateAssumption`,
`DupAssumption`), finitely many descriptors, traffic of well-formed codes and finitely many
frames, lamps that are units (`StationAssumption`); and, for Boot, that descriptors are sequences of endpoints
(`DescriptorAssumption`) and that argv, the environment and the lines of files are made of
strings, with no file of the empty name (`InputAssumption`); and that command lines are
sequences of strings (`CommandAssumption`). The code's values satisfy all of them. `OnePacket` is about a controller that sends ACKs and has `~Cm19a` as a premise.

| module | proved | from the invariant |
|---|---|---|
| `X10TransmitProofs` (also of AckFlow) | `TypeOK`, `IdleIsDrained`, `BusyIsArmed`, `FlagsTellTheTransfer`, `NeverRefusedAsActive`, `NoSpareCredit`, `Cm19aPacedByCompletion`, refinement `ImplementsFifo` of TransmitFifo; `OneAtController`; AckFlow's histories only watch | `IInv`, `FlowIInv` |
| `UsbLifecycleProofs` | `LifeTypeOK`, `NotFreedWhilePending`, `DrainedIsQuiet`, `LostDriverIsReported`, `NoWriteAfterCancel`, `Cm19aPacedByCompletion`, `ImplementsFifo`; `ShutdownIsBounded` | `LifeIInv` |
| `ClientLoopProofs` | `ClientTypeOK`, `CountsMatchSlots`, `SlotsOwnDescriptors`, `NoInheritedBytes`, `OnlyReusedAreCutOff`, `ReadyAreServed` | `ClientIInv` |
| `ClientOutputProofs` | `OutputTypeOK`, `OnlyPolicyTearsLines`, `SlowReadersAreKept`, refinement `ImplementsFifo` of OutputFifo | `OutputIInv` |
| `CommandLineProofs` | `LineTypeOK`, `CommandsAreWholeLines`, `ShortLinesRun`; `DoesTheLongestSentence`, `AcceptsSentences` | `LineIInv`; `CommandInv` |
| `BootProofs` | `NoSelfCollision`, `AllOrNothing`, `EnableMeansDual`, `EndpointsAreTheOnlyPair`, `Precedence` | `BootIInv`; for the last two the property with what the stages before need |
| `NaturalSets` | `SetInduction`, `Least`, `LoopRuns` | - |
| `X10StationProofs` | `StationTypeOK`, `RecordMatchesLine`, `FilterRemembers`, `SensorsReadBack` | `StationIInv` |

`NeverRefusedAsActive` and `OutputTypeOK` are in no run: `FlagsTellTheTransfer`, and the
refinement of OutputFifo, break with them.

How the arguments go. A proof has three layers: one lemma per C function, saying what
the function does to any state that is sound, whoever calls it; one lemma per action, from
those; and the theorem. The invariants that TLC checks are not inductive one by one:

*Transmit.* `IdleIsDrained` speaks of `Outbusy = 0`, which `send_next_x10out` sets after
testing the ring and only when called by `maybe_finish_x10_transmit` with
`IntrOut_completed`; so it needs `FlagsTellTheTransfer`, whose step through `write_usb`
needs that no caller comes with an active transfer. `IInv` joins them (`Sound`) with what
is true of credits until a stop is asked for (`Spent`, `Paced`), for shutdown cancels a
transfer and runs its callback with credits left. The refinement has a lemma per function
as well, which names the FIFO step (accept, hand over, release) or the stutter it is.

*ACKs.* That one packet is with the controller needs more than that it is so: `Credit` says
that an idle path owes nothing, that a packet on the wire holds no credit (`write_usb()`
cleared it), and that a credit held for a transfer whose callback has not run is that
transfer's, as long as no time-out was charged that the controller has to catch up with.

*Lifecycle.* `LifeIInv` says for each `phase` which transfers exist, which of them
libusb can have, and what `r` and `Reattach` stand for, on top of `IInv` while the loop and
the drain run. `NotFreedWhilePending` at the free needs `DrainedIsQuiet` at the end of
the drain, and that needs the flags to tell the truth through every callback the drain runs.
After NOT_FOUND they do not: what `write_usb()` relies on there is only that no flag claims more
than libusb has (`Sound`), while that none claims less (`Told`) holds of the OUT transfer
until it is forgotten and again from its callback on. `Forgetting` says that
a forgotten transfer has finished and waits for that callback.
Of `ShutdownEnds` the safety half is a theorem, `ShutdownIsBounded`: `ShutdownLeft` counts the
steps `mydaemon()` still has from the cancellations to the exit (a round of the drain and
its return, for each round left), each of its steps lessens it, and no callback, refused
cancellation or signal raises it. That these steps are taken is the fairness of section 4.

*Clients.* `ClientIInv` is `ClientTypeOK`, the table proper (`Table`: slots, counters,
descriptors and stores agree), and what is true within an iteration: no client is in the
`poll()` array twice (`Once`), what was reported was open at the `poll()` (`Reported`),
`nready` is at least the number of entries still to come (`Ready`), libusb's entries are
first (`UsbFirst`), and unless the array moved, those that are due lie ahead of the
serving loop (`NotMoved => Pending`). The counting in `CountsMatchSlots` and `Ready` is
done with cardinalities of sets of slots.

*Output.* Each ring function is first reduced to what it does to the sequence of bytes
that wait (`Enqueue` appends, `peek` is a prefix up to the end of the array, `consume`
drops a prefix), whatever `head` is. `OutputIInv` then says that what the peer has read
last, what the kernel holds and what waits are whole messages but for the first
(`Coherent`, unless a policy reply tore them), that a deleted client leaves nothing
(`Closed`), and that the mark is never older than the silence (`Marked`).

*Lines.* `LineIInv` relates the store to a piece of the current line, for which it has to
know where discarding began.

*Commands.* A line is processed in one step, so `CommandInv` adds to the two properties only
that the line stays what it was; the work is in the grammar. `Says(l, k, m)` states that among
the sentences a line begins with there is one of k words that means m, and that no other is as
long; `Agrees(l, out)` that the outcome of a command does what such a sentence says and has
words left unless it is the whole line. There is a lemma per command, for lines of any length
over all strings, which runs through the words as the code takes them (`From`, `FromWord`)
and, in each case, lists the sentences the line begins with; `CommandAgrees` joins them along
the `strcmp` chain. That the longest sentence is the only one of its length is a result
(`OneLongestSentence`), so the CHOOSE in the grammar hides nothing. The classes of words are
those of the model, a few members of each class of the code.

*Startup.* A descriptor stands for a socket on the service's own port (`Held`), ports were
compared before anything was opened (`Compared`), and only services whose turn has come
have one (`Tried`): two of them with one port would contradict validation.

*Endpoints.* After k endpoints of a descriptor, the counts and addresses tell which of the
first k are eligible (`Counted`): none if the count is 0, the one whose address is kept if it
is 1. The loop is an induction over k, for any descriptor.

*Configuration.* Each of the loader's loops has an invariant that says what the first k
lines, variables or words have made of the configuration they started from, if no error has
occurred: for lines and variables each key has the word of the last that sets it
(`ReadTo`), for the command line that of the last option whose argument has been read
(`CliTo`). `apply_cli()` and the reference agree on which words are options and which are
arguments (`Waits`). `find_config_file_arg()` does not distinguish the two; `SamePath` says
that as long as `apply_cli()` accepts the words, the path it has is nevertheless that of the
last `--config` option, or it is the name of an option: after a `--config` that is an
argument, as in `--bind --config --port`, the next word must be an option, or `apply_cli()`
fails. Errors travel from each stage to the next (`FromFile`, `FromEnv`), so that an accepted
configuration was accepted all the way.

*X10 side.* The record runs ahead of the line, so `RecordMatchesLine` says nothing while
packets wait, and is not inductive. `StationIInv` says instead that the receivers *will* be
in step with the record: `After(line, Queue(d), e)` are the receivers e there will be when
the packets in flight and pending have been heard, and `InStep(d, e)` compares them with
the record, in what is switched (but for the units that are `parted`), what is selected and whether a
function came last. What a code writes in the record of a unit it does not part is what the
unit's receiver does (`Recorded`); with a unit that it switches this ends the parting. A
command changes the record first and appends its packet afterwards; an RF command is
recorded (`Ahead`), repeated, and its bridged address (`Addressed`) and function appended
one by one, each of which may be refused, which `tracked` admits. When the queue is empty,
e is `line`. A behaviour in `After` is a function from positions in the queue to receivers,
not a fold, so that appending and taking the head can be proved. The filter's and the
sensors' parts do not touch the record. `FilterOK` says that an entry counts down exactly as its
frame ages; when a full table evicts the entry closest to expiring, the other frames in it and
the new one are `DupMax` frames that passed no earlier (pigeonhole). `SensorsOK` says that
addresses in the table are distinct and have been heard, so that it cannot be full while
fewer addresses were.

TLC finds these invariants true on the bounds of the component's run, but for `StationIInv`,
which it cannot evaluate (`After` chooses among all histories of the receivers).

Induction. The library's induction theorems take an operator as parameter, which the
installed provers cannot instantiate. `SetInduction` (NaturalSets) states induction for a *set*
of naturals and follows from the well-foundedness of inclusion; with it
`copied` (ClientLoop) is proved to list exactly the taken slots, in order, for any
`MaxClients`, and the loops of Boot and Config are followed to their ends. A loop is
written there as a recursive function of the number of its turns. `LoopRuns` says that there
is such a function, so that the definition by CHOOSE behind it defines one. Operators with a
fold of the community modules inside are out of reach.

Only model-checked is what is live: `HeadAdvancesWhenQuiet`, `StopsOnceWoken`, `ShutdownEnds`
and `MarkedAreDropped`. Fairness and ENABLED are beyond the prover; of `ShutdownEnds`,
`ShutdownIsBounded` proves that it has only so many steps left. Every safety property of a
passing run is also a theorem.

## 6. What the runs say about the code

1. *Time-out charged to the wrong packet* (`ackflow_race`, mochad.c:1895-1901).
   poll() times out, `handle_events` finds the late ACK, submits the next packet,
   and the loop then charges the time-out to that one.
2. *A finished transfer is taken for inactive* (`usb_freed`, mochad.c:1172-1176).
   `libusb_cancel_transfer()` answers NOT_FOUND also for a transfer that has finished and whose
   callback has not run. The flags are cleared, the drain does not wait for the callback, and
   `free_transfer_if_inactive()` frees the transfer although mochad.c:129 says that
   transfers "remain allocated while callbacks are pending". If the other transfer keeps the
   drain going, the callback runs in it, and a completed OUT transfer submits the next queued
   packet. `NotFreedWhilePending`, `DrainedIsQuiet` and `NoWriteAfterCancel` say that this
   answer (for the last, or an error) is the only way to get there.
3. *Error exit reports success* (`usb_exitcode`, mochad.c:2017).
4. *OpenRemote clients get no reply* (`client_openremote`, encode.c:974). The reply
   sits in a queue that `del_client` empties in the next statement.

Smaller observations, each visible as an exception or a premise of a property:

- *Starved time-out* (mochad.c:1874): traffic more often than every 2 s keeps a lost ACK
  from being replaced. Premise of `HeadAdvancesWhenQuiet`.
- *A 79-character line takes the next line with it* (encode.c:959): its delimiter is the
  byte too many. Exception in `ShortLinesRun`.
- *A dim does not end a selection* (decode.c:388): after `pl a1 dim`, `pl a2 off` also
  records A1 as off, though A1 is still lit. Excepted by `joined` in `RecordMatchesLine`.
- *A bridged RF command ends a selection in the record only* (decode.c:935-946). The
  decoder records it, and the bridged command records it again: its address then begins a
  selection of its own, while the line, which hears it once, adds it to the open one. After
  `pl a1`, RF `a2 off` and `pl a on`, unit 1 is lit and recorded as off, although
  x10state.c:58-62 keeps selections so that all of their units obey. Excepted by `divided`
  in `RecordMatchesLine`; without that conjunct TLC finds these three steps.
- *A stalled client without mark* (mochad.c:740): without POLLOUT there is no `send()`,
  and without it no `stalled_since`; only the full queue ends such a client.
- *A client of another port taken for an OpenRemote client* (mochad.c:411, config.c:594-597):
  `or20client()` compares ports, and validation compares those of enabled listeners only. With
  OpenRemote disabled and `port = 1101` a main client is closed after each command. In the
  runs enabled ports are distinct and OpenRemote is enabled, so the table decides.
- *The record takes codes for more than they are* (decode.c:367-387, 439-468): after `pl a1
  status_on` or `pl a1 extended_code_1 0 0 5` unit 1 is recorded as on though nothing switched
  it; after `pl a all_lights_on` also a unit that is no lamp; after `pl a1 xdim 64` a unit
  whose level is 0. Excepted by `parted` in `RecordMatchesLine`, for these units and until a
  command switches them.
- *Unknown is answered as off* (encode.c:905): `getstatus` says "off" of a unit that was on
  before the daemon started, or before `st 0`. Excepted by `parted` as well.
- *Defaults for words that are no number* (encode.c:331-341): `pl a1 dim x` is accepted
  and dims by 1. The grammar counts it as a sentence ("any word may stand for an optional
  number"), where CHANGELOG.md:81-82 speaks of "strict numeric ... validation".
- *The tail of a long comment* (config.c:330): after 511 bytes the rest of a comment is a
  line of its own. Premise of `Precedence`.
- *An argument called --config* (config.c:449): `find_config_file_arg()` looks at every word,
  also at those that are arguments. With `--bind --config --port 1099` it loads a file called
  `--port`, if there is one, which `apply_cli()` takes for an option. Premise of `Precedence`.

Two limits of the recorded state are by design and excluded from `RecordMatchesLine`: a
code that was refused or dropped stays recorded, and a code received while own codes
are queued is recorded in another order than the line hears it. An RF on, off, on
within DUP_TIME is transmitted three times and recorded as off, because the filter
swallows the third.

## 7. Not modelled

The byte layout of packets (`encode.c`, `decode.c`): packets are values that name what
they mean. Splitting a line into words, trimming and quoting, and the characters of
numbers; `raw_data`, `log_level` and `--print-config`, which take the same way as the
settings that are modelled. Left out for good: formatting (`mochad_event.c`,
`diagnostics.c`), the hotplug monitor and logging, CGI, contributed applications,
packaging and scripts. libusb and the kernel are external: modelled by what the code
relies on. Numeric bind addresses give one candidate to `create_listener()`, so its loop
over candidates is one pass.

## 8. Plan

1. *Done*: transmit path, loop, lifecycle, client tables, client output, lines, commands,
   startup with the configuration loader, the X10 side; proofs of every safety property of
   these.
2. The packet layouts as an encoder and a decoder that undo each other.
