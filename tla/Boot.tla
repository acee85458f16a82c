--------------------------------- MODULE Boot ---------------------------------
(***************************************************************************)
(* From main() to the event loop: the configuration (Config), the USB      *)
(* interrupt endpoints (src/usb/usb_endpoint_selection.c), and the TCP     *)
(* listeners of create_listener() (src/core/mochad.c), with every system   *)
(* call that may fail, down to the out_deinit of a startup that does.      *)
(* The USB steps between endpoints and listeners are in UsbLifecycle.      *)
(***************************************************************************)
EXTENDS Config

CONSTANTS
  Inputs,       (* bound: files, environment and argv to start with        *)
  Descriptors,  (* bound: configuration descriptors of the controller      *)
  MinPacket     (* sizeof(IntrInBuf), sizeof(IntrOutBuf)                   *)

Endpoints ==
  [ at : Nat \X Nat, type : {"control", "isochronous", "bulk", "interrupt"},
    dir : {"in", "out"}, packet : Nat, addr : 0 .. 255 ]

ASSUME DescriptorAssumption == \A d \in Descriptors : d \in Seq(Endpoints)

FileLines ==
  LET plain == { <<"none">>, <<"junk">> } \cup {"set"} \X STRING \X STRING
  IN  plain \cup {"over"} \X plain

ASSUME InputAssumption ==
  \A i \in Inputs :
    /\ i.argv \in Seq(STRING)
    /\ \A v \in DOMAIN i.env : i.env[v] \in STRING
    /\ \A p \in DOMAIN i.files : p # "" /\ i.files[p] \in Seq(FileLines)

VARIABLES
  stage,      (* where main() or mydaemon() is                             *)
  in,         (* the inputs, while they matter                             *)
  config,     (* MochadConfig                                              *)
  descr,      (* external: the controller's descriptor, while it matters   *)
  endpoints,  (* InEndpoint, OutEndpoint                                   *)
  fd,         (* listenfd, flashxmlfd, or20fd: is it a descriptor?         *)
  sock,       (* external: the socket made for a service                   *)
  collided    (* history: a port was refused because it was our own        *)

bootVars == <<stage, in, config, descr, endpoints, fd, sock, collided>>

Services == {"main", "xml", "openremote"}
PortKey == [main |-> "server_port", xml |-> "xml_port", openremote |-> "openremote_port"]

Stages == {"start", "loaded", "endpoints", "main", "xml", "openremote", "check",
           "running", "deinit", "exited"}

NoSocket == [port |-> "", v6only |-> FALSE]
NoInput  == [argv |-> <<>>]
NoConfig == [set |-> Defaults, ok |-> FALSE, check |-> FALSE]

BootTypeOK ==
  /\ stage \in Stages
  /\ \A key \in Keys : Parses(key, config.set[key])
  /\ endpoints \in [in : 0 .. 255, out : 0 .. 255]
  /\ fd \in [Services -> BOOLEAN]
  /\ sock \in [Services -> [port : Ports \cup {""}, v6only : BOOLEAN]]
  /\ collided \in BOOLEAN

BootInit ==
  /\ stage = "start" /\ in \in Inputs /\ config = NoConfig
  /\ descr = <<>> /\ endpoints = [in |-> 0, out |-> 0]
  /\ fd = [s \in Services |-> FALSE] /\ sock = [s \in Services |-> NoSocket]
  /\ collided = FALSE

-----------------------------------------------------------------------------
(* main(): --help and --version anywhere on the command line come before   *)
(* the configuration is read.                                              *)
Help ==
  /\ stage = "start" /\ \E i \in DOMAIN in.argv : in.argv[i] \in {"--help", "--version"}
  /\ stage' = "exited"
  /\ UNCHANGED <<in, config, descr, endpoints, fd, sock, collided>>

Load ==
  /\ stage = "start" /\ \A i \in DOMAIN in.argv : in.argv[i] \notin {"--help", "--version"}
  /\ config' = mochad_config_load(in)
  /\ stage' = "loaded"
  /\ UNCHANGED <<in, descr, endpoints, fd, sock, collided>>

(* A configuration error or --check-config ends main(); else mydaemon()    *)
(* finds a controller.                                                     *)
Start ==
  /\ stage = "loaded"
  /\ in' = NoInput
  /\ IF config.ok /\ ~config.check
       THEN stage' = "endpoints" /\ descr' \in Descriptors /\ UNCHANGED config
       ELSE stage' = "exited" /\ config' = NoConfig /\ UNCHANGED descr
  /\ UNCHANGED <<endpoints, fd, sock, collided>>

-----------------------------------------------------------------------------
(* A descriptor is the sequence of its endpoints, in the order of the      *)
(* loops over interfaces, alternate settings and endpoints; "at" tells     *)
(* whose an endpoint is.  An interface or setting that is missing leaves   *)
(* nothing to count.                                                       *)
Eligible(e, dir) == e.type = "interrupt" /\ e.dir = dir /\ e.packet >= MinPacket

NothingFound == [in |-> 0, out |-> 0, nin |-> 0, nout |-> 0]

(* Mutant: the alternate setting is not looked at.                         *)
count_endpoint_AnySetting(s, e, at) ==
  IF e.at[1] # at[1] THEN s
  ELSE IF Eligible(e, "in")  THEN [s EXCEPT !.in = e.addr, !.nin = @ + 1]
  ELSE IF Eligible(e, "out") THEN [s EXCEPT !.out = e.addr, !.nout = @ + 1]
  ELSE s

count_endpoint(s, e, at) ==
  IF e.at # at THEN s
  ELSE IF Eligible(e, "in")  THEN [s EXCEPT !.in = e.addr, !.nin = @ + 1]
  ELSE IF Eligible(e, "out") THEN [s EXCEPT !.out = e.addr, !.nout = @ + 1]
  ELSE s

(* mochad_select_interrupt_endpoints() for one interface and setting; the  *)
(* addresses are left set when it fails.                                   *)
select_endpoints(d, at) ==
  LET seen[k \in 0 .. Len(d)] ==
        IF k = 0 THEN NothingFound ELSE count_endpoint(seen[k - 1], d[k], at)
      end == seen[Len(d)]
  IN  [in |-> end.in, out |-> end.out, ok |-> end.nin = 1 /\ end.nout = 1]

(* get_endpoint_address(): a descriptor lookup may fail first.             *)
GetEndpointAddress ==
  /\ stage = "endpoints"
  /\ \/ /\ stage' = "deinit" /\ UNCHANGED endpoints
     \/ LET sel == select_endpoints(descr, <<0, 0>>) IN
          /\ endpoints' = [in |-> sel.in, out |-> sel.out]
          /\ stage' = IF sel.ok THEN "main" ELSE "deinit"
  /\ UNCHANGED <<in, config, descr, fd, sock, collided>>

-----------------------------------------------------------------------------
(* create_listener() for one service.  A numeric address has exactly one   *)
(* candidate, so the "continue" after a failed call ends the search.       *)
(*   call: the call that fails, or "none"; inherits: what a new IPv6       *)
(*   socket has for IPV6_V6ONLY (the sysctl bindv6only)                    *)
Calls == {"none", "socket", "reuseaddr", "v6only", "bind", "listen"}

IPv6 == config.set.bind \in Addresses6

(* Mutant: a listener that was asked to be dual-stack and cannot is kept.  *)
Counts_Lenient(call) == call \in {"socket", "reuseaddr", "bind", "listen"}

(* The failures that count: IPV6_V6ONLY only when dual stack is demanded.  *)
Counts(call) ==
  \/ call \in {"socket", "reuseaddr", "bind", "listen"}
  \/ call = "v6only" /\ config.set.dual_stack = "enable"

(* Mutant: close(fd) is forgotten when listen() fails.                     *)
Closes_NotOnListen(call) == Counts(call) /\ call # "listen"

(* ... each of them closes the socket, if there is one.                    *)
Closes(call) == Counts(call)

create_listener(s, call, inherits) ==
  LET port  == config.set[PortKey[s]]
      taken == \E o \in Services : sock[o] # NoSocket /\ sock[o].port = port
      fails == IF taken /\ call \in {"none", "v6only", "listen"} THEN "bind" ELSE call
      only  == IPv6 /\ (IF call = "v6only" THEN inherits
                                           ELSE config.set.dual_stack = "disable")
  IN  /\ call = "v6only" => IPv6
      /\ sock' = [sock EXCEPT ![s] = IF Closes(fails) THEN NoSocket
                                     ELSE [port |-> port, v6only |-> only]]
      /\ fd' = [fd EXCEPT ![s] = ~Counts(fails)]
      /\ collided' = (collided \/ (taken /\ call \notin {"socket", "reuseaddr"}))

Enabled(s) == s = "main" \/ config.set[IF s = "xml" THEN "xml_enabled"
                                                    ELSE "openremote_enabled"] = "yes"

Follow == [main |-> "xml", xml |-> "openremote", openremote |-> "check"]

Listen(s) ==
  /\ stage = s /\ Enabled(s)
  /\ \E call \in Calls, inherits \in BOOLEAN : create_listener(s, call, inherits)
  /\ stage' = Follow[s]
  /\ UNCHANGED <<in, config, descr, endpoints>>

SkipListener(s) ==
  /\ stage = s /\ ~Enabled(s)
  /\ stage' = Follow[s]
  /\ UNCHANGED <<in, config, descr, endpoints, fd, sock, collided>>

(* All the enabled listeners, or none.                                     *)
CheckListeners ==
  /\ stage = "check"
  /\ stage' = IF \A s \in Services : Enabled(s) => fd[s] THEN "running" ELSE "deinit"
  /\ UNCHANGED <<in, config, descr, endpoints, fd, sock, collided>>

(* The loop ends, and out_deinit closes what is open.                      *)
Stop ==
  /\ stage = "running" /\ stage' = "deinit"
  /\ UNCHANGED <<in, config, descr, endpoints, fd, sock, collided>>

CloseListeners ==
  /\ stage = "deinit" /\ stage' = "exited"
  /\ sock' = [s \in Services |-> IF fd[s] THEN NoSocket ELSE sock[s]]
  /\ fd' = [s \in Services |-> FALSE]
  /\ UNCHANGED <<in, config, descr, endpoints, collided>>

BootNext ==
  \/ Help \/ Load \/ Start \/ GetEndpointAddress
  \/ CheckListeners \/ Stop \/ CloseListeners
  \/ \E s \in Services : Listen(s) \/ SkipListener(s)

BootSpec == BootInit /\ [][BootNext]_bootVars

-----------------------------------------------------------------------------
(* "Configuration is applied in a predictable order: compiled defaults,    *)
(* config file, environment variables, command-line options" (README.md:   *)
(* 292-297, test_precedence): each key has the word of the last source     *)
(* that sets it, and both readers of the command line have found the same  *)
(* file, for every file without a comment of over 511 bytes.  No file that *)
(* exists may be called like an option: "--bind --config --port" would     *)
(* load it for one reader, and an address and a port for the other.        *)
Precedence ==
  stage = "loaded" /\ config.ok
  /\ (\A p \in DOMAIN in.files :
        p \notin OptionWords /\ \A i \in DOMAIN in.files[p] : ~IsOver(in.files[p][i])) =>
       \A key \in Keys : config.set[key] = Expected(in, key)

(* "Enabled listener ports must be distinct" (README.md:277-279): a        *)
(* configuration that was accepted is never refused a port by another      *)
(* listener of its own.                                                    *)
NoSelfCollision == ~collided

(* A startup is all or nothing: in the loop every enabled service listens  *)
(* on its port, and afterwards, however startup or loop ended, no socket   *)
(* is left that the daemon has lost track of.                              *)
AllOrNothing ==
  /\ stage = "running" =>
       \A s \in Services : sock[s].port = IF Enabled(s) THEN config.set[PortKey[s]] ELSE ""
  /\ stage = "exited" => \A s \in Services : sock[s] = NoSocket

(* dual_stack = enable never ends in a listener that IPv4 clients cannot   *)
(* reach, whatever the host's bindv6only says.                             *)
EnableMeansDual ==
  stage = "running" /\ config.set.dual_stack = "enable" => \A s \in Services : ~sock[s].v6only

(* The daemon goes on only with the one pair of interrupt endpoints of     *)
(* interface 0, setting 0: no other endpoint there is eligible, in         *)
(* whatever order the descriptor lists them.                               *)
EndpointsAreTheOnlyPair ==
  stage \in {"main", "xml", "openremote", "check", "running"} =>
    \A dir \in {"in", "out"} : \E k \in DOMAIN descr :
      /\ {j \in DOMAIN descr : descr[j].at = <<0, 0>> /\ Eligible(descr[j], dir)} = {k}
      /\ endpoints[dir] = descr[k].addr
=============================================================================
