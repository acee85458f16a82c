------------------------------ MODULE BootProofs ------------------------------
(***************************************************************************)
(* Proofs about Boot for every input, descriptor and set of words: what    *)
(* create_listener() leaves behind, and with it that the listeners of an   *)
(* accepted configuration never compete for a port, that startup is all or *)
(* nothing, and that dual_stack = enable means what it says; which pair of *)
(* endpoints is found; and, in the second half, that the loader's file,    *)
(* environment and two readers of the command line make of every key what  *)
(* the last source says.                                                   *)
(***************************************************************************)
EXTENDS Boot, NaturalSets, SequenceTheorems

(* Stages that main() reaches with an accepted configuration only.         *)
Accepted == {"endpoints", "main", "xml", "openremote", "check", "running", "deinit"}

(* The services create_listener() has been called for at a stage.          *)
Tried(at) ==
  CASE at \in {"start", "loaded", "endpoints", "main"} -> {}
    [] at = "xml"                                      -> {"main"}
    [] at = "openremote"                               -> {"main", "xml"}
    [] at \in {"check", "running", "deinit", "exited"} -> Services

(* A descriptor stands for a socket of the service's own port, that IPv4   *)
(* clients can reach if they have to; without one there is no socket.      *)
Held(s) ==
  IF fd[s] THEN /\ s \in Tried(stage) /\ Enabled(s)
                /\ sock[s].port = config.set[PortKey[s]]
                /\ config.set.dual_stack = "enable" => ~sock[s].v6only
           ELSE sock[s] = NoSocket

(* Ports were compared before anything was opened.                         *)
Compared ==
  /\ stage = "loaded" /\ config.ok => Distinct(config.set)
  /\ stage \in Accepted => Distinct(config.set)

(* Out of deinit nothing is left open, into the loop nothing is missing.   *)
Complete ==
  /\ stage = "running" => \A s \in Services : Enabled(s) => fd[s]
  /\ stage = "exited" => \A s \in Services : ~fd[s]

BootIInv ==
  /\ stage \in Stages
  /\ fd \in [Services -> BOOLEAN] /\ DOMAIN sock = Services
  /\ \A s \in Services : Held(s)
  /\ Compared /\ Complete /\ collided = FALSE

-----------------------------------------------------------------------------
(* What validation accepts has distinct ports.                             *)
LEMMA LoadCompares ==
  ASSUME NEW input, mochad_config_load(input).ok
  PROVE  Distinct(mochad_config_load(input).set)
<1>1. \A c : Validated(c).ok => Distinct(Validated(c).set)
  BY Zenon DEF Validated
<1>2. PICK c : mochad_config_load(input) = Validated(c)
  BY Zenon DEF mochad_config_load
<1>3. QED
  BY <1>1, <1>2, Zenon

(* Two enabled services of an accepted configuration have different ports. *)
LEMMA PortsDiffer ==
  ASSUME Distinct(config.set), NEW s \in Services, NEW o \in Services, s # o,
         Enabled(s), Enabled(o)
  PROVE  config.set[PortKey[s]] # config.set[PortKey[o]]
BY DEF Distinct, Services, PortKey, Enabled

(* create_listener(): a call that counts leaves no socket and no           *)
(* descriptor, and any other outcome leaves the listener that was asked    *)
(* for; no port is refused because of our own listeners.                   *)
LEMMA CreateListener ==
  ASSUME BootIInv, NEW s \in Services, stage = s, Enabled(s),
         NEW call \in Calls, NEW inherits \in BOOLEAN,
         create_listener(s, call, inherits)
  PROVE  /\ fd' \in [Services -> BOOLEAN] /\ DOMAIN sock' = Services
         /\ collided' = FALSE
         /\ \A o \in Services \ {s} : fd'[o] = fd[o] /\ sock'[o] = sock[o]
         /\ ~fd'[s] => sock'[s] = NoSocket
         /\ fd'[s] => /\ sock'[s].port = config.set[PortKey[s]]
                      /\ config.set.dual_stack = "enable" => ~sock'[s].v6only
<1> DEFINE port  == config.set[PortKey[s]]
           taken == \E o \in Services : sock[o] # NoSocket /\ sock[o].port = port
           only  == IPv6 /\ (IF call = "v6only" THEN inherits
                                                ELSE config.set.dual_stack = "disable")
<1>1. Distinct(config.set)
  BY DEF BootIInv, Compared, Accepted, Services
<1>2. ~taken
  <2>1. SUFFICES ASSUME NEW o \in Services, sock[o] # NoSocket, sock[o].port = port
                 PROVE  FALSE
    OBVIOUS
  <2>2. fd[o] /\ o \in Tried(stage) /\ Enabled(o) /\ sock[o].port = config.set[PortKey[o]]
    BY <2>1 DEF BootIInv, Held
  <2>3. o # s
    BY <2>2 DEF Tried, Services
  <2>4. QED
    BY <1>1, <2>1, <2>2, <2>3, PortsDiffer
<1>3. /\ sock' = [sock EXCEPT ![s] = IF Closes(call) THEN NoSocket
                                      ELSE [port |-> port, v6only |-> only]]
      /\ fd' = [fd EXCEPT ![s] = ~Counts(call)]
      /\ collided' = collided
  <2>1. taken = FALSE /\ collided = FALSE
    BY <1>2 DEF BootIInv
  <2> DEFINE fails == IF taken /\ call \in {"none", "v6only", "listen"} THEN "bind" ELSE call
  <2>2. /\ sock' = [sock EXCEPT ![s] = IF Closes(fails) THEN NoSocket
                                         ELSE [port |-> port, v6only |-> only]]
        /\ fd' = [fd EXCEPT ![s] = ~Counts(fails)]
        /\ collided' = (collided \/ (taken /\ call \notin {"socket", "reuseaddr"}))
    BY Zenon DEF create_listener
  <2>3. fails = call
    BY <2>1
  <2> HIDE DEF taken, fails, only, port
  <2>4. collided' = collided
    BY <2>1, <2>2
  <2>5. QED
    BY <2>2, <2>3, <2>4, Zenon
<1>4. Counts(call) \in BOOLEAN /\ Closes(call) = Counts(call)
  BY DEF Counts, Closes
<1>5. ~Counts(call) /\ config.set.dual_stack = "enable" => ~only
  BY DEF Counts
<1> HIDE DEF only, port
<1>6. fd \in [Services -> BOOLEAN] /\ DOMAIN sock = Services /\ collided = FALSE
  BY DEF BootIInv
<1>7. QED
  BY <1>3, <1>4, <1>5, <1>6 DEF port

-----------------------------------------------------------------------------
(* Steps that open and close nothing keep what is held.                    *)
LEMMA HeldKept ==
  ASSUME NEW s \in Services, Held(s), UNCHANGED <<config, fd, sock>>,
         Tried(stage) \subseteq Tried(stage')
  PROVE  Held(s)'
BY Zenon DEF Held, Enabled

(* Init establishes the invariant: nothing is open.                        *)
LEMMA BootInitIInv == BootInit => BootIInv
BY DEF BootInit, BootIInv, Stages, Held, Compared, Accepted, Complete

(* Each step keeps it.                                                     *)
LEMMA BootStep == BootIInv /\ [BootNext]_bootVars => BootIInv'
<1> SUFFICES ASSUME BootIInv, [BootNext]_bootVars
             PROVE  BootIInv'
  OBVIOUS
<1>1. CASE Help
  <2>1. \A s \in Services : ~fd[s]
    BY <1>1 DEF Help, BootIInv, Held, Tried
  <2>2. QED
    BY <1>1, <2>1 DEF Help, BootIInv, Held, Stages, Compared, Accepted, Complete
<1>2. CASE Load
  <2>1. \A s \in Services : ~fd[s]
    BY <1>2 DEF Load, BootIInv, Held, Tried
  <2>2. config'.ok => Distinct(config'.set)
    BY <1>2, LoadCompares DEF Load
  <2>3. stage' = "loaded" /\ UNCHANGED <<fd, sock, collided>>
    BY <1>2 DEF Load
  <2>4. QED
    BY <2>1, <2>2, <2>3 DEF BootIInv, Held, Stages, Compared, Accepted, Complete
<1>3. CASE Start
  <2>1. \A s \in Services : ~fd[s]
    BY <1>3 DEF Start, BootIInv, Held, Tried
  <2>2. UNCHANGED <<fd, sock, collided>> /\ stage' \in {"endpoints", "exited"}
    BY <1>3 DEF Start
  <2>3. stage' = "endpoints" => Distinct(config.set) /\ config' = config
    BY <1>3 DEF Start, BootIInv, Compared
  <2>4. QED
    BY <2>1, <2>2, <2>3 DEF BootIInv, Held, Stages, Compared, Accepted, Complete
<1>4. CASE GetEndpointAddress
  <2>1. /\ stage = "endpoints" /\ stage' \in {"main", "deinit"}
        /\ UNCHANGED <<config, fd, sock, collided>>
    BY <1>4 DEF GetEndpointAddress
  <2>2. Tried(stage) \subseteq Tried(stage')
    BY <2>1 DEF Tried
  <2>3. QED
    BY <2>1, <2>2, HeldKept DEF BootIInv, Stages, Compared, Accepted, Complete
<1>5. CASE CheckListeners
  <2>1. /\ stage = "check" /\ stage' \in {"running", "deinit"}
        /\ UNCHANGED <<config, fd, sock, collided>>
        /\ stage' = "running" => \A s \in Services : Enabled(s) => fd[s]
    BY <1>5 DEF CheckListeners
  <2>2. Tried(stage) \subseteq Tried(stage')
    BY <2>1 DEF Tried
  <2>3. stage' = "running" => \A s \in Services : Enabled(s)' => fd'[s]
    BY <2>1 DEF Enabled
  <2>4. QED
    BY <2>1, <2>2, <2>3, HeldKept DEF BootIInv, Stages, Compared, Accepted, Complete
<1>6. CASE Stop
  <2>1. /\ stage = "running" /\ stage' = "deinit"
        /\ UNCHANGED <<config, fd, sock, collided>>
    BY <1>6 DEF Stop
  <2>2. Tried(stage) \subseteq Tried(stage')
    BY <2>1 DEF Tried
  <2>3. QED
    BY <2>1, <2>2, HeldKept DEF BootIInv, Stages, Compared, Accepted, Complete
<1>7. CASE CloseListeners
  BY <1>7 DEF CloseListeners, BootIInv, Held, Stages, Compared, Accepted, Complete
<1>8. ASSUME NEW s \in Services, Listen(s)
      PROVE  BootIInv'
  <2>1. PICK call \in Calls, inherits \in BOOLEAN : create_listener(s, call, inherits)
    BY <1>8 DEF Listen
  <2>2. /\ stage = s /\ Enabled(s) /\ stage' = Follow[s] /\ UNCHANGED config
    BY <1>8 DEF Listen
  <2>3. /\ fd' \in [Services -> BOOLEAN] /\ DOMAIN sock' = Services
        /\ collided' = FALSE
        /\ \A o \in Services \ {s} : fd'[o] = fd[o] /\ sock'[o] = sock[o]
        /\ ~fd'[s] => sock'[s] = NoSocket
        /\ fd'[s] => /\ sock'[s].port = config.set[PortKey[s]]
                     /\ config.set.dual_stack = "enable" => ~sock'[s].v6only
    BY <2>1, <2>2, CreateListener
  <2>4. Tried(stage') = Tried(stage) \cup {s} /\ stage' \in {"xml", "openremote", "check"}
    BY <2>2 DEF Tried, Follow, Services
  <2>5. \A o \in Services : Held(o)'
    <3>1. SUFFICES ASSUME NEW o \in Services PROVE Held(o)'
      OBVIOUS
    <3>2. CASE o = s
      BY <2>2, <2>3, <2>4, <3>2 DEF Held, Enabled
    <3>3. CASE o # s
      <4>1. fd'[o] = fd[o] /\ sock'[o] = sock[o] /\ Held(o)
        BY <2>3, <3>3 DEF BootIInv
      <4>2. QED
        BY <2>2, <2>4, <4>1 DEF Held, Enabled
    <3>4. QED
      BY <3>2, <3>3
  <2>6. Distinct(config.set)
    BY <2>2 DEF BootIInv, Compared, Accepted, Services
  <2>7. QED
    BY <2>2, <2>3, <2>4, <2>5, <2>6 DEF BootIInv, Stages, Compared, Accepted, Complete
<1>9. ASSUME NEW s \in Services, SkipListener(s)
      PROVE  BootIInv'
  <2>1. stage = s /\ stage' = Follow[s] /\ UNCHANGED <<config, fd, sock, collided>>
    BY <1>9 DEF SkipListener
  <2>2. Tried(stage) \subseteq Tried(stage') /\ stage' \in {"xml", "openremote", "check"}
    BY <2>1 DEF Tried, Follow, Services
  <2>3. Distinct(config.set)
    BY <2>1 DEF BootIInv, Compared, Accepted, Services
  <2>4. QED
    BY <2>1, <2>2, <2>3, HeldKept DEF BootIInv, Stages, Compared, Accepted, Complete
<1>10. CASE UNCHANGED bootVars
  <2>1. UNCHANGED <<stage, config, fd, sock, collided>>
    BY <1>10 DEF bootVars
  <2>2. Tried(stage) \subseteq Tried(stage')
    BY <2>1
  <2>3. QED
    BY <2>1, <2>2, HeldKept DEF BootIInv, Stages, Compared, Accepted, Complete, Enabled
<1>11. QED
  BY <1>1, <1>2, <1>3, <1>4, <1>5, <1>6, <1>7, <1>8, <1>9, <1>10 DEF BootNext

(* The endpoints.  After k of them the counts and the addresses tell which *)
(* of the first k are eligible: none, the one whose address is kept, or    *)
(* more.                                                                   *)
Found(d, at, dir, k) == {j \in 1 .. k : d[j].at = at /\ Eligible(d[j], dir)}

Tells(d, at, dir, k, n, addr) ==
  /\ n \in Nat
  /\ n = 0 => Found(d, at, dir, k) = {}
  /\ n = 1 => \E j \in 1 .. k : Found(d, at, dir, k) = {j} /\ addr = d[j].addr

Counted(d, at, k, s) ==
  /\ s \in [in : 0 .. 255, out : 0 .. 255, nin : Nat, nout : Nat]
  /\ Tells(d, at, "in", k, s.nin, s.in)
  /\ Tells(d, at, "out", k, s.nout, s.out)

SeenStep(g, d, at, k) ==
  IF k = 0 THEN NothingFound ELSE count_endpoint(g[k - 1], d[k], at)

(* The loops end, whatever the descriptor.                                 *)
LEMMA SeenExists ==
  ASSUME NEW n \in Nat, NEW d, NEW at
  PROVE  \E g : g = [k \in 0 .. n |-> SeenStep(g, d, at, k)]
<1> DEFINE T == {m \in Nat : \E g : g = [k \in 0 .. m |-> SeenStep(g, d, at, k)]}
<1>1. 0 \in T
  <2> DEFINE g == [k \in 0 .. 0 |-> NothingFound]
  <2>1. g = [k \in 0 .. 0 |-> SeenStep(g, d, at, k)]
    BY DEF SeenStep
  <2>2. QED
    BY <2>1
<1>2. \A m \in Nat : m \in T => m + 1 \in T
  <2>1. SUFFICES ASSUME NEW m \in Nat, m \in T
                 PROVE  \E h : h = [k \in 0 .. m + 1 |-> SeenStep(h, d, at, k)]
    OBVIOUS
  <2>2. PICK g : g = [k \in 0 .. m |-> SeenStep(g, d, at, k)]
    BY <2>1
  <2> DEFINE h == [k \in 0 .. m + 1 |-> IF k <= m THEN g[k] ELSE SeenStep(g, d, at, k)]
  <2>3. ASSUME NEW k \in 0 .. m + 1
        PROVE  h[k] = SeenStep(h, d, at, k)
    <3>1. CASE k = 0
      BY <2>2, <3>1 DEF SeenStep
    <3>2. CASE k # 0
      <4>1. k - 1 \in 0 .. m /\ h[k - 1] = g[k - 1]
        BY <3>2
      <4>2. h[k] = SeenStep(g, d, at, k)
        BY <2>2
      <4>3. QED
        BY <3>2, <4>1, <4>2 DEF SeenStep
    <3>3. QED
      BY <3>1, <3>2
  <2> HIDE DEF h
  <2>4. h = [k \in 0 .. m + 1 |-> h[k]]
    BY DEF h
  <2>5. h = [k \in 0 .. m + 1 |-> SeenStep(h, d, at, k)]
    BY <2>3, <2>4
  <2>6. QED
    BY <2>5
<1> HIDE DEF T
<1>3. \A m \in Nat : m \in T
  BY <1>1, <1>2, SetInduction
<1>4. QED
  BY <1>3 DEF T

(* What select_endpoints() has seen after each endpoint of a descriptor.   *)
LEMMA SeenDef ==
  ASSUME NEW d \in Seq(Endpoints), NEW at
  PROVE  \E g : /\ g = [k \in 0 .. Len(d) |-> SeenStep(g, d, at, k)]
                /\ select_endpoints(d, at) =
                     [in |-> g[Len(d)].in, out |-> g[Len(d)].out,
                      ok |-> g[Len(d)].nin = 1 /\ g[Len(d)].nout = 1]
<1> DEFINE g == CHOOSE h : h = [k \in 0 .. Len(d) |-> SeenStep(h, d, at, k)]
<1>1. Len(d) \in Nat
  OBVIOUS
<1>2. g = [k \in 0 .. Len(d) |-> SeenStep(g, d, at, k)]
  BY <1>1, SeenExists
<1>3. select_endpoints(d, at) =
        [in |-> g[Len(d)].in, out |-> g[Len(d)].out,
         ok |-> g[Len(d)].nin = 1 /\ g[Len(d)].nout = 1]
  BY DEF select_endpoints, SeenStep
<1>4. QED
  BY <1>2, <1>3

(* One more endpoint for one direction.                                    *)
LEMMA TellsOn ==
  ASSUME NEW d, NEW at, NEW dir, NEW k \in Nat, NEW n, NEW addr, Tells(d, at, dir, k, n, addr),
         NEW m, NEW new,
         IF d[k + 1].at = at /\ Eligible(d[k + 1], dir) THEN m = n + 1 /\ new = d[k + 1].addr
                                                        ELSE m = n /\ new = addr
  PROVE  Tells(d, at, dir, k + 1, m, new)
<1>1. 1 .. k + 1 = (1 .. k) \cup {k + 1} /\ n \in Nat
  BY DEF Tells
<1>2. CASE d[k + 1].at = at /\ Eligible(d[k + 1], dir)
  <2>1. Found(d, at, dir, k + 1) = Found(d, at, dir, k) \cup {k + 1}
    BY <1>1, <1>2 DEF Found
  <2>2. m = n + 1 /\ new = d[k + 1].addr
    BY <1>2
  <2>3. m \in Nat /\ m # 0 /\ (m = 1 => n = 0)
    BY <1>1, <2>2
  <2>4. m = 1 => Found(d, at, dir, k + 1) = {k + 1}
    BY <2>1, <2>3 DEF Tells
  <2>5. k + 1 \in 1 .. k + 1
    OBVIOUS
  <2>6. QED
    BY <2>2, <2>3, <2>4, <2>5 DEF Tells
<1>3. CASE ~(d[k + 1].at = at /\ Eligible(d[k + 1], dir))
  <2>1. Found(d, at, dir, k + 1) = Found(d, at, dir, k)
    BY <1>1, <1>3 DEF Found
  <2>2. m = n /\ new = addr
    BY <1>3
  <2>3. QED
    BY <1>1, <2>1, <2>2 DEF Tells
<1>4. QED
  BY <1>2, <1>3

(* One turn of the inner loop.                                             *)
LEMMA CountOne ==
  ASSUME NEW d \in Seq(Endpoints), NEW at, NEW k \in Nat, k + 1 \in 1 .. Len(d),
         NEW s, Counted(d, at, k, s)
  PROVE  Counted(d, at, k + 1, count_endpoint(s, d[k + 1], at))
<1> DEFINE e == d[k + 1]
           t == count_endpoint(s, e, at)
<1>1. e \in Endpoints
  BY ElementOfSeq
<1>2. s \in [in : 0 .. 255, out : 0 .. 255, nin : Nat, nout : Nat] /\ e.addr \in 0 .. 255
  BY <1>1 DEF Counted, Endpoints
<1>3. ~(Eligible(e, "in") /\ Eligible(e, "out"))
  BY DEF Eligible
<1> HIDE DEF e
<1>4. t = IF e.at # at THEN s
          ELSE IF Eligible(e, "in")  THEN [s EXCEPT !.in = e.addr, !.nin = @ + 1]
          ELSE IF Eligible(e, "out") THEN [s EXCEPT !.out = e.addr, !.nout = @ + 1]
          ELSE s
  BY DEF count_endpoint
<1> HIDE DEF t
<1>5. t \in [in : 0 .. 255, out : 0 .. 255, nin : Nat, nout : Nat]
  <2> DEFINE R == [in : 0 .. 255, out : 0 .. 255, nin : Nat, nout : Nat]
  <2>1. s.nin + 1 \in Nat /\ s.nout + 1 \in Nat
    BY <1>2
  <2>2. [s EXCEPT !.in = e.addr, !.nin = @ + 1] \in R
    BY <1>2, <2>1
  <2>3. [s EXCEPT !.out = e.addr, !.nout = @ + 1] \in R
    BY <1>2, <2>1
  <2>4. s \in R
    BY <1>2
  <2> HIDE DEF R
  <2>5. t \in R
    BY <1>4, <2>2, <2>3, <2>4
  <2>6. QED
    BY <2>5 DEF R
<1>6. IF e.at = at /\ Eligible(e, "in") THEN t.nin = s.nin + 1 /\ t.in = e.addr
                                        ELSE t.nin = s.nin /\ t.in = s.in
  BY <1>2, <1>4
<1>7. IF e.at = at /\ Eligible(e, "out") THEN t.nout = s.nout + 1 /\ t.out = e.addr
                                         ELSE t.nout = s.nout /\ t.out = s.out
  BY <1>2, <1>3, <1>4
<1>8. Tells(d, at, "in", k, s.nin, s.in) /\ Tells(d, at, "out", k, s.nout, s.out)
  BY DEF Counted
<1>9. Tells(d, at, "in", k + 1, t.nin, t.in)
  BY <1>6, <1>8, TellsOn DEF e
<1>10. Tells(d, at, "out", k + 1, t.nout, t.out)
  BY <1>7, <1>8, TellsOn DEF e
<1>11. Counted(d, at, k + 1, t)
  BY <1>5, <1>9, <1>10 DEF Counted
<1>12. QED
  BY <1>11 DEF t, e

(* mochad_select_interrupt_endpoints() succeeds with the only two.         *)
LEMMA SelectEndpoints ==
  ASSUME NEW d \in Seq(Endpoints), NEW at, select_endpoints(d, at).ok
  PROVE  \A dir \in {"in", "out"} : \E k \in DOMAIN d :
           /\ {j \in DOMAIN d : d[j].at = at /\ Eligible(d[j], dir)} = {k}
           /\ [in |-> select_endpoints(d, at).in, out |-> select_endpoints(d, at).out][dir]
                = d[k].addr
<1>1. PICK g : /\ g = [k \in 0 .. Len(d) |-> SeenStep(g, d, at, k)]
               /\ select_endpoints(d, at) =
                    [in |-> g[Len(d)].in, out |-> g[Len(d)].out,
                     ok |-> g[Len(d)].nin = 1 /\ g[Len(d)].nout = 1]
  BY SeenDef
<1>2. Len(d) \in Nat /\ DOMAIN d = 1 .. Len(d)
  OBVIOUS
<1> DEFINE T == {k \in Nat : k <= Len(d) => Counted(d, at, k, g[k])}
<1>3. 0 \in T
  <2>1. g[0] = NothingFound
    BY <1>1, <1>2 DEF SeenStep
  <2>2. \A dir : Found(d, at, dir, 0) = {}
    BY DEF Found
  <2>3. QED
    BY <2>1, <2>2 DEF Counted, Tells, NothingFound
<1>4. \A k \in Nat : k \in T => k + 1 \in T
  <2>1. SUFFICES ASSUME NEW k \in Nat, k \in T, k + 1 <= Len(d)
                 PROVE  Counted(d, at, k + 1, g[k + 1])
    OBVIOUS
  <2>2. k \in 0 .. Len(d) /\ k + 1 \in 0 .. Len(d) /\ k + 1 \in 1 .. Len(d)
        /\ k + 1 # 0 /\ (k + 1) - 1 = k
    BY <1>2, <2>1
  <2>3. g[k + 1] = SeenStep(g, d, at, k + 1)
    BY <1>1, <2>2
  <2>4. g[k + 1] = count_endpoint(g[k], d[k + 1], at)
    BY <2>2, <2>3 DEF SeenStep
  <2>5. Counted(d, at, k, g[k])
    BY <1>2, <2>1, <2>2
  <2>6. QED
    BY <2>2, <2>4, <2>5, CountOne
<1> DEFINE s == g[Len(d)]
<1>5. Counted(d, at, Len(d), s)
  <2> HIDE DEF T
  <2>1. Len(d) \in T
    BY <1>2, <1>3, <1>4, SetInduction
  <2>2. QED
    BY <1>2, <2>1 DEF T
<1> HIDE DEF s, T
<1>6. /\ select_endpoints(d, at).in = s.in /\ select_endpoints(d, at).out = s.out
      /\ s.nin = 1 /\ s.nout = 1
  <2> DEFINE sel == select_endpoints(d, at)
             ok  == s.nin = 1 /\ s.nout = 1
  <2>1. sel = [in |-> s.in, out |-> s.out, ok |-> ok]
    BY <1>1 DEF s
  <2>2. sel.ok
    OBVIOUS
  <2> HIDE DEF sel, ok
  <2>3. sel.in = s.in /\ sel.out = s.out /\ ok
    BY <2>1, <2>2
  <2>4. QED
    BY <2>3 DEF sel, ok
<1>7. \A dir : Found(d, at, dir, Len(d)) = {j \in DOMAIN d : d[j].at = at /\ Eligible(d[j], dir)}
  BY <1>2 DEF Found
<1>8. \E k \in DOMAIN d :
        /\ {j \in DOMAIN d : d[j].at = at /\ Eligible(d[j], "in")} = {k}
        /\ s.in = d[k].addr
  BY <1>2, <1>5, <1>6, <1>7 DEF Counted, Tells
<1>9. \E k \in DOMAIN d :
        /\ {j \in DOMAIN d : d[j].at = at /\ Eligible(d[j], "out")} = {k}
        /\ s.out = d[k].addr
  BY <1>2, <1>5, <1>6, <1>7 DEF Counted, Tells
<1>10. QED
  BY <1>6, <1>8, <1>9

(* The invariant of startup, from main() to exit.                          *)
LEMMA BootInductive == BootSpec => []BootIInv
BY BootInitIInv, BootStep, PTL DEF BootSpec

-----------------------------------------------------------------------------
(* "Enabled listener ports must be distinct": whatever the configuration   *)
(* that was accepted, bind() refuses none of its ports because another     *)
(* listener of the daemon has it.                                          *)
THEOREM OwnPortsFree == BootSpec => []NoSelfCollision
<1>1. BootIInv => NoSelfCollision
  BY DEF BootIInv, NoSelfCollision
<1>2. QED
  BY <1>1, BootInductive, PTL

(* Whichever call fails at whichever service, the loop runs with every     *)
(* enabled listener on its port and no other, and the end of the daemon    *)
(* leaves no socket behind.                                                *)
THEOREM StartsAllOrNothing == BootSpec => []AllOrNothing
<1>1. BootIInv => AllOrNothing
  <2>1. SUFFICES ASSUME BootIInv
                 PROVE  AllOrNothing
    OBVIOUS
  <2>2. \A s \in Services :
          /\ fd[s] => Enabled(s) /\ sock[s].port = config.set[PortKey[s]]
          /\ ~fd[s] => sock[s] = NoSocket
    BY <2>1 DEF BootIInv, Held
  <2>3. Complete
    BY <2>1 DEF BootIInv
  <2>4. NoSocket.port = ""
    BY DEF NoSocket
  <2>5. stage = "running" =>
          \A s \in Services : sock[s].port = IF Enabled(s) THEN config.set[PortKey[s]] ELSE ""
    BY <2>2, <2>3, <2>4 DEF Complete
  <2>6. stage = "exited" => \A s \in Services : sock[s] = NoSocket
    BY <2>2, <2>3 DEF Complete
  <2>7. QED
    BY <2>5, <2>6 DEF AllOrNothing
<1>2. QED
  BY <1>1, BootInductive, PTL

(* With dual_stack = enable no listener in use is for IPv6 alone, whatever *)
(* the host gives a new socket.                                            *)
THEOREM EnableIsDual == BootSpec => []EnableMeansDual
<1>1. BootIInv => EnableMeansDual
  <2>1. SUFFICES ASSUME BootIInv, config.set.dual_stack = "enable", NEW s \in Services
                 PROVE  ~sock[s].v6only
    BY DEF EnableMeansDual
  <2>2. Held(s)
    BY <2>1 DEF BootIInv
  <2>3. ~NoSocket.v6only
    BY DEF NoSocket
  <2>4. QED
    BY <2>1, <2>2, <2>3 DEF Held
<1>2. QED
  BY <1>1, BootInductive, PTL

(* The two endpoints the daemon reads from and writes to are the only ones *)
(* of their kind in interface 0, setting 0, whatever else the descriptor   *)
(* lists and in whatever order.                                            *)
THEOREM EndpointsOnly == BootSpec => []EndpointsAreTheOnlyPair
<1> DEFINE Inv == /\ stage \in Stages
                  /\ stage = "endpoints" => descr \in Descriptors
                  /\ EndpointsAreTheOnlyPair
           Past == {"main", "xml", "openremote", "check", "running"}
           Pair == \A dir \in {"in", "out"} : \E k \in DOMAIN descr :
                     /\ {j \in DOMAIN descr : descr[j].at = <<0, 0>> /\ Eligible(descr[j], dir)} = {k}
                     /\ endpoints[dir] = descr[k].addr
<1>1. BootInit => Inv
  BY DEF BootInit, Stages, EndpointsAreTheOnlyPair
<1>2. Inv /\ [BootNext]_bootVars => Inv'
  <2> SUFFICES ASSUME Inv, [BootNext]_bootVars
               PROVE  Inv'
    OBVIOUS
  <2>1. EndpointsAreTheOnlyPair <=> (stage \in Past => Pair)
    BY DEF EndpointsAreTheOnlyPair
  <2>2. EndpointsAreTheOnlyPair' <=> (stage' \in Past => Pair')
    BY DEF EndpointsAreTheOnlyPair
  <2>3. CASE Help \/ Load
    BY <2>2, <2>3 DEF Help, Load, Stages
  <2>4. CASE Start
    BY <2>2, <2>4 DEF Start, Stages
  <2>5. CASE GetEndpointAddress
    <3>1. CASE stage' = "deinit"
      BY <2>2, <3>1 DEF Stages
    <3>2. CASE stage' # "deinit"
      <4> DEFINE sel == select_endpoints(descr, <<0, 0>>)
      <4>1. /\ stage = "endpoints" /\ stage' = "main" /\ descr' = descr
            /\ endpoints' = [in |-> sel.in, out |-> sel.out] /\ sel.ok
        BY <2>5, <3>2 DEF GetEndpointAddress
      <4>2. descr \in Seq(Endpoints)
        BY <4>1, DescriptorAssumption
      <4>3. \A dir \in {"in", "out"} : \E k \in DOMAIN descr :
              /\ {j \in DOMAIN descr : descr[j].at = <<0, 0>> /\ Eligible(descr[j], dir)} = {k}
              /\ [in |-> select_endpoints(descr, <<0, 0>>).in,
                  out |-> select_endpoints(descr, <<0, 0>>).out][dir] = descr[k].addr
        BY <4>1, <4>2, SelectEndpoints
      <4> HIDE DEF sel
      <4>4. QED
        <5>1. \A dir \in {"in", "out"} : \E k \in DOMAIN descr :
                /\ {j \in DOMAIN descr : descr[j].at = <<0, 0>> /\ Eligible(descr[j], dir)} = {k}
                /\ endpoints'[dir] = descr[k].addr
          BY <4>1, <4>3 DEF sel
        <5>2. Pair'
          BY <4>1, <5>1
        <5>3. QED
          BY <2>2, <4>1, <5>2 DEF Stages
    <3>3. QED
      BY <3>1, <3>2
  <2>6. CASE CheckListeners \/ Stop \/ CloseListeners \/ UNCHANGED bootVars
    <3>1. /\ UNCHANGED <<descr, endpoints>> /\ stage' \in Stages
          /\ stage' \in Past => stage \in Past
          /\ stage' = "endpoints" => stage = "endpoints"
      BY <2>6 DEF CheckListeners, Stop, CloseListeners, bootVars, Stages
    <3>2. Pair' <=> Pair
      BY <3>1
    <3>3. QED
      BY <2>1, <2>2, <3>1, <3>2
  <2>7. ASSUME NEW s \in Services, Listen(s) \/ SkipListener(s)
        PROVE  Inv'
    <3>1. /\ UNCHANGED <<descr, endpoints>> /\ stage' \in Stages
          /\ stage \in Past /\ stage' # "endpoints"
      BY <2>7 DEF Listen, SkipListener, Services, Follow, Stages
    <3>2. Pair' <=> Pair
      BY <3>1
    <3>3. QED
      BY <2>1, <2>2, <3>1, <3>2
  <2>8. QED
    BY <2>3, <2>4, <2>5, <2>6, <2>7 DEF BootNext
<1>3. Inv => EndpointsAreTheOnlyPair
  OBVIOUS
<1>4. QED
  BY <1>1, <1>2, <1>3, PTL DEF BootSpec

-----------------------------------------------------------------------------
(* Words.  All are strings; the provers have to be told of the literals.   *)
Words == STRING \cup Keys \cup Policies \cup
         {"", "yes", "no", "0.0.0.0", "1099", "1100", "1101"}

(* The loader.  A configuration under way, and a line that is no long      *)
(* comment.                                                                *)
Configs == [set : [Keys -> Words], ok : BOOLEAN, check : BOOLEAN]
PlainLines == { <<"none">>, <<"junk">> } \cup {"set"} \X Words \X Words

(* The greatest of a set of positions that has the last one.               *)
LEMMA MaxIsLast ==
  ASSUME NEW k \in Nat, NEW S \in SUBSET (1 .. k), k \in S
  PROVE  MaxOf(S) = k
<1>1. \A i \in S : (\A j \in S : j <= i) <=> i = k
  OBVIOUS
<1>2. \E i \in S : \A j \in S : j <= i
  BY <1>1
<1>3. MaxOf(S) \in S /\ \A j \in S : j <= MaxOf(S)
  BY <1>2 DEF MaxOf
<1>4. QED
  BY <1>1, <1>3

(* A set of positions that is not empty has one.                           *)
LEMMA MaxIsIn ==
  ASSUME NEW n \in Nat, NEW S \in SUBSET (1 .. n), S # {}
  PROVE  MaxOf(S) \in S
<1> DEFINE D == {n - j : j \in S}
<1>1. D \in SUBSET Nat /\ D # {}
  <2>1. \A j \in S : n - j \in Nat
    OBVIOUS
  <2>2. PICK j \in S : TRUE
    OBVIOUS
  <2>3. n - j \in D
    OBVIOUS
  <2>4. D \subseteq Nat
    BY <2>1
  <2> HIDE DEF D
  <2>5. QED
    BY <2>3, <2>4
<1>2. PICK m \in D : \A k \in D : m <= k
  BY <1>1, Least
<1>3. PICK i \in S : m = n - i
  OBVIOUS
<1>4. \A j \in S : n - j \in D /\ j \in Int
  OBVIOUS
<1>5. \A j \in S : j <= i
  BY <1>2, <1>3, <1>4
<1>6. QED
  BY <1>5 DEF MaxOf

(* d is what becomes of c when key is to get word, or nothing is to change *)
(* (sets is FALSE), if no error occurs.                                    *)
Puts(c, d, sets, key, word) ==
  /\ d \in Configs
  /\ d.ok => /\ c.ok
             /\ \A x \in Keys : d.set[x] = IF sets /\ key = x THEN word ELSE c.set[x]

(* apply_key_value(): what it accepts it sets, and nothing else.           *)
LEMMA ApplyKeyValue ==
  ASSUME NEW c \in Configs, NEW key \in Words, NEW word \in Words
  PROVE  Puts(c, apply_key_value(c, key, word), TRUE, key, word)
<1> DEFINE d == apply_key_value(c, key, word)
<1>1. c.set \in [Keys -> Words]
  BY DEF Configs
<1>2. CASE c.ok /\ key \in Keys /\ Parses(key, word)
  <2>1. d = [c EXCEPT !.set[key] = word]
    BY <1>2 DEF apply_key_value
  <2>2. [c.set EXCEPT ![key] = word] \in [Keys -> Words]
    BY <1>1
  <2>3. d = [c EXCEPT !.set = [c.set EXCEPT ![key] = word]]
    BY <2>1
  <2>4. d \in Configs
    BY <2>2, <2>3 DEF Configs
  <2>5. d.set = [c.set EXCEPT ![key] = word]
    BY <2>3 DEF Configs
  <2> HIDE DEF d
  <2>6. \A x \in Keys : d.set[x] = IF TRUE /\ key = x THEN word ELSE c.set[x]
    BY <1>1, <2>5
  <2>7. QED
    BY <1>2, <2>4, <2>6 DEF d, Puts
<1>3. CASE ~(c.ok /\ key \in Keys /\ Parses(key, word))
  <2>1. d = Failed(c)
    BY <1>3, Zenon DEF apply_key_value
  <2>2. Failed(c) \in Configs /\ Failed(c).ok = FALSE
    BY DEF Failed, Configs
  <2>3. QED
    BY <2>1, <2>2 DEF Puts
<1>4. QED
  BY <1>2, <1>3

(* One line.                                                               *)
LEMMA ApplyLine ==
  ASSUME NEW c \in Configs, NEW line \in PlainLines
  PROVE  Puts(c, apply_line(c, line), line[1] = "set", line[2], line[3])
<1> DEFINE d == apply_line(c, line)
<1>1. CASE line = <<"none">>
  <2>1. line[1] = "none"
    BY <1>1
  <2>2. d = c
    BY <2>1 DEF apply_line
  <2>3. QED
    BY <2>1, <2>2 DEF Puts
<1>2. CASE line = <<"junk">>
  <2>1. line[1] = "junk"
    BY <1>2
  <2>2. d = Failed(c)
    BY <2>1, Zenon DEF apply_line
  <2>3. Failed(c) \in Configs /\ Failed(c).ok = FALSE
    BY DEF Failed, Configs
  <2>4. QED
    BY <2>2, <2>3 DEF Puts
<1>3. CASE line \in {"set"} \X Words \X Words
  <2>1. line[1] = "set" /\ line[2] \in Words /\ line[3] \in Words
    BY <1>3
  <2>2. d = apply_key_value(c, line[2], line[3])
    BY <2>1 DEF apply_line
  <2>3. Puts(c, apply_key_value(c, line[2], line[3]), TRUE, line[2], line[3])
    BY <2>1, ApplyKeyValue
  <2>4. (line[1] = "set") = TRUE
    BY <2>1
  <2>5. QED
    BY <2>2, <2>3, <2>4, Zenon
<1>4. QED
  BY <1>1, <1>2, <1>3 DEF PlainLines

(* The lines that set a key, among the first k; and what the last of them  *)
(* has given it.                                                           *)
Among(lines, x, k) == {i \in 1 .. k : lines[i][1] = "set" /\ lines[i][2] = x}
LastWord(lines, S, old) == IF S = {} THEN old ELSE lines[MaxOf(S)][3]

(* c became d by the first k lines.                                        *)
ReadTo(c, d, lines, k) ==
  /\ d \in Configs
  /\ d.ok => /\ c.ok
             /\ \A x \in Keys : d.set[x] = LastWord(lines, Among(lines, x, k), c.set[x])

(* One line more.                                                          *)
LEMMA ReadOn ==
  ASSUME NEW lines \in Seq(PlainLines), NEW k \in Nat, k + 1 \in 1 .. Len(lines),
         NEW c \in Configs, NEW d, ReadTo(c, d, lines, k)
  PROVE  ReadTo(c, apply_line(d, lines[k + 1]), lines, k + 1)
<1> DEFINE line == lines[k + 1]
           e == apply_line(d, line)
<1>1. d \in Configs /\ line \in PlainLines
  BY ElementOfSeq DEF ReadTo
<1>2. Puts(d, e, line[1] = "set", line[2], line[3])
  BY <1>1, ApplyLine
<1> HIDE DEF e
<1>3. ASSUME e.ok, NEW x \in Keys
      PROVE  e.set[x] = LastWord(lines, Among(lines, x, k + 1), c.set[x])
  <2>1. 1 .. k + 1 = (1 .. k) \cup {k + 1}
    OBVIOUS
  <2>2. d.ok /\ d.set[x] = LastWord(lines, Among(lines, x, k), c.set[x])
    BY <1>2, <1>3 DEF Puts, ReadTo
  <2>3. CASE line[1] = "set" /\ line[2] = x
    <3>1. k + 1 \in Among(lines, x, k + 1) /\ Among(lines, x, k + 1) \in SUBSET (1 .. k + 1)
      BY <2>3 DEF Among
    <3>2. MaxOf(Among(lines, x, k + 1)) = k + 1
      BY <3>1, MaxIsLast
    <3>3. e.set[x] = line[3]
      BY <1>2, <1>3, <2>3 DEF Puts
    <3>4. QED
      BY <3>1, <3>2, <3>3 DEF LastWord
  <2>4. CASE ~(line[1] = "set" /\ line[2] = x)
    <3>1. Among(lines, x, k + 1) = Among(lines, x, k)
      BY <2>1, <2>4 DEF Among
    <3>2. e.set[x] = d.set[x]
      BY <1>2, <1>3, <2>4 DEF Puts
    <3>3. QED
      BY <2>2, <3>1, <3>2
  <2>5. QED
    BY <2>3, <2>4
<1>4. e.ok => c.ok
  BY <1>2 DEF Puts, ReadTo
<1>5. e \in Configs
  BY <1>2 DEF Puts
<1>6. ReadTo(c, e, lines, k + 1)
  BY <1>3, <1>4, <1>5 DEF ReadTo
<1>7. QED
  BY <1>6 DEF e

(* load_config_file()'s loop, and the sequence of apply_env_value() calls. *)
LEMMA ApplyLines ==
  ASSUME NEW lines \in Seq(PlainLines), NEW c \in Configs
  PROVE  ReadTo(c, apply_lines(c, lines), lines, Len(lines))
<1> DEFINE n == Len(lines)
           Reads(g) == g = [k \in 0 .. n |-> IF k = 0 THEN c ELSE apply_line(g[k - 1], lines[k])]
           g == CHOOSE h : Reads(h)
<1>1. n \in Nat
  OBVIOUS
<1>2. apply_lines(c, lines) = g[n]
  BY DEF apply_lines
<1>3. \E h : Reads(h)
  <2> DEFINE F == [x \in Configs \X (1 .. n) |-> apply_line(x[1], lines[x[2]])]
  <2>1. \A d \in Configs, k \in 1 .. n : apply_line(d, lines[k]) \in Configs
    <3>1. \A k \in 1 .. n : lines[k] \in PlainLines
      BY ElementOfSeq
    <3>2. QED
      BY <3>1, ApplyLine DEF Puts
  <2>2. F \in [Configs \X (1 .. n) -> Configs]
    BY <2>1
  <2>3. \A d \in Configs, k \in 1 .. n : F[<<d, k>>] = apply_line(d, lines[k])
    OBVIOUS
  <2> HIDE DEF F
  <2>4. PICK h \in [0 .. n -> Configs] : Runs(h, n, c, F)
    BY <1>1, <2>2, LoopRuns
  <2>5. ASSUME NEW k \in 0 .. n
        PROVE  h[k] = IF k = 0 THEN c ELSE apply_line(h[k - 1], lines[k])
    <3>1. CASE k = 0
      BY <2>4, <3>1 DEF Runs
    <3>2. CASE k # 0
      <4>1. k \in 1 .. n /\ h[k - 1] \in Configs
        BY <1>1, <2>4, <3>2
      <4>2. QED
        BY <2>3, <2>4, <3>2, <4>1 DEF Runs
    <3>3. QED
      BY <3>1, <3>2
  <2>6. h = [k \in 0 .. n |-> h[k]]
    OBVIOUS
  <2>7. Reads(h)
    BY <2>5, <2>6
  <2>8. QED
    BY <2>7
<1>4. Reads(g)
  <2> HIDE DEF Reads
  <2>1. QED
    BY <1>3
<1> HIDE DEF g
<1> DEFINE T == {k \in Nat : k <= n => ReadTo(c, g[k], lines, k)}
<1>5. 0 \in T
  <2>1. g[0] = c
    BY <1>1, <1>4
  <2>2. \A x : Among(lines, x, 0) = {}
    BY DEF Among
  <2>3. QED
    BY <2>1, <2>2 DEF ReadTo, LastWord
<1>6. \A k \in Nat : k \in T => k + 1 \in T
  <2>1. SUFFICES ASSUME NEW k \in Nat, k \in T, k + 1 <= n
                 PROVE  ReadTo(c, g[k + 1], lines, k + 1)
    OBVIOUS
  <2>2. k + 1 \in 0 .. n /\ k + 1 \in 1 .. n /\ k + 1 # 0 /\ (k + 1) - 1 = k /\ k <= n
    BY <1>1, <2>1
  <2>3. g[k + 1] = apply_line(g[k], lines[k + 1])
    BY <1>4, <2>2
  <2>4. ReadTo(c, g[k], lines, k)
    BY <2>1, <2>2
  <2>5. QED
    BY <2>2, <2>3, <2>4, ReadOn
<1> HIDE DEF T
<1>7. n \in T
  BY <1>1, <1>5, <1>6, SetInduction
<1>8. QED
  BY <1>1, <1>2, <1>7 DEF T

-----------------------------------------------------------------------------
(* The command line.  States of its two readers.                           *)
CliStates == [c : Configs, for : Takes \cup {""}]
Scans == [path : Words, next : BOOLEAN, ok : BOOLEAN]

(* What the options are.                                                   *)
LEMMA Names ==
  /\ "" \notin Takes /\ "--config" \in Takes /\ "--config" \notin DOMAIN WithWord
  /\ "--check-config" \notin Takes \cup DOMAIN Alone
  /\ Takes \cap DOMAIN Alone = {} /\ Takes = {"--config"} \cup DOMAIN WithWord
  /\ "" \notin DOMAIN Alone
  /\ OptionWords = Takes \cup DOMAIN Alone \cup {"--check-config"}
<1>1. DOMAIN WithWord = {"--bind", "--port", "--xml-port", "--openremote-port", "--dual-stack"}
  BY DEF WithWord
<1>2. DOMAIN Alone = {"-d", "--foreground", "--background", "--enable-xml", "--disable-xml",
                      "--enable-openremote", "--disable-openremote"}
  BY DEF Alone
<1>3. Takes = {"--config"} \cup DOMAIN WithWord
  BY DEF Takes
<1>4. OptionWords = Takes \cup DOMAIN Alone \cup {"--check-config"}
  BY DEF OptionWords
<1>5. "" \notin Takes /\ "--config" \in Takes /\ "--config" \notin DOMAIN WithWord
  BY <1>1, <1>3
<1>6. "--check-config" \notin Takes \cup DOMAIN Alone /\ "" \notin DOMAIN Alone
  BY <1>1, <1>2, <1>3
<1>7. Takes \cap DOMAIN Alone = {}
  BY <1>1, <1>2, <1>3
<1>8. QED
  BY <1>3, <1>4, <1>5, <1>6, <1>7

(* Their settings are words.                                               *)
LEMMA Settings ==
  /\ \A o \in DOMAIN WithWord : WithWord[o] \in Words
  /\ \A o \in DOMAIN Alone : Alone[o][1] \in Words /\ Alone[o][2] \in Words
<1>1. {"bind", "dual_stack", "server_port", "xml_port", "openremote_port", "xml_enabled",
       "openremote_enabled", "foreground", "yes", "no"} \subseteq Words
  BY DEF Words, Keys, PortKeys, FlagKeys
<1> HIDE DEF Words
<1>2. ASSUME NEW o \in DOMAIN WithWord
      PROVE  WithWord[o] \in {"bind", "dual_stack", "server_port", "xml_port", "openremote_port"}
  BY DEF WithWord
<1>3. ASSUME NEW o \in DOMAIN Alone
      PROVE  Alone[o] \in {"foreground", "xml_enabled", "openremote_enabled"} \X {"yes", "no"}
  BY DEF Alone
<1>4. QED
  BY <1>1, <1>2, <1>3

(* What a word sets, after the option that waits for it if any.            *)
IsSetting(s, word) == s.for \in DOMAIN WithWord \/ (s.for = "" /\ word \in DOMAIN Alone)
KeySet(s, word)  == IF s.for = "" THEN Alone[word][1] ELSE WithWord[s.for]
WordSet(s, word) == IF s.for = "" THEN Alone[word][2] ELSE word

(* One turn of apply_cli()'s loop, or the second half of one.              *)
LEMMA ApplyWord ==
  ASSUME NEW s \in CliStates, NEW word \in Words
  PROVE  /\ apply_word(s, word) \in CliStates
         /\ apply_word(s, word).for = IF s.for = "" /\ word \in Takes THEN word ELSE ""
         /\ Puts(s.c, apply_word(s, word).c, IsSetting(s, word), KeySet(s, word), WordSet(s, word))
         /\ s.for = "" /\ apply_word(s, word).c.ok => word \in OptionWords
<1> DEFINE t == apply_word(s, word)
           Goal(e) == /\ e \in CliStates
                      /\ e.for = IF s.for = "" /\ word \in Takes THEN word ELSE ""
                      /\ Puts(s.c, e.c, IsSetting(s, word), KeySet(s, word), WordSet(s, word))
                      /\ s.for = "" /\ e.c.ok => word \in OptionWords
<1>1. s.c \in Configs /\ s.for \in Takes \cup {""} /\ s = [c |-> s.c, for |-> s.for]
  BY DEF CliStates
<1>2. ASSUME NEW d, NEW w \in Takes \cup {""}, d \in Configs
      PROVE  [c |-> d, for |-> w] \in CliStates /\ [c |-> d, for |-> w].c = d
             /\ [c |-> d, for |-> w].for = w
  BY <1>2 DEF CliStates
<1>3. Puts(s.c, s.c, FALSE, KeySet(s, word), WordSet(s, word))
  BY <1>1 DEF Puts
<1>4. CASE s.for = "--config"
  <2>0. t = [s EXCEPT !.for = ""]
    BY <1>4, Names DEF apply_word
  <2>1. t = [c |-> s.c, for |-> ""]
    BY <1>1, <2>0
  <2>2. IsSetting(s, word) = FALSE
    BY <1>4, Names DEF IsSetting
  <2>3. Goal([c |-> s.c, for |-> ""])
    BY <1>1, <1>2, <1>3, <1>4, <2>2
  <2>4. QED
    BY <2>1, <2>3
<1>5. CASE s.for \in DOMAIN WithWord
  <2> DEFINE d == apply_key_value(s.c, WithWord[s.for], word)
  <2>1. s.for # "" /\ s.for # "--config"
    BY <1>5, Names
  <2>2. t = [c |-> d, for |-> ""]
    BY <1>5, <2>1 DEF apply_word
  <2>3. IsSetting(s, word) = TRUE /\ KeySet(s, word) = WithWord[s.for] /\ WordSet(s, word) = word
    BY <1>5, <2>1 DEF IsSetting, KeySet, WordSet
  <2>4. Puts(s.c, d, TRUE, WithWord[s.for], word)
    BY <1>1, <1>5, Settings, ApplyKeyValue
  <2>5. d \in Configs
    BY <2>4 DEF Puts
  <2> HIDE DEF d
  <2>6. Goal([c |-> d, for |-> ""])
    BY <1>2, <2>1, <2>3, <2>4, <2>5
  <2>7. QED
    BY <2>2, <2>6
<1>6. CASE s.for = "" /\ word \in Takes
  <2>1. s.for # "--config" /\ s.for \notin DOMAIN WithWord
    BY <1>6, Names
  <2>2. t = [c |-> s.c, for |-> word]
    BY <1>1, <1>6, <2>1, Names DEF apply_word
  <2>3. IsSetting(s, word) = FALSE /\ word \in OptionWords
    BY <1>6, <2>1, Names DEF IsSetting
  <2>4. Goal([c |-> s.c, for |-> word])
    BY <1>1, <1>2, <1>3, <1>6, <2>3
  <2>5. QED
    BY <2>2, <2>4
<1>7. CASE s.for = "" /\ word \in DOMAIN Alone
  <2> DEFINE d == apply_key_value(s.c, Alone[word][1], Alone[word][2])
  <2>1. /\ s.for # "--config" /\ s.for \notin DOMAIN WithWord /\ word \notin Takes
        /\ word # "--check-config"
    BY <1>7, Names
  <2>2. t = [s EXCEPT !.c = d]
    BY <1>7, <2>1 DEF apply_word
  <2>3. IsSetting(s, word) = TRUE /\ KeySet(s, word) = Alone[word][1]
        /\ WordSet(s, word) = Alone[word][2] /\ word \in OptionWords
    BY <1>7, Names DEF IsSetting, KeySet, WordSet
  <2>4. Puts(s.c, d, TRUE, Alone[word][1], Alone[word][2])
    BY <1>1, <1>7, Settings, ApplyKeyValue
  <2>5. d \in Configs
    BY <2>4 DEF Puts
  <2> HIDE DEF d
  <2>6. Goal([c |-> d, for |-> ""])
    BY <1>2, <2>1, <2>3, <2>4, <2>5
  <2>7. t = [c |-> d, for |-> ""]
    BY <1>1, <1>7, <2>2
  <2>8. QED
    BY <2>6, <2>7
<1>8. CASE s.for = "" /\ word \notin Takes /\ word \notin DOMAIN Alone
  <2>1. s.for # "--config" /\ s.for \notin DOMAIN WithWord
    BY <1>8, Names
  <2>2. IsSetting(s, word) = FALSE
    BY <1>8, <2>1, Names DEF IsSetting
  <2> DEFINE d == [s.c EXCEPT !.check = TRUE]
             e == [s.c EXCEPT !.ok = FALSE]
  <2>3. CASE word = "--check-config"
    <3>1. t = [s EXCEPT !.c.check = TRUE]
      BY <1>8, <2>1, <2>3 DEF apply_word
    <3>2. d \in Configs /\ d.ok = s.c.ok /\ d.set = s.c.set
      BY <1>1 DEF Configs
    <3>3. t = [c |-> d, for |-> ""]
      BY <1>1, <1>8, <3>1
    <3> HIDE DEF d
    <3>4. Puts(s.c, d, FALSE, KeySet(s, word), WordSet(s, word))
      BY <3>2 DEF Puts
    <3>5. Goal([c |-> d, for |-> ""])
      BY <1>2, <1>8, <2>2, <2>3, <3>2, <3>4, Names
    <3>6. QED
      BY <3>3, <3>5
  <2>4. CASE word # "--check-config"
    <3>1. t = [s EXCEPT !.c = Failed(@)]
      BY <1>8, <2>1, <2>4 DEF apply_word
    <3>2. e \in Configs /\ e.ok = FALSE
      BY <1>1 DEF Configs
    <3>3. t = [c |-> e, for |-> ""]
      BY <1>1, <1>8, <3>1 DEF Failed
    <3> HIDE DEF e
    <3>4. Puts(s.c, e, FALSE, KeySet(s, word), WordSet(s, word))
      BY <3>2 DEF Puts
    <3>5. Goal([c |-> e, for |-> ""])
      BY <1>2, <1>8, <2>2, <3>2, <3>4
    <3>6. QED
      BY <3>3, <3>5
  <2>5. QED
    BY <2>3, <2>4
<1>9. QED
  BY <1>1, <1>4, <1>5, <1>6, <1>7, <1>8, Names

(* apply_cli() goes through these states.                                  *)
LEMMA CliReads ==
  ASSUME NEW argv \in Seq(Words), NEW c \in Configs
  PROVE  \E g \in [0 .. Len(argv) -> CliStates] :
           /\ g[0] = [c |-> c, for |-> ""]
           /\ \A k \in 1 .. Len(argv) : g[k] = apply_word(g[k - 1], argv[k])
           /\ apply_cli(c, argv) = IF g[Len(argv)].for # "" THEN Failed(g[Len(argv)].c) ELSE g[Len(argv)].c
<1> DEFINE n == Len(argv)
           start == [c |-> c, for |-> ""]
           Reads(g) == g = [k \in 0 .. n |-> IF k = 0 THEN start ELSE apply_word(g[k - 1], argv[k])]
           g == CHOOSE h : Reads(h)
<1>1. n \in Nat /\ \A k \in 1 .. n : argv[k] \in Words
  BY ElementOfSeq
<1>2. apply_cli(c, argv) = IF g[n].for # "" THEN Failed(g[n].c) ELSE g[n].c
  BY DEF apply_cli
<1>3. start \in CliStates
  BY DEF CliStates
<1>4. \A s \in CliStates, w \in Words : apply_word(s, w) \in CliStates
  BY ApplyWord
<1> HIDE DEF start
<1>5. \E h : Reads(h)
  <2> DEFINE F == [x \in CliStates \X (1 .. n) |-> apply_word(x[1], argv[x[2]])]
  <2>1. F \in [CliStates \X (1 .. n) -> CliStates]
    BY <1>1, <1>4
  <2>2. \A s \in CliStates, k \in 1 .. n : F[<<s, k>>] = apply_word(s, argv[k])
    OBVIOUS
  <2> HIDE DEF F
  <2>3. PICK h \in [0 .. n -> CliStates] : Runs(h, n, start, F)
    BY <1>1, <1>3, <2>1, LoopRuns
  <2>4. ASSUME NEW k \in 0 .. n
        PROVE  h[k] = IF k = 0 THEN start ELSE apply_word(h[k - 1], argv[k])
    <3>1. CASE k = 0
      BY <2>3, <3>1 DEF Runs
    <3>2. CASE k # 0
      <4>1. k \in 1 .. n /\ h[k - 1] \in CliStates
        BY <1>1, <2>3, <3>2
      <4>2. QED
        BY <2>2, <2>3, <3>2, <4>1 DEF Runs
    <3>3. QED
      BY <3>1, <3>2
  <2>5. h = [k \in 0 .. n |-> h[k]]
    OBVIOUS
  <2>6. Reads(h)
    BY <2>4, <2>5
  <2>7. QED
    BY <2>6
<1>6. Reads(g)
  <2> HIDE DEF Reads
  <2>1. QED
    BY <1>5
<1> HIDE DEF g
<1>7. g[0] = start /\ \A k \in 1 .. n : g[k] = apply_word(g[k - 1], argv[k])
  BY <1>1, <1>6
<1> DEFINE T == {k \in Nat : k <= n => g[k] \in CliStates}
<1>8. 0 \in T
  BY <1>3, <1>7
<1>9. \A k \in Nat : k \in T => k + 1 \in T
  <2>1. SUFFICES ASSUME NEW k \in Nat, k \in T, k + 1 <= n
                 PROVE  g[k + 1] \in CliStates
    OBVIOUS
  <2>2. k + 1 \in 1 .. n /\ (k + 1) - 1 = k /\ k <= n
    BY <1>1, <2>1
  <2>3. g[k + 1] = apply_word(g[k], argv[k + 1]) /\ g[k] \in CliStates
    BY <1>7, <2>1, <2>2
  <2>4. QED
    BY <1>1, <1>4, <2>2, <2>3
<1>10. \A k \in Nat : k \in T
  <2> HIDE DEF T, Reads
  <2>1. QED
    BY <1>8, <1>9, SetInduction
<1>11. g \in [0 .. n -> CliStates]
  BY <1>1, <1>6, <1>10
<1>12. QED
  BY <1>2, <1>7, <1>11 DEF start

(* find_config_file_arg() goes through these.                              *)
LEMMA ScanReads ==
  ASSUME NEW argv \in Seq(Words), NEW env, Env(env, "MOCHAD_CONFIG") \in Words
  PROVE  \E g \in [0 .. Len(argv) -> Scans] :
           /\ g[0] = [path |-> Env(env, "MOCHAD_CONFIG"), next |-> FALSE, ok |-> TRUE]
           /\ \A k \in 1 .. Len(argv) : g[k] = scan_word(g[k - 1], argv[k])
           /\ find_config_file_arg(argv, env) = [path |-> g[Len(argv)].path, ok |-> g[Len(argv)].ok /\ ~g[Len(argv)].next]
<1> DEFINE n == Len(argv)
           start == [path |-> Env(env, "MOCHAD_CONFIG"), next |-> FALSE, ok |-> TRUE]
           Reads(g) == g = [k \in 0 .. n |-> IF k = 0 THEN start ELSE scan_word(g[k - 1], argv[k])]
           g == CHOOSE h : Reads(h)
<1>1. n \in Nat /\ \A k \in 1 .. n : argv[k] \in Words
  BY ElementOfSeq
<1>2. find_config_file_arg(argv, env) = [path |-> g[n].path, ok |-> g[n].ok /\ ~g[n].next]
  BY DEF find_config_file_arg
<1>3. start \in Scans
  BY DEF Scans
<1>4. \A s \in Scans, w \in Words : scan_word(s, w) \in Scans
  BY DEF scan_word, Scans
<1> HIDE DEF start
<1>5. \E h : Reads(h)
  <2> DEFINE F == [x \in Scans \X (1 .. n) |-> scan_word(x[1], argv[x[2]])]
  <2>1. F \in [Scans \X (1 .. n) -> Scans]
    BY <1>1, <1>4
  <2>2. \A s \in Scans, k \in 1 .. n : F[<<s, k>>] = scan_word(s, argv[k])
    OBVIOUS
  <2> HIDE DEF F
  <2>3. PICK h \in [0 .. n -> Scans] : Runs(h, n, start, F)
    BY <1>1, <1>3, <2>1, LoopRuns
  <2>4. ASSUME NEW k \in 0 .. n
        PROVE  h[k] = IF k = 0 THEN start ELSE scan_word(h[k - 1], argv[k])
    <3>1. CASE k = 0
      BY <2>3, <3>1 DEF Runs
    <3>2. CASE k # 0
      <4>1. k \in 1 .. n /\ h[k - 1] \in Scans
        BY <1>1, <2>3, <3>2
      <4>2. QED
        BY <2>2, <2>3, <3>2, <4>1 DEF Runs
    <3>3. QED
      BY <3>1, <3>2
  <2>5. h = [k \in 0 .. n |-> h[k]]
    OBVIOUS
  <2>6. Reads(h)
    BY <2>4, <2>5
  <2>7. QED
    BY <2>6
<1>6. Reads(g)
  <2> HIDE DEF Reads
  <2>1. QED
    BY <1>5
<1> HIDE DEF g
<1>7. g[0] = start /\ \A k \in 1 .. n : g[k] = scan_word(g[k - 1], argv[k])
  BY <1>1, <1>6
<1> DEFINE T == {k \in Nat : k <= n => g[k] \in Scans}
<1>8. 0 \in T
  BY <1>3, <1>7
<1>9. \A k \in Nat : k \in T => k + 1 \in T
  <2>1. SUFFICES ASSUME NEW k \in Nat, k \in T, k + 1 <= n
                 PROVE  g[k + 1] \in Scans
    OBVIOUS
  <2>2. k + 1 \in 1 .. n /\ (k + 1) - 1 = k /\ k <= n
    BY <1>1, <2>1
  <2>3. g[k + 1] = scan_word(g[k], argv[k + 1]) /\ g[k] \in Scans
    BY <1>7, <2>1, <2>2
  <2>4. QED
    BY <1>1, <1>4, <2>2, <2>3
<1>10. \A k \in Nat : k \in T
  <2> HIDE DEF T, Reads
  <2>1. QED
    BY <1>8, <1>9, SetInduction
<1>11. g \in [0 .. n -> Scans]
  BY <1>1, <1>6, <1>10
<1>12. QED
  BY <1>2, <1>7, <1>11 DEF start

(* The reference tells options from arguments in this way.                 *)
LEMMA OptionsRead ==
  ASSUME NEW argv \in Seq(Words)
  PROVE  \E o \in [0 .. Len(argv) -> BOOLEAN] :
           /\ o[0] = FALSE
           /\ \A k \in 1 .. Len(argv) : o[k] = ~(o[k - 1] /\ argv[k - 1] \in Takes)
           /\ Options(argv) = {i \in DOMAIN argv : o[i]}
<1> DEFINE n == Len(argv)
           Reads(o) == o = [i \in 0 .. n |-> IF i = 0 THEN FALSE
                                            ELSE ~(o[i - 1] /\ argv[i - 1] \in Takes)]
           o == CHOOSE h : Reads(h)
<1>1. n \in Nat
  OBVIOUS
<1>2. Options(argv) = {i \in DOMAIN argv : o[i]}
  BY DEF Options
<1>3. \E h : Reads(h)
  <2> DEFINE F == [x \in BOOLEAN \X (1 .. n) |-> ~(x[1] /\ argv[x[2] - 1] \in Takes)]
  <2>1. F \in [BOOLEAN \X (1 .. n) -> BOOLEAN]
    OBVIOUS
  <2>2. \A b \in BOOLEAN, k \in 1 .. n : F[<<b, k>>] = ~(b /\ argv[k - 1] \in Takes)
    OBVIOUS
  <2> HIDE DEF F
  <2>3. PICK h \in [0 .. n -> BOOLEAN] : Runs(h, n, FALSE, F)
    BY <1>1, <2>1, LoopRuns
  <2>4. ASSUME NEW k \in 0 .. n
        PROVE  h[k] = IF k = 0 THEN FALSE ELSE ~(h[k - 1] /\ argv[k - 1] \in Takes)
    <3>1. CASE k = 0
      BY <2>3, <3>1 DEF Runs
    <3>2. CASE k # 0
      <4>1. k \in 1 .. n /\ h[k - 1] \in BOOLEAN
        BY <1>1, <2>3, <3>2
      <4>2. QED
        BY <2>2, <2>3, <3>2, <4>1 DEF Runs
    <3>3. QED
      BY <3>1, <3>2
  <2>5. h = [k \in 0 .. n |-> h[k]]
    OBVIOUS
  <2>6. Reads(h)
    BY <2>4, <2>5
  <2>7. QED
    BY <2>6
<1>4. Reads(o)
  <2> HIDE DEF Reads
  <2>1. QED
    BY <1>3
<1> HIDE DEF o
<1>5. o[0] = FALSE /\ \A k \in 1 .. n : o[k] = ~(o[k - 1] /\ argv[k - 1] \in Takes)
  BY <1>1, <1>4
<1>6. o \in [0 .. n -> BOOLEAN]
  <2>1. ASSUME NEW k \in 0 .. n
        PROVE  o[k] \in BOOLEAN
    <3>1. CASE k = 0
      BY <1>5, <3>1
    <3>2. CASE k # 0
      <4>1. o[k] = ~(o[k - 1] /\ argv[k - 1] \in Takes)
        BY <1>1, <1>5, <3>2
      <4>2. QED
        BY <4>1
    <3>3. QED
      BY <3>1, <3>2
  <2>2. QED
    BY <1>4, <2>1
<1>7. QED
  BY <1>2, <1>5, <1>6

(* After k words: the settings that are complete, the --config that are,   *)
(* and what the last of them have given.                                   *)
SetTo(o, argv, x, k) ==
  {i \in 1 .. k : o[i] /\ Sets(argv[i], x) /\ (i < k \/ argv[i] \in DOMAIN Alone)}
AskedTo(o, argv, k) == {i \in 1 .. k : o[i] /\ argv[i] = "--config" /\ i < k}
PathTo(o, argv, path, k) ==
  IF AskedTo(o, argv, k) = {} THEN path ELSE argv[MaxOf(AskedTo(o, argv, k)) + 1]

(* apply_cli() waits for an argument when the reference expects one ...    *)
Waits(o, argv, k, s) == s.for = IF o[k] /\ argv[k] \in Takes THEN argv[k] ELSE ""

(* ... and c has been set by the words so far.                             *)
CliTo(o, argv, c, k, s) ==
  s.c.ok => /\ c.ok
            /\ \A x \in Keys :
                 s.c.set[x] = IF SetTo(o, argv, x, k) = {} THEN c.set[x]
                                ELSE Given(argv, MaxOf(SetTo(o, argv, x, k)))

(* One word more.                                                          *)
LEMMA WaitsOn ==
  ASSUME NEW o, NEW argv, NEW k \in Nat, NEW s \in CliStates, Waits(o, argv, k, s),
         argv[k + 1] \in Words, o[k] \in BOOLEAN,
         o[k + 1] = ~(o[k] /\ argv[k] \in Takes)
  PROVE  /\ o[k + 1] <=> s.for = ""
         /\ Waits(o, argv, k + 1, apply_word(s, argv[k + 1]))
<1>1. o[k + 1] <=> s.for = ""
  BY Names DEF Waits
<1>2. apply_word(s, argv[k + 1]).for
        = IF s.for = "" /\ argv[k + 1] \in Takes THEN argv[k + 1] ELSE ""
  BY ApplyWord
<1>3. QED
  BY <1>1, <1>2 DEF Waits

(* apply_cli(): one word more; it sets its key, if it sets any, last.       *)
LEMMA CliOn ==
  ASSUME NEW o, NEW argv, NEW k \in Nat, NEW s \in CliStates, NEW c,
         Waits(o, argv, k, s), CliTo(o, argv, c, k, s),
         argv[k + 1] \in Words, o[0] = FALSE, o[k] \in BOOLEAN,
         o[k + 1] = ~(o[k] /\ argv[k] \in Takes)
  PROVE  CliTo(o, argv, c, k + 1, apply_word(s, argv[k + 1]))
<1> DEFINE w == argv[k + 1]
           t == apply_word(s, w)
<1>1. o[k + 1] <=> s.for = ""
  BY WaitsOn
<1>2. Puts(s.c, t.c, IsSetting(s, w), KeySet(s, w), WordSet(s, w))
  BY ApplyWord
<1> HIDE DEF t
<1>3. s.for \in Takes \cup {""}
  BY DEF CliStates
<1>4. 1 .. k + 1 = (1 .. k) \cup {k + 1} /\ k + 1 \notin 1 .. k
      /\ \A i \in 1 .. k : i < k + 1 /\ (~(i < k) <=> i = k)
  OBVIOUS
<1>5. s.for # "" => o[k] /\ argv[k] = s.for /\ k \in 1 .. k
  <2>1. s.for # "" => o[k] /\ argv[k] = s.for
    BY DEF Waits
  <2>2. o[k] => k # 0
    OBVIOUS
  <2>3. k # 0 => k \in 1 .. k
    OBVIOUS
  <2>4. QED
    BY <2>1, <2>2, <2>3
<1>6. s.for = "" => ~(o[k] /\ argv[k] \in Takes)
  BY Names DEF Waits
<1>7. ASSUME t.c.ok, NEW x \in Keys
      PROVE  t.c.set[x] = IF SetTo(o, argv, x, k + 1) = {} THEN c.set[x]
                            ELSE Given(argv, MaxOf(SetTo(o, argv, x, k + 1)))
  <2> DEFINE A == SetTo(o, argv, x, k)
             B == SetTo(o, argv, x, k + 1)
  <2>1. s.c.ok /\ s.c.set[x] = IF A = {} THEN c.set[x] ELSE Given(argv, MaxOf(A))
    BY <1>2, <1>7 DEF Puts, CliTo
  <2>2. B = {i \in 1 .. k : o[i] /\ Sets(argv[i], x)}
              \cup (IF o[k + 1] /\ Sets(w, x) /\ w \in DOMAIN Alone THEN {k + 1} ELSE {})
    BY <1>4 DEF SetTo
  <2>3. A = {i \in 1 .. k : o[i] /\ Sets(argv[i], x) /\ (i < k \/ argv[i] \in DOMAIN Alone)}
    BY DEF SetTo
  <2> HIDE DEF A, B
  <2>4. CASE s.for \in DOMAIN WithWord
    <3>1. ~o[k + 1] /\ argv[k] = s.for /\ o[k] /\ k \in 1 .. k /\ s.for # ""
      BY <1>1, <1>5, <2>4, Names
    <3>2. argv[k] \notin DOMAIN Alone /\ (Sets(argv[k], x) <=> WithWord[s.for] = x)
      BY <2>4, <3>1, Names DEF Sets
    <3>3. IsSetting(s, w) = TRUE /\ KeySet(s, w) = WithWord[s.for] /\ WordSet(s, w) = w
      BY <2>4, <3>1 DEF IsSetting, KeySet, WordSet
    <3>4. CASE WithWord[s.for] = x
      <4>1. k \in B /\ B \in SUBSET (1 .. k)
        BY <2>2, <3>1, <3>2, <3>4
      <4>2. MaxOf(B) = k
        BY <4>1, MaxIsLast
      <4>3. t.c.set[x] = w
        BY <1>2, <1>7, <3>3, <3>4 DEF Puts
      <4>4. Given(argv, k) = w
        BY <3>2 DEF Given
      <4>5. QED
        BY <4>1, <4>2, <4>3, <4>4 DEF B
    <3>5. CASE WithWord[s.for] # x
      <4>1. B = A
        BY <1>4, <2>2, <2>3, <3>1, <3>2, <3>5
      <4>2. t.c.set[x] = s.c.set[x]
        BY <1>2, <1>7, <3>3, <3>5 DEF Puts
      <4>3. QED
        BY <2>1, <4>1, <4>2 DEF B
    <3>6. QED
      BY <3>4, <3>5
  <2>5. CASE s.for = "" /\ w \in DOMAIN Alone
    <3>1. o[k + 1] /\ w \notin DOMAIN WithWord
      BY <1>1, <2>5, Names
    <3>2. IsSetting(s, w) = TRUE /\ KeySet(s, w) = Alone[w][1] /\ WordSet(s, w) = Alone[w][2]
      BY <2>5 DEF IsSetting, KeySet, WordSet
    <3>3. Sets(w, x) <=> Alone[w][1] = x
      BY <2>5, <3>1 DEF Sets
    <3>4. CASE Alone[w][1] = x
      <4>1. k + 1 \in B /\ B \in SUBSET (1 .. k + 1)
        BY <1>4, <2>2, <2>5, <3>1, <3>3, <3>4
      <4>2. MaxOf(B) = k + 1
        BY <4>1, MaxIsLast
      <4>3. t.c.set[x] = Alone[w][2]
        BY <1>2, <1>7, <3>2, <3>4 DEF Puts
      <4>4. Given(argv, k + 1) = Alone[w][2]
        BY <2>5 DEF Given
      <4>5. QED
        BY <4>1, <4>2, <4>3, <4>4 DEF B
    <3>5. CASE Alone[w][1] # x
      <4>1. \A i \in 1 .. k : ~(i < k) /\ o[i] /\ Sets(argv[i], x) => argv[i] \in DOMAIN Alone
        BY <1>4, <1>6, <2>5, Names DEF Sets
      <4>2. B = A
        BY <2>2, <2>3, <3>3, <3>5, <4>1
      <4>3. t.c.set[x] = s.c.set[x]
        BY <1>2, <1>7, <3>2, <3>5 DEF Puts
      <4>4. QED
        BY <2>1, <4>2, <4>3 DEF B
    <3>6. QED
      BY <3>4, <3>5
  <2>6. CASE s.for \notin DOMAIN WithWord /\ ~(s.for = "" /\ w \in DOMAIN Alone)
    <3>1. IsSetting(s, w) = FALSE
      BY <2>6 DEF IsSetting
    <3>2. ~(o[k + 1] /\ w \in DOMAIN Alone)
      BY <1>1, <2>6
    <3>3. \A i \in 1 .. k : ~(i < k) /\ o[i] /\ Sets(argv[i], x) => argv[i] \in DOMAIN Alone
      <4>1. CASE s.for = ""
        BY <1>4, <1>6, <4>1, Names DEF Sets
      <4>2. CASE s.for # ""
        <5>1. s.for = "--config" /\ argv[k] = "--config"
          BY <1>3, <1>5, <2>6, <4>2, Names
        <5>2. ~Sets("--config", x)
          BY Names DEF Sets
        <5>3. QED
          BY <1>4, <5>1, <5>2
      <4>3. QED
        BY <4>1, <4>2
    <3>4. B = A
      BY <2>2, <2>3, <3>2, <3>3
    <3>5. t.c.set[x] = s.c.set[x]
      BY <1>2, <1>7, <3>1 DEF Puts
    <3>6. QED
      BY <2>1, <3>4, <3>5 DEF B
  <2>7. QED
    BY <2>4, <2>5, <2>6
<1>8. t.c.ok => c.ok
  BY <1>2 DEF Puts, CliTo
<1>9. CliTo(o, argv, c, k + 1, t)
  BY <1>7, <1>8 DEF CliTo
<1>10. QED
  BY <1>9 DEF t

(* find_config_file_arg() has found the file the reference expects, or one *)
(* that is called like an option, unless apply_cli() has failed.           *)
SamePath(o, argv, path, k, s, f) ==
  s.c.ok => /\ f.path = PathTo(o, argv, path, k) \/ f.path \in OptionWords
            /\ f.next => s.for \in {"--config", ""}
            /\ s.for = "--config" /\ ~f.next => f.path \in OptionWords

(* One word more for both readers: they can only differ about a --config   *)
(* that one takes for an option and the other for an argument.             *)
LEMMA PathOn ==
  ASSUME NEW o, NEW argv, NEW k \in Nat, NEW s \in CliStates, NEW path, NEW f \in Scans,
         Waits(o, argv, k, s), SamePath(o, argv, path, k, s, f),
         argv[k + 1] \in Words, o[0] = FALSE, o[k] \in BOOLEAN,
         o[k + 1] = ~(o[k] /\ argv[k] \in Takes)
  PROVE  SamePath(o, argv, path, k + 1, apply_word(s, argv[k + 1]), scan_word(f, argv[k + 1]))
<1> DEFINE w == argv[k + 1]
           t == apply_word(s, w)
           g == scan_word(f, w)
<1> SUFFICES ASSUME t.c.ok
             PROVE  /\ g.path = PathTo(o, argv, path, k + 1) \/ g.path \in OptionWords
                    /\ g.next => t.for \in {"--config", ""}
                    /\ t.for = "--config" /\ ~g.next => g.path \in OptionWords
  BY DEF SamePath
<1>1. /\ t.for = IF s.for = "" /\ w \in Takes THEN w ELSE ""
      /\ Puts(s.c, t.c, IsSetting(s, w), KeySet(s, w), WordSet(s, w))
      /\ s.for = "" => w \in OptionWords
  BY ApplyWord
<1>2. s.c.ok
  BY <1>1 DEF Puts
<1>3. /\ f.path = PathTo(o, argv, path, k) \/ f.path \in OptionWords
      /\ f.next => s.for \in {"--config", ""}
      /\ s.for = "--config" /\ ~f.next => f.path \in OptionWords
  BY <1>2 DEF SamePath
<1>4. /\ f.next => g.path = w /\ ~g.next
      /\ ~f.next => g.path = f.path /\ (g.next <=> w = "--config")
  BY DEF scan_word, Scans
<1> HIDE DEF t, g
<1>5. AskedTo(o, argv, k + 1) = AskedTo(o, argv, k)
                                  \cup (IF s.for = "--config" THEN {k} ELSE {})
  <2>1. s.for = "--config" <=> o[k] /\ argv[k] = "--config"
    BY Names DEF Waits
  <2>2. o[k] => k \in 1 .. k /\ k # 0
    OBVIOUS
  <2>3. AskedTo(o, argv, k + 1) = {i \in 1 .. k : o[i] /\ argv[i] = "--config"}
    BY DEF AskedTo
  <2>4. QED
    BY <2>1, <2>2, <2>3 DEF AskedTo
<1>6. s.for = "--config" => PathTo(o, argv, path, k + 1) = w
  <2>1. SUFFICES ASSUME s.for = "--config"
                 PROVE  PathTo(o, argv, path, k + 1) = w
    OBVIOUS
  <2>2. k \in AskedTo(o, argv, k + 1)
    BY <1>5, <2>1
  <2>3. AskedTo(o, argv, k + 1) \in SUBSET (1 .. k)
    BY DEF AskedTo
  <2>4. MaxOf(AskedTo(o, argv, k + 1)) = k
    BY <2>2, <2>3, MaxIsLast
  <2>5. QED
    BY <2>2, <2>4 DEF PathTo
<1>7. s.for # "--config" => PathTo(o, argv, path, k + 1) = PathTo(o, argv, path, k)
  BY <1>5 DEF PathTo
<1>8. CASE f.next /\ s.for = "--config"
  BY <1>1, <1>4, <1>6, <1>8, Names
<1>9. CASE f.next /\ s.for = ""
  BY <1>1, <1>4, <1>9
<1>10. CASE ~f.next /\ s.for = "--config"
  BY <1>1, <1>3, <1>4, <1>10
<1>11. CASE ~f.next /\ s.for # "--config"
  BY <1>1, <1>3, <1>4, <1>7, <1>11, Names
<1>12. QED
  BY <1>3, <1>8, <1>9, <1>10, <1>11

(* Both readers at the end of the command line.                            *)
LEMMA ArgvRead ==
  ASSUME NEW i, i.argv \in Seq(Words), Env(i.env, "MOCHAD_CONFIG") \in Words,
         NEW c \in Configs, apply_cli(c, i.argv).ok
  PROVE  /\ c.ok
         /\ \A x \in Keys :
              apply_cli(c, i.argv).set[x] =
                IF CliSets(i.argv, x) = {} THEN c.set[x]
                  ELSE Given(i.argv, MaxOf(CliSets(i.argv, x)))
         /\ \/ find_config_file_arg(i.argv, i.env).path = Path(i)
            \/ find_config_file_arg(i.argv, i.env).path \in OptionWords
<1> DEFINE argv == i.argv
           n == Len(argv)
           path == Env(i.env, "MOCHAD_CONFIG")
<1>1. n \in Nat /\ DOMAIN argv = 1 .. n /\ \A k \in 1 .. n : argv[k] \in Words
  BY ElementOfSeq
<1>2. PICK s \in [0 .. n -> CliStates] :
        /\ s[0] = [c |-> c, for |-> ""]
        /\ \A k \in 1 .. n : s[k] = apply_word(s[k - 1], argv[k])
        /\ apply_cli(c, argv) = IF s[n].for # "" THEN Failed(s[n].c) ELSE s[n].c
  BY CliReads
<1>3. PICK f \in [0 .. n -> Scans] :
        /\ f[0] = [path |-> path, next |-> FALSE, ok |-> TRUE]
        /\ \A k \in 1 .. n : f[k] = scan_word(f[k - 1], argv[k])
        /\ find_config_file_arg(argv, i.env) = [path |-> f[n].path, ok |-> f[n].ok /\ ~f[n].next]
  BY ScanReads
<1>4. PICK o \in [0 .. n -> BOOLEAN] :
        /\ o[0] = FALSE
        /\ \A k \in 1 .. n : o[k] = ~(o[k - 1] /\ argv[k - 1] \in Takes)
        /\ Options(argv) = {j \in DOMAIN argv : o[j]}
  BY OptionsRead
<1> HIDE DEF n, path
<1> DEFINE Agree(k) == /\ Waits(o, argv, k, s[k]) /\ CliTo(o, argv, c, k, s[k])
                       /\ SamePath(o, argv, path, k, s[k], f[k])
           T == {k \in Nat : k <= n => Agree(k)}
<1>5. 0 \in T
  <2>1. s[0].for = "" /\ s[0].c = c /\ f[0].path = path /\ f[0].next = FALSE
    <3> DEFINE r == [c |-> c, for |-> ""]
    <3>0. r.for = "" /\ r.c = c
      OBVIOUS
    <3>1. s[0] = r
      BY <1>2
    <3> HIDE DEF r
    <3>2. f[0] = [path |-> path, next |-> FALSE, ok |-> TRUE]
      BY <1>3
    <3>3. s[0].for = "" /\ s[0].c = c
      BY <3>0, <3>1
    <3>4. f[0].path = path /\ f[0].next = FALSE
      BY <3>2
    <3>5. QED
      BY <3>3, <3>4
  <2>2. \A x : SetTo(o, argv, x, 0) = {}
    BY DEF SetTo
  <2>3. AskedTo(o, argv, 0) = {}
    BY DEF AskedTo
  <2>4. Waits(o, argv, 0, s[0]) /\ CliTo(o, argv, c, 0, s[0])
    BY <1>4, <2>1, <2>2 DEF Waits, CliTo
  <2>5. SamePath(o, argv, path, 0, s[0], f[0])
    BY <2>1, <2>3 DEF SamePath, PathTo
  <2>6. QED
    BY <2>4, <2>5
<1>6. \A k \in Nat : k \in T => k + 1 \in T
  <2>1. SUFFICES ASSUME NEW k \in Nat, k \in T, k + 1 <= n
                 PROVE  Agree(k + 1)
    OBVIOUS
  <2>2. k \in 0 .. n /\ k + 1 \in 1 .. n /\ (k + 1) - 1 = k
    BY <1>1, <2>1
  <2>3. Agree(k)
    BY <1>1, <2>1, <2>2
  <2>4. /\ s[k] \in CliStates /\ f[k] \in Scans /\ o[k] \in BOOLEAN /\ o[0] = FALSE
        /\ argv[k + 1] \in Words /\ o[k + 1] = ~(o[k] /\ argv[k] \in Takes)
    BY <1>1, <1>4, <2>2
  <2>5. s[k + 1] = apply_word(s[k], argv[k + 1]) /\ f[k + 1] = scan_word(f[k], argv[k + 1])
    BY <1>2, <1>3, <2>2
  <2> HIDE DEF argv
  <2>6. Waits(o, argv, k + 1, s[k + 1])
    <3>1. Waits(o, argv, k + 1, apply_word(s[k], argv[k + 1]))
      BY <2>3, <2>4, WaitsOn
    <3>2. QED
      BY <2>5, <3>1
  <2>7. CliTo(o, argv, c, k + 1, s[k + 1])
    BY <2>3, <2>4, <2>5, CliOn
  <2>8. SamePath(o, argv, path, k + 1, s[k + 1], f[k + 1])
    BY <2>3, <2>4, <2>5, PathOn
  <2>9. QED
    BY <2>6, <2>7, <2>8
<1>7. Agree(n)
  <2> HIDE DEF T
  <2>1. n \in T
    BY <1>1, <1>5, <1>6, SetInduction
  <2>2. QED
    BY <1>1, <2>1 DEF T
<1>8. s[n].for = "" /\ s[n].c.ok /\ apply_cli(c, argv) = s[n].c
  <2>1. ~Failed(s[n].c).ok
    <3>1. s[n] \in CliStates
      BY <1>1
    <3>2. s[n].c \in Configs
      BY <3>1 DEF CliStates
    <3>3. QED
      BY <3>2 DEF Failed, Configs
  <2>2. QED
    BY <1>2, <2>1
<1>9. ~(o[n] /\ argv[n] \in Takes)
  BY <1>7, <1>8, Names DEF Waits
<1>10. \A x \in Keys : SetTo(o, argv, x, n) = CliSets(argv, x)
  <2>1. \A x : CliSets(argv, x) = {j \in 1 .. n : o[j] /\ Sets(argv[j], x)}
    BY <1>1, <1>4 DEF CliSets
  <2>2. ASSUME NEW x, NEW j \in 1 .. n, o[j], Sets(argv[j], x)
        PROVE  j < n \/ argv[j] \in DOMAIN Alone
    <3>1. CASE j = n
      BY <1>9, <2>2, <3>1, Names DEF Sets
    <3>2. CASE j # n
      BY <1>1, <3>2
    <3>3. QED
      BY <3>1, <3>2
  <2>3. ASSUME NEW x
        PROVE  SetTo(o, argv, x, n) = CliSets(argv, x)
    BY <2>1, <2>2 DEF SetTo
  <2>4. QED
    BY <2>3
<1>11. AskedTo(o, argv, n) = {j \in Options(argv) : argv[j] = "--config"}
  <2>1. ASSUME NEW j \in 1 .. n, o[j], argv[j] = "--config"
        PROVE  j < n
    <3>1. j # n
      BY <1>9, <2>1, Names
    <3>2. QED
      BY <1>1, <3>1
  <2>2. QED
    BY <1>1, <1>4, <2>1 DEF AskedTo
<1>12. PathTo(o, argv, path, n) = Path(i)
  BY <1>11 DEF PathTo, Path, path
<1>13. c.ok /\ \A x \in Keys :
         apply_cli(c, argv).set[x] = IF CliSets(argv, x) = {} THEN c.set[x]
                                       ELSE Given(argv, MaxOf(CliSets(argv, x)))
  BY <1>7, <1>8, <1>10 DEF CliTo
<1>14. find_config_file_arg(argv, i.env).path = f[n].path
  BY <1>3
<1>15. f[n].path = Path(i) \/ f[n].path \in OptionWords
  BY <1>7, <1>8, <1>12 DEF SamePath
<1>16. QED
  BY <1>13, <1>14, <1>15

-----------------------------------------------------------------------------
(* The sources, one after the other.  What reads them starts from words.   *)
LEMMA DefaultsAreWords == Defaults \in [Keys -> Words]
<1> DEFINE texts == {"0.0.0.0", "1099", "1100", "1101", "yes", "no", "auto"}
<1>1. DOMAIN Defaults = Keys
  BY DEF Defaults, Keys, PortKeys, FlagKeys
<1>2. Defaults = [x \in Keys |-> Defaults[x]]
  BY <1>1 DEF Defaults
<1>3. texts \subseteq Words
  BY DEF Words, Policies
<1> HIDE DEF Words
<1>4. ASSUME NEW x \in Keys
      PROVE  Defaults[x] \in texts
  BY DEF Defaults, Keys, PortKeys, FlagKeys
<1>5. QED
  BY <1>2, <1>3, <1>4

(* The variables stand for keys.                                           *)
LEMMA VariableKeys ==
  /\ Len(Variables) \in Nat /\ DOMAIN Variables = 1 .. Len(Variables)
  /\ \A j \in 1 .. Len(Variables) : Variables[j][2] \in Keys
<1> DEFINE V == {"MOCHAD_BIND", "MOCHAD_BIND_ADDRESS", "MOCHAD_PORT", "MOCHAD_SERVER_PORT",
                 "MOCHAD_XML_ENABLED", "MOCHAD_XML_PORT", "MOCHAD_OPENREMOTE_ENABLED",
                 "MOCHAD_OPENREMOTE_PORT", "MOCHAD_FOREGROUND", "MOCHAD_DUAL_STACK"}
<1>1. Variables \in Seq(V \X Keys)
  BY DEF Variables, Keys, PortKeys, FlagKeys
<1> HIDE DEF V
<1>2. QED
  BY <1>1, ElementOfSeq

(* d is what the environment made of c.                                    *)
FromEnv(c, d, env) ==
  /\ d \in Configs
  /\ d.ok => /\ c.ok
             /\ \A x \in Keys :
                  d.set[x] = IF EnvSets(env, x) = {} THEN c.set[x]
                               ELSE env[Variables[MaxOf(EnvSets(env, x))][1]]

(* apply_environment(): the last of the variables of a key that are set.    *)
LEMMA ApplyEnvironment ==
  ASSUME NEW c \in Configs, NEW env, \A v \in DOMAIN env : env[v] \in Words
  PROVE  FromEnv(c, apply_environment(c, env), env)
<1> DEFINE n == Len(Variables)
           lines == [j \in DOMAIN Variables |-> apply_env_value(env, Variables[j])]
           word(j) == Env(env, Variables[j][1])
           d == apply_environment(c, env)
<1>1. n \in Nat /\ DOMAIN Variables = 1 .. n /\ \A j \in 1 .. n : Variables[j][2] \in Keys
  BY VariableKeys
<1>2. \A j \in 1 .. n : lines[j] = IF word(j) = "" THEN <<"none">>
                                     ELSE <<"set", Variables[j][2], word(j)>>
  BY <1>1 DEF apply_env_value
<1>3. Keys \subseteq Words /\ "" \in Words
  BY DEF Words
<1>4. \A j \in 1 .. n : word(j) \in Words /\ (word(j) # "" => word(j) = env[Variables[j][1]])
  BY <1>3 DEF Env
<1> HIDE DEF word
<1>5. ASSUME NEW j \in 1 .. n
      PROVE  lines[j] \in PlainLines
  <2>1. CASE word(j) = ""
    BY <1>2, <2>1 DEF PlainLines
  <2>2. CASE word(j) # ""
    <3>1. lines[j] = <<"set", Variables[j][2], word(j)>>
      BY <1>2, <2>2
    <3>2. Variables[j][2] \in Words /\ word(j) \in Words
      BY <1>1, <1>3, <1>4
    <3> HIDE DEF Words, lines
    <3>3. <<"set", Variables[j][2], word(j)>> \in {"set"} \X Words \X Words
      BY <3>2
    <3>4. QED
      BY <3>1, <3>3 DEF PlainLines
  <2>3. QED
    BY <2>1, <2>2
<1>6. lines \in [1 .. n -> PlainLines]
  BY <1>1, <1>5
<1>7. lines \in Seq(PlainLines) /\ Len(lines) = n
  BY <1>1, <1>6, SeqDef
<1>8. d = apply_lines(c, lines)
  BY DEF apply_environment
<1> HIDE DEF lines, d
<1>9. ReadTo(c, d, lines, n)
  BY <1>7, <1>8, ApplyLines
<1>10. \A j \in 1 .. n : IF word(j) = "" THEN lines[j][1] = "none"
                           ELSE lines[j][1] = "set" /\ lines[j][2] = Variables[j][2]
                                /\ lines[j][3] = word(j)
  <2>1. TAKE j \in 1 .. n
  <2>2. CASE word(j) = ""
    <3>1. lines[j] = <<"none">>
      BY <1>2, <2>2
    <3>2. lines[j][1] = "none"
      BY <3>1
    <3>3. QED
      BY <2>2, <3>2, Zenon
  <2>3. CASE word(j) # ""
    <3>1. lines[j] = <<"set", Variables[j][2], word(j)>>
      BY <1>2, <2>3
    <3>2. lines[j][1] = "set" /\ lines[j][2] = Variables[j][2] /\ lines[j][3] = word(j)
      BY <3>1
    <3>3. QED
      BY <2>3, <3>2, Zenon
  <2>4. QED
    BY <2>2, <2>3
<1>11. ASSUME NEW x
       PROVE  Among(lines, x, n) = EnvSets(env, x)
  BY <1>1, <1>10 DEF Among, EnvSets, word
<1>12. ASSUME NEW x, EnvSets(env, x) # {}
       PROVE  lines[MaxOf(EnvSets(env, x))][3] = env[Variables[MaxOf(EnvSets(env, x))][1]]
  <2> DEFINE m == MaxOf(EnvSets(env, x))
  <2>1. EnvSets(env, x) \in SUBSET (1 .. n)
    BY <1>1 DEF EnvSets
  <2>2. m \in EnvSets(env, x)
    BY <1>1, <1>12, <2>1, MaxIsIn
  <2>3. m \in 1 .. n /\ word(m) # ""
    BY <2>1, <2>2 DEF EnvSets, word
  <2> HIDE DEF m
  <2>4. lines[m][3] = env[Variables[m][1]]
    BY <1>4, <1>10, <2>3
  <2>5. QED
    BY <2>4 DEF m
<1>13. ASSUME d.ok, NEW x \in Keys
       PROVE  d.set[x] = IF EnvSets(env, x) = {} THEN c.set[x]
                           ELSE env[Variables[MaxOf(EnvSets(env, x))][1]]
  BY <1>9, <1>11, <1>12, <1>13 DEF ReadTo, LastWord
<1>14. QED
  BY <1>9, <1>13 DEF d, ReadTo, FromEnv

(* A sequence, its positions and its elements.                             *)
LEMMA Elements ==
  ASSUME NEW S, NEW q \in Seq(S)
  PROVE  /\ Len(q) \in Nat /\ DOMAIN q = 1 .. Len(q)
         /\ \A j \in DOMAIN q : q[j] \in S
<1>1. Len(q) \in Nat /\ DOMAIN q = 1 .. Len(q)
  OBVIOUS
<1>2. \A j \in DOMAIN q : q[j] \in S
  BY ElementOfSeq
<1>3. QED
  BY <1>1, <1>2

(* A file without long comments is read as it is written.                  *)
LEMMA PlainTexts ==
  ASSUME NEW file \in Seq(PlainLines)
  PROVE  Texts(file) = file
<1>1. ASSUME NEW line \in PlainLines
      PROVE  ~IsOver(line)
  <2>1. CASE line \in {"set"} \X Words \X Words
    BY <2>1 DEF IsOver
  <2>2. CASE line = <<"none">>
    BY <2>2 DEF IsOver
  <2>3. CASE line = <<"junk">>
    BY <2>3 DEF IsOver
  <2>4. QED
    BY <2>1, <2>2, <2>3 DEF PlainLines
<1>2. \A j \in DOMAIN file : file[j] \in PlainLines
  BY Elements
<1>3. file = [j \in DOMAIN file |-> file[j]]
  OBVIOUS
<1>4. QED
  BY <1>1, <1>2, <1>3 DEF Texts

(* d is what the file made of c, if there was one.                         *)
FromFile(c, d, path, files) ==
  /\ d \in Configs
  /\ d.ok => /\ c.ok /\ (path = "" \/ path \in DOMAIN files)
             /\ \A x \in Keys :
                  d.set[x] = IF path \in DOMAIN files
                               THEN LastWord(files[path], FileSets(files[path], x), c.set[x])
                               ELSE c.set[x]

(* load_config_file(), for a file without long comments.                   *)
LEMMA LoadFile ==
  ASSUME NEW c \in Configs, NEW path, NEW files, "" \notin DOMAIN files,
         path \in DOMAIN files => files[path] \in Seq(PlainLines)
  PROVE  FromFile(c, load_config_file(c, path, files), path, files)
<1> DEFINE d == load_config_file(c, path, files)
<1>1. CASE path = ""
  BY <1>1 DEF load_config_file, FromFile
<1>2. CASE path # "" /\ path \notin DOMAIN files
  <2>1. d = Failed(c)
    BY <1>2 DEF load_config_file
  <2>2. Failed(c) \in Configs /\ Failed(c).ok = FALSE
    BY DEF Failed, Configs
  <2>3. QED
    BY <2>1, <2>2 DEF FromFile
<1>3. CASE path \in DOMAIN files
  <2> DEFINE file == files[path]
             n == Len(file)
  <2>1. path # "" /\ file \in Seq(PlainLines)
    BY <1>3
  <2>2. d = apply_lines(c, Texts(file))
    BY <1>3, <2>1 DEF load_config_file
  <2> HIDE DEF file
  <2>3. n \in Nat /\ DOMAIN file = 1 .. n
    BY <2>1, Elements
  <2>4. Texts(file) = file
    BY <2>1, PlainTexts
  <2>5. ReadTo(c, d, file, n)
    BY <2>1, <2>2, <2>4, ApplyLines
  <2>6. ASSUME NEW x
        PROVE  Among(file, x, n) = FileSets(file, x)
    BY <2>3 DEF Among, FileSets
  <2> HIDE DEF d, n
  <2>7. ASSUME d.ok, NEW x \in Keys
        PROVE  d.set[x] = LastWord(file, FileSets(file, x), c.set[x])
    <3>1. d.set[x] = LastWord(file, Among(file, x, n), c.set[x])
      BY <2>5, <2>7 DEF ReadTo
    <3>2. QED
      BY <2>6, <3>1, Zenon
  <2>8. d \in Configs /\ (d.ok => c.ok)
    BY <2>5 DEF ReadTo
  <2>10. QED
    BY <1>3, <2>1, <2>7, <2>8 DEF d, file, FromFile
<1>4. QED
  BY <1>1, <1>2, <1>3

(* What the inputs are made of.                                            *)
LEMMA InputWords ==
  ASSUME NEW i \in Inputs
  PROVE  /\ i.argv \in Seq(Words)
         /\ \A v \in DOMAIN i.env : i.env[v] \in Words
         /\ Env(i.env, "MOCHAD_CONFIG") \in Words
         /\ "" \notin DOMAIN i.files
         /\ \A p \in DOMAIN i.files :
              (\A j \in DOMAIN i.files[p] : ~IsOver(i.files[p][j])) =>
                 i.files[p] \in Seq(PlainLines)
<1>1. /\ i.argv \in Seq(STRING)
      /\ \A v \in DOMAIN i.env : i.env[v] \in STRING
      /\ \A p \in DOMAIN i.files : p # "" /\ i.files[p] \in Seq(FileLines)
  BY InputAssumption
<1>2. STRING \subseteq Words /\ "" \in Words
  BY DEF Words
<1>3. ASSUME NEW S, NEW T, NEW q \in Seq(S), \A j \in DOMAIN q : q[j] \in T
      PROVE  q \in Seq(T)
  <2>1. q \in [1 .. Len(q) -> T] /\ Len(q) \in Nat
    BY <1>3
  <2>2. QED
    BY <2>1, SeqDef
<1> HIDE DEF Words
<1>4. i.argv \in Seq(Words)
  <2>1. \A j \in DOMAIN i.argv : i.argv[j] \in Words
    BY <1>1, <1>2, Elements
  <2>2. QED
    BY <1>1, <1>3, <2>1
<1>5. ASSUME NEW line \in FileLines, ~IsOver(line)
      PROVE  line \in PlainLines
  BY <1>2, <1>5 DEF FileLines, PlainLines, IsOver
<1>6. ASSUME NEW p \in DOMAIN i.files, \A j \in DOMAIN i.files[p] : ~IsOver(i.files[p][j])
      PROVE  i.files[p] \in Seq(PlainLines)
  <2>1. i.files[p] \in Seq(FileLines)
    BY <1>1
  <2>2. \A j \in DOMAIN i.files[p] : i.files[p][j] \in FileLines
    BY <2>1, Elements
  <2>3. \A j \in DOMAIN i.files[p] : i.files[p][j] \in PlainLines
    BY <1>5, <1>6, <2>2
  <2>4. QED
    BY <1>3, <2>1, <2>3
<1>7. QED
  BY <1>1, <1>2, <1>4, <1>6 DEF Env

(* find_config_file_arg() succeeds or fails.                               *)
LEMMA FoundOk ==
  ASSUME NEW argv \in Seq(Words), NEW env, Env(env, "MOCHAD_CONFIG") \in Words
  PROVE  find_config_file_arg(argv, env).ok \in BOOLEAN
<1>1. PICK f \in [0 .. Len(argv) -> Scans] :
        find_config_file_arg(argv, env)
          = [path |-> f[Len(argv)].path, ok |-> f[Len(argv)].ok /\ ~f[Len(argv)].next]
  BY ScanReads
<1>2. QED
  BY <1>1

(* The premise of Precedence: every file that exists is without a long     *)
(* comment and is not called like an option.                               *)
NoOddFile(i) ==
  \A p \in DOMAIN i.files :
     p \notin OptionWords /\ \A j \in DOMAIN i.files[p] : ~IsOver(i.files[p][j])

(* mochad_config_load(): each key has the word of the last source.         *)
LEMMA LoadPrecedes ==
  ASSUME NEW i \in Inputs, mochad_config_load(i).ok, NoOddFile(i), NEW key \in Keys
  PROVE  mochad_config_load(i).set[key] = Expected(i, key)
<1> DEFINE found == find_config_file_arg(i.argv, i.env)
           base == [set |-> Defaults, ok |-> found.ok, check |-> FALSE]
           read == load_config_file(base, found.path, i.files)
           envd == apply_environment(read, i.env)
           told == apply_cli(envd, i.argv)
           file == IF Path(i) \in DOMAIN i.files THEN i.files[Path(i)] ELSE <<>>
<1>1. /\ i.argv \in Seq(Words)
      /\ \A v \in DOMAIN i.env : i.env[v] \in Words
      /\ Env(i.env, "MOCHAD_CONFIG") \in Words
      /\ "" \notin DOMAIN i.files
      /\ \A p \in DOMAIN i.files : i.files[p] \in Seq(PlainLines)
  BY InputWords DEF NoOddFile
<1>2. told.ok /\ mochad_config_load(i).set = told.set
  BY DEF mochad_config_load, Validated
<1>3. base \in Configs /\ base.set = Defaults
  <2>1. found.ok \in BOOLEAN
    BY <1>1, FoundOk
  <2> HIDE DEF found
  <2>2. QED
    BY <2>1, DefaultsAreWords DEF Configs
<1> HIDE DEF base, found, read, envd, told
<1>4. read \in Configs
  BY <1>1, <1>3, LoadFile DEF read, FromFile
<1>5. envd \in Configs
  BY <1>1, <1>4, ApplyEnvironment DEF envd, FromEnv
<1>6. /\ envd.ok
      /\ told.set[key] = IF CliSets(i.argv, key) = {} THEN envd.set[key]
                           ELSE Given(i.argv, MaxOf(CliSets(i.argv, key)))
      /\ found.path = Path(i) \/ found.path \in OptionWords
  BY <1>1, <1>2, <1>5, ArgvRead DEF told, found
<1>7. /\ read.ok
      /\ envd.set[key] = IF EnvSets(i.env, key) = {} THEN read.set[key]
                           ELSE i.env[Variables[MaxOf(EnvSets(i.env, key))][1]]
  <2>1. FromEnv(read, envd, i.env)
    BY <1>1, <1>4, ApplyEnvironment DEF envd
  <2>2. QED
    BY <1>6, <2>1 DEF FromEnv
<1>8. /\ found.path = "" \/ found.path \in DOMAIN i.files
      /\ read.set[key] = IF found.path \in DOMAIN i.files
                           THEN LastWord(i.files[found.path], FileSets(i.files[found.path], key),
                                         base.set[key])
                           ELSE base.set[key]
  <2>1. FromFile(base, read, found.path, i.files)
    BY <1>1, <1>3, LoadFile DEF read
  <2>2. QED
    BY <1>7, <2>1 DEF FromFile
<1>9. found.path = Path(i)
  <2>1. "" \notin OptionWords
    BY Names
  <2>2. QED
    BY <1>6, <1>8, <2>1 DEF NoOddFile
<1>10. read.set[key] = LastWord(file, FileSets(file, key), Defaults[key])
  <2>1. CASE Path(i) \in DOMAIN i.files
    BY <1>3, <1>8, <1>9, <2>1
  <2>2. CASE Path(i) \notin DOMAIN i.files
    <3>1. file = <<>>
      BY <2>2
    <3>2. FileSets(<<>>, key) = {}
      BY DEF FileSets
    <3>3. QED
      BY <1>3, <1>8, <1>9, <2>2, <3>1, <3>2 DEF LastWord
  <2>3. QED
    BY <2>1, <2>2
<1>11. Expected(i, key) =
         IF CliSets(i.argv, key) # {} THEN Given(i.argv, MaxOf(CliSets(i.argv, key)))
         ELSE IF EnvSets(i.env, key) # {} THEN i.env[Variables[MaxOf(EnvSets(i.env, key))][1]]
         ELSE LastWord(file, FileSets(file, key), Defaults[key])
  BY DEF Expected, LastWord
<1> HIDE DEF file
<1>12. QED
  BY <1>2, <1>6, <1>7, <1>10, <1>11

(* Precedence holds: the configuration that main() goes on with is the one *)
(* that a person reads off file, environment and command line.             *)
THEOREM LastSourceWins == BootSpec => []Precedence
<1> DEFINE Inv == /\ stage = "start" => in \in Inputs
                  /\ Precedence
<1>1. BootInit => Inv
  BY DEF BootInit, Precedence
<1>2. ASSUME Inv, [BootNext]_bootVars
      PROVE  Inv'
  <2>1. CASE Load
    <3>1. in \in Inputs /\ in' = in /\ config' = mochad_config_load(in) /\ stage' = "loaded"
      BY <1>2, <2>1 DEF Load
    <3>2. Precedence'
      <4>1. SUFFICES ASSUME config'.ok, NoOddFile(in), NEW key \in Keys
                     PROVE  config'.set[key] = Expected(in, key)
        BY <3>1 DEF Precedence, NoOddFile
      <4>2. QED
        BY <3>1, <4>1, LoadPrecedes
    <3>3. QED
      BY <3>1, <3>2
  <2>2. CASE Help \/ Start \/ GetEndpointAddress \/ CheckListeners \/ Stop \/ CloseListeners
    <3>1. stage' \notin {"start", "loaded"}
      BY <2>2 DEF Help, Start, GetEndpointAddress, CheckListeners, Stop, CloseListeners
    <3>2. QED
      BY <3>1 DEF Precedence
  <2>3. CASE \E s \in Services : Listen(s) \/ SkipListener(s)
    <3>1. stage' \notin {"start", "loaded"}
      BY <2>3 DEF Listen, SkipListener, Services, Follow
    <3>2. QED
      BY <3>1 DEF Precedence
  <2>4. CASE UNCHANGED bootVars
    BY <1>2, <2>4 DEF bootVars, Precedence
  <2>5. QED
    BY <1>2, <2>1, <2>2, <2>3, <2>4 DEF BootNext
<1>3. Inv => Precedence
  OBVIOUS
<1>4. QED
  BY <1>1, <1>2, <1>3, PTL DEF BootSpec
=============================================================================
