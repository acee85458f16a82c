-------------------------------- MODULE Config --------------------------------
(***************************************************************************)
(* How src/config/config.c makes the configuration from the compiled       *)
(* defaults, an optional file, the environment and the command line.       *)
(* Every value is a word; Parse says what a key makes of it.  Keys that    *)
(* only change how the log looks (raw_data, log_level) are left out: they  *)
(* take the same way as those that are here.                               *)
(***************************************************************************)
EXTENDS Integers, Sequences

CONSTANTS
  Ports,        (* words that parse_port() accepts                         *)
  Addresses4,   (* words getaddrinfo() takes for an IPv4 address           *)
  Addresses6    (* ... for an IPv6 address                                 *)

Policies == {"auto", "enable", "disable"}
PortKeys == {"server_port", "xml_port", "openremote_port"}
FlagKeys == {"xml_enabled", "openremote_enabled", "foreground"}

Keys == {"bind", "dual_stack"} \cup PortKeys \cup FlagKeys

(* mochad_config_defaults(), and the words it stands for.                  *)
Defaults ==
  [bind |-> "0.0.0.0", server_port |-> "1099", xml_port |-> "1100",
   openremote_port |-> "1101", xml_enabled |-> "yes", openremote_enabled |-> "yes",
   foreground |-> "no", dual_stack |-> "auto"]

(* parse_port(), parse_bool(), parse_dual_stack(), copy_string(): any word *)
(* but the empty one is an address until mochad_config_validate().         *)
Parses(key, word) ==
  \/ key \in PortKeys /\ word \in Ports
  \/ key \in FlagKeys /\ word \in {"yes", "no"}
  \/ key = "dual_stack" /\ word \in Policies
  \/ key = "bind" /\ word # ""

(* A load under way: what is set so far, and whether it has failed.        *)
Failed(c) == [c EXCEPT !.ok = FALSE]

(* apply_key_value()                                                       *)
apply_key_value(c, key, word) ==
  IF c.ok /\ key \in Keys /\ Parses(key, word)
    THEN [c EXCEPT !.set[key] = word]
    ELSE Failed(c)

-----------------------------------------------------------------------------
(* The file.  A line is <<"set", key, word>>, <<"none">> (empty, or a      *)
(* comment), <<"junk">> (no equals sign), or <<"over", rest>>: a comment   *)
(* of over 511 bytes, of which fgets() returns the rest as a line of its   *)
(* own that no longer begins with #.                                       *)
IsOver(line) == line[1] = "over"
Texts(file) == [i \in DOMAIN file |-> IF IsOver(file[i]) THEN file[i][2] ELSE file[i]]

apply_line(c, line) ==
  CASE line[1] = "none" -> c
    [] line[1] = "junk" -> Failed(c)
    [] line[1] = "set"  -> apply_key_value(c, line[2], line[3])

(* One after the other.                                                    *)
apply_lines(c, lines) ==
  LET read[k \in 0 .. Len(lines)] ==
        IF k = 0 THEN c ELSE apply_line(read[k - 1], lines[k])
  IN  read[Len(lines)]

(* load_config_file(): files maps the paths that can be opened to lines.   *)
load_config_file(c, path, files) ==
  IF path = "" THEN c
  ELSE IF path \notin DOMAIN files THEN Failed(c)
  ELSE apply_lines(c, Texts(files[path]))

(* apply_environment(): in this order; a variable that is set to the empty *)
(* word counts as not set.                                                 *)
Variables ==
  << <<"MOCHAD_BIND", "bind">>,               <<"MOCHAD_BIND_ADDRESS", "bind">>,
     <<"MOCHAD_PORT", "server_port">>,        <<"MOCHAD_SERVER_PORT", "server_port">>,
     <<"MOCHAD_XML_ENABLED", "xml_enabled">>, <<"MOCHAD_XML_PORT", "xml_port">>,
     <<"MOCHAD_OPENREMOTE_ENABLED", "openremote_enabled">>,
     <<"MOCHAD_OPENREMOTE_PORT", "openremote_port">>,
     <<"MOCHAD_FOREGROUND", "foreground">>,   <<"MOCHAD_DUAL_STACK", "dual_stack">> >>

Env(env, name) == IF name \in DOMAIN env THEN env[name] ELSE ""

(* apply_env_value(): a variable is as good as a line.                     *)
apply_env_value(env, v) ==
  IF Env(env, v[1]) = "" THEN <<"none">> ELSE <<"set", v[2], Env(env, v[1])>>

apply_environment(c, env) ==
  apply_lines(c, [i \in DOMAIN Variables |-> apply_env_value(env, Variables[i])])

-----------------------------------------------------------------------------
(* The command line.  Options that take the next word, whatever it is, and *)
(* options that are a setting of their own.                                *)
WithWord ==
  [o \in {"--bind", "--port", "--xml-port", "--openremote-port", "--dual-stack"} |->
     CASE o = "--bind" -> "bind"         [] o = "--port" -> "server_port"
       [] o = "--xml-port" -> "xml_port" [] o = "--openremote-port" -> "openremote_port"
       [] o = "--dual-stack" -> "dual_stack"]

Alone ==
  [o \in {"-d", "--foreground", "--background", "--enable-xml", "--disable-xml",
          "--enable-openremote", "--disable-openremote"} |->
     CASE o \in {"-d", "--foreground"} -> <<"foreground", "yes">>
       [] o = "--background"           -> <<"foreground", "no">>
       [] o = "--enable-xml"           -> <<"xml_enabled", "yes">>
       [] o = "--disable-xml"          -> <<"xml_enabled", "no">>
       [] o = "--enable-openremote"    -> <<"openremote_enabled", "yes">>
       [] o = "--disable-openremote"   -> <<"openremote_enabled", "no">>]

(* Mutant: the first --config wins.                                        *)
scan_word_First(s, word) ==
  IF s.next THEN [path |-> IF s.path = "" THEN word ELSE s.path, next |-> FALSE,
                  ok |-> s.ok /\ word # ""]
            ELSE [s EXCEPT !.next = (word = "--config")]

(* find_config_file_arg(): the word after every "--config", wherever it    *)
(* stands, even as the argument of another option.                         *)
scan_word(s, word) ==
  IF s.next THEN [path |-> word, next |-> FALSE, ok |-> s.ok /\ word # ""]
            ELSE [s EXCEPT !.next = (word = "--config")]

find_config_file_arg(argv, env) ==
  LET found == [path |-> Env(env, "MOCHAD_CONFIG"), next |-> FALSE, ok |-> TRUE]
      read[k \in 0 .. Len(argv)] ==
        IF k = 0 THEN found ELSE scan_word(read[k - 1], argv[k])
      end == read[Len(argv)]
  IN  [path |-> end.path, ok |-> end.ok /\ ~end.next]

(* apply_cli(), word by word; "for" is the option that waits for its       *)
(* argument.                                                               *)
Takes == {"--config"} \cup DOMAIN WithWord

apply_word(s, word) ==
  CASE s.for = "--config"                      -> [s EXCEPT !.for = ""]
    [] s.for \in DOMAIN WithWord               ->
         [c |-> apply_key_value(s.c, WithWord[s.for], word), for |-> ""]
    [] s.for = "" /\ word \in Takes            -> [s EXCEPT !.for = word]
    [] s.for = "" /\ word \in DOMAIN Alone     ->
         [s EXCEPT !.c = apply_key_value(@, Alone[word][1], Alone[word][2])]
    [] s.for = "" /\ word = "--check-config"   -> [s EXCEPT !.c.check = TRUE]
    [] OTHER                                   -> [s EXCEPT !.c = Failed(@)]

apply_cli(c, argv) ==
  LET read[k \in 0 .. Len(argv)] ==
        IF k = 0 THEN [c |-> c, for |-> ""] ELSE apply_word(read[k - 1], argv[k])
      end == read[Len(argv)]
  IN  IF end.for # "" THEN Failed(end.c) ELSE end.c

-----------------------------------------------------------------------------
(* Mutant: the two optional listeners are not compared.                    *)
Distinct_Optional(set) ==
  /\ set.xml_enabled = "yes" => set.server_port # set.xml_port
  /\ set.openremote_enabled = "yes" => set.server_port # set.openremote_port

(* mochad_config_validate(): the ports of enabled listeners differ,        *)
Distinct(set) ==
  /\ set.xml_enabled = "yes" => set.server_port # set.xml_port
  /\ set.openremote_enabled = "yes" => set.server_port # set.openremote_port
  /\ (set.xml_enabled = "yes" /\ set.openremote_enabled = "yes") =>
        set.xml_port # set.openremote_port

(* and the address is a numeric one.                                       *)
Validated(c) ==
  [set |-> c.set, check |-> c.check,
   ok |-> c.ok /\ c.set.bind \in Addresses4 \cup Addresses6 /\ Distinct(c.set)]

(* mochad_config_load().  A failure anywhere is a failure of the whole.    *)
mochad_config_load(in) ==
  LET found == find_config_file_arg(in.argv, in.env)
      base  == [set |-> Defaults, ok |-> found.ok, check |-> FALSE]
      file  == load_config_file(base, found.path, in.files)
  IN  Validated(apply_cli(apply_environment(file, in.env), in.argv))

-----------------------------------------------------------------------------
(* The reference: who sets a key last, read off the inputs as a person     *)
(* reads them.  A word is an option unless the option before it takes it.  *)
Options(argv) ==
  LET opt[i \in 0 .. Len(argv)] ==
        IF i = 0 THEN FALSE ELSE ~(opt[i - 1] /\ argv[i - 1] \in Takes)
  IN  {i \in DOMAIN argv : opt[i]}

OptionWords == Takes \cup DOMAIN Alone \cup {"--check-config"}

MaxOf(S) == CHOOSE i \in S : \A j \in S : j <= i

Sets(word, key) ==
  \/ word \in DOMAIN WithWord /\ WithWord[word] = key
  \/ word \in DOMAIN Alone /\ Alone[word][1] = key

CliSets(argv, key) == {i \in Options(argv) : Sets(argv[i], key)}
EnvSets(env, key) ==
  {i \in DOMAIN Variables : Variables[i][2] = key /\ Env(env, Variables[i][1]) # ""}
FileSets(file, key) == {i \in DOMAIN file : file[i][1] = "set" /\ file[i][2] = key}

(* What the option at i gives its key: its own word or the next one.       *)
Given(argv, i) == IF argv[i] \in DOMAIN Alone THEN Alone[argv[i]][2] ELSE argv[i + 1]

Path(in) ==
  LET args == {i \in Options(in.argv) : in.argv[i] = "--config"}
  IN  IF args # {} THEN in.argv[MaxOf(args) + 1] ELSE Env(in.env, "MOCHAD_CONFIG")

Expected(in, key) ==
  LET cli  == CliSets(in.argv, key)
      env  == EnvSets(in.env, key)
      file == IF Path(in) \in DOMAIN in.files THEN in.files[Path(in)] ELSE <<>>
      set  == FileSets(file, key)
  IN  IF cli # {}      THEN Given(in.argv, MaxOf(cli))
      ELSE IF env # {} THEN in.env[Variables[MaxOf(env)][1]]
      ELSE IF set # {} THEN file[MaxOf(set)][3]
      ELSE Defaults[key]
=============================================================================
