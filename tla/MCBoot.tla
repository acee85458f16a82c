-------------------------------- MODULE MCBoot --------------------------------
(* Small inputs for Boot: three ports, both address families, two files,   *)
(* every command line of up to three words and some longer ones.           *)
EXTENDS Boot, TLC

MCFiles ==
  LET lines == { <<"none">>, <<"junk">>, <<"set", "server_port", "1101">>,
                 <<"set", "xml_enabled", "no">>, <<"set", "bind", "::">>,
                 <<"set", "dual_stack", "enable">>, <<"set", "colour", "no">>,
                 <<"over", <<"set", "server_port", "1100">> >>, <<"over", <<"junk">> >> }
  IN  { <<>>, << <<"set", "server_port", "1100">>, <<"set", "xml_port", "1099">> >> }
        \cup {<<l>> : l \in lines}
        \cup { << <<"set", "openremote_enabled", "no">>, l>> : l \in lines }

MCEnvs ==
  { <<>>, [MOCHAD_CONFIG |-> "f"], [MOCHAD_CONFIG |-> ""], [MOCHAD_CONFIG |-> "missing"],
    [MOCHAD_PORT |-> "1100", MOCHAD_SERVER_PORT |-> "1101"],
    [MOCHAD_PORT |-> "1101", MOCHAD_SERVER_PORT |-> "", MOCHAD_CONFIG |-> "f"],
    [MOCHAD_XML_ENABLED |-> "no", MOCHAD_PORT |-> "1100"],
    [MOCHAD_XML_ENABLED |-> "maybe"],
    [MOCHAD_BIND |-> "0.0.0.0", MOCHAD_BIND_ADDRESS |-> "::", MOCHAD_DUAL_STACK |-> "enable"],
    [MOCHAD_BIND_ADDRESS |-> "::", MOCHAD_DUAL_STACK |-> "disable", MOCHAD_CONFIG |-> "f"],
    [MOCHAD_XML_PORT |-> "1101", MOCHAD_OPENREMOTE_ENABLED |-> "no"],
    [MOCHAD_XML_PORT |-> "1101", MOCHAD_OPENREMOTE_PORT |-> "1101"] }

MCWords == {"--config", "f", "--port", "1101", "--disable-xml"}

MCArgvs ==
  UNION {[1 .. n -> MCWords] : n \in 0 .. 3} \cup
  { <<"--bind", "--config", "--config", "f", "--bind", "::">>,
    <<"--bind", "--config", "--config", "f">>,
    <<"--config", "--port", "--port", "1101", "--config", "f">>,
    <<"--config", "f", "--config", "missing">>, <<"--config", "">>,
    <<"--bind", "localhost">>, <<"--bind", "::", "--dual-stack", "enable">>,
    <<"--bind", "::">>, <<"--check-config">>, <<"--help", "--config">>,
    <<"--xml-port", "1101", "--openremote-port", "1100">>,
    <<"--disable-openremote", "--enable-openremote", "--xml-port", "1101">>,
    <<"--dual-stack", "disable", "--bind", "::", "-d", "--background">> }

MCInputs ==
  {[argv |-> a, env |-> e, files |-> "f" :> f @@ "g" :> <<>>] :
     a \in MCArgvs, e \in MCEnvs, f \in MCFiles}

MCDescriptors ==
  LET inp   == [at |-> <<0, 0>>, type |-> "interrupt", dir |-> "in", packet |-> 8, addr |-> 129]
      out   == [at |-> <<0, 0>>, type |-> "interrupt", dir |-> "out", packet |-> 8, addr |-> 2]
      in2   == [inp EXCEPT !.addr = 130, !.packet = 64]
      bulk  == [out EXCEPT !.type = "bulk", !.addr = 3]
      short == [out EXCEPT !.packet = 4, !.addr = 4]
      of(i, s, e) == [e EXCEPT !.at = <<i, s>>]
  IN  { <<inp, out>>, <<out, inp>>, <<inp, in2, out>>, <<inp, bulk>>,
        <<bulk, short, out, inp>>, <<inp, short>>, <<inp, of(0, 1, out)>>,
        <<inp, out, of(1, 0, in2), of(1, 0, bulk)>>, <<of(1, 0, inp), of(1, 0, out)>> }
=============================================================================
