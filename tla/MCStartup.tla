------------------------------ MODULE MCStartup ------------------------------
(***************************************************************************)
(* Startup with texts of up to five lines: sections opened twice, options  *)
(* assigned twice, and every way in which a line can be wrong.  32 and 64  *)
(* bits are scaled down to 100000 and 200000.                              *)
(***************************************************************************)
EXTENDS Startup, TLC

Header(name) == [kind |-> "header", name |-> name, value |-> <<>>]
Assignment(name, value) ==
    [kind |-> "assignment", name |-> name, value |-> value]
Other(kind) == [kind |-> kind, name |-> "", value |-> <<>>]

MCNumberOf ==
    [t \in {"", "true", "npcap", "output.pcap", "final_only", "bulk", "eth"} |->
        NaN]
      @@ ("0" :> 0 @@ "1" :> 1 @@ "70000" :> 70000
          @@ "150000" :> 150000 @@ "250000" :> 250000)
MCToken == DOMAIN MCNumberOf

MCLine ==
    {Other("blank"), Other("unterminated"), Other("no_equals"), Header(""),
     Header("capture"), Header("tls"),
     Assignment("", <<"1">>),
     Assignment("backend", <<"npcap">>), Assignment("interface", <<"eth">>),
     Assignment("interface", <<"">>), Assignment("output", <<"">>),
     Assignment("default_snaplen", <<"0">>),
     Assignment("max_capture_len", <<"1">>),
     Assignment("max_capture_len", <<"0">>),
     Assignment("read_timeout_ms", <<"150000">>),
     Assignment("max_packets", <<"150000">>),
     Assignment("max_packets", <<"250000">>),
     Assignment("enabled", <<"true">>), Assignment("enabled", <<"0">>),
     Assignment("ports", <<"1", "0">>), Assignment("ports", <<"1", "">>),
     Assignment("ports", <<"70000">>), Assignment("ports", <<"1">>),
     Assignment("app_data_continuation_policy", <<"bulk">>)}
MCName == {line.name : line \in MCLine}
=============================================================================
