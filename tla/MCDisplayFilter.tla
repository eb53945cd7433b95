-------------------------- MODULE MCDisplayFilter --------------------------
(* A catalog with one field of each shape, a capture of four packets, and the
   tokens that make filters of every production. *)
EXTENDS DisplayFilter

Num(n, str) == Value("num", str, n)
Str(str) == Value("str", str, -1)

\* A TLS packet to port 443, one whose two ports are 80, an IPv6 DNS answer, and ARP.
MCPackets == 1 .. 4
MCLayers == <<
    [eth |-> [n \in {"type"} |-> {Num(2048, "2048")}],
     ipv4 |-> [src |-> {Str("10.0.0.1")}, dst |-> {Str("8.8.8.8")}],
     tcp |-> [srcPort |-> {Num(80, "80")}, dstPort |-> {Num(443, "443")}, syn |-> {Value("bool", "true", 1)}],
     tls |-> [sni |-> {Str("80")}]],
    [ipv4 |-> [src |-> {Str("8.8.8.8")}, dst |-> {Str("8.8.8.8")}],
     tcp |-> [srcPort |-> {Num(80, "80")}, dstPort |-> {Num(80, "80")}, syn |-> {Value("bool", "false", 0)}]],
    [ipv6 |-> [src |-> {Str("fe80")}, dst |-> {Str("10.0.0.1")}], tls |-> [sni |-> {Str("")}]],
    [eth |-> [n \in {"type"} |-> {Num(2054, "2054")}]]>>

Entry(layers, attrs, kind, type) == [layers |-> layers, attrs |-> attrs, kind |-> kind, type |-> type]

MCCatalog == ("tcp" :> Entry(<<"tcp">>, {}, "proto", "proto"))
          @@ ("tcp.port" :> Entry(<<"tcp">>, {"srcPort", "dstPort"}, "multi", "num"))
          @@ ("ip.src" :> Entry(<<"ipv4", "ipv6">>, {"src"}, "single", "addr"))
          @@ ("syn" :> Entry(<<"tcp">>, {"syn"}, "flag", "bool"))
          @@ ("sni" :> Entry(<<"tls">>, {"sni"}, "single", "str"))

Lit(type, w, num, block) ==
    [type |-> type, value |-> Value(IF type = "bool" THEN "bool" ELSE "str", w, num), num |-> num, block |-> block]

MCLiteral == ("80" :> Lit("number", "80", 80, {}))
          @@ ("0x50" :> Lit("number", "0x50", 80, {}))
          @@ ("true" :> Lit("bool", "true", 1, {}))
          @@ ("010.0.0.1" :> Lit("ip", "010.0.0.1", -1, {}))
          @@ ("10.0.0.0/8" :> Lit("cidr", "10.0.0.0/8", -1, {"10.0.0.1"}))
          @@ ("10.0.0.0/99" :> Lit("bad", "10.0.0.0/99", -1, {}))

MCCanon == ("010.0.0.1" :> "10.0.0.1")
MCNaN == -1
MCInside == {<<"80", "fe80">>}

Of(type, v) == [type |-> type, value |-> v]
Words(ws) == {Of("word", w) : w \in ws}
Brace == {Of("{", "{"), Of("}", "}")}
Logic == Words({"tcp", "sni", "or"}) \cup {Of("(", "("), Of(")", ")"), Of("and", "&"), Of("not", "!")}
Comparison == Words({"tcp", "tcp.port", "ip.src", "syn", "sni", "other", "not", "in", "constructor", "contains",
                     "0x50", "true", "010.0.0.1", "10.0.0.0/8", "10.0.0.0/99"})
              \cup {Of("op", v) : v \in {"==", "!=", "<", ">="}} \cup Brace
              \cup {Of("string", "80"), Of("string", "joined"), Of("or", "|")}
Sets == Words({"tcp.port", "sni", "in", "0x50", "10.0.0.0/8", "and"}) \cup Brace \cup {Of("string", "80")}

Board(tokens, max, tight) == [tokens |-> tokens, max |-> max, tight |-> tight]
MCKeyboards == {Board(Logic, 7, TRUE), Board(Comparison, 3, TRUE), Board(Comparison, 4, FALSE), Board(Sets, 6, TRUE)}
MCStrays == {"&", "#", "'"}
=============================================================================
