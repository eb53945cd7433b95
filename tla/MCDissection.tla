---------------------------- MODULE MCDissection ----------------------------
(* Captures of one kind of traffic each, of three or four packets drawn from a *)
(* set that holds for every case of the code a packet that brings it about:    *)
(* cut and padded packets, tunnels and fragments; repeated and forged answers, *)
(* alias loops; mail and logins of two connections at once; leases and names;  *)
(* logons, key exchanges and TLS messages that end half way.                   *)
EXTENDS Dissection, TLC

MCTraffic == {"layers", "dns", "smtp", "logins", "ftp", "hosts", "handshakes"}
MCMaxPackets == [k \in MCTraffic |-> IF k \in {"dns", "smtp", "ftp"} THEN 4 ELSE 3]

\* Packets.
Hd(kind, len, nx) == [kind |-> kind, len |-> len, claims |-> 0, key |-> nx, ext |-> <<>>, frag |-> "no",
                       src |-> "", dst |-> "", reply |-> FALSE, sport |-> 0, dport |-> 0]
Eth(nx) == Hd("eth", 14, nx)
Ip4(claims, nx) == [Hd("ipv4", 20, nx) EXCEPT !.claims = claims]
Ip6(claims, nx, ext) == [Hd("ipv6", 40, nx) EXCEPT !.claims = claims, !.ext = ext]
Frag(h, which) == [h EXCEPT !.frag = which, !.src = "s", !.dst = "d"]
UdpH(claims, sp, dp) == [Hd("udp", 8, "ports") EXCEPT !.claims = claims, !.sport = sp, !.dport = dp]
TcpH(sp, dp) == [Hd("tcp", 20, "ports") EXCEPT !.sport = sp, !.dport = dp]
ArpH(ip, mac, reply) == [Hd("arp", 28, "none") EXCEPT !.src = ip, !.dst = mac, !.reply = reply]
MCDissectors == <<[id |-> "dns", ports |-> {53}, heuristic |-> FALSE],
                  [id |-> "imap", ports |-> {143, 993}, heuristic |-> TRUE],
                  [id |-> "smb", ports |-> {445}, heuristic |-> TRUE],
                  [id |-> "tls", ports |-> {443, 993}, heuristic |-> TRUE]>>
Part(len, dns, imap, smb, tls) == [len |-> len, does |-> [dns |-> dns, imap |-> imap, smb |-> smb,
    tls |-> tls]]
No == "declines"
Pkt(size, fcs, hdrs, pieces) == [size |-> size, fcs |-> fcs, hdrs |-> hdrs, pieces |-> pieces]
Mail == <<Part(8, No, "takes", No, No)>>
Crypt == <<Part(8, No, "throws", No, "takes")>>
Dark == <<Part(8, No, No, "throws", No)>>
MCPackets == {
  Pkt(64, 4, <<Eth("ipv4"), Ip4(44, "tcp"), TcpH(993, 993)>>, Mail),
  Pkt(60, 0, <<Eth("vlan"), Hd("vlan", 4, "ipv4"), Ip4(90, "tcp"), TcpH(4000, 993)>>, Crypt),
  Pkt(90, 4, <<Eth("ipv4"), Ip4(60, "gre"), Hd("gre", 8, "ipv4"), Ip4(44, "udp"), UdpH(24, 53, 53)>>,
      Dark),
  Pkt(80, 0, <<Eth("pppoe"), [Hd("pppoe", 6, "ppp") EXCEPT !.claims = 2], Hd("ppp", 2, "none")>>, <<>>),
  Pkt(120, 0, <<Eth("ipv6"), Ip6(30, "udp", <<8, 8>>), UdpH(14, 143, 4000)>>, Mail),
  Pkt(120, 0, <<Eth("ipv6"), Frag(Ip6(30, "udp", <<8>>), "later"), UdpH(0, 0, 0)>>, Dark),
  Pkt(64, 0, <<Eth("ipv6"), Ip6(10, "udp", <<8, 8>>), UdpH(8, 1, 2)>>, Dark),
  Pkt(60, 0, <<Eth("ipv4"), Frag(Ip4(36, "udp"), "first"), UdpH(30, 53, 4000)>>, Dark),
  Pkt(60, 0, <<Eth("ipv4"), Frag(Ip4(36, "udp"), "later"), UdpH(0, 0, 0)>>, Dark),
  Pkt(90, 0, <<Eth("ipv4"), Ip4(74, "tcp"), TcpH(4000, 53)>>, <<Part(14, "chains", No, No, No),
      Part(14, "chains", No, No, No), Part(9, "takes", No, No, No)>>),
  Pkt(42, 0, <<Eth("arp"), ArpH("A", "m1", TRUE)>>, <<>>),
  Pkt(42, 0, <<Eth("arp"), ArpH("A", "m2", TRUE)>>, <<>>),
  Pkt(60, 0, <<Eth("arp"), ArpH("A", "m2", FALSE)>>, <<>>),
  Pkt(30, 0, <<Eth("arp"), [ArpH("A", "", TRUE) EXCEPT !.len = 16]>>, <<>>),
  Pkt(40, 0, <<Hd("eth", 14, "none")>>, <<>>),
  Pkt(50, 0, <<Hd("sll", 16, "ipv4"), Ip4(30, "igmp"), Hd("igmp", 8, "none")>>, <<>>),
  Pkt(50, 0, <<Hd("sll2", 20, "ipv4"), Ip4(19, "icmp"), Hd("icmp", 8, "none")>>, <<>>),
  Pkt(64, 0, <<Hd("null", 4, "ipv6"), Ip6(12, "icmpv6", <<>>), Hd("icmpv6", 8, "none")>>, <<>>),
  Pkt(20, 0, <<Hd("eth", 22, "ipv4"), Ip4(0, "none")>>, <<>>),
  Pkt(40, 0, <<Eth("unknown")>>, <<>>),
  Pkt(70, 0, <<Hd("mpls", 4, "eth"), Eth("vlan"), Hd("vlan", 4, "vlan"), Hd("vlan", 4, "vlan"),
      Hd("vlan", 4, "vlan"), Hd("vlan", 4, "vlan"), Hd("vlan", 4, "ipv4"), Ip4(30, "none")>>, <<>>),
  Pkt(60, 0, <<Hd("rawip", 0, "ipv6"), Ip6(4, "unknown", <<>>)>>, <<>>),
  \* headers longer than what they are given
  Pkt(64, 0, <<Eth("ipv4"), Ip4(44, "tcp"), [TcpH(993, 993) EXCEPT !.len = 28]>>, Mail),
  Pkt(64, 0, <<Eth("ipv4"), Ip4(26, "gre"), Hd("gre", 12, "ipv4"), Ip4(20, "none")>>, <<>>),
  Pkt(90, 0, <<Eth("ipv6"), Ip6(16, "udp", <<8, 24>>), UdpH(8, 1, 2)>>, Dark),
  Pkt(60, 0, <<Eth("pppoe"), [Hd("pppoe", 6, "ppp") EXCEPT !.claims = 3], Hd("ppp", 4, "ipv4"), Ip4(20, "none")>>, <<>>),
  Pkt(23, 0, <<Eth("mpls"), Hd("mpls", 12, "ipv4"), Ip4(20, "none")>>, <<>>)}

\* DNS messages.
Lb(t) == [is |-> "label", text |-> t, to |-> 0]
Nul == [is |-> "end", text |-> "", to |-> 0]
Ptr(n) == [is |-> "pointer", text |-> "", to |-> n]
\* 1: w.e  4: c.e  6: d.e (through a pointer)  8, 9: loops  10: l
Cells == <<Lb("w"), Lb("e"), Nul, Lb("c"), Ptr(2), Lb("d"), Ptr(2), Lb("l"), Ptr(8), Lb("l"), Nul>>
Q(at) == [question |-> TRUE, at |-> at, type |-> "A", addr |-> "", target |-> 0, last |-> 0,
    fits |-> "all"]
A(at, ip) == [question |-> FALSE, at |-> at, type |-> "A", addr |-> ip, target |-> 0, last |-> 0,
    fits |-> "all"]
CN(at, to) == [question |-> FALSE, at |-> at, type |-> "CNAME", addr |-> "", target |-> to,
    last |-> 11, fits |-> "all"]
Msg(resp, id, src, dst, items) == [resp |-> resp, id |-> id, src |-> src, dst |-> dst,
    cells |-> Cells, items |-> items, claims |-> Len(items)]
MCDns == {
  Msg(FALSE, 1, "c", "s", <<Q(1)>>), Msg(FALSE, 1, "d", "s", <<Q(1)>>), Msg(FALSE, 2, "c", "s",
      <<Q(4)>>),
  Msg(TRUE, 1, "s", "c", <<Q(1), CN(1, 4), CN(4, 6), A(6, "ip1")>>),
  Msg(TRUE, 1, "s", "d", <<Q(1), A(4, "ip2"), CN(1, 4), CN(6, 4)>>),
  Msg(TRUE, 2, "s", "c", <<Q(4), CN(4, 1), CN(1, 4), A(1, "ip1")>>),
  [Msg(TRUE, 1, "s", "c", <<Q(1), [A(4, "ip1") EXCEPT !.fits = "rdata"], A(1,
      "ip2")>>) EXCEPT !.claims = 4],
  Msg(TRUE, 2, "s", "c", <<Q(4), CN(4, 8), A(4, "ip2")>>),
  Msg(TRUE, 2, "s", "c", <<Q(4), A(10, "ip2"), CN(4, 9)>>),
  Msg(TRUE, 2, "s", "c", <<Q(4), A(10, "ip1"), A(1, ""), [CN(6, 8) EXCEPT !.last = 8], A(4, "ip1")>>),
  [Msg(TRUE, 2, "s", "c", <<Q(8), A(4, "ip2")>>) EXCEPT !.claims = 9] }

\* Segments of sessions.
Seg(proto, stream, dir, verb, args) == [proto |-> proto, stream |-> stream, dir |-> dir,
    verb |-> verb, args |-> args, dot |-> FALSE, at |-> ""]
Dot(stream, verb, args) == [Seg("smtp", stream, 0, verb, args) EXCEPT !.dot = TRUE]
Ch(stream, dir, verb, at) == [Seg("ftp", stream, dir, verb, <<>>) EXCEPT !.at = at]
D(at) == [Seg("ftpdata", 3, 0, "", <<>>) EXCEPT !.at = at]
MCSegments == [
 smtp |-> {Seg("smtp", 1, 0, "MAIL", <<<<"a">>>>), Seg("smtp", 1, 0, "MAIL", <<<<"b">>>>), Seg("smtp",
     1, 0, "RCPT", <<<<"r">>>>),
   Seg("smtp", 1, 0, "DATA", <<>>), Dot(1, ".", <<>>), Dot(1, "DATA", <<>>), Seg("smtp", 1, 0, "To:", <<<<"To:", "h">>>>),
   Dot(1, "From:", <<<<"From:", "f">>, <<"To:", "h">>, <<"From:", "g">>>>), Dot(1, "To:", <<<<"To:">>>>),
   Seg("smtp", 1, 0, "MAIL", <<>>), Seg("smtp", 1, 0, "AUTH LOGIN", <<>>),
   Seg("smtp", 1, 0, "AUTH LOGIN", <<<<"u">>>>), Seg("smtp", 1, 0, "AUTH PLAIN", <<>>), Seg("smtp", 1,
       0, "", <<<<"u">>, <<"p">>>>),
   Seg("smtp", 1, 1, "334", <<>>), Seg("smtp", 2, 0, "MAIL", <<<<"c">>>>), Seg("smtp", 2, 0, "DATA",
       <<>>),
   Seg("smtp", 2, 0, "AUTH PLAIN", <<<<"v">>, <<"q">>>>), Seg("smtp", 2, 0, "AUTH LOGIN",
       <<<<"v">>>>) },
 logins |-> {Seg("pop", 1, 0, "USER", <<<<"u">>>>), Seg("pop", 1, 0, "PASS", <<<<"p">>>>), Seg("pop",
     2, 0, "USER", <<<<"v">>>>), Seg("pop", 2, 0, "PASS", <<<<"q">>>>),
   Seg("pop", 1, 1, "USER", <<<<"w">>>>), Seg("imap", 3, 0, "LOGIN", <<<<"w">>, <<"p">>>>),
       Seg("imap", 3, 1, "LOGIN", <<<<"w">>>>), Seg("irc", 4, 1, "PASS", <<<<"p">>>>), Seg("irc", 4,
       0, "JOIN", <<>>),
   Seg("telnet", 5, 1, "login", <<>>), Seg("telnet", 5, 1, "password", <<>>), Seg("telnet", 5, 1,
       "text", <<>>), Seg("telnet", 5, 0, "", <<<<"u">>>>), Seg("telnet", 5, 0, "", <<<<"x", "CR",
       "y", "CR">>>>),
   Seg("telnet", 5, 0, "", <<<<"CR", "z">>>>), Seg("telnet", 6, 0, "", <<<<"v", "CR">>>>),
   Seg("http", 7, 0, "GET", <<<<"authorization", "basic", "u", "p">>, <<"authorization", "bearer",
       "t">>, <<"cookie", "session", "x">>>>),
   [Seg("http", 7, 0, "POST", <<<<"authorization", "bearer", "t">>, <<"content-type", "form">>,
       <<"user", "u">>, <<"password", "p">>>>) EXCEPT !.dot = TRUE],
   Seg("http", 7, 1, "HTTP/1.1", <<<<"set-cookie", "lang", "x">>, <<"set-cookie", "session", "y">>,
       <<"password", "p">>>>),
   Seg("http", 7, 0, "body", <<<<"password", "p">>>>)},
 ftp |-> {Seg("ftp", 1, 0, "USER", <<<<"u">>>>), Seg("ftp", 1, 0, "PASS", <<<<"p">>>>), Seg("ftp", 2,
     0, "USER", <<<<"v">>>>), Seg("ftp", 2, 0, "PASS", <<<<"q">>>>),
   Seg("ftp", 1, 0, "RETR", <<<<"f">>>>), Seg("ftp", 1, 0, "STOR", <<<<"g">>>>), Seg("ftp", 2, 0,
       "RETR", <<<<"h">>>>), Ch(1, 0, "PORT", "e1"), Ch(2, 1, "227", "e1"), Ch(2, 1, "229", "e2"),
       Ch(2, 0, "QUIT", "e2"), Ch(1, 1, "226", "e1"),
   D("e1"), D("e2")} ]

\* DHCP and NetBIOS messages.
O(code, value) == [code |-> code, value |-> value, bytes |-> IF value = "" THEN 0 ELSE 4]
EndOpt == O("end", "")
Dhcp(op, mac, src, options) == [proto |-> "dhcp", op |-> op, whole |-> TRUE, cookie |-> TRUE,
    mac |-> mac, yours |-> "y",
   src |-> src, options |-> options, file |-> <<>>, sname |-> <<>>]
Rr(section, type, name, addrs, fits) == [section |-> section, type |-> type, name |-> name,
    suffix |-> "00", addrs |-> addrs, nodes |-> <<>>, fits |-> fits]
Status(nodes, fits) == [Rr("answers", "NBSTAT", "*", <<>>, fits) EXCEPT !.nodes = nodes]
Nd(name, group) == [name |-> name, suffix |-> "00", group |-> group]
Nb(src, records) == [proto |-> "nbns", src |-> src, records |-> records]
Dg(from, name, direct, readable) == [proto |-> "nbdgm", from |-> from, name |-> name, suffix |-> "00",
    direct |-> direct, readable |-> readable]
MCAnn == {
 Dhcp(1, "m", "0.0.0.0", <<O("type", "discover"), O("pad", ""), O("host", "h"), EndOpt>>),
 [Dhcp(1, "m", "0.0.0.0", <<O("type", "request"), O("overload", "sname"), EndOpt, O("host",
     "x")>>) EXCEPT !.sname = <<O("host", "g"), O("bare", "")>>],
 [Dhcp(1, "n", "0.0.0.0", <<O("type", "request"), O("overload", "file"),
     EndOpt>>) EXCEPT !.file = <<O("other", ""), O("host", "k"), EndOpt>>],
 Dhcp(2, "m", "r", <<O("type", "offer"), O("server", "s"), EndOpt>>),
 Dhcp(2, "n", "r", <<O("type", "ack"), O("host", ""), EndOpt>>),
 Dhcp(2, "n", "", <<O("type", "nak"), EndOpt>>),
 Dhcp(2, "n", "r", <<O("type", "nak"), O("server", ""), [O("server", "s") EXCEPT !.bytes = 2]>>),
 [Dhcp(1, "n", "0.0.0.0", <<O("overload", "both"), O("type", "inform"), O("overload", "none"),
     O("host", "")>>) EXCEPT !.file = <<EndOpt>>, !.sname = <<O("host", "g"), EndOpt>>],
 Dhcp(1, "n", "q", <<O("type", "ack"), O("host", "h"), EndOpt>>),
 [Dhcp(1, "m", "q", <<O("type", "discover"), O("host", "z"), EndOpt>>) EXCEPT !.cookie = FALSE],
 [Dhcp(2, "m", "q", <<>>) EXCEPT !.whole = FALSE],
 Nb("a", <<Rr("queries", "NB", "P", <<>>, "all"), Rr("answers", "NB", "P", <<"b", "0.0.0.0">>, "all"),
     Rr("additionals", "NB", "P", <<"c">>, "rdata")>>),
 Nb("a", <<Rr("answers", "NB", "Q", <<"b">>, "all"), Status(<<Nd("R", FALSE)>>, "all"),
     Rr("additionals", "NB", "P", <<>>, "short")>>),
 Nb("b", <<Status(<<Nd("P", FALSE), Nd("G", TRUE)>>, "all"), Rr("authorities", "NB", "P", <<"b">>,
     "no")>>),
 [Nb("b", <<Status(<<Nd("P", FALSE)>>, "short")>>) EXCEPT !.src = "c"],
 Dg("b", "P", TRUE, TRUE), Dg("d", "Q", TRUE, TRUE), Dg("d", "P", TRUE, FALSE), Dg("d", "P", FALSE,
     FALSE)}

\* Segments of handshakes.
Setup(dialect, stream, dir, ntlm, bytes, text) == [proto |-> "smb", stream |-> stream, dir |-> dir,
    dialect |-> dialect,
   whole |-> TRUE, command |-> "setup", ntlm |-> ntlm, bytes |-> bytes, text |-> text, user |-> "u"]
Share(dialect, stream, command, text) == [Setup(dialect, stream, 0, 0, 0,
    text) EXCEPT !.command = command]
Ss(stream, dir, banner, pkt) == [proto |-> "ssh", stream |-> stream, dir |-> dir, banner |-> banner,
    packet |-> pkt, text |-> "k"]
Ms(is, fits, text) == [is |-> is, fits |-> fits, text |-> text, certs |-> <<>>]
Cert(fits, cs) == [Ms("certificates", fits, "") EXCEPT !.certs = cs]
Rd(is, whole, ms) == [is |-> is, whole |-> whole, messages |-> ms]
Tl(stream, dir, src, records) == [proto |-> "tls", stream |-> stream, dir |-> dir, src |-> src,
    records |-> records]
MCHs == {
 Setup(2, 1, 1, 2, 0, "c1"), Setup(2, 1, 1, 2, 0, "c2"), Setup(2, 2, 1, 2, 0, "c3"), Setup(2, 1, 0, 3,
     48, ""), Setup(2, 2, 0, 3, 24, ""),
 Setup(2, 1, 0, 1, 0, ""), Setup(1, 3, 1, 2, 0, "c4"), Setup(1, 3, 0, 3, 24, ""), Setup(2, 2, 0, 3,
     16, ""),
 Share(2, 1, "tree", "t1"), Share(2, 2, "tree", "t2"), Share(1, 3, "tree", "t1"), Share(2, 1,
     "create", "f"), Share(2, 2, "create", ""),
 [Share(2, 1, "tree", "t1") EXCEPT !.dir = 1], [Setup(2, 1, 0, 3, 48, "") EXCEPT !.whole = FALSE],
     Share(1, 3, "other", ""),
 Ss(4, 0, "cl", "short"), Ss(4, 1, "sv", "kexinit"), Ss(4, 0, "", "kexinit"), Ss(5, 0, "other",
     "few"), Ss(5, 0, "", "kexinit"),
 Tl(6, 0, "c", <<Rd("handshake", TRUE, <<Ms("client", "all", "a"), Ms("client", "head", "")>>),
     Rd("data", TRUE, <<>>)>>),
 Tl(6, 0, "c", <<Rd("handshake", FALSE, <<Ms("client", "most", "b")>>)>>),
 Tl(7, 0, "c", <<Rd("alert", TRUE, <<>>), Rd("handshake", TRUE, <<Ms("other", "all", ""), Ms("client",
     "all", "")>>), Rd("unknown", TRUE, <<>>), Rd("handshake", TRUE, <<Ms("client", "all", "d")>>)>>),
 Tl(7, 1, "s", <<Rd("handshake", TRUE, <<Ms("server", "all", "x"), Cert("all", <<"p", "q">>),
     Ms("done", "all", "")>>)>>),
 Tl(7, 1, "s", <<Rd("handshake", TRUE, <<Ms("server", "all", "y"), Ms("empty", "all", ""), Cert("all",
     <<"p", "q">>)>>)>>)}
=============================================================================
