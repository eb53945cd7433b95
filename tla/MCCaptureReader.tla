-------------------------- MODULE MCCaptureReader --------------------------
(* Files of both formats, cut at every position.                            *)
EXTENDS CaptureReader

B(type, len) == [type |-> type, len |-> len, le |-> TRUE, bom |-> TRUE, id |-> 0, cap |-> 0,
                 orig |-> 0, ts |-> 0, link |-> 0, snap |-> 0, res |-> 2]

Section(order) == [B("SHB", 7) EXCEPT !.le = order]
Iface(link, snap, res) == [B("IDB", 5) EXCEPT !.link = link, !.snap = snap, !.res = res]
Enhanced(id, cap, ts) == [B("EPB", 8 + cap) EXCEPT !.id = id, !.cap = cap, !.orig = cap + 1, !.ts = ts]
Simple(orig, room) == [B("SPB", 4 + room) EXCEPT !.orig = orig]
Obsolete(id, cap, room, ts) == [B("PB", 8 + room) EXCEPT !.id = id, !.cap = cap, !.orig = cap, !.ts = ts]
InOrder(order, bs) == [i \in DOMAIN bs |-> [bs[i] EXCEPT !.le = order]]
Rec(cap, ts, res) == [B("REC", 4 + cap) EXCEPT !.cap = cap, !.orig = cap + 2, !.ts = ts, !.res = res]

Bodies == {Enhanced(0, 1, 3), Enhanced(1, 2, 7), [Enhanced(0, 1, 1) EXCEPT !.cap = 3],
           Simple(2, 2), Simple(3, 1), Obsolete(1, 1, 1, 2), Obsolete(0, 3, 1, 5), B("OTHER", 3)}

\* A section in either byte order with one or two interfaces and up to two blocks, and a
\* second section in the other order with an interface of another link type.
Ifaces == {<<Iface(1, 0, 2)>>, <<Iface(1, 1, 1), Iface(113, 0, 2)>>}
Second2 == {<<>>, <<Enhanced(0, 1, 5)>>, <<Simple(1, 1), Enhanced(1, 1, 3)>>}
Ng(order, ifs, bs, more) ==
    <<Section(order)>> \o InOrder(order, ifs \o bs)
    \o (IF more = <<>> THEN <<>> ELSE <<Section(~order)>> \o InOrder(~order, <<Iface(101, 0, 2)>> \o more))
PcapngBlocks ==
    {Ng(order, ifs, <<b1, b2>>, more) : order \in {TRUE}, ifs \in Ifaces, b1 \in Bodies, b2 \in Bodies, more \in Second2}
    \cup {Ng(TRUE, <<Iface(1, 0, 2)>>, <<[B("SPB", 3) EXCEPT !.orig = 3], [B("PB", 3) EXCEPT !.cap = 2], Enhanced(0, 1, 3)>>, <<>>),
          Ng(FALSE, <<>>, <<Enhanced(0, 1, 3)>>, <<Enhanced(0, 1, 5)>>),
          <<[Section(TRUE) EXCEPT !.bom = FALSE], Iface(1, 0, 2)>>,
          <<Section(TRUE), Iface(1, 0, 2), [B("OTHER", 3) EXCEPT !.len = 2], Enhanced(0, 1, 3)>>}
PcapBlocks == {<<r, s>> : r \in {Rec(c, t, 1) : c \in 0 .. 1, t \in 0 .. 4}, s \in {Rec(2, t, 2) : t \in 0 .. 2}}

Size(head, bs) == Starts(head, bs)[Len(bs) + 1]
Cuts(size) == {size} \cup {n \in 0 .. size : n > 20 \/ n % 3 = 0}
MCFiles ==
    UNION {{[format |-> "pcapng", v2 |-> TRUE, blocks |-> bs, size |-> n, link |-> 0] : n \in Cuts(Size(0, bs))} :
              bs \in PcapngBlocks}
    \cup UNION {{[format |-> "pcap", v2 |-> v2, blocks |-> bs, size |-> n, link |-> 1] :
                   v2 \in BOOLEAN, n \in 0 .. Size(PcapHeader, bs)} : bs \in PcapBlocks}
    \cup {[format |-> "unknown", v2 |-> TRUE, blocks |-> <<>>, size |-> 5, link |-> 0]}
=============================================================================
