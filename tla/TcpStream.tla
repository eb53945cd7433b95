----------------------------- MODULE TcpStream -----------------------------
(***************************************************************************)
(* One TCP conversation from the wire to the reader: its packets are       *)
(* dissected into a flow record (TcpFlow) and the record is reassembled    *)
(* (Reassembly) or listed for "Follow stream" (followStream, below).       *)
(*                                                                         *)
(* A packet's `pos`, which the program cannot see, tells what was sent.    *)
(***************************************************************************)
EXTENDS TcpFlow, Reassembly

VARIABLE dissected   \* dissectCapture has returned

streamVars == <<flowVars, vars, dissected>>

\* The segments of a direction, each at its place in s.segs; packets are stamped in the
\* order they are captured.
OfDirection(d) ==
    [i \in {j \in DOMAIN segs : segs[j].dir = d /\ segs[j].len > 0} |->
        [pkt |-> segs[i].pkt, ts |-> segs[i].pkt, seq |-> segs[i].seq, len |-> segs[i].len]]

\* Faulty variant: the segments are walked in the order they came in.
ArrivalOrder(d) == InOrder(OfDirection(d), {})

\* segs.sort((a, b) => (a.seq - b.seq) || (a.pkt - b.pkt))
Lower(s, t) == s.seq < t.seq \/ (s.seq = t.seq /\ s.pkt < t.pkt)
InSequence(d) ==
    LET of == OfDirection(d)
    IN  InOrder(of, {p \in (DOMAIN of) \X (DOMAIN of) : Lower(of[p[1]], of[p[2]])})

StreamInit == FlowInit /\ Init /\ dissected = FALSE

DissectPacket ==
    /\ ~dissected
    /\ FlowNext
    /\ UNCHANGED <<vars, dissected>>

\* reassembleTcp is called on demand, once the whole capture has been dissected.
Reassemble ==
    /\ ~dissected
    /\ dissected' = TRUE
    /\ Call([d \in Dirs |-> InSequence(d)])
    /\ UNCHANGED flowVars

Assemble ==
    /\ Loop
    /\ UNCHANGED <<flowVars, dissected>>

StreamNext == DissectPacket \/ Reassemble \/ Assemble

StreamSpec == StreamInit /\ [][StreamNext]_streamVars

-----------------------------------------------------------------------------
(* followStream *)

Kept == SelectSeq(segs, LAMBDA s : s.len > 0 /\ ~s.retrans)
LengthOf(s) == MapThenSumSet(LAMBDA i : s[i].len, DOMAIN s)

\* The chunks in packet order, cut off where the budget is spent.
followStream ==
    LET room(i) == MaxReassembly - LengthOf(SubSeq(Kept, 1, i - 1))
    IN  [i \in {j \in DOMAIN Kept : room(j) > 0} |->
            [dir |-> Kept[i].dir, pkt |-> Kept[i].pkt, from |-> Kept[i].seq,
             to |-> Kept[i].seq + (IF Kept[i].len > room(i) THEN room(i) ELSE Kept[i].len)]]

-----------------------------------------------------------------------------
(* What was sent *)

\* The first packet of an endpoint; its position is that of relative sequence number 0.
First(e) == CHOOSE i \in Sent(e) : \A j \in Sent(e) : i <= j
Base(e) == captured[First(e)].pos

\* The capture shows the sender's packets from the first one on, and none of them lies a
\* whole space behind it: nothing that it sent before the first packet captured turns up
\* later, and relative numbers do not come round to 0 again.  (What the program does
\* without this is a hazard of its own: see the README.)
InOneSpace(e) == \A i \in Sent(e) : Base(e) <= captured[i].pos /\ captured[i].pos < Base(e) + Mod

\* The endpoints that sent something, in one space.
Whole == {e \in Ends : Sent(e) # {} /\ InOneSpace(e)}

\* The positions of the bytes of a packet, and of those captured of an endpoint.
BytesOf(p) == p.pos..(p.pos + p.len - 1)
Captured(e) == UNION {BytesOf(captured[i]) : i \in Sent(e)}

\* Positions that a half-open range of relative sequence numbers stands for.
Positions(e, r) == (r.from + Base(e))..(r.to + Base(e) - 1)

Finished == dissected /\ dir = Done

-----------------------------------------------------------------------------
(* Properties *)

\* Sequence numbers that wrap round, duplicates, overlaps, reordering and a late
\* SYN that turns the record round notwithstanding, the output of a direction is,
\* in order and each once, the bytes captured from that endpoint; what the gaps
\* list is what was not captured in between (tcp.js:74-117, streams.js:24-67).
StreamComplete ==
    (Finished /\ ~truncated) => \A e \in Whole :
        LET pieces == InDirection(out, e)
            holes == InDirection(gaps, e)
            got == UNION {Positions(e, out[k]) : k \in pieces}
            missing == UNION {Positions(e, gaps[k]) : k \in holes}
        IN  /\ got = Captured(e)
            /\ \A j, k \in pieces : j < k => out[j].to <= out[k].from
            /\ missing = {b \in Base(e)..(Base(e) + Mod) :
                              /\ b \notin Captured(e)
                              /\ \E c, d \in Captured(e) : c < b /\ b < d}

\* streams.js:69-71 says of followStream that "pure retransmissions are dropped":
\* nothing else is, so every captured byte is in some chunk.
FollowKeepsEveryByte ==
    \A e \in Whole : \A b \in Captured(e) :
        \E k \in DOMAIN followStream :
            /\ followStream[k].dir = DirOf(e)
            /\ b \in Positions(e, followStream[k])
=============================================================================
