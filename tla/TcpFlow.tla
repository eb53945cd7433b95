------------------------------ MODULE TcpFlow ------------------------------
(***************************************************************************)
(* One TCP flow record (src/dissectors/tcp.js): trackFlow and the stateful *)
(* part of dissect, once per captured packet of one pair of endpoints.     *)
(*                                                                         *)
(* The record numbers its endpoints: direction 0 goes from `a`, at first   *)
(* the sender of the first packet, to the other one.  A pure SYN seen in   *)
(* direction 1 makes its sender `a` and swaps every per-direction array.   *)
(* Header fields that only end up in the packet's text are left out, and   *)
(* so is maxSeq, which nothing ever sets.                                  *)
(***************************************************************************)
EXTENDS SeqSpace, Sequences, FiniteSets

CONSTANTS X, Y,       \* the endpoints
          Packets,    \* the packets a capture may hold; the program does not see their `pos`
          MaxPackets  \* bound: the length of a capture

Ends == {X, Y}
Other(e) == IF e = X THEN Y ELSE X
FlowDirs == {0, 1}

ASSUME FlowAssumption ==
    /\ X # Y /\ None \notin {X, Y}
    /\ MaxPackets \in Nat
    /\ \A p \in Packets :
          /\ p.src \in {X, Y} /\ p.seq \in Word /\ p.len \in Nat
          /\ p.syn \in BOOLEAN /\ p.ack \in BOOLEAN
          /\ p.fin \in BOOLEAN /\ p.rst \in BOOLEAN

\* `pos` is the position of a packet's first byte in what its sender sent, a SYN being
\* at position 0; its sequence number is the initial one plus the position, in Word.
ASSUME PositionAssumption ==
    \E initial \in [{X, Y} -> Word] : \A p \in Packets :
        p.pos \in Nat /\ p.seq = Wrap(initial[p.src] + p.pos)

VARIABLES
    captured,   \* the packets dissected so far
    dirOf,      \* packet.stream.dir of each
    a,          \* s.a; s.b is the other endpoint
    isn, nextSeq, fin, bytes, pkts,   \* per direction
    segs,       \* s.segs
    synSeen, synAckSeen, rst, retrans, ooo

record == <<a, isn, nextSeq, fin, bytes, pkts, segs, synSeen, synAckSeen, rst,
            retrans, ooo>>
flowVars == <<captured, dirOf, record>>

FlowSeg == [pkt : Nat, dir : FlowDirs, seq : Word, len : Nat, retrans : BOOLEAN]

FlowTypeOK ==
    /\ captured \in Seq(Packets)
    /\ dirOf \in Seq(FlowDirs)
    /\ a \in Ends \cup {None}
    /\ isn \in [FlowDirs -> Word \cup {None}]
    /\ nextSeq \in [FlowDirs -> Word \cup {None}]
    /\ fin \in [FlowDirs -> BOOLEAN]
    /\ bytes \in [FlowDirs -> Nat]
    /\ pkts \in [FlowDirs -> Nat]
    /\ segs \in Seq(FlowSeg)
    /\ synSeen \in BOOLEAN /\ synAckSeen \in BOOLEAN /\ rst \in BOOLEAN
    /\ retrans \in Nat /\ ooo \in Nat

FlowInit ==
    /\ captured = <<>>
    /\ dirOf = <<>>
    /\ a = None
    /\ isn = [d \in FlowDirs |-> None]
    /\ nextSeq = [d \in FlowDirs |-> None]
    /\ fin = [d \in FlowDirs |-> FALSE]
    /\ bytes = [d \in FlowDirs |-> 0]
    /\ pkts = [d \in FlowDirs |-> 0]
    /\ segs = <<>>
    /\ synSeen = FALSE /\ synAckSeen = FALSE /\ rst = FALSE
    /\ retrans = 0 /\ ooo = 0

PureSyn(p) == p.syn /\ ~p.ack

\* The record's first endpoint when p is dissected: p creates the record if none is.
FirstEnd(p) == IF a = None THEN p.src ELSE a

\* The direction trackFlow books p under.
TrackedDir(p) == IF p.src = FirstEnd(p) THEN 0 ELSE 1

\* A SYN from b: its sender becomes a.
Swaps(p) == PureSyn(p) /\ TrackedDir(p) = 1

\* Array.prototype.reverse on an array per direction, when p swaps the record.
Reversed(p, f) == IF Swaps(p) THEN [d \in FlowDirs |-> f[1 - d]] ELSE f

\* Faulty variant: the segments already stored keep their direction.
KeptSegs(p) == segs

\* g.dir ^= 1 for every stored segment.
SwappedSegs(p) ==
    IF Swaps(p) THEN [i \in DOMAIN segs |-> [segs[i] EXCEPT !.dir = 1 - @]] ELSE segs

\* Faulty variant: the direction found before the swap is kept.
StaleDir(p) == TrackedDir(p)

\* The direction after a possible swap.
FinalDir(p) == IF Swaps(p) THEN 0 ELSE TrackedDir(p)

Dissect(p) ==
    LET d == FinalDir(p)
        isn1 == Reversed(p, isn)
        first == IF isn1[d] = None THEN p.seq ELSE isn1[d]
        rel == RelSeq(p.seq, first)
        next1 == Reversed(p, nextSeq)
        behind == Behind(p, rel, next1[d])
    IN  /\ Len(captured) < MaxPackets
        /\ captured' = Append(captured, p)
        /\ dirOf' = Append(dirOf, d)
        /\ a' = IF Swaps(p) THEN p.src ELSE FirstEnd(p)
        /\ pkts' = Reversed(p, [pkts EXCEPT ![TrackedDir(p)] = pkts[TrackedDir(p)] + 1])
        /\ synSeen' = (synSeen \/ PureSyn(p))
        /\ synAckSeen' = (synAckSeen \/ (p.syn /\ p.ack))
        /\ isn' = [isn1 EXCEPT ![d] = first]
        /\ nextSeq' = [next1 EXCEPT ![d] = NextExpected(p, rel, next1[d])]
        /\ retrans' = retrans + (IF behind THEN 1 ELSE 0)
        /\ ooo' = ooo + (IF Ahead(p, rel, next1[d]) THEN 1 ELSE 0)
        /\ rst' = (rst \/ p.rst)
        /\ fin' = [Reversed(p, fin) EXCEPT ![d] = Reversed(p, fin)[d] \/ p.fin]
        /\ bytes' = [Reversed(p, bytes) EXCEPT ![d] = Reversed(p, bytes)[d] + p.len]
        /\ segs' = IF p.len > 0
                   THEN Append(SwappedSegs(p), [pkt |-> Len(captured) + 1, dir |-> d,
                                                seq |-> rel, len |-> p.len,
                                                retrans |-> behind])
                   ELSE SwappedSegs(p)

FlowNext == \E p \in Packets : Dissect(p)

FlowSpec == FlowInit /\ [][FlowNext]_flowVars

-----------------------------------------------------------------------------
(* The record implements the ledger of its endpoints *)

\* The direction of the packets endpoint e sends, and the sender of the packets of a
\* direction of a record whose first endpoint is `first`.
DirOf(e) == IF e = a THEN 0 ELSE 1
EndOf(first, d) == IF d = 0 THEN first ELSE Other(first)

Ledger == INSTANCE EndpointLedger WITH
    count <- Len(captured),
    initiator <- a,
    isn <- [e \in Ends |-> isn[DirOf(e)]],
    expected <- [e \in Ends |-> nextSeq[DirOf(e)]],
    fin <- [e \in Ends |-> fin[DirOf(e)]],
    bytes <- [e \in Ends |-> bytes[DirOf(e)]],
    pkts <- [e \in Ends |-> pkts[DirOf(e)]],
    segs <- [i \in 1..Len(segs) |->
               [pkt |-> segs[i].pkt, src |-> EndOf(a, segs[i].dir), seq |-> segs[i].seq,
                len |-> segs[i].len, retrans |-> segs[i].retrans]]

\* Whichever endpoint the capture shows first and however often the initiator
\* changes, every number, flag and segment of the record stays with the endpoint
\* whose packets it describes (tcp.js:40-45, 78-84, 107-117).
ImplementsLedger == Ledger!Spec

\* Once no further pure SYN follows a packet, the direction the packet was given
\* is the one the record gives its sender: the turn comes before the packet is
\* labelled (tcp.js:76-83).
DirsSettle ==
    \A i \in DOMAIN captured :
        (\A j \in DOMAIN captured : j > i => ~PureSyn(captured[j]))
        => dirOf[i] = DirOf(captured[i].src)

-----------------------------------------------------------------------------
(* What was sent *)

Sent(e) == {i \in DOMAIN captured : captured[i].src = e}
InDirection(s, e) == {i \in DOMAIN s : s[i].dir = DirOf(e)}

\* The end of the sequence space that packet p takes up, and those of the packets of e
\* before packet n.
EndOfPacket(p) == p.pos + SegLen(p)
SpaceBefore(e, n) == {EndOfPacket(captured[i]) :
                        i \in {j \in Sent(e) : j < n /\ TakesSpace(captured[j])}}
HighestBefore(e, n) == {h \in SpaceBefore(e, n) : \A end \in SpaceBefore(e, n) : end <= h}

\* Every packet of e lies within half the space of the highest end seen before it, as
\* the window of TCP, a quarter of it at most, sees to.
InWindow(e) ==
    \A i \in Sent(e) : \A h \in HighestBefore(e, i) :
        /\ h - Mod \div 2 <= captured[i].pos
        /\ EndOfPacket(captured[i]) < h + Mod \div 2

\* A segment is marked as a retransmission exactly when it starts before the end of
\* what its sender was seen to send earlier: the comparison of 32-bit differences
\* is the comparison of positions, however often the numbers have wrapped round
\* (tcp.js:85, 91-110, 116).
RetransIsBehind ==
    \A e \in Ends : InWindow(e) => \A i \in InDirection(segs, e) :
        segs[i].retrans <=> \E end \in SpaceBefore(e, segs[i].pkt) :
                                captured[segs[i].pkt].pos < end
=============================================================================
