--------------------------- MODULE TcpFlowProofs ---------------------------
(***************************************************************************)
(* What holds of a flow record for every capture, of any length, over any  *)
(* sequence space: its fields keep their types, the record implements the  *)
(* ledger of its endpoints, packet directions settle, and retransmissions  *)
(* are marked.                                                             *)
(***************************************************************************)
EXTENDS TcpFlow, SeqLemmas

USE FlowAssumption, SeqSpaceAssumption DEF Ends, FlowDirs

\* A packet's fields.
LEMMA PacketFields ==
    ASSUME NEW p \in Packets
    PROVE  /\ p.src \in {X, Y} /\ p.seq \in Word /\ p.len \in Nat
           /\ p.syn \in BOOLEAN /\ p.ack \in BOOLEAN
           /\ p.fin \in BOOLEAN /\ p.rst \in BOOLEAN
OBVIOUS

-----------------------------------------------------------------------------
(* Sequence numbers *)

\* Wrapping round gives a sequence number.
LEMMA WrapType == ASSUME NEW x \in Int PROVE Wrap(x) \in Word
BY DEF Wrap, Word

LEMMA RelSeqType ==
    ASSUME NEW s \in Word, NEW i \in Word PROVE RelSeq(s, i) \in Word
BY WrapType DEF RelSeq, Word

LEMMA NextExpectedType ==
    ASSUME NEW p \in Packets, NEW rel \in Word, NEW exp \in Word \cup {None}
    PROVE  NextExpected(p, rel, exp) \in Word \cup {None}
<1>1. SegLen(p) \in Int /\ rel \in Int
  BY PacketFields DEF SegLen, Word
<1>2. Wrap(rel + SegLen(p)) \in Word
  BY <1>1, WrapType
<1> QED
  BY <1>2 DEF NextExpected

\* The sender's first sequence number: the first packet sets it.
LEMMA FirstSeqType ==
    ASSUME NEW p \in Packets, NEW i \in Word \cup {None}
    PROVE  (IF i = None THEN p.seq ELSE i) \in Word
BY PacketFields

-----------------------------------------------------------------------------
(* Types *)

LEMMA ReversedType ==
    ASSUME NEW S, NEW f \in [FlowDirs -> S], NEW p
    PROVE  Reversed(p, f) \in [FlowDirs -> S]
BY DEF Reversed

LEMMA DirTypes ==
    ASSUME NEW p PROVE TrackedDir(p) \in FlowDirs /\ FinalDir(p) \in FlowDirs
BY DEF TrackedDir, FinalDir

LEMMA SwappedSegsType ==
    ASSUME NEW p, segs \in Seq(FlowSeg)
    PROVE  /\ SwappedSegs(p) \in Seq(FlowSeg)
           /\ Len(SwappedSegs(p)) = Len(segs)
<1>1. CASE ~Swaps(p)
  BY <1>1 DEF SwappedSegs
<1>2. CASE Swaps(p)
  <2> DEFINE turned == [i \in DOMAIN segs |-> [segs[i] EXCEPT !.dir = 1 - @]]
  <2>1. DOMAIN segs = 1..Len(segs) /\ Len(segs) \in Nat
    OBVIOUS
  <2>2. ASSUME NEW i \in DOMAIN segs PROVE [segs[i] EXCEPT !.dir = 1 - @] \in FlowSeg
    <3>1. segs[i] \in FlowSeg
      OBVIOUS
    <3>2. 1 - segs[i].dir \in FlowDirs
      BY <3>1 DEF FlowSeg
    <3> QED
      BY <3>1, <3>2 DEF FlowSeg
  <2>3. turned \in [1..Len(segs) -> FlowSeg]
    BY <2>1, <2>2
  <2> HIDE DEF turned
  <2>4. turned \in Seq(FlowSeg) /\ Len(turned) = Len(segs)
    BY <2>1, <2>3
  <2> QED
    BY <1>2, <2>4 DEF SwappedSegs, turned
<1> QED
  BY <1>1, <1>2

LEMMA DissectTypes ==
    ASSUME FlowTypeOK, NEW p \in Packets, Dissect(p) PROVE FlowTypeOK'
<1> DEFINE d == FinalDir(p)
           isn1 == Reversed(p, isn)
           first == IF isn1[d] = None THEN p.seq ELSE isn1[d]
           rel == RelSeq(p.seq, first)
           next1 == Reversed(p, nextSeq)
           behind == Behind(p, rel, next1[d])
           stored == [pkt |-> Len(captured) + 1, dir |-> d, seq |-> rel, len |-> p.len,
                      retrans |-> behind]
<1>1. d \in FlowDirs /\ TrackedDir(p) \in FlowDirs
  BY DirTypes
<1>2. isn1 \in [FlowDirs -> Word \cup {None}] /\ next1 \in [FlowDirs -> Word \cup {None}]
  BY ReversedType DEF FlowTypeOK
<1>3. first \in Word
  BY <1>1, <1>2, FirstSeqType
<1>4. rel \in Word
  BY <1>3, RelSeqType, PacketFields
<1>5. stored \in FlowSeg
  <2>1. behind \in BOOLEAN
    BY DEF Behind
  <2>2. Len(captured) + 1 \in Nat
    BY DEF FlowTypeOK
  <2> HIDE DEF behind, rel, d
  <2> QED
    BY <2>1, <2>2, <1>1, <1>4, PacketFields DEF FlowSeg
<1>6. NextExpected(p, rel, next1[d]) \in Word \cup {None}
  BY <1>1, <1>2, <1>4, NextExpectedType
<1>7. /\ captured' = Append(captured, p)
      /\ dirOf' = Append(dirOf, d)
      /\ a' = IF Swaps(p) THEN p.src ELSE FirstEnd(p)
      /\ pkts' = Reversed(p, [pkts EXCEPT ![TrackedDir(p)] = pkts[TrackedDir(p)] + 1])
      /\ synSeen' = (synSeen \/ PureSyn(p))
      /\ synAckSeen' = (synAckSeen \/ (p.syn /\ p.ack))
      /\ isn' = [isn1 EXCEPT ![d] = first]
      /\ nextSeq' = [next1 EXCEPT ![d] = NextExpected(p, rel, next1[d])]
      /\ retrans' = retrans + (IF behind THEN 1 ELSE 0)
      /\ ooo' = ooo + (IF Ahead(p, rel, next1[d]) THEN 1 ELSE 0)
      /\ rst' = (rst \/ p.rst)
      /\ fin' = [Reversed(p, fin) EXCEPT ![d] = Reversed(p, fin)[d] \/ p.fin]
      /\ bytes' = [Reversed(p, bytes) EXCEPT ![d] = Reversed(p, bytes)[d] + p.len]
      /\ segs' = IF p.len > 0 THEN Append(SwappedSegs(p), stored) ELSE SwappedSegs(p)
  BY DEF Dissect
<1> HIDE DEF d, isn1, first, rel, next1, behind, stored
<1>8. captured' \in Seq(Packets) /\ dirOf' \in Seq(FlowDirs)
  BY <1>1, <1>7 DEF FlowTypeOK
<1>9. a' \in Ends \cup {None}
  BY <1>7, PacketFields DEF FlowTypeOK, FirstEnd
<1>10. isn' \in [FlowDirs -> Word \cup {None}] /\ nextSeq' \in [FlowDirs -> Word \cup {None}]
  BY <1>1, <1>2, <1>3, <1>6, <1>7
<1>11. pkts' \in [FlowDirs -> Nat]
  <2>1. [pkts EXCEPT ![TrackedDir(p)] = pkts[TrackedDir(p)] + 1] \in [FlowDirs -> Nat]
    BY <1>1 DEF FlowTypeOK
  <2> QED
    BY <2>1, <1>7, ReversedType
<1>12. fin' \in [FlowDirs -> BOOLEAN]
  <2>1. Reversed(p, fin) \in [FlowDirs -> BOOLEAN]
    BY ReversedType DEF FlowTypeOK
  <2> QED
    BY <2>1, <1>1, <1>7, PacketFields
<1>13. bytes' \in [FlowDirs -> Nat]
  <2>1. Reversed(p, bytes) \in [FlowDirs -> Nat]
    BY ReversedType DEF FlowTypeOK
  <2>2. Reversed(p, bytes)[d] + p.len \in Nat
    BY <2>1, <1>1, PacketFields
  <2> QED
    BY <2>1, <2>2, <1>1, <1>7
<1>14. segs' \in Seq(FlowSeg)
  <2>1. SwappedSegs(p) \in Seq(FlowSeg)
    BY SwappedSegsType DEF FlowTypeOK
  <2> QED
    BY <2>1, <1>5, <1>7
<1>15. synSeen' \in BOOLEAN /\ synAckSeen' \in BOOLEAN /\ rst' \in BOOLEAN
  BY <1>7, PacketFields DEF FlowTypeOK, PureSyn
<1>16. retrans' \in Nat /\ ooo' \in Nat
  BY <1>7 DEF FlowTypeOK
<1> QED
  BY <1>8, <1>9, <1>10, <1>11, <1>12, <1>13, <1>14, <1>15, <1>16 DEF FlowTypeOK

\* A record that was never written has its types (tcp.js:26-38).
LEMMA EmptyRecord == FlowInit => FlowTypeOK
<1> SUFFICES ASSUME FlowInit PROVE FlowTypeOK
  OBVIOUS
<1>1. captured \in Seq(Packets) /\ dirOf \in Seq(FlowDirs) /\ segs \in Seq(FlowSeg)
  BY Nothing DEF FlowInit
<1>2. /\ a \in Ends \cup {None}
      /\ isn \in [FlowDirs -> Word \cup {None}] /\ nextSeq \in [FlowDirs -> Word \cup {None}]
  BY DEF FlowInit
<1>3. fin \in [FlowDirs -> BOOLEAN] /\ bytes \in [FlowDirs -> Nat] /\ pkts \in [FlowDirs -> Nat]
  BY DEF FlowInit
<1>4. synSeen \in BOOLEAN /\ synAckSeen \in BOOLEAN /\ rst \in BOOLEAN /\ retrans \in Nat /\ ooo \in Nat
  BY DEF FlowInit
<1> QED
  BY <1>1, <1>2, <1>3, <1>4 DEF FlowTypeOK

\* Dissecting a packet keeps every field of the record in its type: sequence
\* numbers stay 32-bit words whatever wraps round (tcp.js:20-45, 53-117).
THEOREM FlowTypeCorrect == FlowSpec => []FlowTypeOK
<1>1. FlowInit => FlowTypeOK
  BY EmptyRecord
<1>2. FlowTypeOK /\ [FlowNext]_flowVars => FlowTypeOK'
  <2>1. FlowTypeOK /\ FlowNext => FlowTypeOK'
    BY DissectTypes DEF FlowNext
  <2>2. FlowTypeOK /\ UNCHANGED flowVars => FlowTypeOK'
    BY DEF flowVars, record, FlowTypeOK
  <2> QED
    BY <2>1, <2>2
<1> QED
  BY <1>1, <1>2, PTL DEF FlowSpec

-----------------------------------------------------------------------------
(* Refinement *)

\* Before its first packet there is no record: nothing is filed in any direction.
NoRecord ==
    /\ \A d \in FlowDirs : /\ isn[d] = None /\ nextSeq[d] = None /\ fin[d] = FALSE
                       /\ bytes[d] = 0 /\ pkts[d] = 0
    /\ segs = <<>>

FlowInv == FlowTypeOK /\ (a = None => NoRecord)

\* There is a record after every packet.
LEMMA FlowInvStep == FlowInv /\ [FlowNext]_flowVars => FlowInv'
<1> SUFFICES ASSUME FlowInv, [FlowNext]_flowVars PROVE FlowInv'
  OBVIOUS
<1>1. ASSUME NEW p \in Packets, Dissect(p) PROVE FlowInv'
  <2>1. a' # None
    BY <1>1, PacketFields DEF Dissect, FirstEnd, FlowInv, FlowTypeOK
  <2> QED
    BY <2>1, <1>1, DissectTypes DEF FlowInv
<1>2. CASE UNCHANGED flowVars
  BY <1>2 DEF flowVars, record, FlowInv, FlowTypeOK, NoRecord
<1> QED
  BY <1>1, <1>2 DEF FlowNext

\* The direction p is filed under is its sender's in the new record.
LEMMA FinalDirIsSenders ==
    ASSUME NEW p \in Packets, a \in Ends \cup {None},
           a' = IF Swaps(p) THEN p.src ELSE FirstEnd(p)
    PROVE  FinalDir(p) = (DirOf(p.src))' /\ a' \in Ends
BY PacketFields DEF FinalDir, Swaps, TrackedDir, FirstEnd, DirOf

\* A per-direction array, turned round or not, still gives each endpoint its own entry.
LEMMA ReversedByEnd ==
    ASSUME NEW p \in Packets, a \in Ends \cup {None}, NEW e \in Ends,
           a' = IF Swaps(p) THEN p.src ELSE FirstEnd(p),
           NEW f, f = [d \in FlowDirs |-> f[d]],
           a = None => f[0] = f[1]
    PROVE  Reversed(p, f)[(DirOf(e))'] = f[DirOf(e)]
<1>1. DirOf(e) \in FlowDirs /\ (DirOf(e))' \in FlowDirs
  BY DEF DirOf
<1>2. CASE a = None
  <2>1. ~Swaps(p)
    BY <1>2 DEF Swaps, TrackedDir, FirstEnd
  <2> QED
    BY <2>1, <1>1, <1>2 DEF Reversed
<1>3. CASE a # None /\ Swaps(p)
  <2>1. (DirOf(e))' = 1 - DirOf(e)
    BY <1>3, PacketFields DEF DirOf, Swaps, TrackedDir, FirstEnd
  <2>2. Reversed(p, f) = [d \in FlowDirs |-> f[1 - d]]
    BY <1>3 DEF Reversed
  <2> QED
    BY <2>1, <2>2, <1>1
<1>4. CASE a # None /\ ~Swaps(p)
  <2>1. (DirOf(e))' = DirOf(e)
    BY <1>4 DEF DirOf, FirstEnd
  <2> QED
    BY <2>1, <1>4 DEF Reversed
<1> QED
  BY <1>2, <1>3, <1>4

\* A stored segment, turned round or not, still belongs to the endpoint that sent it.
LEMMA SegmentsByEnd ==
    ASSUME FlowInv, NEW p \in Packets, NEW i \in 1..Len(segs),
           a' = IF Swaps(p) THEN p.src ELSE FirstEnd(p)
    PROVE  /\ SwappedSegs(p)[i].pkt = segs[i].pkt
           /\ SwappedSegs(p)[i].seq = segs[i].seq
           /\ SwappedSegs(p)[i].len = segs[i].len
           /\ SwappedSegs(p)[i].retrans = segs[i].retrans
           /\ EndOf(a', SwappedSegs(p)[i].dir) = EndOf(a, segs[i].dir)
<1>1. segs \in Seq(FlowSeg) /\ segs[i] \in FlowSeg /\ i \in DOMAIN segs
  BY DEF FlowInv, FlowTypeOK
<1>2. a \in Ends
  BY <1>1 DEF FlowInv, FlowTypeOK, NoRecord
<1>3. CASE ~Swaps(p)
  BY <1>2, <1>3 DEF SwappedSegs, FirstEnd, EndOf
<1>4. CASE Swaps(p)
  <2>1. SwappedSegs(p)[i] = [segs[i] EXCEPT !.dir = 1 - @]
    BY <1>1, <1>4 DEF SwappedSegs
  <2>2. SwappedSegs(p)[i].dir = 1 - segs[i].dir /\ segs[i].dir \in FlowDirs
    BY <2>1, <1>1 DEF FlowSeg
  <2>3. a' = Other(a) /\ a' \in Ends /\ a = Other(a')
    BY <1>2, <1>4, PacketFields DEF Swaps, TrackedDir, FirstEnd, Other
  <2>4. EndOf(a', SwappedSegs(p)[i].dir) = EndOf(a, segs[i].dir)
    <3>1. CASE segs[i].dir = 0
      <4>1. SwappedSegs(p)[i].dir = 1
        BY <3>1, <2>2
      <4>2. EndOf(a', 1) = Other(a') /\ EndOf(a, 0) = a
        BY DEF EndOf
      <4> QED
        BY <3>1, <4>1, <4>2, <2>3
    <3>2. CASE segs[i].dir = 1
      <4>1. SwappedSegs(p)[i].dir = 0
        BY <3>2, <2>2
      <4> QED
        BY <3>2, <4>1, <2>3 DEF EndOf
    <3> QED
      BY <3>1, <3>2, <2>2
  <2> QED
    BY <2>1, <2>4, <1>1 DEF FlowSeg
<1> QED
  BY <1>3, <1>4

\* Dissecting a packet books it on its sender's account.
LEMMA DissectBooks ==
    ASSUME FlowInv, NEW p \in Packets, Dissect(p) PROVE Ledger!Book(p)
<1> DEFINE d == FinalDir(p)
           isn1 == Reversed(p, isn)
           first == IF isn1[d] = None THEN p.seq ELSE isn1[d]
           rel == RelSeq(p.seq, first)
           next1 == Reversed(p, nextSeq)
           behind == Behind(p, rel, next1[d])
           s == p.src
           D(e) == (DirOf(e))'
<1>1. a' = IF Swaps(p) THEN p.src ELSE FirstEnd(p)
  BY DEF Dissect
<1>2. a \in Ends \cup {None} /\ a' \in Ends /\ d = D(s) /\ s \in Ends
  BY <1>1, FinalDirIsSenders, PacketFields DEF FlowInv, FlowTypeOK
<1>3. \A e \in Ends : D(e) \in FlowDirs /\ (e # s => D(e) # d)
  BY <1>2 DEF DirOf
<1>4. \A e \in Ends : /\ isn1[D(e)] = isn[DirOf(e)]
                      /\ next1[D(e)] = nextSeq[DirOf(e)]
                      /\ Reversed(p, fin)[D(e)] = fin[DirOf(e)]
                      /\ Reversed(p, bytes)[D(e)] = bytes[DirOf(e)]
  <2>1. /\ isn = [c \in FlowDirs |-> isn[c]] /\ nextSeq = [c \in FlowDirs |-> nextSeq[c]]
        /\ fin = [c \in FlowDirs |-> fin[c]] /\ bytes = [c \in FlowDirs |-> bytes[c]]
    BY DEF FlowInv, FlowTypeOK
  <2>2. a = None => isn[0] = isn[1] /\ nextSeq[0] = nextSeq[1] /\ fin[0] = fin[1]
                    /\ bytes[0] = bytes[1]
    BY DEF FlowInv, NoRecord
  <2> QED
    BY <2>1, <2>2, <1>1, <1>2, ReversedByEnd
<1>5. first = (IF isn[DirOf(s)] = None THEN p.seq ELSE isn[DirOf(s)])
  BY <1>2, <1>4
<1>6. behind = Behind(p, rel, nextSeq[DirOf(s)])
  BY <1>2, <1>4
<1>7. [e \in Ends |-> isn'[D(e)]] =
        [[e \in Ends |-> isn[DirOf(e)]] EXCEPT ![s] = first]
  <2>1. isn' = [isn1 EXCEPT ![d] = first] /\ isn1 \in [FlowDirs -> Word \cup {None}]
    BY ReversedType DEF Dissect, FlowInv, FlowTypeOK
  <2> HIDE DEF first, isn1, d, D
  <2> QED
    BY <2>1, <1>2, <1>3, <1>4
<1>8. [e \in Ends |-> nextSeq'[D(e)]] =
        [[e \in Ends |-> nextSeq[DirOf(e)]] EXCEPT
           ![s] = NextExpected(p, rel, nextSeq[DirOf(s)])]
  <2>1. /\ nextSeq' = [next1 EXCEPT ![d] = NextExpected(p, rel, next1[d])]
        /\ next1 \in [FlowDirs -> Word \cup {None}]
    BY ReversedType DEF Dissect, FlowInv, FlowTypeOK
  <2>2. next1[d] = nextSeq[DirOf(s)]
    BY <1>2, <1>4
  <2> HIDE DEF rel, next1, d, D
  <2> QED
    BY <2>1, <2>2, <1>2, <1>3, <1>4
<1>9. [e \in Ends |-> fin'[D(e)]] =
        [[e \in Ends |-> fin[DirOf(e)]] EXCEPT ![s] = fin[DirOf(s)] \/ p.fin]
  <2>1. /\ fin' = [Reversed(p, fin) EXCEPT ![d] = Reversed(p, fin)[d] \/ p.fin]
        /\ Reversed(p, fin) \in [FlowDirs -> BOOLEAN]
    BY ReversedType DEF Dissect, FlowInv, FlowTypeOK
  <2>2. Reversed(p, fin)[d] = fin[DirOf(s)]
    BY <1>2, <1>4
  <2> HIDE DEF d, D
  <2> QED
    BY <2>1, <2>2, <1>2, <1>3, <1>4
<1>10. [e \in Ends |-> bytes'[D(e)]] =
        [[e \in Ends |-> bytes[DirOf(e)]] EXCEPT ![s] = bytes[DirOf(s)] + p.len]
  <2>1. /\ bytes' = [Reversed(p, bytes) EXCEPT ![d] = Reversed(p, bytes)[d] + p.len]
        /\ Reversed(p, bytes) \in [FlowDirs -> Nat]
    BY ReversedType DEF Dissect, FlowInv, FlowTypeOK
  <2>2. Reversed(p, bytes)[d] = bytes[DirOf(s)]
    BY <1>2, <1>4
  <2> HIDE DEF d, D
  <2> QED
    BY <2>1, <2>2, <1>2, <1>3, <1>4
<1>11. [e \in Ends |-> pkts'[D(e)]] =
        [[e \in Ends |-> pkts[DirOf(e)]] EXCEPT ![s] = pkts[DirOf(s)] + 1]
  <2> DEFINE t == TrackedDir(p)
             counted == [pkts EXCEPT ![t] = pkts[t] + 1]
  <2>1. pkts' = Reversed(p, counted) /\ pkts \in [FlowDirs -> Nat] /\ t \in FlowDirs
    BY DirTypes DEF Dissect, FlowInv, FlowTypeOK
  <2>2. CASE a = None
    <3>1. t = 0 /\ ~Swaps(p) /\ d = 0 /\ pkts[0] = 0 /\ pkts[1] = 0
      BY <2>2 DEF Swaps, TrackedDir, FirstEnd, FinalDir, FlowInv, NoRecord
    <3>2. pkts' = counted
      BY <2>1, <3>1 DEF Reversed
    <3>3. \A e \in Ends : DirOf(e) = 1
      BY <2>2 DEF DirOf
    <3>4. \A e \in Ends : D(e) = IF e = s THEN 0 ELSE 1
      BY <3>1, <1>2, <1>3
    <3> HIDE DEF t, d, D
    <3>5. counted[0] = 1 /\ counted[1] = 0
      BY <3>1, <2>1
    <3>6. \A e \in Ends : pkts'[D(e)] = IF e = s THEN pkts[DirOf(s)] + 1
                                         ELSE pkts[DirOf(e)]
      BY <3>1, <3>2, <3>3, <3>4, <3>5, <1>2
    <3> QED
      BY <3>6, <1>2
  <2>3. CASE a # None
    <3>1. t = DirOf(s)
      BY <2>3 DEF TrackedDir, FirstEnd, DirOf
    <3> HIDE DEF t
    <3>2. counted \in [FlowDirs -> Nat] /\ counted = [c \in FlowDirs |-> counted[c]]
      <4>1. pkts[t] + 1 \in Nat
        BY <2>1
      <4>2. counted \in [FlowDirs -> Nat]
        BY <4>1, <2>1
      <4> QED
        BY <4>2
    <3> HIDE DEF counted
    <3>3. \A e \in Ends : pkts'[D(e)] = counted[DirOf(e)]
      BY <2>1, <2>3, <3>2, <1>1, <1>2, ReversedByEnd
    <3>4. \A e \in Ends : DirOf(e) \in FlowDirs /\ (e # s => DirOf(e) # t)
      BY <2>3, <3>1, <1>2 DEF DirOf
    <3>5. \A e \in Ends : counted[DirOf(e)] = IF e = s THEN pkts[DirOf(s)] + 1
                                              ELSE pkts[DirOf(e)]
      BY <3>1, <3>4, <2>1 DEF counted
    <3> HIDE DEF D, t
    <3> QED
      BY <3>3, <3>5, <1>2
  <2> QED
    BY <2>2, <2>3
<1>12. [i \in 1..Len(segs') |->
          [pkt |-> segs'[i].pkt, src |-> EndOf(a', segs'[i].dir), seq |-> segs'[i].seq,
           len |-> segs'[i].len, retrans |-> segs'[i].retrans]]
        = LET old == [i \in 1..Len(segs) |->
                        [pkt |-> segs[i].pkt, src |-> EndOf(a, segs[i].dir),
                         seq |-> segs[i].seq, len |-> segs[i].len,
                         retrans |-> segs[i].retrans]]
          IN  IF p.len > 0
              THEN Append(old, [pkt |-> Len(captured) + 1, src |-> s, seq |-> rel,
                                len |-> p.len, retrans |-> behind])
              ELSE old
  <2> DEFINE Entry(first1, g) == [pkt |-> g.pkt, src |-> EndOf(first1, g.dir), seq |-> g.seq,
                                  len |-> g.len, retrans |-> g.retrans]
             old == [i \in 1..Len(segs) |-> Entry(a, segs[i])]
             stored == [pkt |-> Len(captured) + 1, dir |-> d, seq |-> rel, len |-> p.len,
                        retrans |-> behind]
             turned == SwappedSegs(p)
  <2>1. segs' = IF p.len > 0 THEN Append(turned, stored) ELSE turned
    BY DEF Dissect
  <2>2. turned \in Seq(FlowSeg) /\ Len(turned) = Len(segs) /\ Len(segs) \in Nat
    BY SwappedSegsType DEF FlowInv, FlowTypeOK
  <2>3. \A i \in 1..Len(segs) : Entry(a', turned[i]) = Entry(a, segs[i])
    BY <1>1, SegmentsByEnd
  <2>4. EndOf(a', d) = s
    BY <1>2, PacketFields DEF EndOf, DirOf, Other
  <2>5. Entry(a', stored) = [pkt |-> Len(captured) + 1, src |-> s, seq |-> rel,
                             len |-> p.len, retrans |-> behind]
    BY <2>4
  <2>6. ASSUME p.len > 0
        PROVE  [i \in 1..Len(segs') |-> Entry(a', segs'[i])] = Append(old, Entry(a', stored))
    <3> HIDE DEF Entry, stored, turned, d, rel, behind
    <3>1. segs' = Append(turned, stored)
      BY <2>1, <2>6
    <3>2. /\ Len(segs') = Len(segs) + 1
          /\ \A i \in 1..Len(segs) : segs'[i] = turned[i]
          /\ segs'[Len(segs) + 1] = stored
      BY <2>2, <3>1
    <3>3. \A i \in 1..Len(segs') : Entry(a', segs'[i]) =
             IF i <= Len(segs) THEN Entry(a, segs[i]) ELSE Entry(a', stored)
      BY <2>2, <2>3, <3>2
    <3>4. Append(old, Entry(a', stored)) =
            [i \in 1..(Len(segs) + 1) |->
               IF i <= Len(segs) THEN Entry(a, segs[i]) ELSE Entry(a', stored)]
      <4> DEFINE T == {Entry(a, segs[i]) : i \in 1..Len(segs)}
      <4>1. old \in Seq(T) /\ Len(old) = Len(segs)
        <5>1. old \in [1..Len(segs) -> T]
          OBVIOUS
        <5> QED
          BY <5>1, <2>2
      <4>2. \A i \in 1..Len(segs) : old[i] = Entry(a, segs[i])
        OBVIOUS
      <4> HIDE DEF old, T
      <4> QED
        BY <4>1, <4>2, <2>2, Appended
    <3> QED
      BY <3>2, <3>3, <3>4
  <2>7. ASSUME ~(p.len > 0)
        PROVE  [i \in 1..Len(segs') |-> Entry(a', segs'[i])] = old
    <3> HIDE DEF Entry
    <3> QED
      BY <2>1, <2>2, <2>3, <2>7
  <2> QED
    BY <2>5, <2>6, <2>7
<1>13. Len(captured') = Len(captured) + 1
  BY DEF Dissect, FlowInv, FlowTypeOK
<1>14. a' = IF a = None \/ (p.syn /\ ~p.ack) THEN s ELSE a
  BY <1>1, <1>2, PacketFields DEF Swaps, TrackedDir, FirstEnd, PureSyn
<1>15. /\ retrans' = retrans + (IF behind THEN 1 ELSE 0)
       /\ ooo' = ooo + (IF Ahead(p, rel, nextSeq[DirOf(s)]) THEN 1 ELSE 0)
  <2>1. next1[d] = nextSeq[DirOf(s)]
    BY <1>2, <1>4
  <2> QED
    BY <2>1 DEF Dissect
<1> DEFINE Isn == [e \in Ends |-> isn[DirOf(e)]]
           Expected == [e \in Ends |-> nextSeq[DirOf(e)]]
           Fin == [e \in Ends |-> fin[DirOf(e)]]
           Bytes == [e \in Ends |-> bytes[DirOf(e)]]
           Pkts == [e \in Ends |-> pkts[DirOf(e)]]
<1>16. /\ Isn[s] = isn[DirOf(s)] /\ Expected[s] = nextSeq[DirOf(s)]
       /\ Fin[s] = fin[DirOf(s)] /\ Bytes[s] = bytes[DirOf(s)] /\ Pkts[s] = pkts[DirOf(s)]
  BY <1>2
<1>17. /\ Ledger!RelSeq(p.seq, first) = rel
       /\ \A x : /\ Ledger!NextExpected(p, rel, x) = NextExpected(p, rel, x)
                 /\ Ledger!Behind(p, rel, x) = Behind(p, rel, x)
                 /\ Ledger!Ahead(p, rel, x) = Ahead(p, rel, x)
  BY DEF Ledger!RelSeq, Ledger!Wrap, Ledger!NextExpected, Ledger!SegLen,
         Ledger!TakesSpace, Ledger!Signed, Ledger!Behind, Ledger!Ahead,
         RelSeq, Wrap, NextExpected, SegLen, TakesSpace, Signed, Behind, Ahead
<1>18. first = (IF Isn[s] = None THEN p.seq ELSE Isn[s])
  BY <1>5, <1>16
<1> HIDE DEF first, rel, behind, d, isn1, next1
<1>19. /\ Isn' = [Isn EXCEPT ![s] = first]
       /\ Expected' = [Expected EXCEPT ![s] = Ledger!NextExpected(p, rel, Expected[s])]
       /\ Fin' = [Fin EXCEPT ![s] = Fin[s] \/ p.fin]
       /\ Bytes' = [Bytes EXCEPT ![s] = Bytes[s] + p.len]
       /\ Pkts' = [Pkts EXCEPT ![s] = Pkts[s] + 1]
  BY <1>7, <1>8, <1>9, <1>10, <1>11, <1>16, <1>17
<1>20. /\ behind = Ledger!Behind(p, rel, Expected[s])
       /\ ooo' = ooo + (IF Ledger!Ahead(p, rel, Expected[s]) THEN 1 ELSE 0)
  BY <1>6, <1>15, <1>16, <1>17
<1> DEFINE Segs == [i \in 1..Len(segs) |->
                      [pkt |-> segs[i].pkt, src |-> EndOf(a, segs[i].dir),
                       seq |-> segs[i].seq, len |-> segs[i].len,
                       retrans |-> segs[i].retrans]]
<1>21. Segs' = IF p.len > 0
               THEN Append(Segs, [pkt |-> Len(captured) + 1, src |-> s, seq |-> rel,
                                  len |-> p.len, retrans |-> behind])
               ELSE Segs
  BY <1>12
<1>22. (Len(captured))' = Len(captured) + 1
  BY <1>13
<1> HIDE DEF Isn, Expected, Fin, Bytes, Pkts, Segs, s, D
<1> QED
  BY <1>14, <1>15, <1>17, <1>18, <1>19, <1>20, <1>21, <1>22
     DEF Ledger!Book, Isn, Expected, Fin, Bytes, Pkts, Segs, s

\* The record implements the ledger of its endpoints, for captures of any length:
\* a late SYN turns it round without moving a byte, a flag or a segment from one
\* endpoint to the other (tcp.js:40-45, 78-84, 107-117).
THEOREM RecordImplementsLedger == FlowSpec => ImplementsLedger
<1>1. FlowInit => FlowInv /\ Ledger!Init
  <2>1. FlowInit => FlowTypeOK /\ NoRecord
    BY EmptyRecord DEF FlowInit, NoRecord
  <2>2. FlowInit => Ledger!Init
    BY DEF FlowInit, Ledger!Init, DirOf, EndOf
  <2> QED
    BY <2>1, <2>2 DEF FlowInv
<1>2. FlowInv /\ [FlowNext]_flowVars => FlowInv' /\ [Ledger!Next]_(Ledger!ledger)
  <2> SUFFICES ASSUME FlowInv, [FlowNext]_flowVars PROVE [Ledger!Next]_(Ledger!ledger)
    BY FlowInvStep
  <2>1. CASE FlowNext
    BY <2>1, DissectBooks DEF FlowNext, Ledger!Next
  <2>2. CASE UNCHANGED flowVars
    <3>1. \A e \in Ends : (DirOf(e))' = DirOf(e)
      BY <2>2 DEF flowVars, record, DirOf
    <3> QED
      BY <3>1, <2>2 DEF flowVars, record, Ledger!ledger
  <2> QED
    BY <2>1, <2>2
<1> QED
  BY <1>1, <1>2, PTL DEF FlowSpec, ImplementsLedger, Ledger!Spec

-----------------------------------------------------------------------------
(* Directions of packets *)

SettleInv ==
    /\ FlowInv
    /\ Len(dirOf) = Len(captured)
    /\ a = None => captured = <<>>
    /\ DirsSettle

LEMMA SettleStep == SettleInv /\ [FlowNext]_flowVars => SettleInv'
<1> SUFFICES ASSUME SettleInv, [FlowNext]_flowVars PROVE SettleInv'
  OBVIOUS
<1>1. FlowInv'
  BY FlowInvStep DEF SettleInv
<1>2. ASSUME NEW p \in Packets, Dissect(p) PROVE SettleInv'
  <2> DEFINE n == Len(captured)
             d == FinalDir(p)
  <2>1. /\ captured \in Seq(Packets) /\ dirOf \in Seq(FlowDirs) /\ n \in Nat /\ Len(dirOf) = n
        /\ DOMAIN captured = 1..n
    BY DEF SettleInv, FlowInv, FlowTypeOK
  <2>2. /\ captured' = Append(captured, p) /\ dirOf' = Append(dirOf, d)
        /\ a' = IF Swaps(p) THEN p.src ELSE FirstEnd(p)
    BY <1>2 DEF Dissect
  <2>3. d = (DirOf(p.src))' /\ a' \in Ends
    BY <2>2, FinalDirIsSenders DEF SettleInv, FlowInv, FlowTypeOK
  <2> HIDE DEF d
  <2>4. /\ captured' = [i \in 1..(n + 1) |-> IF i <= n THEN captured[i] ELSE p]
        /\ dirOf' = [i \in 1..(n + 1) |-> IF i <= n THEN dirOf[i] ELSE d]
    BY <2>1, <2>2, Appended
  <2>5. Len(dirOf') = Len(captured') /\ DOMAIN captured' = 1..(n + 1)
    BY <2>1, <2>4
  <2>6. DirsSettle'
    <3> SUFFICES ASSUME NEW i \in 1..(n + 1),
                        \A j \in 1..(n + 1) : j > i => ~PureSyn(captured'[j])
                 PROVE  dirOf'[i] = (IF captured'[i].src = a' THEN 0 ELSE 1)
      BY <2>5 DEF DirsSettle, DirOf, PureSyn
    <3>1. CASE i = n + 1
      <4>1. dirOf'[i] = d /\ captured'[i] = p
        BY <3>1, <2>1, <2>4
      <4> QED
        BY <4>1, <2>3 DEF DirOf
    <3>2. CASE i \in 1..n
      <4>1. /\ dirOf'[i] = dirOf[i] /\ captured'[i] = captured[i]
            /\ captured'[n + 1] = p /\ n + 1 > i /\ n + 1 \in 1..(n + 1)
        BY <3>2, <2>1, <2>4
      <4>2. ~PureSyn(p)
        BY <4>1
      <4>3. a' = a
        <5>1. a # None
          BY <3>2, <2>1 DEF SettleInv
        <5> QED
          BY <5>1, <4>2, <2>2 DEF Swaps, FirstEnd
      <4>4. \A j \in DOMAIN captured : j > i => ~PureSyn(captured[j])
        BY <2>1, <2>4
      <4>5. dirOf[i] = DirOf(captured[i].src)
        BY <4>4, <3>2, <2>1 DEF SettleInv, DirsSettle
      <4> QED
        BY <4>1, <4>3, <4>5 DEF DirOf
    <3> QED
      BY <3>1, <3>2, <2>1
  <2>7. a' # None
    BY <2>3
  <2> QED
    BY <1>1, <2>5, <2>6, <2>7 DEF SettleInv
<1>3. CASE UNCHANGED flowVars
  BY <1>1, <1>3 DEF flowVars, record, SettleInv, DirsSettle, DirOf
<1> QED
  BY <1>2, <1>3 DEF FlowNext

\* In every capture, a packet after which no pure SYN follows keeps the direction
\* that the finished record gives its sender (tcp.js:76-83).
THEOREM DirectionsSettle == FlowSpec => []DirsSettle
<1>1. FlowInit => SettleInv
  BY EmptyRecord DEF FlowInit, SettleInv, FlowInv, NoRecord, DirsSettle
<1>2. SettleInv => DirsSettle
  BY DEF SettleInv
<1> QED
  BY <1>1, <1>2, SettleStep, PTL DEF FlowSpec

-----------------------------------------------------------------------------
(* The arithmetic of sequence numbers *)

\* Half the space.
Half == Mod \div 2

\* Two numbers that wrap round to the same one.
Same(i, j) == \E k \in Int : i = j + k * Mod

\* The space is twice its half.
LEMMA HalfOfSpace == Half \in Nat /\ Half > 0 /\ Half + Half = Mod
BY DEF Half

\* Wrapping round keeps the number, up to turns of the space.
LEMMA WrapIsSame == ASSUME NEW i \in Int PROVE Wrap(i) \in Word /\ Same(Wrap(i), i)
<1>1. Wrap(i) \in 0 .. Mod - 1
  BY DEF Wrap
<1> DEFINE q == i \div Mod
<1>2. i = Mod * q + (i % Mod) /\ q \in Int
  <2>1. i = Mod * (i \div Mod) + (i % Mod)
    BY ONLY i \in Int, Mod \in Nat, Mod >= 4
  <2> QED
    BY <2>1
<1>3. Wrap(i) \in Int /\ i = Mod * q + Wrap(i)
  BY <1>1, <1>2 DEF Wrap
<1> HIDE DEF q
<1>4. PICK z \in Int : z = 0 - q
  BY <1>2
<1>5. z * Mod = 0 - Mod * q
  BY <1>2, <1>4
<1>6. Wrap(i) = i + z * Mod
  <2>1. Mod * q \in Int
    BY <1>2
  <2> QED
    BY <2>1, <1>3, <1>5
<1> QED
  BY <1>1, <1>4, <1>6 DEF Same, Word

\* Being the same is an equivalence, and sums and differences respect it.
LEMMA SameSelf == ASSUME NEW i \in Int PROVE Same(i, i)
<1>1. i = i + 0 * Mod
  OBVIOUS
<1> QED
  BY <1>1 DEF Same

\* A multiple of the space that is smaller than it is none.
LEMMA SmallMultiple ==
    ASSUME NEW k \in Int, k * Mod < Mod, -Mod < k * Mod PROVE k = 0
<1>1. CASE k >= 1
  <2>1. (k - 1) * Mod >= 0
    BY <1>1
  <2> QED
    BY <2>1
<1>2. CASE k <= -1
  <2>1. (-k - 1) * Mod >= 0
    BY <1>2
  <2> QED
    BY <2>1
<1> QED
  BY <1>1, <1>2

LEMMA SameSym == ASSUME NEW i \in Int, NEW j \in Int, Same(i, j) PROVE Same(j, i)
<1>1. PICK k \in Int : i = j + k * Mod
  BY DEF Same
<1>2. j = i + (-k) * Mod /\ -k \in Int
  BY <1>1
<1> QED
  BY <1>2 DEF Same

LEMMA SameTrans ==
    ASSUME NEW i \in Int, NEW j \in Int, NEW k \in Int, Same(i, j), Same(j, k) PROVE Same(i, k)
<1>1. PICK u \in Int : i = j + u * Mod
  BY DEF Same
<1>2. PICK v \in Int : j = k + v * Mod
  BY DEF Same
<1>3. i = k + (u + v) * Mod /\ u + v \in Int
  BY <1>1, <1>2
<1> QED
  BY <1>3 DEF Same

LEMMA SameSum ==
    ASSUME NEW i \in Int, NEW j \in Int, NEW x \in Int, NEW y \in Int, Same(i, j), Same(x, y)
    PROVE  Same(i + x, j + y) /\ Same(i - x, j - y)
<1>1. PICK u \in Int : i = j + u * Mod
  BY DEF Same
<1>2. PICK v \in Int : x = y + v * Mod
  BY DEF Same
<1>3. i + x = (j + y) + (u + v) * Mod /\ u + v \in Int
  BY <1>1, <1>2
<1>4. i - x = (j - y) + (u - v) * Mod /\ u - v \in Int
  BY <1>1, <1>2
<1> QED
  BY <1>3, <1>4 DEF Same

\* Numbers that are the same and less than the space apart are equal.
LEMMA SameNear ==
    ASSUME NEW i \in Int, NEW j \in Int, Same(i, j), i - j < Mod, j - i < Mod PROVE i = j
<1>1. PICK k \in Int : i = j + k * Mod
  BY DEF Same
<1>2. k * Mod < Mod /\ -Mod < k * Mod
  BY <1>1
<1> QED
  BY <1>1, <1>2, SmallMultiple

\* A number wraps round to the word that is the same.
LEMMA WrapOfSame ==
    ASSUME NEW i \in Int, NEW t \in Word, Same(i, t) PROVE Wrap(i) = t
<1>1. Wrap(i) \in Word /\ Same(Wrap(i), i) /\ t \in Int /\ Wrap(i) \in Int
  BY WrapIsSame DEF Word
<1>2. Same(Wrap(i), t)
  BY <1>1, SameTrans
<1>3. Wrap(i) - t < Mod /\ t - Wrap(i) < Mod
  BY <1>1 DEF Word
<1> QED
  BY <1>1, <1>2, <1>3, SameNear

\* The signed value is the one of the numbers around 0 that is the same.
LEMMA SignedIsSame ==
    ASSUME NEW i \in Int
    PROVE  Signed(i) \in -Half .. Half - 1 /\ Same(Signed(i), i)
<1>1. Half \in Int /\ Half + Half = Mod /\ i + Half \in Int
  BY HalfOfSpace
<1>2. Signed(i) = Wrap(i + Half) - Half
  BY DEF Signed, Wrap, Half
<1>3. Wrap(i + Half) \in Word /\ Same(Wrap(i + Half), i + Half)
  BY <1>1, WrapIsSame
<1>4. Same(Half, Half)
  BY <1>1, SameSelf
<1>5. Same(Wrap(i + Half) - Half, (i + Half) - Half)
  <2>1. Wrap(i + Half) \in Int
    BY <1>3 DEF Word
  <2> QED
    BY <2>1, <1>1, <1>3, <1>4, SameSum
<1>6. (i + Half) - Half = i
  BY <1>1
<1>7. Wrap(i + Half) - Half \in -Half .. Half - 1
  BY <1>1, <1>3 DEF Word
<1> QED
  BY <1>2, <1>5, <1>6, <1>7

\* No other number that is the same lies there.
LEMMA SignedOfSame ==
    ASSUME NEW i \in Int, NEW t \in -Half .. Half - 1, Same(i, t) PROVE Signed(i) = t
<1>1. Signed(i) \in -Half .. Half - 1 /\ Same(Signed(i), i)
  BY SignedIsSame
<1>2. Half \in Int /\ Half + Half = Mod
  BY HalfOfSpace
<1>3. Signed(i) \in Int /\ t \in Int /\ Signed(i) - t < Mod /\ t - Signed(i) < Mod
  BY <1>1, <1>2
<1>4. Same(Signed(i), t)
  BY <1>1, <1>3, SameTrans
<1> QED
  BY <1>3, <1>4, SameNear

\* The comparison of two words is that of the positions they stand for, if these are
\* less than half the space apart.
LEMMA SignedDifference ==
    ASSUME NEW i \in Int, NEW j \in Int, NEW r \in Int, NEW h \in Int,
           Same(i, r), Same(j, h), r - h \in -Half .. Half - 1
    PROVE  Signed(i - j) = r - h
<1>1. i - j \in Int /\ r - h \in Int
  OBVIOUS
<1>2. Same(i - j, r - h)
  BY SameSum
<1> HIDE DEF Half
<1> QED
  BY <1>1, <1>2, SignedOfSame

\* An end that is not above the highest one does not look so in the comparison of the
\* signed with the unsigned number either (tcp.js:107).
LEMMA SignedIsNotAbove ==
    ASSUME NEW i \in Int, NEW j \in Word, NEW r \in Int, NEW h \in Int,
           Same(i, r), Same(j, h), r - h \in -Half .. 0
    PROVE  ~(Signed(i) > j)
<1> DEFINE s == Signed(i)
<1>1. s \in -Half .. Half - 1 /\ Same(s, i)
  BY SignedIsSame
<1>2. Half \in Int /\ Half + Half = Mod /\ j \in Int /\ j >= 0 /\ j < Mod
  BY HalfOfSpace DEF Word
<1>3. s \in Int
  BY <1>1, <1>2
<1> HIDE DEF s
<1>4. Same(s, r)
  BY <1>1, <1>3, SameTrans
<1>5. SUFFICES ASSUME s >= 0 PROVE ~(s > j)
  BY <1>2, <1>3 DEF s
<1>6. h - r \in Int /\ s + (h - r) \in Int /\ r + (h - r) = h
  BY <1>3
<1>7. Same(s + (h - r), h)
  <2>2. Same(h - r, h - r)
    BY <1>6, SameSelf
  <2>3. Same(s + (h - r), r + (h - r))
    BY <2>2, <1>3, <1>4, <1>6, SameSum
  <2> QED
    BY <2>3, <1>6
<1>8. Same(h, j)
  BY <1>2, SameSym
<1>9. Same(s + (h - r), j)
  BY <1>2, <1>6, <1>7, <1>8, SameTrans
<1>10. (s + (h - r)) - j < Mod /\ j - (s + (h - r)) < Mod
  BY <1>1, <1>2, <1>3, <1>5
<1>11. s + (h - r) = j
  BY <1>2, <1>6, <1>9, <1>10, SameNear
<1>12. h - r >= 0
  BY <1>2
<1> QED
  BY <1>2, <1>3, <1>6, <1>11, <1>12

-----------------------------------------------------------------------------
(* Retransmissions *)

\* The initial sequence numbers of PositionAssumption.
InitialSeq == CHOOSE initial \in [{X, Y} -> Word] : \A p \in Packets :
                  p.pos \in Nat /\ p.seq = Wrap(initial[p.src] + p.pos)

\* Where a packet begins and ends, and what its sequence number is.
LEMMA PacketPlaces ==
    ASSUME NEW p \in Packets
    PROVE  /\ p.pos \in Nat /\ EndOfPacket(p) \in Nat /\ p.pos <= EndOfPacket(p)
           /\ SegLen(p) \in Nat /\ EndOfPacket(p) = p.pos + SegLen(p)
           /\ InitialSeq[p.src] \in Int /\ Same(p.seq, InitialSeq[p.src] + p.pos)
<1>1. /\ InitialSeq \in [{X, Y} -> Word]
      /\ \A q \in Packets : q.pos \in Nat /\ q.seq = Wrap(InitialSeq[q.src] + q.pos)
  BY PositionAssumption DEF InitialSeq
<1>2. p.pos \in Nat /\ p.seq = Wrap(InitialSeq[p.src] + p.pos) /\ InitialSeq[p.src] \in Int
  BY <1>1, PacketFields DEF Word
<1>3. SegLen(p) \in Nat
  BY PacketFields DEF SegLen
<1>4. InitialSeq[p.src] + p.pos \in Int
  BY <1>2
<1>5. Same(p.seq, InitialSeq[p.src] + p.pos)
  BY <1>2, <1>4, WrapIsSame
<1> QED
  BY <1>2, <1>3, <1>5 DEF EndOfPacket

\* Packet p is in the window of a sender whose highest end was h.
Fits(p, h) == h - Mod \div 2 <= p.pos /\ EndOfPacket(p) < h + Mod \div 2

\* With the numbers counted from position o: whether a packet is behind is whether it
\* begins before the highest end.
LEMMA BehindIsBefore ==
    ASSUME NEW p \in Packets, NEW o \in Int, NEW h \in Int, NEW rel \in Word, NEW exp \in Word,
           Same(rel, p.pos - o), Same(exp, h - o), Fits(p, h), p.len > 0
    PROVE  Behind(p, rel, exp) <=> p.pos < h
<1>1. Half \in Int /\ rel \in Int /\ exp \in Int /\ exp # None
  BY HalfOfSpace DEF Word
<1>2. p.pos \in Int /\ EndOfPacket(p) \in Int /\ p.pos <= EndOfPacket(p)
  BY PacketPlaces
<1>3. p.pos - o \in Int /\ h - o \in Int /\ (p.pos - o) - (h - o) = p.pos - h
  BY <1>2
<1>4. p.pos - h \in -Half .. Half - 1
  BY <1>1, <1>2 DEF Fits, Half
<1>5. Signed(rel - exp) = p.pos - h
  BY <1>1, <1>3, <1>4, SignedDifference
<1> QED
  BY <1>1, <1>2, <1>5 DEF Behind

\* The number expected next is that of the highest end.
LEMMA ExpectedIsHighest ==
    ASSUME NEW p \in Packets, NEW o \in Int, NEW h \in Int, NEW rel \in Word, NEW exp \in Word,
           Same(rel, p.pos - o), Same(exp, h - o), Fits(p, h)
    PROVE  /\ NextExpected(p, rel, exp) \in Word
           /\ Same(NextExpected(p, rel, exp),
                   (IF TakesSpace(p) /\ EndOfPacket(p) > h THEN EndOfPacket(p) ELSE h) - o)
<1> DEFINE end == EndOfPacket(p)
           i == rel + SegLen(p)
<1>1. Half \in Int /\ rel \in Int /\ exp \in Int /\ exp # None
  BY HalfOfSpace DEF Word
<1>2. p.pos \in Int /\ end \in Int /\ p.pos <= end /\ SegLen(p) \in Int /\ end = p.pos + SegLen(p)
  BY PacketPlaces
<1>3. i \in Int
  BY <1>1, <1>2
<1>4. Same(i, end - o)
  <2>1. Same(SegLen(p), SegLen(p))
    BY <1>2, SameSelf
  <2>2. p.pos - o \in Int /\ (p.pos - o) + SegLen(p) = end - o
    BY <1>2
  <2>3. Same(rel + SegLen(p), (p.pos - o) + SegLen(p))
    BY <1>1, <1>2, <2>1, <2>2, SameSum
  <2> QED
    BY <2>2, <2>3
<1>5. Wrap(i) \in Word /\ Same(Wrap(i), end - o)
  <2>1. Wrap(i) \in Word /\ Same(Wrap(i), i)
    BY <1>3, WrapIsSame
  <2>2. Wrap(i) \in Int /\ end - o \in Int
    BY <2>1, <1>2 DEF Word
  <2> QED
    BY <2>1, <2>2, <1>3, <1>4, SameTrans
<1>6. /\ TakesSpace(p) /\ Signed(i - exp) > 0 => NextExpected(p, rel, exp) = Wrap(i)
      /\ ~TakesSpace(p) => NextExpected(p, rel, exp) = exp
      /\ ~(Signed(i) > exp) /\ ~(Signed(i - exp) > 0) => NextExpected(p, rel, exp) = exp
  <2>1. Signed(i) \in Int /\ Signed(i - exp) \in Int
    <3>1. i - exp \in Int
      BY <1>1, <1>3
    <3> HIDE DEF i
    <3>2. Signed(i) \in -Half .. Half - 1 /\ Signed(i - exp) \in -Half .. Half - 1
      BY <3>1, <1>3, SignedIsSame
    <3> QED
      BY <3>2, <1>1
  <2>2. exp # None /\ SegLen(p) \in Int
    BY <1>1, <1>2
  <2>3. NextExpected(p, rel, exp) =
          IF TakesSpace(p) /\ (exp = None \/ Signed(i) > exp \/ Signed(i - exp) > 0)
          THEN Wrap(i) ELSE exp
    BY ONLY <1>1, <2>2 DEF NextExpected
  <2> HIDE DEF i
  <2> QED
    BY ONLY <2>1, <2>2, <2>3
<1> HIDE DEF i, end
<1>7. end - h \in -Half .. Half - 1
  BY <1>1, <1>2 DEF Fits, Half, end
<1>8. end - o \in Int /\ h - o \in Int /\ (end - o) - (h - o) = end - h
  BY <1>2
<1>9. Signed(i - exp) = end - h
  BY <1>1, <1>3, <1>4, <1>7, <1>8, SignedDifference
<1>10. CASE TakesSpace(p) /\ end > h
  <2>1. Signed(i - exp) > 0
    BY <1>2, <1>9, <1>10
  <2> QED
    BY <2>1, <1>5, <1>6, <1>10 DEF end
<1>11. CASE ~TakesSpace(p)
  BY <1>6, <1>11
<1>12. CASE ~(end > h)
  <2>1. ~(Signed(i - exp) > 0)
    BY <1>2, <1>9, <1>12
  <2>2. end - h \in -Half .. 0
    BY <1>1, <1>2, <1>7, <1>12
  <2>3. ~(Signed(i) > exp)
    BY <2>2, <1>3, <1>4, <1>8, SignedIsNotAbove
  <2> QED
    BY <2>1, <2>3, <1>6, <1>12 DEF end
<1> QED
  BY <1>10, <1>11, <1>12

\* The ends of everything captured from e.
Reached(e) == {EndOfPacket(captured[i]) : i \in {j \in Sent(e) : TakesSpace(captured[j])}}

\* A further packet leaves the ends before every packet so far alone, and adds its own.
LEMMA SpaceGrows ==
    ASSUME captured \in Seq(Packets), NEW p \in Packets, captured' = Append(captured, p), NEW e,
           NEW n \in Nat, n = Len(captured)
    PROVE  /\ \A k \in 1 .. n + 1 : SpaceBefore(e, k)' = SpaceBefore(e, k)
           /\ SpaceBefore(e, n + 1) = Reached(e)
           /\ p.src = e /\ TakesSpace(p) => Reached(e)' = Reached(e) \cup {EndOfPacket(p)}
           /\ ~(p.src = e /\ TakesSpace(p)) => Reached(e)' = Reached(e)
<1> DEFINE Takes(q) == q.src = e /\ TakesSpace(q)
<1>1. /\ DOMAIN captured = 1 .. n /\ DOMAIN captured' = 1 .. n + 1
      /\ \A i \in 1 .. n : captured'[i] = captured[i]
      /\ captured'[n + 1] = p
  BY Grown
<1>2. \A k, x : x \in SpaceBefore(e, k) <=>
            \E i \in 1 .. n : i < k /\ Takes(captured[i]) /\ x = EndOfPacket(captured[i])
  <2>1. \A k : {j \in Sent(e) : j < k /\ TakesSpace(captured[j])}
               = {j \in 1 .. n : j < k /\ Takes(captured[j])}
    BY <1>1 DEF Sent
  <2> QED
    BY <2>1 DEF SpaceBefore
<1>3. \A k, x : x \in SpaceBefore(e, k)' <=>
            \E i \in 1 .. n + 1 : i < k /\ Takes(captured'[i]) /\ x = EndOfPacket(captured'[i])
  <2> SUFFICES ASSUME NEW k, NEW x
               PROVE  x \in SpaceBefore(e, k)' <=>
                      \E i \in 1 .. n + 1 : i < k /\ Takes(captured'[i]) /\ x = EndOfPacket(captured'[i])
    BY DEF EndOfPacket, SegLen, TakesSpace
  <2> DEFINE S == {j \in Sent(e)' : j < k /\ TakesSpace(captured'[j])}
  <2>1. \A j : j \in S <=> j \in 1 .. n + 1 /\ j < k /\ Takes(captured'[j])
    BY <1>1 DEF Sent
  <2>2. SpaceBefore(e, k)' = {EndOfPacket(captured'[i]) : i \in S}
    BY DEF SpaceBefore, EndOfPacket, SegLen, TakesSpace
  <2> HIDE DEF S, Takes
  <2> QED
    BY <2>1, <2>2
<1>4. \A x : x \in Reached(e) <=> \E i \in 1 .. n : Takes(captured[i]) /\ x = EndOfPacket(captured[i])
  <2>1. {j \in Sent(e) : TakesSpace(captured[j])} = {j \in 1 .. n : Takes(captured[j])}
    BY <1>1 DEF Sent
  <2> QED
    BY <2>1 DEF Reached
<1>5. \A x : x \in Reached(e)' <=>
            \E i \in 1 .. n + 1 : Takes(captured'[i]) /\ x = EndOfPacket(captured'[i])
  <2> SUFFICES ASSUME NEW x
               PROVE  x \in Reached(e)' <=>
                      \E i \in 1 .. n + 1 : Takes(captured'[i]) /\ x = EndOfPacket(captured'[i])
    BY DEF EndOfPacket, SegLen, TakesSpace
  <2> DEFINE S == {j \in Sent(e)' : TakesSpace(captured'[j])}
  <2>1. \A j : j \in S <=> j \in 1 .. n + 1 /\ Takes(captured'[j])
    BY <1>1 DEF Sent
  <2>2. Reached(e)' = {EndOfPacket(captured'[i]) : i \in S}
    BY DEF Reached, EndOfPacket, SegLen, TakesSpace
  <2> HIDE DEF S, Takes
  <2> QED
    BY <2>1, <2>2
<1> HIDE DEF Takes
<1>6. ASSUME NEW k \in 1 .. n + 1 PROVE SpaceBefore(e, k)' = SpaceBefore(e, k)
  <2>1. ASSUME NEW x PROVE x \in SpaceBefore(e, k)' <=> x \in SpaceBefore(e, k)
    BY <1>1, <1>2, <1>3
  <2> QED
    BY <2>1
<1>7. SpaceBefore(e, n + 1) = Reached(e)
  <2>1. \A i \in 1 .. n : i < n + 1
    OBVIOUS
  <2>2. ASSUME NEW x PROVE x \in SpaceBefore(e, n + 1) <=> x \in Reached(e)
    BY <2>1, <1>2, <1>4
  <2> QED
    BY <2>2
<1>8. \A x : x \in Reached(e)' <=> x \in Reached(e) \/ (Takes(p) /\ x = EndOfPacket(p))
  <2>1. n + 1 \in 1 .. n + 1 /\ \A i : i \in 1 .. n + 1 <=> i \in 1 .. n \/ i = n + 1
    OBVIOUS
  <2> QED
    BY <2>1, <1>1, <1>4, <1>5
<1>9. ASSUME p.src = e, TakesSpace(p) PROVE Reached(e)' = Reached(e) \cup {EndOfPacket(p)}
  BY <1>8, <1>9 DEF Takes
<1>10. ASSUME ~(p.src = e /\ TakesSpace(p)) PROVE Reached(e)' = Reached(e)
  BY <1>8, <1>10 DEF Takes
<1> QED
  BY <1>6, <1>9, <1>10, <1>7

\* If everything is in the window after a packet, it was so before, and the packet is.
LEMMA WindowBefore ==
    ASSUME captured \in Seq(Packets), NEW p \in Packets, captured' = Append(captured, p), NEW e,
           NEW n \in Nat, n = Len(captured), InWindow(e)'
    PROVE  /\ InWindow(e)
           /\ p.src = e => \A h \in HighestBefore(e, n + 1) : Fits(p, h)
<1>1. /\ DOMAIN captured = 1 .. n /\ DOMAIN captured' = 1 .. n + 1
      /\ \A i \in 1 .. n : captured'[i] = captured[i]
      /\ captured'[n + 1] = p
  BY Grown
<1>2. \A k \in 1 .. n + 1 : HighestBefore(e, k)' = HighestBefore(e, k)
  <2>1. \A k \in 1 .. n + 1 : SpaceBefore(e, k)' = SpaceBefore(e, k)
    BY SpaceGrows
  <2> QED
    BY <2>1 DEF HighestBefore
<1>3. \A i \in Sent(e)' : \A h \in HighestBefore(e, i)' :
          /\ h - Mod \div 2 <= captured'[i].pos
          /\ EndOfPacket(captured'[i]) < h + Mod \div 2
  BY DEF InWindow, EndOfPacket, SegLen
<1>4. Sent(e)' = {i \in 1 .. n + 1 : captured'[i].src = e} /\ Sent(e) = {i \in 1 .. n : captured[i].src = e}
  BY <1>1 DEF Sent
<1>5. InWindow(e)
  <2> SUFFICES ASSUME NEW i \in Sent(e), NEW h \in HighestBefore(e, i)
               PROVE  h - Mod \div 2 <= captured[i].pos /\ EndOfPacket(captured[i]) < h + Mod \div 2
    BY DEF InWindow
  <2>1. i \in Sent(e)' /\ i \in 1 .. n + 1 /\ captured'[i] = captured[i]
    BY <1>1, <1>4
  <2> QED
    BY <2>1, <1>2, <1>3
<1>6. ASSUME p.src = e, NEW h \in HighestBefore(e, n + 1) PROVE Fits(p, h)
  <2>1. n + 1 \in Sent(e)' /\ n + 1 \in 1 .. n + 1
    BY <1>1, <1>4, <1>6
  <2>2. h \in HighestBefore(e, n + 1)'
    BY <2>1, <1>2, <1>6
  <2>3. h - Mod \div 2 <= p.pos /\ EndOfPacket(p) < h + Mod \div 2
    BY <2>1, <2>2, <1>1, <1>3
  <2> QED
    BY <2>3 DEF Fits
<1> QED
  BY <1>5, <1>6

\* The first sequence number and the expected one are those of the sender, whichever way
\* round the record is, and so are the segments.
FirstSeq(p) == IF isn[DirOf(p.src)] = None THEN p.seq ELSE isn[DirOf(p.src)]
RelativeSeq(p) == RelSeq(p.seq, FirstSeq(p))
LEMMA BookedOnSender ==
    ASSUME FlowInv, NEW p \in Packets, Dissect(p)
    PROVE  /\ \A e \in Ends : isn'[(DirOf(e))'] = IF e = p.src THEN FirstSeq(p) ELSE isn[DirOf(e)]
           /\ \A e \in Ends : nextSeq'[(DirOf(e))'] =
                  IF e = p.src THEN NextExpected(p, RelativeSeq(p), nextSeq[DirOf(e)]) ELSE nextSeq[DirOf(e)]
           /\ \A i \in DOMAIN segs' :
                \/ \E j \in DOMAIN segs : /\ EndOf(a', segs'[i].dir) = EndOf(a, segs[j].dir)
                                          /\ segs'[i].pkt = segs[j].pkt
                                          /\ segs'[i].retrans = segs[j].retrans
                                          /\ segs'[i].seq = segs[j].seq /\ segs'[i].len = segs[j].len
                \/ /\ p.len > 0
                   /\ EndOf(a', segs'[i].dir) = p.src
                   /\ segs'[i].pkt = Len(captured) + 1
                   /\ segs'[i].retrans = Behind(p, RelativeSeq(p), nextSeq[DirOf(p.src)])
                   /\ segs'[i].seq = RelativeSeq(p) /\ segs'[i].len = p.len
           /\ \A j \in DOMAIN segs : \E i \in DOMAIN segs' : segs'[i].pkt = segs[j].pkt
           /\ p.len > 0 => \E i \in DOMAIN segs' : segs'[i].pkt = Len(captured) + 1
<1> DEFINE d == FinalDir(p)
           isn1 == Reversed(p, isn)
           first == IF isn1[d] = None THEN p.seq ELSE isn1[d]
           rel == RelSeq(p.seq, first)
           next1 == Reversed(p, nextSeq)
           behind == Behind(p, rel, next1[d])
           stored == [pkt |-> Len(captured) + 1, dir |-> d, seq |-> rel, len |-> p.len,
                      retrans |-> behind]
           turned == SwappedSegs(p)
           s == p.src
           D(e) == (DirOf(e))'
<1>1. a' = IF Swaps(p) THEN p.src ELSE FirstEnd(p)
  BY DEF Dissect
<1>2. a \in Ends \cup {None} /\ a' \in Ends /\ d = D(s) /\ s \in Ends
  BY <1>1, FinalDirIsSenders, PacketFields DEF FlowInv, FlowTypeOK
<1>3. \A e \in Ends : D(e) \in FlowDirs /\ (e # s => D(e) # d)
  BY <1>2 DEF DirOf
<1>4. \A e \in Ends : isn1[D(e)] = isn[DirOf(e)] /\ next1[D(e)] = nextSeq[DirOf(e)]
  <2>1. isn = [c \in FlowDirs |-> isn[c]] /\ nextSeq = [c \in FlowDirs |-> nextSeq[c]]
    BY DEF FlowInv, FlowTypeOK
  <2>2. a = None => isn[0] = isn[1] /\ nextSeq[0] = nextSeq[1]
    BY DEF FlowInv, NoRecord
  <2> QED
    BY <2>1, <2>2, <1>1, <1>2, ReversedByEnd
<1>5. first = FirstSeq(p) /\ rel = RelativeSeq(p) /\ next1[d] = nextSeq[DirOf(s)]
  BY <1>2, <1>4 DEF FirstSeq, RelativeSeq
<1>6. /\ isn' = [isn1 EXCEPT ![d] = first]
      /\ nextSeq' = [next1 EXCEPT ![d] = NextExpected(p, rel, next1[d])]
      /\ segs' = IF p.len > 0 THEN Append(turned, stored) ELSE turned
      /\ isn1 \in [FlowDirs -> Word \cup {None}] /\ next1 \in [FlowDirs -> Word \cup {None}]
  BY ReversedType DEF Dissect, FlowInv, FlowTypeOK
<1>7. turned \in Seq(FlowSeg) /\ Len(turned) = Len(segs) /\ segs \in Seq(FlowSeg)
  BY SwappedSegsType DEF FlowInv, FlowTypeOK
<1>8. \A i \in 1 .. Len(segs) : /\ turned[i].pkt = segs[i].pkt
                                /\ turned[i].retrans = segs[i].retrans
                                /\ turned[i].seq = segs[i].seq /\ turned[i].len = segs[i].len
                                /\ EndOf(a', turned[i].dir) = EndOf(a, segs[i].dir)
  BY <1>1, SegmentsByEnd
<1>9. EndOf(a', d) = s
  BY <1>2, PacketFields DEF EndOf, DirOf, Other
<1>10. /\ stored.pkt = Len(captured) + 1 /\ stored.dir = d /\ stored.retrans = behind
       /\ stored.seq = RelativeSeq(p) /\ stored.len = p.len
  BY <1>5
<1>11. behind = Behind(p, RelativeSeq(p), nextSeq[DirOf(s)])
  BY <1>5
<1> HIDE DEF first, rel, behind, d, isn1, next1, stored, turned, D
<1>12. \A e \in Ends : isn'[D(e)] = IF e = s THEN FirstSeq(p) ELSE isn[DirOf(e)]
  BY <1>2, <1>3, <1>4, <1>5, <1>6
<1>13. \A e \in Ends : nextSeq'[D(e)] =
           IF e = s THEN NextExpected(p, RelativeSeq(p), nextSeq[DirOf(e)]) ELSE nextSeq[DirOf(e)]
  BY <1>2, <1>3, <1>4, <1>5, <1>6
<1>14. ASSUME NEW i \in DOMAIN segs'
       PROVE  \/ \E j \in DOMAIN segs : /\ EndOf(a', segs'[i].dir) = EndOf(a, segs[j].dir)
                                        /\ segs'[i].pkt = segs[j].pkt
                                        /\ segs'[i].retrans = segs[j].retrans
                                        /\ segs'[i].seq = segs[j].seq /\ segs'[i].len = segs[j].len
              \/ /\ p.len > 0
                 /\ EndOf(a', segs'[i].dir) = p.src
                 /\ segs'[i].pkt = Len(captured) + 1
                 /\ segs'[i].retrans = Behind(p, RelativeSeq(p), nextSeq[DirOf(p.src)])
                 /\ segs'[i].seq = RelativeSeq(p) /\ segs'[i].len = p.len
  <2>1. (\E j \in DOMAIN turned : segs'[i] = turned[j]) \/ (p.len > 0 /\ segs'[i] = stored)
    <3>1. CASE p.len > 0
      BY <3>1, <1>6, <1>7, <1>14, AppendElements
    <3>2. CASE ~(p.len > 0)
      BY <3>2, <1>6, <1>14
    <3> QED
      BY <3>1, <3>2
  <2>2. ASSUME NEW j \in DOMAIN turned, segs'[i] = turned[j]
        PROVE  /\ j \in DOMAIN segs
               /\ EndOf(a', segs'[i].dir) = EndOf(a, segs[j].dir)
               /\ segs'[i].pkt = segs[j].pkt
               /\ segs'[i].retrans = segs[j].retrans
               /\ segs'[i].seq = segs[j].seq /\ segs'[i].len = segs[j].len
    <3>1. j \in 1 .. Len(segs) /\ j \in DOMAIN segs
      BY <1>7
    <3> QED
      BY <3>1, <2>2, <1>8
  <2> QED
    BY <2>1, <2>2, <1>9, <1>10, <1>11
<1>15. /\ \A j \in DOMAIN turned : \E i \in DOMAIN segs' : segs'[i] = turned[j]
       /\ p.len > 0 => \E i \in DOMAIN segs' : segs'[i] = stored
  <2>1. CASE p.len > 0
    <3>1. /\ DOMAIN turned = 1 .. Len(turned) /\ DOMAIN segs' = 1 .. Len(turned) + 1
          /\ \A j \in 1 .. Len(turned) : segs'[j] = turned[j]
          /\ Len(turned) \in Nat /\ segs'[Len(turned) + 1] = stored
      BY <2>1, <1>6, <1>7, Grown
    <3> QED
      BY <3>1
  <2>2. CASE ~(p.len > 0)
    BY <2>2, <1>6
  <2> QED
    BY <2>1, <2>2
<1>16. /\ \A j \in DOMAIN segs : \E i \in DOMAIN segs' : segs'[i].pkt = segs[j].pkt
       /\ p.len > 0 => \E i \in DOMAIN segs' : segs'[i].pkt = Len(captured) + 1
  <2>1. \A j \in DOMAIN segs : j \in DOMAIN turned /\ turned[j].pkt = segs[j].pkt
    BY <1>7, <1>8
  <2> QED
    BY ONLY <2>1, <1>10, <1>15
<1> QED
  BY <1>12, <1>13, <1>14, <1>16 DEF D

\* The first packet that takes space sets the expected number.
LEMMA FirstExpected ==
    ASSUME NEW p, NEW rel \in Int, SegLen(p) \in Int, TakesSpace(p)
    PROVE  NextExpected(p, rel, None) = Wrap(rel + SegLen(p))
<1>1. rel + SegLen(p) \in Int
  OBVIOUS
<1> DEFINE above == Signed(rel + SegLen(p)) > None \/ Signed(rel + SegLen(p) - None) > 0
<1>2. NextExpected(p, rel, None) =
        IF TakesSpace(p) /\ (None = None \/ above) THEN Wrap(rel + SegLen(p)) ELSE None
  BY Zenon DEF NextExpected
<1> HIDE DEF above
<1> QED
  BY <1>2, Zenon

\* The ends are numbers.
LEMMA ReachedType == ASSUME captured \in Seq(Packets), NEW e PROVE Reached(e) \subseteq Int
<1> SUFFICES ASSUME NEW i \in DOMAIN captured PROVE EndOfPacket(captured[i]) \in Int
  BY DEF Reached, Sent
<1>1. captured[i] \in Packets
  OBVIOUS
<1> QED
  BY <1>1, PacketPlaces

\* Nothing of an endpoint was captured, or its numbers are counted from position o and the
\* expected one is the highest end, as long as all its packets are in the window.
AtStart(e) == isn[DirOf(e)] = None /\ nextSeq[DirOf(e)] = None /\ Reached(e) = {}
IsTop(h, S) == h \in S /\ h \in Nat /\ \A end \in S : end <= h
CountsFrom(e, o) ==
    /\ isn[DirOf(e)] \in Word /\ Same(isn[DirOf(e)], InitialSeq[e] + o)
    /\ Reached(e) = {} => nextSeq[DirOf(e)] = None
    /\ Reached(e) # {} => \E h \in Nat :
          /\ IsTop(h, Reached(e))
          /\ InWindow(e) => nextSeq[DirOf(e)] \in Word /\ Same(nextSeq[DirOf(e)], h - o)

\* The mark of packet k of an endpoint, if it is stored, is right.
Marked(e, k, mark) ==
    /\ k \in 1 .. Len(captured)
    /\ InWindow(e) => (mark <=> \E end \in SpaceBefore(e, k) : captured[k].pos < end)

Marks == {<<EndOf(a, segs[i].dir), segs[i].pkt, segs[i].retrans>> : i \in DOMAIN segs}

SpaceInv ==
    /\ FlowInv
    /\ \A e \in Ends : AtStart(e) \/ \E o \in Int : CountsFrom(e, o)
    /\ \A e, k, mark : <<e, k, mark>> \in Marks => Marked(e, k, mark)

\* The sender's numbers are counted from some position, that of this packet if it is
\* the first one.
LEMMA SenderCounts ==
    ASSUME SpaceInv, NEW p \in Packets, NEW e, e = p.src, NEW exp, exp = nextSeq[DirOf(e)]
    PROVE  \E o \in Int :
              /\ FirstSeq(p) \in Word /\ Same(FirstSeq(p), InitialSeq[e] + o)
              /\ Reached(e) = {} => exp = None
              /\ Reached(e) # {} => \E h \in Nat :
                    IsTop(h, Reached(e)) /\ (InWindow(e) => exp \in Word /\ Same(exp, h - o))
<1>1. e \in Ends /\ p.pos \in Int /\ p.seq \in Word
  BY PacketFields, PacketPlaces
<1>2. CASE AtStart(e)
  <2>1. FirstSeq(p) = p.seq /\ exp = None /\ Reached(e) = {}
    BY <1>2 DEF AtStart, FirstSeq
  <2>2. Same(p.seq, InitialSeq[e] + p.pos)
    BY PacketPlaces
  <2> QED
    BY <2>1, <2>2, <1>1
<1>3. CASE \E o \in Int : CountsFrom(e, o)
  <2>1. PICK o \in Int : CountsFrom(e, o)
    BY <1>3
  <2>2. FirstSeq(p) = isn[DirOf(e)]
    <3>1. isn[DirOf(e)] # None
      BY <2>1 DEF CountsFrom, Word
    <3> QED
      BY <3>1 DEF FirstSeq
  <2> QED
    BY <2>1, <2>2 DEF CountsFrom
<1> QED
  BY <1>1, <1>2, <1>3 DEF SpaceInv

\* A packet's relative number is its place counted from there.
LEMMA RelativePlace ==
    ASSUME NEW p \in Packets, NEW o \in Int, FirstSeq(p) \in Word,
           Same(FirstSeq(p), InitialSeq[p.src] + o)
    PROVE  RelativeSeq(p) \in Word /\ Same(RelativeSeq(p), p.pos - o)
<1> DEFINE z == InitialSeq[p.src]
           f == FirstSeq(p)
<1>1. z \in Int /\ p.pos \in Int /\ p.seq \in Int /\ f \in Int /\ Same(p.seq, z + p.pos)
  BY PacketPlaces, PacketFields DEF Word
<1>2. Same(f, z + o)
  OBVIOUS
<1>3. RelativeSeq(p) = Wrap(p.seq - f)
  BY DEF RelativeSeq, RelSeq
<1> HIDE DEF z, f
<1>4. z + p.pos \in Int /\ z + o \in Int /\ (z + p.pos) - (z + o) = p.pos - o /\ p.seq - f \in Int
  BY <1>1
<1>5. Same(p.seq - f, (z + p.pos) - (z + o))
  BY <1>1, <1>2, <1>4, SameSum
<1>6. Wrap(p.seq - f) \in Word /\ Same(Wrap(p.seq - f), p.seq - f)
  BY <1>4, WrapIsSame
<1>7. Wrap(p.seq - f) \in Int /\ p.pos - o \in Int
  BY <1>1, <1>6 DEF Word
<1>8. Same(p.seq - f, p.pos - o)
  BY <1>4, <1>5
<1> QED
  BY <1>3, <1>4, <1>6, <1>7, <1>8, SameTrans

\* After a packet, the numbers of its sender are still counted so, and its mark is right.
LEMMA SenderStep ==
    ASSUME SpaceInv, NEW p \in Packets, NEW e, e = p.src, captured' = Append(captured, p),
           isn'[(DirOf(e))'] = FirstSeq(p),
           nextSeq'[(DirOf(e))'] = NextExpected(p, RelativeSeq(p), nextSeq[DirOf(e)]),
           NEW n \in Nat, n = Len(captured)
    PROVE  /\ \E o \in Int : CountsFrom(e, o)'
           /\ InWindow(e)' /\ p.len > 0 =>
                (Behind(p, RelativeSeq(p), nextSeq[DirOf(e)]) <=>
                   \E end \in SpaceBefore(e, n + 1) : p.pos < end)
<1> DEFINE rel == RelativeSeq(p)
           exp == nextSeq[DirOf(e)]
           end1 == EndOfPacket(p)
<1>1. PICK o \in Int : /\ FirstSeq(p) \in Word /\ Same(FirstSeq(p), InitialSeq[e] + o)
                       /\ Reached(e) = {} => exp = None
                       /\ Reached(e) # {} => \E h \in Nat :
                             IsTop(h, Reached(e)) /\ (InWindow(e) => exp \in Word /\ Same(exp, h - o))
  BY SenderCounts
<1>2. rel \in Word /\ Same(rel, p.pos - o)
  BY <1>1, RelativePlace
<1>3. /\ p.pos \in Nat /\ end1 \in Nat /\ SegLen(p) \in Int /\ p.pos + SegLen(p) = end1
      /\ rel \in Int /\ captured \in Seq(Packets)
  BY <1>2, PacketPlaces DEF Word, SpaceInv, FlowInv, FlowTypeOK
<1>4. /\ SpaceBefore(e, n + 1) = Reached(e)
      /\ TakesSpace(p) => Reached(e)' = Reached(e) \cup {end1}
      /\ ~TakesSpace(p) => Reached(e)' = Reached(e)
  BY <1>3, SpaceGrows
<1>5. InWindow(e)' => InWindow(e) /\ \A h \in HighestBefore(e, n + 1) : Fits(p, h)
  BY <1>3, WindowBefore
<1>6. CountsFrom(e, o)' <=>
        /\ FirstSeq(p) \in Word /\ Same(FirstSeq(p), InitialSeq[e] + o)
        /\ Reached(e)' = {} => NextExpected(p, rel, exp) = None
        /\ Reached(e)' # {} => \E h \in Nat :
              /\ IsTop(h, Reached(e)')
              /\ InWindow(e)' => /\ NextExpected(p, rel, exp) \in Word
                                 /\ Same(NextExpected(p, rel, exp), h - o)
  BY DEF CountsFrom, IsTop
<1> HIDE DEF rel, exp, end1
<1>7. CASE Reached(e) = {}
  <2>1. exp = None
    BY <1>1, <1>7
  <2>2. ~Behind(p, rel, exp) /\ ~\E end \in SpaceBefore(e, n + 1) : p.pos < end
    BY <2>1, <1>4, <1>7 DEF Behind
  <2>3. CASE TakesSpace(p)
    <3>1. NextExpected(p, rel, exp) = Wrap(rel + SegLen(p))
      <4>1. NextExpected(p, rel, None) = Wrap(rel + SegLen(p))
        BY ONLY <2>3, <1>3, FirstExpected
      <4> QED
        BY ONLY <4>1, <2>1
    <3>2. rel + SegLen(p) \in Int /\ p.pos - o \in Int /\ (p.pos - o) + SegLen(p) = end1 - o
      <4> DEFINE b == p.pos
                 l == SegLen(p)
      <4>1. b \in Int /\ l \in Int /\ rel \in Int /\ end1 = b + l
        BY <1>3
      <4> HIDE DEF b, l
      <4>2. rel + l \in Int /\ b - o \in Int /\ (b - o) + l = end1 - o
        BY ONLY <4>1, o \in Int
      <4> QED
        BY <4>2 DEF b, l
    <3>3. Same(rel + SegLen(p), end1 - o)
      <4>1. Same(SegLen(p), SegLen(p))
        BY <1>3, SameSelf
      <4>2. Same(rel + SegLen(p), (p.pos - o) + SegLen(p))
        BY <4>1, <3>2, <1>2, <1>3, SameSum
      <4> QED
        BY <4>2, <3>2
    <3>4. Wrap(rel + SegLen(p)) \in Word /\ Same(Wrap(rel + SegLen(p)), rel + SegLen(p))
      BY <3>2, WrapIsSame
    <3>5. Same(Wrap(rel + SegLen(p)), end1 - o)
      <4>1. Wrap(rel + SegLen(p)) \in Int /\ end1 - o \in Int
        BY <3>4, <1>3 DEF Word
      <4> QED
        BY <4>1, <3>2, <3>3, <3>4, SameTrans
    <3>6. IsTop(end1, Reached(e)') /\ Reached(e)' # {}
      BY <2>3, <1>3, <1>4, <1>7 DEF IsTop
    <3> QED
      BY <3>1, <3>4, <3>5, <3>6, <2>2, <1>1, <1>3, <1>6 DEF rel, exp
  <2>4. CASE ~TakesSpace(p)
    <3>1. NextExpected(p, rel, exp) = None
      BY <2>1, <2>4 DEF NextExpected
    <3> QED
      BY <3>1, <2>2, <2>4, <1>1, <1>4, <1>6, <1>7 DEF rel, exp
  <2> QED
    BY <2>3, <2>4
<1>8. CASE Reached(e) # {}
  <2>1. PICK h \in Nat : IsTop(h, Reached(e)) /\ (InWindow(e) => exp \in Word /\ Same(exp, h - o))
    BY <1>1, <1>8
  <2>2. h \in HighestBefore(e, n + 1)
    BY <2>1, <1>4 DEF IsTop, HighestBefore
  <2> DEFINE top == IF TakesSpace(p) /\ end1 > h THEN end1 ELSE h
  <2>3. top \in Nat /\ IsTop(top, Reached(e)') /\ Reached(e)' # {}
    <3>1. CASE TakesSpace(p)
      <4>1. Reached(e)' = Reached(e) \cup {end1}
        BY <3>1, <1>4
      <4>2. \A x \in Reached(e) : x <= h
        BY <2>1 DEF IsTop
      <4>3. CASE end1 > h
        <5>1. top = end1
          BY <3>1, <4>3
        <5>2. \A x \in Reached(e) : x <= end1
          <6>1. Reached(e) \subseteq Int
            BY <2>1, <1>3, ReachedType
          <6> QED
            BY <6>1, <4>2, <4>3, <1>3, <2>1
        <5> QED
          BY <5>1, <5>2, <4>1, <1>3 DEF IsTop
      <4>4. CASE ~(end1 > h)
        <5>1. top = h /\ end1 <= h
          BY <4>4, <1>3, <2>1
        <5> QED
          BY <5>1, <4>1, <4>2, <2>1 DEF IsTop
      <4> QED
        BY <4>3, <4>4
    <3>2. CASE ~TakesSpace(p)
      BY <3>2, <2>1, <1>4, <1>8
    <3> QED
      BY <3>1, <3>2
  <2>4. ASSUME InWindow(e)'
        PROVE  /\ NextExpected(p, rel, exp) \in Word /\ Same(NextExpected(p, rel, exp), top - o)
               /\ p.len > 0 => (Behind(p, rel, exp) <=> p.pos < h)
    <3>1. Fits(p, h) /\ exp \in Word /\ Same(exp, h - o) /\ h \in Int
      BY <2>1, <2>2, <2>4, <1>5
    <3>2. NextExpected(p, rel, exp) \in Word /\ Same(NextExpected(p, rel, exp), top - o)
      BY <3>1, <1>2, ExpectedIsHighest DEF end1
    <3>3. ASSUME p.len > 0 PROVE Behind(p, rel, exp) <=> p.pos < h
      BY <3>1, <3>3, <1>2, BehindIsBefore
    <3> QED
      BY <3>2, <3>3
  <2>5. p.pos < h <=> \E end \in SpaceBefore(e, n + 1) : p.pos < end
    <3>1. Reached(e) \subseteq Int
      BY <1>3, ReachedType
    <3> QED
      BY <3>1, <2>1, <1>3, <1>4 DEF IsTop
  <2> HIDE DEF top
  <2>6. CountsFrom(e, o)'
    BY <2>3, <2>4, <1>1, <1>6
  <2> QED
    BY <2>4, <2>5, <2>6 DEF rel, exp
<1> QED
  BY <1>7, <1>8

\* A mark stays right: what was captured before its packet does not change.
LEMMA MarkStays ==
    ASSUME captured \in Seq(Packets), NEW p \in Packets, captured' = Append(captured, p),
           NEW e, NEW k, NEW mark, Marked(e, k, mark)
    PROVE  Marked(e, k, mark)'
<1> DEFINE n == Len(captured)
<1>1. /\ n \in Nat /\ Len(captured') = n + 1 /\ \A i \in 1 .. n : captured'[i] = captured[i]
  BY Grown
<1>2. k \in 1 .. n /\ k \in 1 .. n + 1 /\ captured'[k] = captured[k]
  BY <1>1 DEF Marked
<1>3. SpaceBefore(e, k)' = SpaceBefore(e, k) /\ (InWindow(e)' => InWindow(e))
  BY <1>1, <1>2, SpaceGrows, WindowBefore
<1>4. InWindow(e)' => (mark <=> \E end \in SpaceBefore(e, k)' : captured'[k].pos < end)
  BY <1>2, <1>3 DEF Marked
<1> QED
  BY <1>1, <1>2, <1>4 DEF Marked

\* The other endpoint's numbers are what they were.
LEMMA OtherStays ==
    ASSUME captured \in Seq(Packets), NEW p \in Packets, captured' = Append(captured, p),
           NEW e, e # p.src,
           isn'[(DirOf(e))'] = isn[DirOf(e)], nextSeq'[(DirOf(e))'] = nextSeq[DirOf(e)],
           AtStart(e) \/ \E o \in Int : CountsFrom(e, o)
    PROVE  AtStart(e)' \/ \E o \in Int : CountsFrom(e, o)'
<1>1. Len(captured) \in Nat
  OBVIOUS
<1>2. Reached(e)' = Reached(e) /\ (InWindow(e)' => InWindow(e))
  BY <1>1, SpaceGrows, WindowBefore
<1>3. AtStart(e) => AtStart(e)'
  BY <1>2 DEF AtStart
<1>4. ASSUME NEW o \in Int, CountsFrom(e, o) PROVE CountsFrom(e, o)'
  BY <1>2, <1>4 DEF CountsFrom, IsTop
<1> QED
  BY <1>3, <1>4

\* Every packet keeps the invariant: its sender by SenderStep, the rest because it stays.
LEMMA SpaceStep ==
    ASSUME SpaceInv, NEW p \in Packets, Dissect(p) PROVE SpaceInv'
<1> DEFINE rel == RelativeSeq(p)
           behind == Behind(p, rel, nextSeq[DirOf(p.src)])
<1>1. /\ FlowInv /\ captured \in Seq(Packets) /\ captured' = Append(captured, p) /\ p.src \in Ends
  BY PacketFields DEF SpaceInv, FlowInv, FlowTypeOK, Dissect
<1>2. /\ \A e \in Ends : isn'[(DirOf(e))'] = IF e = p.src THEN FirstSeq(p) ELSE isn[DirOf(e)]
      /\ \A e \in Ends : nextSeq'[(DirOf(e))'] =
             IF e = p.src THEN NextExpected(p, rel, nextSeq[DirOf(e)]) ELSE nextSeq[DirOf(e)]
      /\ \A i \in DOMAIN segs' :
            \/ \E j \in DOMAIN segs : /\ EndOf(a', segs'[i].dir) = EndOf(a, segs[j].dir)
                                      /\ segs'[i].pkt = segs[j].pkt
                                      /\ segs'[i].retrans = segs[j].retrans
            \/ /\ p.len > 0
               /\ EndOf(a', segs'[i].dir) = p.src
               /\ segs'[i].pkt = Len(captured) + 1
               /\ segs'[i].retrans = behind
  BY <1>1, BookedOnSender
<1>3. PICK n \in Nat : n = Len(captured)
  BY <1>1
<1>4. /\ \E o \in Int : CountsFrom(p.src, o)'
      /\ InWindow(p.src)' /\ p.len > 0 => (behind <=> \E end \in SpaceBefore(p.src, n + 1) : p.pos < end)
  <2>1. /\ isn'[(DirOf(p.src))'] = FirstSeq(p)
        /\ nextSeq'[(DirOf(p.src))'] = NextExpected(p, RelativeSeq(p), nextSeq[DirOf(p.src)])
    BY <1>1, <1>2
  <2> QED
    BY <2>1, <1>1, <1>3, SenderStep
<1>5. \A e \in Ends : AtStart(e)' \/ \E o \in Int : CountsFrom(e, o)'
  <2> SUFFICES ASSUME NEW e \in Ends PROVE AtStart(e)' \/ \E o \in Int : CountsFrom(e, o)'
    OBVIOUS
  <2>1. CASE e = p.src
    BY <2>1, <1>4
  <2>2. CASE e # p.src
    <3>1. isn'[(DirOf(e))'] = isn[DirOf(e)] /\ nextSeq'[(DirOf(e))'] = nextSeq[DirOf(e)]
      BY <2>2, <1>2
    <3>2. AtStart(e) \/ \E o \in Int : CountsFrom(e, o)
      BY DEF SpaceInv
    <3> QED
      BY <3>1, <3>2, <2>2, <1>1, OtherStays
  <2> QED
    BY <2>1, <2>2
<1>6. ASSUME NEW e, NEW k, NEW mark, <<e, k, mark>> \in Marks' PROVE Marked(e, k, mark)'
  <2>1. PICK i \in DOMAIN segs' : e = EndOf(a', segs'[i].dir) /\ k = segs'[i].pkt /\ mark = segs'[i].retrans
    BY <1>6 DEF Marks, EndOf, Other
  <2> HIDE DEF behind
  <2>2. CASE \E j \in DOMAIN segs : /\ e = EndOf(a, segs[j].dir) /\ k = segs[j].pkt
                                     /\ mark = segs[j].retrans
    <3>1. <<e, k, mark>> \in Marks
      BY <2>2 DEF Marks
    <3>2. Marked(e, k, mark)
      BY <3>1 DEF SpaceInv
    <3> QED
      BY <3>2, <1>1, MarkStays
  <2>3. CASE p.len > 0 /\ e = p.src /\ k = n + 1 /\ mark = behind
    <3>1. Len(captured') = n + 1 /\ captured'[n + 1] = p
      BY <1>1, <1>3, Grown
    <3>2. SpaceBefore(e, k)' = SpaceBefore(e, k)
      BY <2>3, <1>1, <1>3, SpaceGrows
    <3>3. InWindow(e)' => (mark <=> \E end \in SpaceBefore(e, k)' : captured'[k].pos < end)
      BY <3>1, <3>2, <2>3, <1>4
    <3>4. k \in 1 .. Len(captured')
      BY <3>1, <2>3
    <3> QED
      BY <3>3, <3>4 DEF Marked
  <2> QED
    BY <2>1, <2>2, <2>3, <1>2, <1>3
<1>7. \A e, k, mark : <<e, k, mark>> \in Marks' => Marked(e, k, mark)'
  BY <1>6
<1>8. FlowInv'
  BY <1>1, FlowInvStep DEF FlowNext
<1> QED
  BY ONLY <1>5, <1>7, <1>8 DEF SpaceInv

\* It holds of a record that was never written.
LEMMA SpaceInit == FlowInit => SpaceInv
<1> SUFFICES ASSUME FlowInit PROVE SpaceInv
  OBVIOUS
<1>1. FlowInv
  BY EmptyRecord DEF FlowInit, FlowInv, NoRecord
<1>2. \A e \in Ends : AtStart(e)
  <2>1. \A e \in Ends : Reached(e) = {}
    BY DEF FlowInit, Reached, Sent
  <2> QED
    BY <2>1 DEF FlowInit, AtStart, DirOf
<1>3. Marks = {}
  BY DEF FlowInit, Marks
<1> QED
  BY <1>1, <1>2, <1>3 DEF SpaceInv

\* In every capture of any length, whatever the size of the space and however often it has
\* been run through, the marks of an endpoint whose packets keep to its window are right:
\* a segment is a retransmission exactly if it begins before the end of something its
\* sender was seen to send earlier (tcp.js:85, 91-110, 116).
THEOREM RetransmissionsAreMarked == FlowSpec => []RetransIsBehind
<1>1. SpaceInv /\ [FlowNext]_flowVars => SpaceInv'
  <2>1. SpaceInv /\ FlowNext => SpaceInv'
    BY SpaceStep DEF FlowNext
  <2>2. SpaceInv /\ UNCHANGED flowVars => SpaceInv'
    <3> SUFFICES ASSUME SpaceInv, UNCHANGED flowVars PROVE SpaceInv'
      OBVIOUS
    <3>1. FlowInv'
      BY FlowInvStep DEF SpaceInv
    <3>2. UNCHANGED <<captured, a, isn, nextSeq, segs>>
      BY DEF flowVars, record
    <3>3. \A e : /\ (DirOf(e))' = DirOf(e) /\ Reached(e)' = Reached(e) /\ (InWindow(e)' <=> InWindow(e))
                /\ \A k : SpaceBefore(e, k)' = SpaceBefore(e, k)
      BY <3>2 DEF DirOf, Reached, Sent, InWindow, HighestBefore, SpaceBefore, EndOfPacket, SegLen,
                  TakesSpace
    <3>4. \A e : AtStart(e)' <=> AtStart(e)
      BY <3>2, <3>3 DEF AtStart
    <3>5. ASSUME NEW e, NEW o PROVE CountsFrom(e, o)' <=> CountsFrom(e, o)
      BY <3>2, <3>3 DEF CountsFrom, IsTop
    <3>6. Marks' = Marks
      BY <3>2 DEF Marks, EndOf, Other
    <3>7. ASSUME NEW e, NEW k, NEW mark, Marked(e, k, mark) PROVE Marked(e, k, mark)'
      BY <3>2, <3>3, <3>7 DEF Marked
    <3> QED
      BY <3>1, <3>4, <3>5, <3>6, <3>7 DEF SpaceInv
  <2> QED
    BY <2>1, <2>2
<1>2. SpaceInv => RetransIsBehind
  <2> SUFFICES ASSUME SpaceInv, NEW e \in Ends, InWindow(e), NEW i \in InDirection(segs, e)
               PROVE  segs[i].retrans <=> \E end \in SpaceBefore(e, segs[i].pkt) :
                                              captured[segs[i].pkt].pos < end
    BY DEF RetransIsBehind
  <2>1. i \in DOMAIN segs /\ segs[i].dir = DirOf(e)
    BY DEF InDirection
  <2>2. a \in Ends
    BY <2>1 DEF SpaceInv, FlowInv, FlowTypeOK, NoRecord
  <2>3. EndOf(a, segs[i].dir) = e
    BY <2>1, <2>2 DEF EndOf, DirOf, Other
  <2>4. <<e, segs[i].pkt, segs[i].retrans>> \in Marks
    BY <2>1, <2>3 DEF Marks
  <2>5. Marked(e, segs[i].pkt, segs[i].retrans)
    BY <2>4 DEF SpaceInv
  <2> QED
    BY <2>5 DEF Marked
<1> QED
  BY <1>1, <1>2, SpaceInit, PTL DEF FlowSpec
=============================================================================
