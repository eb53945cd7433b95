------------------------ MODULE CaptureReaderProofs ------------------------
(***************************************************************************)
(* What is proved of the capture reader, for every file either format can  *)
(* hold, however it was cut, and for every export.                         *)
(***************************************************************************)
EXTENDS CaptureReader, SeqLemmas, FiniteSetTheorems

-----------------------------------------------------------------------------
(* Where the blocks of a file begin *)

\* The fields of the blocks of a file.
LEMMA BlockFields ==
    ASSUME NEW bs \in Seq(Block), NEW k \in 1 .. Len(bs)
    PROVE  /\ bs[k] \in Block
           /\ bs[k].len \in Nat /\ bs[k].cap \in Nat /\ bs[k].orig \in Nat /\ bs[k].id \in Nat
           /\ bs[k].ts \in Nat /\ bs[k].res \in Nat /\ bs[k].link \in Nat /\ bs[k].snap \in Nat
           /\ bs[k].le \in BOOLEAN /\ bs[k].bom \in BOOLEAN
           /\ bs[k].type \in PacketTypes \cup {"SHB", "IDB", "REC", "OTHER"}
<1>1. bs[k] \in Block
  OBVIOUS
<1>2. ASSUME NEW b \in Block
      PROVE  /\ b.len \in Nat /\ b.cap \in Nat /\ b.orig \in Nat /\ b.id \in Nat
             /\ b.ts \in Nat /\ b.res \in Nat /\ b.link \in Nat /\ b.snap \in Nat
             /\ b.le \in BOOLEAN /\ b.bom \in BOOLEAN
             /\ b.type \in PacketTypes \cup {"SHB", "IDB", "REC", "OTHER"}
  BY DEF Block
<1> QED BY <1>1, <1>2

\* The recursion of Starts, unfolded: the first block begins at the head, each other
\* one where the block before it ends.
LEMMA StartsUnfold ==
    ASSUME NEW head \in Nat, NEW bs \in Seq(Block)
    PROVE  /\ Starts(head, bs) \in [1 .. Len(bs) + 1 -> Nat]
           /\ Starts(head, bs)[1] = head
           /\ \A k \in 1 .. Len(bs) : Starts(head, bs)[k + 1] = Starts(head, bs)[k] + bs[k].len
<1> DEFINE step == [p \in Nat \X Nat |-> IF p[1] \in 1 .. Len(bs) THEN p[2] + bs[p[1]].len ELSE p[2]]
           N == Len(bs)
           At(g) == g = [k \in 1 .. Len(bs) + 1 |-> IF k = 1 THEN head ELSE g[k - 1] + bs[k - 1].len]
<1>1. N \in Nat /\ \A k \in 1 .. N : bs[k].len \in Nat
  BY BlockFields
<1>2. step \in [Nat \X Nat -> Nat]
  BY <1>1
<1>3. ASSUME NEW i \in 1 .. N, NEW x \in Nat PROVE step[<<i, x>>] = x + bs[i].len
  <2>1. <<i, x>> \in Nat \X Nat
    BY <1>1
  <2> QED BY <2>1
<1> HIDE DEF step
<1>4. PICK f \in [0 .. N -> Nat] : f[0] = head /\ \A i \in 1 .. N : f[i] = step[<<i, f[i - 1]>>]
  <2>1. FunctionUpTo(N, Nat, head, step)
    BY <1>1, <1>2, Recursion
  <2> QED BY <2>1 DEF FunctionUpTo
<1>5. ASSUME NEW i \in 1 .. N PROVE f[i] = f[i - 1] + bs[i].len
  <2>1. i - 1 \in 0 .. N
    BY <1>1
  <2> QED BY <1>3, <1>4, <2>1
<1> DEFINE g == [k \in 1 .. N + 1 |-> f[k - 1]]
<1>6. g \in [1 .. N + 1 -> Nat]
  BY <1>1
<1>7. At(g)
  <2>1. ASSUME NEW k \in 1 .. N + 1
        PROVE  g[k] = IF k = 1 THEN head ELSE g[k - 1] + bs[k - 1].len
    <3>1. CASE k = 1
      BY <3>1, <1>4
    <3>2. CASE k # 1
      <4>1. k - 1 \in 1 .. N /\ k - 1 \in 1 .. N + 1
        BY <3>2, <1>1
      <4>2. f[k - 1] = f[k - 1 - 1] + bs[k - 1].len
        BY <4>1, <1>5
      <4> QED BY <3>2, <4>1, <4>2
    <3> QED BY <3>1, <3>2
  <2> HIDE DEF g
  <2>2. g = [k \in 1 .. N + 1 |-> g[k]]
    BY <1>6
  <2> QED BY <2>1, <2>2
<1> HIDE DEF g
<1>8. At(Starts(head, bs))
  <2>1. Starts(head, bs) = CHOOSE h : At(h)
    BY DEF Starts
  <2> HIDE DEF At
  <2> QED BY <1>7, <2>1
<1> DEFINE h == Starts(head, bs)
<1>9. h = [k \in 1 .. N + 1 |-> h[k]]
  BY <1>8
<1>10. h[1] = head /\ \A k \in 1 .. N : h[k + 1] = h[k] + bs[k].len
  <2>1. h[1] = head
    BY <1>1, <1>8
  <2>2. ASSUME NEW k \in 1 .. N PROVE h[k + 1] = h[k] + bs[k].len
    <3>1. k + 1 \in 1 .. N + 1 /\ k + 1 # 1 /\ k + 1 - 1 = k
      BY <1>1
    <3> QED BY <1>8, <3>1
  <2> QED BY <2>1, <2>2
<1> HIDE DEF h
<1>11. \A k \in 1 .. N + 1 : h[k] \in Nat
  <2> DEFINE S == {n \in Nat : n + 1 \in 1 .. N + 1 => h[n + 1] \in Nat}
  <2>1. 0 \in S
    BY <1>10
  <2>2. ASSUME NEW n \in Nat, n \in S PROVE n + 1 \in S
    <3>1. CASE n + 1 \in 1 .. N
      <4>1. h[n + 1] \in Nat /\ h[n + 1 + 1] = h[n + 1] + bs[n + 1].len
        BY <2>2, <3>1, <1>10, <1>1
      <4> QED BY <4>1, <3>1, <1>1
    <3>2. CASE n + 1 \notin 1 .. N
      BY <3>2, <1>1
    <3> QED BY <3>1, <3>2
  <2> HIDE DEF S
  <2>3. Nat \subseteq S
    BY <2>1, <2>2, NatSet
  <2> USE DEF S
  <2>4. ASSUME NEW k \in 1 .. N + 1 PROVE h[k] \in Nat
    <3>1. k - 1 \in Nat /\ k - 1 + 1 = k
      BY <1>1
    <3>2. k - 1 \in S
      <4> HIDE DEF S
      <4> QED BY <2>3, <3>1
    <3> QED BY <3>1, <3>2
  <2> QED BY <2>4
<1> QED
  <2>1. h \in [1 .. N + 1 -> Nat]
    BY <1>9, <1>11
  <2> QED BY <2>1, <1>10 DEF h

\* A block begins no earlier than the blocks before it.
LEMMA StartsGrow ==
    ASSUME NEW head \in Nat, NEW bs \in Seq(Block),
           NEW k \in 1 .. Len(bs) + 1, NEW j \in 1 .. k
    PROVE  Starts(head, bs)[j] <= Starts(head, bs)[k]
<1> DEFINE h == Starts(head, bs)
           S == {n \in Nat : j + n \in 1 .. Len(bs) + 1 => h[j] <= h[j + n]}
<1>1. Len(bs) \in Nat /\ \A i \in 1 .. Len(bs) : bs[i].len \in Nat
  BY BlockFields
<1>2. h \in [1 .. Len(bs) + 1 -> Nat] /\ \A i \in 1 .. Len(bs) : h[i + 1] = h[i] + bs[i].len
  BY StartsUnfold
<1> HIDE DEF h
<1>3. 0 \in S
  <2>1. j + 0 = j /\ j \in Nat
    OBVIOUS
  <2>2. j \in 1 .. Len(bs) + 1 => h[j] \in Nat
    BY <1>2
  <2>3. 0 \in {n \in Nat : j + n \in 1 .. Len(bs) + 1 => h[j] <= h[j + n]}
    BY <2>1, <2>2
  <2> QED BY <2>3
<1>4. ASSUME NEW n \in Nat, n \in S PROVE n + 1 \in S
  <2>1. CASE j + n \in 1 .. Len(bs)
    <3>1. h[j] <= h[j + n]
      BY <1>4, <2>1, <1>1
    <3>0. j + n \in 1 .. Len(bs) + 1 /\ j \in 1 .. Len(bs) + 1
      BY <2>1, <1>1
    <3>2. h[j + n + 1] = h[j + n] + bs[j + n].len /\ h[j + n] \in Nat /\ bs[j + n].len \in Nat /\ h[j] \in Nat
      BY <2>1, <3>0, <1>1, <1>2
    <3>3. h[j] <= h[j + n + 1] /\ j + n + 1 = j + (n + 1)
      BY <3>1, <3>2
    <3> QED BY <3>3
  <2>2. CASE j + n \notin 1 .. Len(bs)
    BY <2>2, <1>1
  <2> QED BY <2>1, <2>2
<1> HIDE DEF S
<1>5. Nat \subseteq S
  BY <1>3, <1>4, NatSet
<1> USE DEF S
<1>6. k - j \in Nat /\ j + (k - j) = k
  BY <1>1
<1>7. k - j \in S
  <2> HIDE DEF S
  <2> QED BY <1>5, <1>6
<1> QED BY <1>6, <1>7 DEF h

-----------------------------------------------------------------------------
(* Times, and the packets that are picked *)

\* A time as it is written: in seconds and rounded microseconds.
Back(t) == Sec(t) * UsPerSec + Usec(t)

\* It is read back to half a microsecond, also where the rounding carries into the
\* next second.
LEMMA Rounded ==
    ASSUME NEW t \in Nat
    PROVE  /\ Back(t) \in Nat
           /\ Back(t) * TicksPerUs \in Nat
           /\ 2 * (Back(t) * TicksPerUs - t) \in -TicksPerUs .. TicksPerUs
<1> DEFINE U == UsPerSec
           T == TicksPerUs
           S == U * T
<1>1. U \in Nat /\ T \in Nat /\ U > 0 /\ T > 0
  BY ReaderAssumption
<1> HIDE DEF U, T
<1>2. S \in Nat /\ S > 0
  BY <1>1
<1> HIDE DEF S
<1> DEFINE q == t \div S
           r == t % S
           h == T \div 2
<1>3. q \in Nat /\ r \in Nat /\ t = S * q + r
  BY <1>2
<1>4. h \in Nat /\ 2 * h <= T /\ T <= 2 * h + 1
  BY <1>1
<1> HIDE DEF q, r, h
<1> DEFINE u == (r + h) \div T
<1>5. u \in Nat /\ T * u <= r + h /\ r + h < T * u + T
  <2>1. (r + h) \in Nat
    BY <1>3, <1>4
  <2>2. \A x \in Nat : x \div T \in Nat /\ T * (x \div T) <= x /\ x < T * (x \div T) + T
    BY <1>1
  <2> QED BY <2>1, <2>2
<1>6. Back(t) = q * U + u
  BY DEF Back, Sec, Usec, Second, U, T, S, q, r, h
<1> HIDE DEF u
<1> DEFINE qU == q * U
<1>7. qU \in Nat
  BY <1>1, <1>3
<1>8. (q * U + u) * T = S * q + T * u
  BY <1>1, <1>3, <1>5 DEF S
<1>9. Back(t) \in Nat
  BY <1>5, <1>6, <1>7
<1> DEFINE Tu == T * u
           Sq == S * q
           bT == Back(t) * T
<1>10. Tu \in Nat /\ Sq \in Nat
  BY <1>1, <1>2, <1>3, <1>5
<1>11. bT = Sq + Tu
  BY <1>6, <1>8
<1>12. Tu <= r + h /\ r + h < Tu + T /\ t = Sq + r
  BY <1>3, <1>5
<1> HIDE DEF Tu, Sq, qU, bT
<1>13. bT \in Nat
  BY <1>10, <1>11
<1>14. bT - t = Tu - r
  <2>1. r \in Nat
    BY <1>3
  <2>2. t = Sq + r
    BY <1>12
  <2> QED BY <1>10, <1>11, <2>1, <2>2
<1>15. 2 * (Tu - r) <= T /\ -T <= 2 * (Tu - r)
  BY <1>1, <1>3, <1>4, <1>10, <1>12
<1>16. 2 * (bT - t) \in -T .. T
  <2>1. Tu - r \in Int
    BY <1>3, <1>10
  <2> QED BY <1>1, <1>14, <1>15, <2>1
<1> QED BY <1>9, <1>13, <1>16 DEF T, bT

\* What is picked of the records are records.
LEMMA PickedOf ==
    ASSUME NEW T, records \in Seq(T), NEW sel
    PROVE  Picked(sel) \in Seq(T)
<1> DEFINE N == Len(records)
           step == [p \in Nat \X Seq(T) |->
                      IF p[1] \in 1 .. N /\ records[p[1]].blk \in sel
                      THEN Append(p[2], records[p[1]]) ELSE p[2]]
           At(g) == g = [i \in 0 .. Len(records) |->
                      IF i = 0 THEN <<>>
                      ELSE IF records[i].blk \in sel THEN Append(g[i - 1], records[i]) ELSE g[i - 1]]
<1>1. N \in Nat
  OBVIOUS
<1>2. \A i \in 1 .. N, s \in Seq(T) : Append(s, records[i]) \in Seq(T)
  OBVIOUS
<1>3. step \in [Nat \X Seq(T) -> Seq(T)]
  BY <1>2
<1>4. ASSUME NEW i \in 1 .. N, NEW s \in Seq(T)
      PROVE  step[<<i, s>>] = IF records[i].blk \in sel THEN Append(s, records[i]) ELSE s
  <2>1. <<i, s>> \in Nat \X Seq(T)
    BY <1>1
  <2> QED BY <2>1
<1> HIDE DEF step
<1>5. PICK f \in [0 .. N -> Seq(T)] : f[0] = <<>> /\ \A i \in 1 .. N : f[i] = step[<<i, f[i - 1]>>]
  <2>1. FunctionUpTo(N, Seq(T), <<>>, step)
    BY <1>1, <1>3, Nothing, Recursion
  <2> QED BY <2>1 DEF FunctionUpTo
<1>6. ASSUME NEW i \in 1 .. N
      PROVE  f[i] = IF records[i].blk \in sel THEN Append(f[i - 1], records[i]) ELSE f[i - 1]
  <2>1. i - 1 \in 0 .. N
    BY <1>1
  <2>2. f[i - 1] \in Seq(T)
    BY <2>1
  <2> QED BY <1>4, <1>5, <2>2
<1>7. At(f)
  <2>1. ASSUME NEW i \in 0 .. N
        PROVE  f[i] = IF i = 0 THEN <<>>
                      ELSE IF records[i].blk \in sel THEN Append(f[i - 1], records[i]) ELSE f[i - 1]
    <3>1. i = 0 \/ i \in 1 .. N
      BY <1>1
    <3> QED BY <1>5, <1>6, <3>1
  <2> QED BY <2>1
<1> DEFINE g == CHOOSE h : At(h)
<1>8. Picked(sel) = g[N]
  BY DEF Picked
<1>9. At(g)
  <2> HIDE DEF At
  <2> QED BY <1>7
<1> HIDE DEF g
<1>15. ASSUME NEW i \in 1 .. N
       PROVE  g[i] = IF records[i].blk \in sel THEN Append(g[i - 1], records[i]) ELSE g[i - 1]
  <2>1. i \in 0 .. N /\ i # 0
    BY <1>1
  <2> QED BY <1>9, <2>1
<1> DEFINE S == {n \in Nat : n \in 0 .. N => g[n] \in Seq(T)}
<1>10. 0 \in S
  <2>1. g[0] = <<>>
    BY <1>1, <1>9
  <2> QED BY <2>1, Nothing
<1>11. ASSUME NEW n \in Nat, n \in S PROVE n + 1 \in S
  <2>1. CASE n + 1 \in 1 .. N
    <3>1. n \in 0 .. N /\ n + 1 \in 0 .. N /\ n + 1 # 0 /\ n + 1 - 1 = n
      BY <1>1, <2>1
    <3>2. g[n + 1] = IF records[n + 1].blk \in sel THEN Append(g[n], records[n + 1]) ELSE g[n]
      BY <1>15, <2>1, <3>1
    <3>3. g[n] \in Seq(T)
      BY <1>11, <3>1
    <3>4. Append(g[n], records[n + 1]) \in Seq(T)
      BY <1>2, <2>1, <3>3
    <3>5. g[n + 1] \in Seq(T)
      <4>1. CASE records[n + 1].blk \in sel
        BY <3>2, <3>4, <4>1
      <4>2. CASE records[n + 1].blk \notin sel
        BY <3>2, <3>3, <4>2
      <4> QED BY <4>1, <4>2
    <3> QED BY <3>5
  <2>2. CASE n + 1 \notin 1 .. N
    BY <1>1, <2>2
  <2> QED BY <2>1, <2>2
<1> HIDE DEF S
<1>12. Nat \subseteq S
  BY <1>10, <1>11, NatSet
<1>13. N \in S
  BY <1>1, <1>12
<1> USE DEF S
<1>14. N \in 0 .. N
  BY <1>1
<1> QED BY <1>8, <1>13, <1>14

-----------------------------------------------------------------------------
(* Types, and where the loops stand *)

\* A record ends no earlier than it begins.
Kept == {r \in Record : r.from <= r.to}

Loop == phase \in {"pcap", "pcapng"}

\* The file is well formed, also one that was exported, and the loop is the one of its
\* format; a file that was read has an interface.
FormatInv ==
    /\ phase # "idle" => WellFormed(file)
    /\ Loop => file.format = phase
    /\ phase = "read" => file.format \in {"pcap", "pcapng"}
    /\ phase \in {"pcap", "read"} => interfaces # <<>>
    /\ records \in Seq(Kept)

\* A turn of a loop begins where a block begins, in the byte order of the block before.
PlaceInv ==
    Loop =>
        /\ blk \in 1 .. Len(file.blocks) + 1
        /\ o = StartOf(blk)
        /\ phase = "pcap" => warnings \subseteq {"version"}
        /\ phase = "pcapng" => /\ o <= file.size
                               /\ blk > 1 => le = file.blocks[blk - 1].le

\* The fields of a file.
LEMMA FileFields ==
    ASSUME NEW f \in File
    PROVE  /\ f.format \in Formats /\ f.blocks \in Seq(Block) /\ f.size \in Nat /\ f.link \in Nat
           /\ f.v2 \in BOOLEAN /\ Len(f.blocks) \in Nat /\ FirstAt(f) \in Nat
BY DEF File, FirstAt, PcapHeader

\* The same of an interface's fields, in the list of them.
LEMMA InterfaceFields ==
    ASSUME NEW s \in Seq(Interface), NEW i \in 1 .. Len(s)
    PROVE  s[i].link \in Nat /\ s[i].snap \in Nat /\ s[i].res \in Nat /\ s[i].blk \in Nat
<1>1. s[i] \in Interface
  OBVIOUS
<1>2. ASSUME NEW x \in Interface PROVE x.link \in Nat /\ x.snap \in Nat /\ x.res \in Nat /\ x.blk \in Nat
  BY DEF Interface
<1> QED BY <1>1, <1>2

\* And of a record's.
LEMMA KeptFields ==
    ASSUME NEW s \in Seq(Kept), NEW i \in 1 .. Len(s)
    PROVE  /\ s[i].ts \in Nat /\ s[i].cap \in Int /\ s[i].orig \in Nat /\ s[i].iface \in Nat /\ s[i].blk \in Nat
           /\ s[i].from \in Nat /\ s[i].to \in Nat /\ s[i].from <= s[i].to
<1>1. s[i] \in Kept
  OBVIOUS
<1>2. ASSUME NEW r \in Kept
      PROVE  /\ r.ts \in Nat /\ r.cap \in Int /\ r.orig \in Nat /\ r.iface \in Nat /\ r.blk \in Nat
             /\ r.from \in Nat /\ r.to \in Nat /\ r.from <= r.to
  BY DEF Kept, Record
<1> QED BY <1>1, <1>2

\* A loop begins at the first block of a well-formed file.
LEMMA Begun ==
    ASSUME NEW f \in File, WellFormed(f), Begin(f), saved' \in Seq(Saved) \cup {None}
    PROVE  TypeOK' /\ FormatInv' /\ PlaceInv'
<1>1. f.format \in Formats /\ f.blocks \in Seq(Block) /\ f.size \in Nat /\ f.link \in Nat
      /\ Len(f.blocks) \in Nat /\ FirstAt(f) \in Nat
  BY FileFields
<1>2. interfaces' \in Seq(Interface) /\ (phase' = "pcap" => interfaces' # <<>>)
  <2>1. FileInterface(f) \in Interface
    BY <1>1 DEF FileInterface, Interface, PcapHeader
  <2>2. <<FileInterface(f)>> \in Seq(Interface) /\ <<>> \in Seq(Interface) /\ <<FileInterface(f)>> # <<>>
    BY <2>1
  <2> QED BY <1>1, <2>2 DEF Begin, Formats
<1>3. TypeOK'
  <2>1. phase' \in {"idle", "pcap", "pcapng", "read", "rejected"}
    BY <1>1 DEF Begin, Formats
  <2>2. file' \in File
    BY DEF Begin
  <2>3. o' \in Nat /\ blk' \in Nat /\ le' \in BOOLEAN /\ ifaceBase' \in 0 .. Len(interfaces')
    BY <1>1, <1>2 DEF Begin
  <2>4. records' \in Seq(Record) /\ warnings' \subseteq {"version"}
    BY DEF Begin, VersionWarning
  <2> QED BY <1>2, <2>1, <2>2, <2>3, <2>4 DEF TypeOK
<1>4. FormatInv'
  <2>1. records' \in Seq(Kept)
    BY DEF Begin
  <2>2. file' = f /\ (Loop' => f.format = phase') /\ phase' # "read"
    BY <1>1 DEF Begin, Loop, Formats
  <2>3. WellFormed(file)'
    BY <2>2 DEF WellFormed, IsPcap, IsPcapng, FirstAt, Starts
  <2> QED BY <1>2, <2>1, <2>2, <2>3 DEF FormatInv
<1>5. PlaceInv'
  <2>1. file' = f /\ blk' = 1 /\ o' = FirstAt(f) /\ warnings' \subseteq {"version"}
    BY DEF Begin, VersionWarning
  <2>2. StartOf(blk)' = FirstAt(f)
    <3>1. Starts(FirstAt(f), f.blocks)[1] = FirstAt(f)
      BY <1>1, StartsUnfold
    <3> QED BY <2>1, <3>1 DEF StartOf
  <2>3. phase' = "pcapng" => o' <= f.size
    BY <1>1 DEF Begin, FirstAt
  <2> QED BY <1>1, <2>1, <2>2, <2>3 DEF PlaceInv, Loop
<1> QED BY <1>3, <1>4, <1>5

\* What a turn of the pcapng loop finds.
LEMMA InTurn ==
    ASSUME TypeOK, FormatInv, PlaceInv, InLoop
    PROVE  /\ file \in File /\ file.format = "pcapng" /\ blk \in 1 .. Len(file.blocks)
           /\ Current.type # "REC"
           /\ Order = Current.le /\ TotalLen = Current.len
           /\ BaseNow \in 0 .. Len(interfaces)
           /\ o = StartOf(blk) /\ StartOf(blk + 1) = o + Current.len
<1>1. phase = "pcapng" /\ file \in File /\ file.format = "pcapng" /\ WellFormed(file)
  BY DEF InLoop, TypeOK, FormatInv, Loop
<1>2. file.blocks \in Seq(Block) /\ file.size \in Nat /\ Len(file.blocks) \in Nat /\ FirstAt(file) \in Nat
  BY <1>1, FileFields
<1>3. blk \in 1 .. Len(file.blocks) /\ o = StartOf(blk)
  BY <1>1, <1>2 DEF InLoop, AtEnd, PlaceInv, Loop
<1>4. IsPcapng(file) /\ blk \in DOMAIN file.blocks
  BY <1>1, <1>2, <1>3 DEF WellFormed
<1>5. Order = Current.le
  <2>1. CASE Current.type = "SHB"
    BY <2>1 DEF Order
  <2>2. CASE Current.type # "SHB"
    <3>1. blk > 1
      <4>1. file.blocks # <<>>
        BY <1>2, <1>3
      <4>2. blk # 1
        BY <2>2, <1>4, <4>1 DEF IsPcapng, Current
      <4> QED BY <1>2, <1>3, <4>2
    <3>2. le = file.blocks[blk - 1].le
      BY <1>1, <3>1 DEF PlaceInv, Loop
    <3>3. Current.le = file.blocks[blk - 1].le
      BY <1>4, <2>2, <3>1 DEF IsPcapng, Current
    <3> QED BY <2>2, <3>2, <3>3 DEF Order
  <2> QED BY <2>1, <2>2
<1>6. TotalLen = Current.len
  BY <1>5 DEF TotalLen
<1>7. BaseNow \in 0 .. Len(interfaces)
  <2>1. interfaces \in Seq(Interface) /\ ifaceBase \in 0 .. Len(interfaces)
    BY DEF TypeOK
  <2>2. Len(interfaces) \in Nat
    BY <2>1
  <2> QED BY <2>1, <2>2 DEF BaseNow
<1>8. StartOf(blk + 1) = o + Current.len
  <2>1. Starts(FirstAt(file), file.blocks)[blk + 1] = Starts(FirstAt(file), file.blocks)[blk] + file.blocks[blk].len
    BY <1>2, <1>3, StartsUnfold
  <2> QED BY <1>3, <2>1 DEF StartOf, Current
<1>9. Current.type # "REC"
  BY <1>4 DEF IsPcapng, Current
<1> QED BY <1>1, <1>3, <1>5, <1>6, <1>7, <1>8, <1>9

\* What a turn of the pcap loop finds.
LEMMA InRecordTurn ==
    ASSUME TypeOK, FormatInv, PlaceInv, phase = "pcap", ~AtEnd(RecordHeader)
    PROVE  /\ file \in File /\ file.format = "pcap" /\ blk \in 1 .. Len(file.blocks)
           /\ Current.type = "REC" /\ Current.len = RecordHeader + Current.cap
           /\ o = StartOf(blk) /\ StartOf(blk + 1) = o + Current.len
<1>1. file \in File /\ file.format = "pcap" /\ WellFormed(file)
  BY DEF TypeOK, FormatInv, Loop
<1>2. file.blocks \in Seq(Block) /\ file.size \in Nat /\ Len(file.blocks) \in Nat /\ FirstAt(file) \in Nat
  BY <1>1, FileFields
<1>3. blk \in 1 .. Len(file.blocks) /\ o = StartOf(blk)
  BY <1>1, <1>2 DEF AtEnd, PlaceInv, Loop
<1>4. IsPcap(file) /\ blk \in DOMAIN file.blocks
  BY <1>1, <1>2, <1>3 DEF WellFormed
<1>5. StartOf(blk + 1) = o + Current.len
  <2>1. Starts(FirstAt(file), file.blocks)[blk + 1] = Starts(FirstAt(file), file.blocks)[blk] + file.blocks[blk].len
    BY <1>2, <1>3, StartsUnfold
  <2> QED BY <1>3, <2>1 DEF StartOf, Current
<1> QED BY <1>1, <1>3, <1>4, <1>5 DEF IsPcap, Current

\* A record made of a block is one, and ends no earlier than it begins.
LEMMA RecordMade ==
    ASSUME NEW b \in Block, NEW ts \in Nat, NEW cap \in Int, NEW from \in Nat, NEW iface \in Nat,
           blk \in Nat, file \in File
    PROVE  MakeRecord(b, ts, cap, from, iface) \in Kept
<1>1. file.size \in Nat
  BY FileFields
<1>2. b.orig \in Nat
  BY DEF Block
<1>3. EndOfBytes(from, cap) \in Int
  BY <1>1 DEF EndOfBytes
<1> DEFINE to == IF EndOfBytes(from, cap) < from THEN from ELSE EndOfBytes(from, cap)
<1>4. to \in Nat /\ from <= to
  BY <1>3
<1>5. MakeRecord(b, ts, cap, from, iface) =
        [ts |-> ts, cap |-> cap, orig |-> b.orig, iface |-> iface, blk |-> blk, from |-> from, to |-> to]
  BY DEF MakeRecord, Bytes
<1> HIDE DEF to
<1>6. [ts |-> ts, cap |-> cap, orig |-> b.orig, iface |-> iface, blk |-> blk, from |-> from, to |-> to] \in Record
  BY <1>2, <1>4 DEF Record
<1> QED BY <1>4, <1>5, <1>6 DEF Kept

\* What is exported is a well-formed pcap file, with a record for each packet.
LEMMA Exported ==
    ASSUME NEW rs \in Seq(Kept), interfaces \in Seq(Interface), interfaces # <<>>
    PROVE  /\ writePcap(rs) \in File /\ WellFormed(writePcap(rs))
           /\ writePcap(rs).format = "pcap" /\ writePcap(rs).v2 = TRUE
           /\ writePcap(rs).blocks \in Seq(Block) /\ Len(writePcap(rs).blocks) = Len(rs)
           /\ \A i \in 1 .. Len(rs) : writePcap(rs).blocks[i] = Written(rs[i])
           /\ writePcap(rs).size = Starts(PcapHeader, writePcap(rs).blocks)[Len(writePcap(rs).blocks) + 1]
<1> DEFINE f == writePcap(rs)
           bs == [i \in DOMAIN rs |-> Written(rs[i])]
<1>1. ASSUME NEW i \in 1 .. Len(rs)
      PROVE  Written(rs[i]) \in Block /\ Written(rs[i]).type = "REC"
             /\ Written(rs[i]).len = RecordHeader + Written(rs[i]).cap
  <2> DEFINE r == rs[i]
             cap == r.to - r.from
             ts == Back(r.ts)
  <2>1. r.ts \in Nat /\ r.orig \in Nat /\ r.from \in Nat /\ r.to \in Nat /\ r.from <= r.to
    BY KeptFields
  <2>2. cap \in Nat /\ RecordHeader + r.to - r.from = RecordHeader + cap /\ RecordHeader + cap \in Nat
    BY <2>1 DEF RecordHeader
  <2>3. ts \in Nat
    BY <2>1, Rounded
  <2>4. TicksPerUs \in Nat
    BY ReaderAssumption
  <2>5. Written(r) = [type |-> "REC", len |-> RecordHeader + cap, le |-> TRUE, bom |-> TRUE, id |-> 0,
                      cap |-> cap, orig |-> r.orig, ts |-> ts, link |-> 0, snap |-> 0, res |-> TicksPerUs]
    BY <2>2 DEF Written, Back
  <2>6. r.orig \in Nat
    BY <2>1
  <2> HIDE DEF r, cap, ts
  <2> QED BY <2>2, <2>3, <2>4, <2>5, <2>6 DEF Block, r
<1>2. Len(rs) \in Nat /\ DOMAIN rs = 1 .. Len(rs)
  OBVIOUS
<1>3. bs \in Seq(Block) /\ Len(bs) = Len(rs) /\ \A i \in 1 .. Len(rs) : bs[i] = Written(rs[i])
  <2>1. bs \in [1 .. Len(rs) -> Block]
    BY <1>1, <1>2
  <2> QED BY <1>2, <2>1
<1> HIDE DEF bs
<1>4. interfaces[1].link \in Nat
  <2>1. 1 \in 1 .. Len(interfaces)
    OBVIOUS
  <2> QED BY <2>1, InterfaceFields
<1>5. Starts(PcapHeader, bs)[Len(bs) + 1] \in Nat
  <2>1. Starts(PcapHeader, bs) \in [1 .. Len(bs) + 1 -> Nat]
    BY <1>3, StartsUnfold DEF PcapHeader
  <2> QED BY <1>2, <1>3, <2>1
<1>6. f = [format |-> "pcap", v2 |-> TRUE, blocks |-> bs, size |-> Starts(PcapHeader, bs)[Len(bs) + 1], link |-> interfaces[1].link]
  BY DEF writePcap, bs
<1> HIDE DEF f
<1>7. f \in File
  BY <1>3, <1>4, <1>5, <1>6 DEF File, Formats
<1>8. f.format = "pcap" /\ f.v2 = TRUE /\ f.blocks = bs /\ f.size = Starts(PcapHeader, bs)[Len(bs) + 1]
  BY <1>6
<1>9. IsPcap(f)
  <2>1. ASSUME NEW k \in 1 .. Len(rs)
        PROVE  bs[k].type = "REC" /\ bs[k].len = RecordHeader + bs[k].cap
    BY <1>1, <1>3
  <2>2. DOMAIN bs = 1 .. Len(rs)
    BY <1>3
  <2> QED BY <1>8, <2>1, <2>2 DEF IsPcap
<1>10. WellFormed(f)
  <2>1. FirstAt(f) = PcapHeader
    BY <1>8 DEF FirstAt
  <2>2. f.size <= Starts(FirstAt(f), f.blocks)[Len(f.blocks) + 1]
    BY <1>5, <1>8, <2>1
  <2> QED BY <1>8, <1>9, <2>2 DEF WellFormed
<1> QED BY <1>3, <1>7, <1>8, <1>10 DEF f

\* After a turn of the pcapng loop the next one begins at the next block.
LEMMA Turned ==
    ASSUME TypeOK, FormatInv, PlaceInv, NEW T, Turn(T)
    PROVE  /\ o' \in Nat /\ blk' \in Nat /\ le' \in BOOLEAN
           /\ ifaceBase' \in 0 .. Len(interfaces)
           /\ PlaceInv'
<1>1. /\ file \in File /\ file.format = "pcapng" /\ blk \in 1 .. Len(file.blocks)
      /\ Order = Current.le /\ TotalLen = Current.len
      /\ BaseNow \in 0 .. Len(interfaces)
      /\ o = StartOf(blk) /\ StartOf(blk + 1) = o + Current.len
  BY InTurn DEF Turn
<1>2. file.blocks \in Seq(Block) /\ Len(file.blocks) \in Nat /\ file.size \in Nat
  BY <1>1, FileFields
<1>3. Current.len \in Nat /\ Current.le \in BOOLEAN
  BY <1>1, <1>2, BlockFields DEF Current
<1>4. file' = file /\ phase' = phase /\ blk' = blk + 1 /\ o' = o + Current.len /\ le' = Current.le /\ ifaceBase' = BaseNow
  BY <1>1 DEF Turn, ToNextBlock, NextBlock
<1>5. o \in Nat /\ o + Current.len <= file.size
  BY <1>1 DEF Turn, Fits, TypeOK
<1>6. o' \in Nat /\ blk' \in Nat /\ le' \in BOOLEAN /\ ifaceBase' \in 0 .. Len(interfaces)
  BY <1>1, <1>3, <1>4, <1>5
<1>7. PlaceInv'
  <2>1. blk' \in 1 .. Len(file'.blocks) + 1 /\ blk' - 1 = blk
    BY <1>1, <1>2, <1>4
  <2>2. o' = StartOf(blk)'
    BY <1>1, <1>4 DEF StartOf
  <2>3. o' <= file'.size
    BY <1>4, <1>5
  <2>4. le' = file'.blocks[blk' - 1].le
    BY <1>4, <2>1 DEF Current
  <2>5. phase' = "pcapng"
    BY <1>4 DEF Turn, InLoop
  <2> QED BY <2>1, <2>2, <2>3, <2>4, <2>5 DEF PlaceInv
<1> QED BY <1>6, <1>7

\* The types, formats and places together are inductive.
Base == TypeOK /\ FormatInv /\ PlaceInv

\* The state before the first file.
LEMMA InitBase == Init => Base
<1> SUFFICES ASSUME Init PROVE Base
  OBVIOUS
<1>1. TypeOK
  BY DEF Init, TypeOK
<1>2. FormatInv
  BY DEF Init, FormatInv, Loop
<1>3. PlaceInv
  BY DEF Init, PlaceInv, Loop
<1> QED BY <1>1, <1>2, <1>3 DEF Base

\* A turn of either loop leaves the file; what it says of formats stays true.
LEMMA FileKept ==
    ASSUME FormatInv, Loop, file' = file, phase' \in {phase, "read"},
           records' \in Seq(Kept), interfaces' \in Seq(Interface),
           interfaces # <<>> => interfaces' # <<>>, phase' = "read" => interfaces' # <<>>
    PROVE  FormatInv'
<1>1. phase' # "idle" => WellFormed(file)'
  BY DEF FormatInv, Loop, WellFormed, IsPcap, IsPcapng, FirstAt, Starts
<1>2. file.format = phase
  BY DEF FormatInv
<1> QED BY <1>1, <1>2 DEF FormatInv, Loop

\* A turn that leaves the pcapng loop.
LEMMA Left ==
    ASSUME Base, phase = "pcapng", NEW why, why \subseteq {"order", "truncated"}, Leave(why, interfaces),
           le' \in BOOLEAN, ifaceBase' \in 0 .. Len(interfaces)
    PROVE  Base'
<1>1. interfaces \in Seq(Interface)
  BY DEF Base, TypeOK
<1>2. /\ interfaces' \in Seq(Interface) /\ interfaces' # <<>>
      /\ ifaceBase' \in 0 .. Len(interfaces')
  <2>1. CASE interfaces = <<>>
    <3>1. interfaces' = <<[link |-> 1, snap |-> 0, res |-> TicksPerUs, blk |-> 0]>>
      BY <2>1 DEF Leave
    <3>2. [link |-> 1, snap |-> 0, res |-> TicksPerUs, blk |-> 0] \in Interface
      BY ReaderAssumption DEF Interface
    <3>3. Len(interfaces) = 0 /\ Len(interfaces') = 1
      BY <2>1, <3>1
    <3> QED BY <3>1, <3>2, <3>3
  <2>2. CASE interfaces # <<>>
    BY <1>1, <2>2 DEF Leave
  <2> QED BY <2>1, <2>2
<1>3. FormatInv'
  <2>1. file' = file /\ phase' = "read" /\ records' = records
    BY DEF Leave
  <2>2. records' \in Seq(Kept)
    BY <2>1 DEF Base, FormatInv
  <2> QED BY <1>2, <2>1, <2>2, FileKept DEF Base, Loop
<1>4. TypeOK'
  <2>1. warnings' \subseteq {"version", "order", "truncated", "epb", "trailing", "no interface"}
    BY DEF Base, TypeOK, Leave
  <2> QED BY <1>2, <2>1 DEF Base, TypeOK, Leave
<1>5. PlaceInv'
  BY DEF Leave, PlaceInv, Loop
<1> QED BY <1>3, <1>4, <1>5 DEF Base

\* A turn that goes on with the next block.
LEMMA Continued ==
    ASSUME Base, NEW T, Turn(T),
           records' \in Seq(Kept), interfaces' \in Seq(Interface), Len(interfaces) <= Len(interfaces'),
           warnings' \subseteq warnings \cup {"epb"}
    PROVE  Base'
<1>1. TypeOK /\ FormatInv /\ PlaceInv
  BY DEF Base
<1>2. /\ o' \in Nat /\ blk' \in Nat /\ le' \in BOOLEAN /\ ifaceBase' \in 0 .. Len(interfaces)
      /\ PlaceInv'
  BY <1>1, Turned
<1>3. phase' = phase /\ file' = file /\ saved' = saved /\ phase = "pcapng"
  BY DEF Turn, ToNextBlock, InLoop
<1>4. ifaceBase' \in 0 .. Len(interfaces')
  <2>1. interfaces \in Seq(Interface)
    BY DEF Base, TypeOK
  <2>2. Len(interfaces) \in Nat /\ Len(interfaces') \in Nat
    BY <2>1
  <2> QED BY <1>2, <2>2
<1>5. records' \in Seq(Record)
  BY DEF Kept
<1>6. TypeOK'
  BY <1>1, <1>2, <1>3, <1>4, <1>5 DEF TypeOK
<1>7. interfaces # <<>> => interfaces' # <<>>
  <2>1. interfaces \in Seq(Interface)
    BY <1>1 DEF TypeOK
  <2> QED BY <2>1
<1>8. FormatInv'
  BY <1>1, <1>3, <1>7, FileKept DEF Loop
<1> QED BY <1>2, <1>6, <1>8 DEF Base

\* Records that packet blocks append.
LEMMA PacketAppended ==
    ASSUME Base, NEW T, Turn(T), NEW ts \in Nat, NEW cap \in Int, NEW from \in Nat, NEW iface \in Nat
    PROVE  Append(records, MakeRecord(Current, ts, cap, from, iface)) \in Seq(Kept)
<1>1. file \in File /\ blk \in 1 .. Len(file.blocks)
  BY InTurn DEF Turn, Base
<1>2. Current \in Block
  BY <1>1, FileFields, BlockFields DEF Current
<1>3. blk \in Nat /\ records \in Seq(Kept)
  BY DEF Base, TypeOK, FormatInv
<1>4. MakeRecord(Current, ts, cap, from, iface) \in Kept
  BY <1>1, <1>2, <1>3, RecordMade
<1> QED BY <1>3, <1>4

\* A product of naturals is one.
LEMMA NatTimes == \A m, n \in Nat : m * n \in Nat
OBVIOUS

\* What the actions on packet blocks compute from their block.
LEMMA PacketValues ==
    ASSUME Base, NEW T, Turn(T)
    PROVE  /\ Current.cap \in Nat /\ Index(Current.id) \in Nat /\ BaseNow \in Nat
           /\ BodyAt + PacketHead \in Nat /\ BodyAt + 1 \in Nat
           /\ Current.ts * Resolution(Index(Current.id)) \in Nat
           /\ FirstSnap \in Nat /\ SimpleCap \in Int
<1>1. /\ file \in File /\ blk \in 1 .. Len(file.blocks)
      /\ BaseNow \in 0 .. Len(interfaces) /\ TotalLen = Current.len
  BY InTurn DEF Turn, Base
<1>2. /\ Current.len \in Nat /\ Current.cap \in Nat /\ Current.orig \in Nat /\ Current.id \in Nat /\ Current.ts \in Nat
  BY <1>1, FileFields, BlockFields DEF Current
<1>3. interfaces \in Seq(Interface) /\ Len(interfaces) \in Nat /\ o \in Nat
  <2>1. interfaces \in Seq(Interface) /\ o \in Nat
    BY DEF Base, TypeOK
  <2> QED BY <2>1
<1>4. BaseNow \in Nat /\ Index(Current.id) \in Nat /\ BodyAt + PacketHead \in Nat /\ BodyAt + 1 \in Nat
  BY <1>1, <1>2, <1>3 DEF Index, BodyAt, PacketHead
<1>5. ASSUME NEW i \in Nat PROVE Resolution(i) \in Nat
  <2>1. CASE i < Len(interfaces)
    <3>1. i + 1 \in 1 .. Len(interfaces)
      BY <1>3, <2>1
    <3> QED BY <1>3, <2>1, <3>1, InterfaceFields DEF Resolution
  <2>2. CASE ~(i < Len(interfaces))
    BY <2>2, ReaderAssumption DEF Resolution
  <2> QED BY <2>1, <2>2
<1>6. Current.ts * Resolution(Index(Current.id)) \in Nat
  BY <1>2, <1>4, <1>5, NatTimes
<1>7. FirstSnap \in Nat /\ SimpleCap \in Int
  <2>1. FirstSnap \in Nat
    <3>1. CASE BaseNow < Len(interfaces)
      <4>1. BaseNow + 1 \in 1 .. Len(interfaces)
        BY <1>1, <1>3, <3>1
      <4> QED BY <1>3, <3>1, <4>1, InterfaceFields DEF FirstSnap
    <3>2. CASE ~(BaseNow < Len(interfaces))
      BY <3>2 DEF FirstSnap
    <3> QED BY <3>1, <3>2
  <2>2. Room \in Int
    BY <1>1, <1>2 DEF Room, Overhead
  <2> QED BY <1>2, <2>1, <2>2 DEF SimpleCap, IsSnapped
<1> QED BY <1>2, <1>4, <1>6, <1>7

\* Each turn of the pcap loop.
LEMMA RecordBase ==
    ASSUME Base, ReadRecord
    PROVE  Base'
<1>1. TypeOK /\ FormatInv /\ PlaceInv /\ phase = "pcap" /\ ~AtEnd(RecordHeader)
  BY DEF Base, ReadRecord
<1>2. /\ file \in File /\ blk \in 1 .. Len(file.blocks) /\ Current.len = RecordHeader + Current.cap
      /\ StartOf(blk + 1) = o + Current.len
  BY <1>1, InRecordTurn
<1>3. Current \in Block /\ Current.cap \in Nat /\ Current.ts \in Nat /\ Current.res \in Nat
  BY <1>2, FileFields, BlockFields DEF Current
<1>4. o \in Nat /\ blk \in Nat /\ Len(file.blocks) \in Nat
  BY <1>1, <1>2, FileFields DEF TypeOK
<1>5. file' = file /\ phase' = phase /\ blk' = blk + 1 /\ o' = o + RecordHeader + Current.cap
  BY DEF ReadRecord
<1>6. records' \in Seq(Kept)
  <2>1. Current.ts * Current.res \in Nat
    BY <1>3, NatTimes
  <2>2. o + RecordHeader \in Nat
    BY <1>4 DEF RecordHeader
  <2>3. MakeRecord(Current, Current.ts * Current.res, Current.cap, o + RecordHeader, 0) \in Kept
    BY <1>2, <1>3, <1>4, <2>1, <2>2, RecordMade
  <2>4. records \in Seq(Kept)
    BY <1>1 DEF FormatInv
  <2> QED BY <2>3, <2>4 DEF ReadRecord
<1>7. o' \in Nat /\ blk' \in Nat /\ o' = o + Current.len
  BY <1>2, <1>3, <1>4, <1>5 DEF RecordHeader
<1>8. records' \in Seq(Record)
  BY <1>6 DEF Kept
<1>9. TypeOK'
  BY <1>1, <1>5, <1>7, <1>8 DEF TypeOK, ReadRecord
<1>10. FormatInv'
  <2>1. interfaces' = interfaces /\ interfaces \in Seq(Interface)
    BY <1>1 DEF ReadRecord, TypeOK
  <2> QED BY <1>1, <1>5, <1>6, <2>1, FileKept DEF Loop
<1>11. PlaceInv'
  <2>1. blk' \in 1 .. Len(file'.blocks) + 1
    BY <1>2, <1>4, <1>5
  <2>2. o' = StartOf(blk)'
    BY <1>2, <1>5, <1>7 DEF StartOf
  <2>3. warnings' \subseteq {"version"} /\ phase' = "pcap"
    BY <1>1 DEF ReadRecord, PlaceInv, Loop
  <2> QED BY <2>1, <2>2, <2>3 DEF PlaceInv
<1> QED BY <1>9, <1>10, <1>11 DEF Base

\* Leaving the pcap loop.
LEMMA RecordsLeft ==
    ASSUME Base, TruncatedRecord \/ EndOfRecords
    PROVE  Base'
<1>1. TypeOK /\ FormatInv /\ PlaceInv /\ phase = "pcap"
  BY DEF Base, TruncatedRecord, EndOfRecords
<1>2. /\ file' = file /\ phase' = "read" /\ blk' = blk /\ le' = le /\ ifaceBase' = ifaceBase
      /\ interfaces' = interfaces /\ records' = records /\ saved' = saved
  BY DEF TruncatedRecord, EndOfRecords
<1>3. o' \in Nat
  <2>1. o \in Nat
    BY <1>1 DEF TypeOK
  <2>2. o' = o \/ o' = o + 4
    BY DEF TruncatedRecord, EndOfRecords, RecordHeader
  <2> QED BY <2>1, <2>2
<1>4. warnings' \subseteq {"version", "order", "truncated", "epb", "trailing", "no interface"}
  BY <1>1 DEF TruncatedRecord, EndOfRecords, TypeOK, LeftOver
<1>5. TypeOK'
  BY <1>1, <1>2, <1>3, <1>4 DEF TypeOK
<1>6. FormatInv'
  <2>1. interfaces \in Seq(Interface) /\ interfaces # <<>> /\ records \in Seq(Kept)
    BY <1>1 DEF TypeOK, FormatInv
  <2> QED BY <1>1, <1>2, <2>1, FileKept DEF Loop
<1>7. PlaceInv'
  BY <1>2 DEF PlaceInv, Loop
<1> QED BY <1>5, <1>6, <1>7 DEF Base

\* The export and its reopening.
LEMMA ReopenedBase ==
    ASSUME Base, NEW sel, ExportAndReopen(sel)
    PROVE  Base'
<1>1. interfaces \in Seq(Interface) /\ interfaces # <<>> /\ records \in Seq(Kept)
  BY DEF Base, TypeOK, FormatInv, ExportAndReopen
<1> DEFINE rs == Picked(sel)
<1>2. rs \in Seq(Kept)
  BY <1>1, PickedOf
<1>3. saved' = [i \in DOMAIN rs |-> [ts |-> rs[i].ts, len |-> rs[i].to - rs[i].from,
                                     orig |-> rs[i].orig, link |-> InterfaceOf(rs[i]).link]]
      /\ Begin(writePcap(rs))
  BY DEF ExportAndReopen
<1> HIDE DEF rs
<1>4. writePcap(rs) \in File /\ WellFormed(writePcap(rs))
  BY <1>1, <1>2, Exported
<1>5. saved' \in Seq(Saved)
  <2>1. Len(rs) \in Nat /\ DOMAIN rs = 1 .. Len(rs)
    BY <1>2
  <2>2. ASSUME NEW i \in 1 .. Len(rs)
        PROVE  [ts |-> rs[i].ts, len |-> rs[i].to - rs[i].from,
                orig |-> rs[i].orig, link |-> InterfaceOf(rs[i]).link] \in Saved
    <3> DEFINE r == rs[i]
    <3>1. r.ts \in Nat /\ r.orig \in Nat /\ r.from \in Nat /\ r.to \in Nat /\ r.from <= r.to /\ r.iface \in Nat
      BY <1>2, KeptFields
    <3>2. r.to - r.from \in Nat
      BY <3>1
    <3>3. InterfaceOf(r).link \in Nat
      <4>1. Len(interfaces) \in Nat /\ 1 \in 1 .. Len(interfaces)
        BY <1>1
      <4>2. r.iface < Len(interfaces) => r.iface + 1 \in 1 .. Len(interfaces)
        BY <3>1, <4>1
      <4> QED BY <1>1, <4>1, <4>2, InterfaceFields DEF InterfaceOf
    <3>4. r.ts \in Nat /\ r.orig \in Nat
      BY <3>1
    <3> HIDE DEF r
    <3>5. [ts |-> r.ts, len |-> r.to - r.from, orig |-> r.orig, link |-> InterfaceOf(r).link] \in Saved
      BY <3>2, <3>3, <3>4 DEF Saved
    <3> QED BY <3>5 DEF r
  <2>3. saved' \in [1 .. Len(rs) -> Saved]
    BY <1>3, <2>1, <2>2
  <2> QED BY <2>1, <2>3
<1>6. TypeOK' /\ FormatInv' /\ PlaceInv'
  BY <1>3, <1>4, <1>5, Begun
<1> QED BY <1>6 DEF Base

\* Every step keeps them.
LEMMA NextBase == Base /\ [Next]_vars => Base'
<1> SUFFICES ASSUME Base, [Next]_vars PROVE Base'
  OBVIOUS
<1>0. TypeOK /\ FormatInv /\ records \in Seq(Kept) /\ interfaces \in Seq(Interface)
  BY DEF Base, TypeOK, FormatInv
<1>1. CASE OpenFile
  <2>1. PICK f \in Files : Begin(f)
    BY <1>1 DEF OpenFile
  <2>2. f \in File /\ WellFormed(f)
    BY ReaderAssumption
  <2>3. saved' \in Seq(Saved) \cup {None}
    BY <1>0, <1>1 DEF OpenFile, TypeOK
  <2>4. TypeOK' /\ FormatInv' /\ PlaceInv'
    BY <2>1, <2>2, <2>3, Begun
  <2> QED BY <2>4 DEF Base
<1>2. CASE ReadRecord
  BY <1>2, RecordBase
<1>3. CASE TruncatedRecord \/ EndOfRecords
  BY <1>3, RecordsLeft
<1>4. CASE BadByteOrder
  <2>1. phase = "pcapng" /\ Leave({"order"}, interfaces) /\ le' = le /\ ifaceBase' = ifaceBase
    BY <1>4 DEF BadByteOrder, InLoop
  <2> QED BY <1>0, <2>1, Left DEF TypeOK
<1>5. CASE TruncatedBlock
  <2>1. phase = "pcapng" /\ InLoop /\ Leave({"truncated"}, interfaces) /\ le' = Order /\ ifaceBase' = BaseNow
    BY <1>5 DEF TruncatedBlock, InLoop
  <2>2. BaseNow \in 0 .. Len(interfaces) /\ Order = Current.le /\ file \in File /\ blk \in 1 .. Len(file.blocks)
    BY <2>1, InTurn DEF Base
  <2>3. Order \in BOOLEAN
    BY <2>2, FileFields, BlockFields DEF Current
  <2> QED BY <2>1, <2>2, <2>3, Left
<1>6. CASE EndOfBlocks
  <2>1. phase = "pcapng" /\ Leave({}, interfaces) /\ le' = le /\ ifaceBase' = ifaceBase
    BY <1>6 DEF EndOfBlocks
  <2> QED BY <1>0, <2>1, Left DEF TypeOK
<1>7. CASE SectionHeader \/ OtherBlock \/ TruncatedPacket
  <2>1. PICK T : Turn(T)
    BY <1>7 DEF SectionHeader, OtherBlock, TruncatedPacket
  <2>2. records' = records /\ interfaces' = interfaces /\ warnings' \subseteq warnings \cup {"epb"}
    BY <1>7 DEF SectionHeader, OtherBlock, TruncatedPacket
  <2>3. Len(interfaces) <= Len(interfaces')
    BY <1>0, <2>2
  <2> QED BY <1>0, <2>1, <2>2, <2>3, Continued
<1>8. CASE InterfaceDescription
  <2>1. Turn({"IDB"}) /\ records' = records /\ warnings' = warnings
    BY <1>8 DEF InterfaceDescription
  <2> DEFINE i == [link |-> Current.link, snap |-> Current.snap, res |-> Current.res, blk |-> blk]
  <2>2. interfaces' = Append(interfaces, i)
    BY <1>8 DEF InterfaceDescription
  <2>3. i \in Interface
    <3>1. file \in File /\ blk \in 1 .. Len(file.blocks)
      BY <2>1, InTurn DEF Turn, Base
    <3>2. Current.link \in Nat /\ Current.snap \in Nat /\ Current.res \in Nat /\ blk \in Nat
      BY <3>1, FileFields, BlockFields DEF Current
    <3> QED BY <3>2 DEF Interface
  <2> HIDE DEF i
  <2>4. interfaces' \in Seq(Interface) /\ Len(interfaces) <= Len(interfaces')
    BY <1>0, <2>2, <2>3
  <2> QED BY <1>0, <2>1, <2>4, Continued
<1>9. CASE EnhancedPacket \/ SimplePacket \/ ObsoletePacket
  <2>1. PICK T : Turn(T)
    BY <1>9 DEF EnhancedPacket, SimplePacket, ObsoletePacket
  <2>2. interfaces' = interfaces /\ warnings' = warnings
    BY <1>9 DEF EnhancedPacket, SimplePacket, ObsoletePacket
  <2>3. records' \in Seq(Kept)
    <3>1. /\ Current.cap \in Nat /\ Index(Current.id) \in Nat /\ BaseNow \in Nat
          /\ BodyAt + PacketHead \in Nat /\ BodyAt + 1 \in Nat
          /\ Current.ts * Resolution(Index(Current.id)) \in Nat
          /\ SimpleCap \in Int
      BY <2>1, PacketValues
    <3>2. PICK ts \in Nat, cap \in Int, from \in Nat, iface \in Nat :
            records' = Append(records, MakeRecord(Current, ts, cap, from, iface))
      <4>1. CASE SimplePacket
        BY <3>1, <4>1 DEF SimplePacket
      <4>2. CASE EnhancedPacket \/ ObsoletePacket
        <5>1. records' = Append(records, MakeRecord(Current, Current.ts * Resolution(Index(Current.id)), Current.cap,
                                                    BodyAt + PacketHead, Index(Current.id)))
          BY <4>2 DEF EnhancedPacket, ObsoletePacket
        <5>2. Current.cap \in Int
          BY <3>1
        <5> QED BY <3>1, <5>1, <5>2
      <4> QED BY <1>9, <4>1, <4>2
    <3> QED BY <2>1, <3>2, PacketAppended
  <2>4. Len(interfaces) <= Len(interfaces')
    BY <1>0, <2>2
  <2> QED BY <1>0, <2>1, <2>2, <2>3, <2>4, Continued
<1>10. CASE \E sel \in SUBSET {records[i].blk : i \in DOMAIN records} : ExportAndReopen(sel)
  BY <1>10, ReopenedBase
<1>11. CASE UNCHANGED vars
  <2> USE <1>11 DEF vars
  <2>1. TypeOK'
    BY <1>0 DEF TypeOK
  <2>2. FormatInv'
    <3>1. phase' # "idle" => WellFormed(file)'
      BY <1>0 DEF FormatInv, WellFormed, IsPcap, IsPcapng, FirstAt, Starts
    <3> QED BY <1>0, <3>1 DEF FormatInv, Loop
  <2>3. PlaceInv'
    <3>1. Loop => o = StartOf(blk)
      BY DEF Base, PlaceInv
    <3>2. StartOf(blk)' = StartOf(blk)
      BY DEF StartOf
    <3> QED BY <3>1, <3>2 DEF Base, PlaceInv, Loop
  <2> QED BY <2>1, <2>2, <2>3 DEF Base
<1> QED BY <1>1, <1>2, <1>3, <1>4, <1>5, <1>6, <1>7, <1>8, <1>9, <1>10, <1>11 DEF Next, Pcap, Pcapng

\* Every step of reading and exporting keeps the types, whatever the files: positions
\* and byte ranges are naturals, also in a file cut anywhere (reader.js:68-228).
THEOREM TypeCorrect == Spec => []TypeOK
<1>1. Spec => []Base
  BY InitBase, NextBase, PTL DEF Spec
<1>2. Base => TypeOK
  BY DEF Base
<1> QED BY <1>1, <1>2, PTL

-----------------------------------------------------------------------------
(* The steps, by what they do to the list of packets *)

\* The bytes of a record are inside its block, and a simple one's are as many as the
\* least of its limits.
Span(r) == Truthful(r.blk) => /\ StartOf(r.blk) < r.from /\ r.from <= r.to /\ r.to <= EndOf(r.blk)
                              /\ r.to - r.from = r.cap
                              /\ file.blocks[r.blk].type = "SPB" =>
                                     r.cap \in Limits(r.blk) /\ \A n \in Limits(r.blk) : r.cap <= n

\* The interface number a packet block states.
StatedId(k) == IF file.blocks[k].type = "SPB" THEN 0 ELSE file.blocks[k].id

\* The record r is made of the current block.
Made(r) ==
    /\ r.blk = blk
    /\ (phase = "pcapng" => FirstSnap = Snap(blk)) => Span(r)
    /\ phase = "pcapng" => r.iface = BaseNow + StatedId(blk)
    /\ phase = "pcap" => /\ r.ts = Current.ts * Current.res /\ r.orig = Current.orig
                         /\ r.cap = Current.cap /\ r.to - r.from = r.cap

\* A turn of a loop passes a whole block, and appends a record if it holds a packet.
GoesOn ==
    /\ Loop /\ phase' = phase /\ file' = file /\ saved' = saved
    /\ blk \in 1 .. Len(file.blocks) /\ blk' = blk + 1
    /\ Whole(blk)
    /\ HoldsPacket(blk) => \E r \in Kept : records' = Append(records, r) /\ Made(r)
    /\ ~HoldsPacket(blk) => records' = records
    /\ phase = "pcapng" => ifaceBase' = BaseNow
    /\ phase = "pcap" => warnings' = warnings
    /\ Current.type = "IDB" =>
          \E i \in Interface : interfaces' = Append(interfaces, i) /\ i.blk = blk /\ i.snap = Current.snap
    /\ Current.type # "IDB" => interfaces' = interfaces

\* A loop ends, before a block that is not whole or after the last.
Leaves ==
    /\ Loop /\ phase' = "read" /\ file' = file /\ saved' = saved
    /\ blk' = blk /\ records' = records
    /\ blk \in 1 .. Len(file.blocks) => ~Whole(blk)
    /\ interfaces # <<>> => interfaces' = interfaces

\* A turn of the pcapng loop passes a whole block.
LEMMA TurnWhole ==
    ASSUME Base, NEW T, Turn(T)
    PROVE  /\ Loop /\ phase' = phase /\ file' = file /\ saved' = saved /\ phase = "pcapng"
           /\ blk \in 1 .. Len(file.blocks) /\ blk' = blk + 1
           /\ Whole(blk) /\ ifaceBase' = BaseNow
           /\ Current.type \in T /\ Current.type # "REC"
           /\ TotalLen = Current.len /\ o = StartOf(blk) /\ EndOf(blk) = o + Current.len
           /\ o + Current.len <= file.size
           /\ o \in Nat /\ Current.len \in Nat /\ Current \in Block /\ file.size \in Nat
<1>1. InLoop /\ TypeOK /\ FormatInv /\ PlaceInv
  BY DEF Turn, Base
<1>2. /\ file \in File /\ file.format = "pcapng" /\ blk \in 1 .. Len(file.blocks)
      /\ Current.type # "REC" /\ TotalLen = Current.len /\ o = StartOf(blk)
  BY <1>1, InTurn
<1>3. Current.len \in Nat /\ Current \in Block /\ file.size \in Nat /\ o \in Nat
  BY <1>1, <1>2, FileFields, BlockFields DEF Current, TypeOK
<1>4. EndOf(blk) = o + Current.len
  BY <1>2 DEF EndOf, Current
<1>5. Current.len >= Overhead /\ o + Current.len <= file.size
  BY <1>2 DEF Turn, Fits
<1>6. Whole(blk)
  BY <1>4, <1>5 DEF Whole, Turn, Current
<1> QED BY <1>1, <1>2, <1>3, <1>4, <1>5, <1>6 DEF Turn, ToNextBlock, InLoop, Loop

\* What MakeRecord puts into the fields.
LEMMA MadeFields ==
    ASSUME NEW b, NEW ts, NEW cap, NEW from, NEW iface
    PROVE  LET r == MakeRecord(b, ts, cap, from, iface)
           IN /\ r.blk = blk /\ r.ts = ts /\ r.cap = cap /\ r.orig = b.orig /\ r.iface = iface /\ r.from = from
              /\ r.to = IF EndOfBytes(from, cap) < from THEN from ELSE EndOfBytes(from, cap)
BY DEF MakeRecord, Bytes

\* Bytes that end inside the file are as many as were asked for.
LEMMA BytesInside ==
    ASSUME NEW from \in Nat, NEW cap \in Nat, from + cap <= file.size, NEW b, NEW ts, NEW iface
    PROVE  LET r == MakeRecord(b, ts, cap, from, iface)
           IN r.from = from /\ r.to = from + cap /\ r.to - r.from = cap /\ r.cap = cap
<1> DEFINE r == MakeRecord(b, ts, cap, from, iface)
<1>1. EndOfBytes(from, cap) = from + cap
  BY DEF EndOfBytes
<1>2. r.from = from /\ r.cap = cap /\ r.to = from + cap
  BY <1>1, MadeFields
<1> HIDE DEF r
<1>3. r.to - r.from = cap
  BY <1>2
<1> QED BY <1>2, <1>3 DEF r

\* A block that holds no packet.
LEMMA NoPacketStep ==
    ASSUME Base, SectionHeader \/ OtherBlock \/ InterfaceDescription \/ TruncatedPacket
    PROVE  GoesOn
<1>1. PICK T : Turn(T) /\ T \in {{"SHB"}, {"OTHER"}, {"IDB"}, {"EPB"}}
  BY DEF SectionHeader, OtherBlock, InterfaceDescription, TruncatedPacket
<1>2. /\ Loop /\ phase' = phase /\ file' = file /\ saved' = saved /\ phase = "pcapng"
      /\ blk \in 1 .. Len(file.blocks) /\ blk' = blk + 1
      /\ Whole(blk) /\ ifaceBase' = BaseNow
      /\ TotalLen = Current.len
  BY <1>1, TurnWhole
<1>3. ~HoldsPacket(blk) /\ records' = records
  <2>1. CASE TruncatedPacket
    <3>1. Current.type = "EPB" /\ ~PacketFits
      BY <2>1 DEF TruncatedPacket, Turn
    <3>2. ~(PacketHead + Current.cap <= Current.len - Overhead)
      BY <1>2, <3>1 DEF PacketFits, Room
    <3> QED BY <2>1, <3>1, <3>2 DEF HoldsPacket, Current, TruncatedPacket
  <2>2. CASE ~TruncatedPacket
    <3>1. Current.type \in {"SHB", "OTHER", "IDB"}
      BY <2>2 DEF SectionHeader, OtherBlock, InterfaceDescription, Turn
    <3> QED BY <2>2, <3>1 DEF HoldsPacket, Current, SectionHeader, OtherBlock, InterfaceDescription
  <2> QED BY <2>1, <2>2
<1>4. /\ Current.type = "IDB" =>
            \E i \in Interface : interfaces' = Append(interfaces, i) /\ i.blk = blk /\ i.snap = Current.snap
      /\ Current.type # "IDB" => interfaces' = interfaces
  <2>1. CASE InterfaceDescription
    <3> DEFINE i == [link |-> Current.link, snap |-> Current.snap, res |-> Current.res, blk |-> blk]
    <3>1. interfaces' = Append(interfaces, i) /\ i.blk = blk /\ i.snap = Current.snap /\ Current.type = "IDB"
      BY <2>1 DEF InterfaceDescription, Turn
    <3>2. i \in Interface
      <4>1. file \in File
        BY <1>2 DEF Base, TypeOK, Loop
      <4>2. Current.link \in Nat /\ Current.snap \in Nat /\ Current.res \in Nat /\ blk \in Nat
        BY <1>2, <4>1, FileFields, BlockFields DEF Current
      <4> QED BY <4>2 DEF Interface
    <3> HIDE DEF i
    <3> QED BY <3>1, <3>2
  <2>2. CASE ~InterfaceDescription
    BY <2>2 DEF SectionHeader, OtherBlock, TruncatedPacket, Turn
  <2> QED BY <2>1, <2>2
<1> QED BY <1>2, <1>3, <1>4 DEF GoesOn

\* A block that holds a packet.
LEMMA PacketStep ==
    ASSUME Base, EnhancedPacket \/ SimplePacket \/ ObsoletePacket
    PROVE  GoesOn
<1>1. PICK T : Turn(T) /\ T \in {{"EPB"}, {"SPB"}, {"PB"}}
  BY DEF EnhancedPacket, SimplePacket, ObsoletePacket
<1>2. /\ Loop /\ phase' = phase /\ file' = file /\ saved' = saved /\ phase = "pcapng"
      /\ blk \in 1 .. Len(file.blocks) /\ blk' = blk + 1
      /\ Whole(blk) /\ ifaceBase' = BaseNow
      /\ TotalLen = Current.len /\ o = StartOf(blk) /\ EndOf(blk) = o + Current.len
      /\ o + Current.len <= file.size
      /\ o \in Nat /\ Current.len \in Nat /\ Current \in Block /\ file.size \in Nat
  BY <1>1, TurnWhole
<1>3. /\ Current.cap \in Nat /\ Index(Current.id) \in Nat /\ BaseNow \in Nat
      /\ BodyAt + PacketHead \in Nat /\ BodyAt + 1 \in Nat
      /\ Current.ts * Resolution(Index(Current.id)) \in Nat
      /\ FirstSnap \in Nat /\ SimpleCap \in Int
  BY <1>1, PacketValues
<1>4. blk \in Nat /\ file \in File /\ Current.orig \in Nat /\ interfaces' = interfaces /\ Current.type # "IDB"
  <2>1. blk \in Nat /\ file \in File
    BY <1>2 DEF Base, TypeOK, Loop
  <2>2. Current.orig \in Nat
    BY <1>2, <2>1, FileFields, BlockFields DEF Current
  <2>3. interfaces' = interfaces /\ Current.type # "IDB"
    BY DEF EnhancedPacket, SimplePacket, ObsoletePacket, Turn
  <2> QED BY <2>1, <2>2, <2>3
<1>5. CASE EnhancedPacket \/ ObsoletePacket
  <2> DEFINE r == MakeRecord(Current, Current.ts * Resolution(Index(Current.id)), Current.cap,
                             BodyAt + PacketHead, Index(Current.id))
  <2>1. records' = Append(records, r) /\ Current.type \in {"EPB", "PB"} /\ (Current.type = "EPB" => PacketFits)
    BY <1>5 DEF EnhancedPacket, ObsoletePacket, Turn
  <2>2. r \in Kept
    <3>1. Current.cap \in Int
      BY <1>3
    <3> QED BY <1>2, <1>3, <1>4, <3>1, RecordMade
  <2>3. r.blk = blk /\ r.iface = BaseNow + StatedId(blk)
    <3>1. r.blk = blk /\ r.iface = Index(Current.id)
      BY MadeFields
    <3> QED BY <2>1, <3>1 DEF Index, StatedId, Current
  <2>4. HoldsPacket(blk)
    <3>1. Current.type = "EPB" => PacketHead + Current.cap <= Current.len - Overhead
      BY <1>2, <2>1 DEF PacketFits, Room
    <3> QED BY <2>1, <3>1 DEF HoldsPacket, Current
  <2>5. Span(r)
    <3>1. SUFFICES ASSUME Truthful(blk)
                   PROVE  /\ StartOf(blk) < r.from /\ r.from <= r.to /\ r.to <= EndOf(blk)
                          /\ r.to - r.from = r.cap
      BY <2>1, <2>3 DEF Span, Current
    <3>2. PacketHead + Current.cap <= Current.len - Overhead
      <4>1. CASE Current.type = "EPB"
        BY <1>2, <2>1, <4>1 DEF PacketFits, Room
      <4>2. CASE Current.type = "PB"
        BY <3>1, <4>2 DEF Truthful, Current
      <4> QED BY <2>1, <4>1, <4>2
    <3>3. BodyAt + PacketHead = o + 7
      BY <1>2 DEF BodyAt, PacketHead
    <3>4. o + 7 + Current.cap <= o + Current.len
      <4>1. Current.cap \in Nat /\ Current.len \in Nat /\ o \in Nat
        BY <1>2, <1>3
      <4> QED BY <3>2, <4>1 DEF PacketHead, Overhead
    <3>5. BodyAt + PacketHead + Current.cap <= file.size
      BY <1>2, <1>3, <3>3, <3>4
    <3>6. r.from = BodyAt + PacketHead /\ r.to = BodyAt + PacketHead + Current.cap /\ r.to - r.from = Current.cap
          /\ r.cap = Current.cap
      BY <1>3, <3>5, BytesInside
    <3> HIDE DEF r
    <3>7. r.from = o + 7 /\ r.to = o + 7 + Current.cap
      BY <3>3, <3>6
    <3> QED BY <1>2, <1>3, <3>4, <3>6, <3>7
  <2> HIDE DEF r
  <2> QED BY <1>2, <1>4, <2>1, <2>2, <2>3, <2>4, <2>5 DEF GoesOn, Made
<1>6. CASE SimplePacket
  <2> DEFINE r == MakeRecord(Current, 0, SimpleCap, BodyAt + 1, BaseNow)
  <2>1. records' = Append(records, r) /\ Current.type = "SPB"
    BY <1>6 DEF SimplePacket, Turn
  <2>2. r \in Kept
    BY <1>2, <1>3, <1>4, RecordMade
  <2>3. r.blk = blk /\ r.iface = BaseNow + StatedId(blk)
    <3>1. r.blk = blk /\ r.iface = BaseNow
      BY MadeFields
    <3> QED BY <1>3, <2>1, <3>1 DEF StatedId, Current
  <2>4. HoldsPacket(blk)
    BY <2>1 DEF HoldsPacket, Current
  <2>5. ASSUME FirstSnap = Snap(blk) PROVE Span(r)
    <3>1. SUFFICES ASSUME Truthful(blk)
                   PROVE  /\ StartOf(blk) < r.from /\ r.from <= r.to /\ r.to <= EndOf(blk)
                          /\ r.to - r.from = r.cap
                          /\ r.cap \in Limits(blk) /\ \A n \in Limits(blk) : r.cap <= n
      BY <2>3 DEF Span
    <3>2. Current.len - Overhead - 1 >= 0 /\ (IsSnapped => FirstSnap <= Current.len - Overhead - 1)
      BY <2>1, <2>5, <3>1 DEF Truthful, RoomOf, Current, IsSnapped
    <3>3. /\ SimpleCap \in Nat /\ SimpleCap <= Current.len - Overhead - 1
          /\ SimpleCap \in Limits(blk) /\ \A n \in Limits(blk) : SimpleCap <= n
      <4>1. Room = Current.len - 3 /\ Overhead = 3
        BY <1>2 DEF Room, Overhead
      <4>2. Limits(blk) = {Current.orig, Current.len - 3 - 1} \cup ({FirstSnap} \ {0})
        BY <2>5, <4>1 DEF Limits, RoomOf, Current
      <4>3. SimpleCap = IF FirstSnap # 0 /\ FirstSnap < Current.orig THEN FirstSnap
                        ELSE IF Current.orig <= Room - 1 THEN Current.orig ELSE Room - 1
        BY DEF SimpleCap, IsSnapped
      <4>4. CASE FirstSnap # 0 /\ FirstSnap < Current.orig
        <5>1. SimpleCap = FirstSnap /\ FirstSnap <= Current.len - 3 - 1
          BY <3>2, <4>1, <4>3, <4>4 DEF IsSnapped
        <5> QED BY <1>2, <1>3, <1>4, <4>1, <4>2, <4>4, <5>1
      <4>5. CASE ~(FirstSnap # 0 /\ FirstSnap < Current.orig)
        <5>1. SimpleCap = IF Current.orig <= Current.len - 3 - 1 THEN Current.orig ELSE Current.len - 3 - 1
          BY <4>1, <4>3, <4>5
        <5>2. FirstSnap # 0 => Current.orig <= FirstSnap
          BY <1>3, <1>4, <4>5
        <5>3. SimpleCap \in Nat /\ SimpleCap <= Current.len - 3 - 1 /\ SimpleCap <= Current.orig
              /\ SimpleCap \in {Current.orig, Current.len - 3 - 1}
          BY <1>2, <1>4, <3>2, <4>1, <5>1
        <5>4. ASSUME NEW n \in Limits(blk) PROVE SimpleCap <= n
          <6>1. n = Current.orig \/ n = Current.len - 3 - 1 \/ (n = FirstSnap /\ FirstSnap # 0)
            BY <4>2
          <6> QED BY <1>3, <1>4, <5>2, <5>3, <6>1
        <5> QED BY <4>1, <4>2, <5>3, <5>4
      <4> QED BY <4>4, <4>5
    <3>4. BodyAt + 1 = o + 3 /\ o + 3 + SimpleCap <= o + Current.len
      BY <1>2, <1>4, <3>2, <3>3 DEF BodyAt, Overhead
    <3>5. BodyAt + 1 + SimpleCap <= file.size
      BY <1>2, <3>3, <3>4
    <3>6. r.from = BodyAt + 1 /\ r.to = BodyAt + 1 + SimpleCap /\ r.to - r.from = SimpleCap /\ r.cap = SimpleCap
      BY <1>3, <3>3, <3>5, BytesInside
    <3> HIDE DEF r
    <3>7. r.from = o + 3 /\ r.to = o + 3 + SimpleCap
      BY <3>4, <3>6
    <3>8. StartOf(blk) < r.from /\ r.from <= r.to /\ r.to <= EndOf(blk) /\ r.to - r.from = r.cap
      BY <1>2, <3>3, <3>4, <3>6, <3>7
    <3> QED BY <3>3, <3>6, <3>8
  <2> HIDE DEF r
  <2> QED BY <1>2, <1>4, <2>1, <2>2, <2>3, <2>4, <2>5 DEF GoesOn, Made
<1> QED BY <1>5, <1>6

\* A record of a pcap file.
LEMMA RecordStep ==
    ASSUME Base, ReadRecord
    PROVE  GoesOn
<1>1. TypeOK /\ FormatInv /\ PlaceInv /\ phase = "pcap" /\ ~AtEnd(RecordHeader)
  BY DEF Base, ReadRecord
<1>2. /\ file \in File /\ file.format = "pcap" /\ blk \in 1 .. Len(file.blocks)
      /\ Current.type = "REC" /\ Current.len = RecordHeader + Current.cap
      /\ o = StartOf(blk)
  BY <1>1, InRecordTurn
<1>3. Current \in Block /\ Current.cap \in Nat /\ Current.ts \in Nat /\ Current.res \in Nat /\ file.size \in Nat
  BY <1>2, FileFields, BlockFields DEF Current
<1>4. o \in Nat /\ blk \in Nat
  BY <1>1 DEF TypeOK
<1>5. /\ Loop /\ file' = file /\ phase' = phase /\ saved' = saved /\ blk' = blk + 1 /\ interfaces' = interfaces
      /\ o + RecordHeader + Current.cap <= file.size /\ warnings' = warnings
  BY DEF ReadRecord, Loop
<1>6. EndOf(blk) = o + RecordHeader + Current.cap
  BY <1>2, <1>3, <1>4 DEF EndOf, Current, RecordHeader
<1>7. Whole(blk)
  BY <1>2, <1>5, <1>6 DEF Whole, Current
<1>8. HoldsPacket(blk)
  BY <1>2 DEF HoldsPacket, Current
<1> DEFINE r == MakeRecord(Current, Current.ts * Current.res, Current.cap, o + RecordHeader, 0)
<1>9. records' = Append(records, r)
  BY DEF ReadRecord
<1>10. o + RecordHeader \in Nat /\ o < o + RecordHeader
  BY <1>4 DEF RecordHeader
<1>11. r \in Kept
  <2>1. Current.ts * Current.res \in Nat
    BY <1>3, NatTimes
  <2> QED BY <1>2, <1>3, <1>4, <1>10, <2>1, RecordMade
<1>12. /\ r.from = o + RecordHeader /\ r.to = o + RecordHeader + Current.cap
       /\ r.to - r.from = Current.cap /\ r.cap = Current.cap
  BY <1>3, <1>5, <1>10, BytesInside
<1>13. r.blk = blk /\ r.ts = Current.ts * Current.res /\ r.orig = Current.orig
  BY MadeFields
<1> HIDE DEF r
<1>14. Span(r)
  <2>1. r.from <= r.to /\ r.to \in Nat
    <3>1. Current.cap \in Nat
      BY <1>3
    <3> QED BY <1>10, <1>12, <3>1
  <2>2. StartOf(blk) < r.from
    BY <1>2, <1>10, <1>12
  <2>3. r.to <= EndOf(blk)
    BY <1>6, <1>12, <2>1
  <2>4. r.to - r.from = r.cap
    BY <1>12
  <2>5. file.blocks[blk].type # "SPB"
    BY <1>2 DEF Current
  <2> QED BY <1>13, <2>1, <2>2, <2>3, <2>4, <2>5 DEF Span
<1>15. Made(r)
  BY <1>1, <1>12, <1>13, <1>14 DEF Made
<1> QED BY <1>1, <1>2, <1>5, <1>7, <1>8, <1>9, <1>11, <1>15 DEF GoesOn

\* The steps that leave a loop stop at a block that is not whole.
LEMMA LeavingStep ==
    ASSUME Base, TruncatedRecord \/ EndOfRecords \/ BadByteOrder \/ TruncatedBlock \/ EndOfBlocks
    PROVE  Leaves
<1>1. TypeOK /\ FormatInv /\ PlaceInv
  BY DEF Base
<1>2. /\ Loop /\ phase' = "read" /\ file' = file /\ saved' = saved
      /\ blk' = blk /\ records' = records /\ (interfaces # <<>> => interfaces' = interfaces)
  BY DEF TruncatedRecord, EndOfRecords, BadByteOrder, TruncatedBlock, EndOfBlocks, Leave, Loop, InLoop
<1>3. file \in File /\ o = StartOf(blk) /\ file.format = phase /\ WellFormed(file) /\ o \in Nat
  BY <1>1, <1>2 DEF TypeOK, FormatInv, PlaceInv, Loop
<1>4. ASSUME blk \in 1 .. Len(file.blocks) PROVE ~Whole(blk)
  <2>1. file.size \in Nat /\ Current.len \in Nat /\ Current.cap \in Nat /\ EndOf(blk) = o + Current.len
    BY <1>3, <1>4, FileFields, BlockFields DEF Current, EndOf
  <2>2. CASE TruncatedRecord \/ EndOfRecords
    <3>1. phase = "pcap"
      BY <2>2 DEF TruncatedRecord, EndOfRecords
    <3>2. Current.len = RecordHeader + Current.cap
      BY <1>3, <1>4, <3>1 DEF WellFormed, IsPcap, Current
    <3>3. o + Current.len > file.size
      <4>1. CASE TruncatedRecord
        BY <1>3, <2>1, <3>2, <4>1 DEF TruncatedRecord, RecordHeader
      <4>2. CASE EndOfRecords
        <5>1. o + RecordHeader > file.size
          BY <1>4, <4>2 DEF EndOfRecords, AtEnd
        <5> QED BY <1>3, <2>1, <3>2, <5>1 DEF RecordHeader
      <4> QED BY <2>2, <4>1, <4>2
    <3> QED BY <1>3, <2>1, <3>3 DEF Whole
  <2>3. CASE BadByteOrder
    BY <2>3 DEF BadByteOrder, Whole, Current
  <2>4. CASE TruncatedBlock
    <3>1. InLoop /\ ~Fits
      BY <2>4 DEF TruncatedBlock
    <3>2. TotalLen = Current.len /\ file.format = "pcapng"
      BY <1>1, <3>1, InTurn
    <3>3. ~(Current.len >= Overhead) \/ ~(o + Current.len <= file.size)
      BY <3>1, <3>2 DEF Fits
    <3> QED BY <2>1, <3>2, <3>3 DEF Whole, Current
  <2>5. CASE EndOfBlocks
    <3>1. phase = "pcapng" /\ o + Overhead > file.size
      BY <1>4, <2>5 DEF EndOfBlocks, AtEnd
    <3>2. Current.len >= Overhead => ~(o + Current.len <= file.size)
      BY <1>3, <2>1, <3>1 DEF Overhead
    <3> QED BY <1>3, <2>1, <3>1, <3>2 DEF Whole, Current
  <2> QED BY <2>2, <2>3, <2>4, <2>5
<1> QED BY <1>2, <1>4 DEF Leaves

\* Every step begins a file, goes on, leaves a loop or changes nothing.
LEMMA Steps ==
    ASSUME Base, [Next]_vars
    PROVE  \/ \E f \in File : Begin(f)
           \/ GoesOn
           \/ Leaves
           \/ UNCHANGED vars
<1>1. CASE OpenFile
  BY <1>1, ReaderAssumption DEF OpenFile
<1>2. CASE \E sel \in SUBSET {records[i].blk : i \in DOMAIN records} : ExportAndReopen(sel)
  <2>1. PICK sel : ExportAndReopen(sel)
    BY <1>2
  <2>2. interfaces \in Seq(Interface) /\ interfaces # <<>> /\ records \in Seq(Kept)
    BY <2>1 DEF Base, TypeOK, FormatInv, ExportAndReopen
  <2>3. writePcap(Picked(sel)) \in File
    BY <2>2, PickedOf, Exported
  <2> QED BY <2>1, <2>3 DEF ExportAndReopen
<1>3. CASE ReadRecord
  BY <1>3, RecordStep
<1>4. CASE TruncatedRecord \/ EndOfRecords \/ BadByteOrder \/ TruncatedBlock \/ EndOfBlocks
  BY <1>4, LeavingStep
<1>5. CASE SectionHeader \/ OtherBlock \/ InterfaceDescription \/ TruncatedPacket
  BY <1>5, NoPacketStep
<1>6. CASE EnhancedPacket \/ SimplePacket \/ ObsoletePacket
  BY <1>6, PacketStep
<1> QED BY <1>1, <1>2, <1>3, <1>4, <1>5, <1>6 DEF Next, Pcap, Pcapng

-----------------------------------------------------------------------------
(* What has been read is the packets of the blocks passed *)

Reading == phase \in {"pcap", "pcapng", "read"}

\* Every block passed is whole, and its packet, if it holds one, is the next record;
\* reading ended before a block that is not whole, or after the last.
PacketsInv ==
    Reading =>
        /\ blk \in 1 .. Len(file.blocks) + 1
        /\ Reached(blk - 1)
        /\ {records[i].blk : i \in DOMAIN records} = {k \in 1 .. blk - 1 : HoldsPacket(k)}
        /\ \A i, j \in DOMAIN records : i < j => records[i].blk < records[j].blk
        /\ phase = "read" /\ blk <= Len(file.blocks) => ~Whole(blk)

\* And every record has its bytes inside its block.
SpanInv == Reading => \A i \in DOMAIN records : Span(records[i])

\* How many interfaces the blocks up to k declare, in all sections.
IdbsTo(k) == {j \in 1 .. k : file.blocks[j].type = "IDB"}
CountTo(k) == Cardinality(IdbsTo(k))

\* The i-th interface is of the i-th block that declares one, with its snap length; the base of a section is
\* the number of interfaces the sections before it declare, and a record's index is
\* counted from the base of its own section.
NumberInv ==
    Reading /\ file.format = "pcapng" =>
        /\ \/ /\ Len(interfaces) = CountTo(blk - 1)
              /\ \A i \in DOMAIN interfaces :
                    /\ interfaces[i].blk \in IdbsTo(blk - 1) /\ CountTo(interfaces[i].blk) = i
                    /\ interfaces[i].snap = file.blocks[interfaces[i].blk].snap
           \/ phase = "read" /\ CountTo(blk - 1) = 0
        /\ phase = "pcapng" => ifaceBase = CountTo(SectionOf(blk - 1))
        /\ \A i \in DOMAIN records :
              /\ records[i].blk \in 1 .. blk - 1
              /\ records[i].iface = CountTo(SectionOf(records[i].blk)) + StatedId(records[i].blk)

\* An exported file holds the packets saved and nothing else, and what has been read of
\* it again is its first records.
BackInv ==
    saved # None =>
        /\ phase \in {"pcap", "read"} /\ file.format = "pcap"
        /\ warnings = {} /\ saved \in Seq(Saved)
        /\ Len(file.blocks) = Len(saved)
        /\ file.size = Starts(FirstAt(file), file.blocks)[Len(file.blocks) + 1]
        /\ \A i \in 1 .. Len(saved) :
              /\ file.blocks[i].cap = saved[i].len /\ file.blocks[i].orig = saved[i].orig
              /\ file.blocks[i].ts = Back(saved[i].ts) /\ file.blocks[i].res = TicksPerUs
        /\ Len(records) = blk - 1
        /\ \A i \in 1 .. Len(records) :
              /\ records[i].ts = file.blocks[i].ts * file.blocks[i].res
              /\ records[i].orig = file.blocks[i].orig /\ records[i].cap = file.blocks[i].cap
              /\ records[i].to - records[i].from = records[i].cap
        /\ phase = "read" => blk = Len(file.blocks) + 1

\* What a block is does not change with the step, if the file does not.
LEMMA SameFile ==
    ASSUME file' = file, NEW k, NEW r
    PROVE  /\ Whole(k)' <=> Whole(k)
           /\ HoldsPacket(k)' <=> HoldsPacket(k)
           /\ Reached(k)' <=> Reached(k)
           /\ Span(r)' <=> Span(r)
           /\ StartOf(k)' = StartOf(k) /\ EndOf(k)' = EndOf(k)
           /\ (Truthful(k)' <=> Truthful(k)) /\ Limits(k)' = Limits(k)
<1>1. StartOf(k)' = StartOf(k) /\ EndOf(k)' = EndOf(k)
  BY DEF StartOf, EndOf
<1>2. \A j : Whole(j)' <=> Whole(j)
  BY DEF Whole, StartOf, EndOf
<1>3. HoldsPacket(k)' <=> HoldsPacket(k)
  BY DEF HoldsPacket
<1>4. Reached(k)' <=> Reached(k)
  BY <1>2 DEF Reached
<1>5. \A j : Snap(j)' = Snap(j)
  <2>1. \A j : SectionOf(j)' = SectionOf(j)
    BY DEF SectionOf
  <2>2. \A j : Declared(j)' = Declared(j)
    BY <2>1 DEF Declared
  <2>3. \A j : Least(Declared(j))' = Least(Declared(j))
    BY <2>2 DEF Least
  <2> QED BY <2>2, <2>3 DEF Snap
<1>6. \A j : (Truthful(j)' <=> Truthful(j)) /\ Limits(j)' = Limits(j)
  BY <1>5 DEF Truthful, Limits, RoomOf
<1>7. Span(r)' <=> Span(r)
  BY <1>6 DEF Span, StartOf, EndOf
<1> QED BY <1>1, <1>2, <1>3, <1>4, <1>6, <1>7

\* A record appended is the last.
LEMMA RecordAppended ==
    ASSUME NEW rs \in Seq(Kept), NEW r \in Kept
    PROVE  LET ss == Append(rs, r)
           IN /\ Len(ss) = Len(rs) + 1 /\ Len(rs) \in Nat
              /\ \A i \in 1 .. Len(rs) : ss[i] = rs[i]
              /\ ss[Len(rs) + 1] = r
              /\ DOMAIN rs = 1 .. Len(rs) /\ DOMAIN ss = 1 .. Len(rs) + 1
OBVIOUS

\* In the first state of a loop nothing has been read.
LEMMA BeginPackets ==
    ASSUME NEW f \in File, Begin(f)
    PROVE  PacketsInv' /\ SpanInv'
<1>1. file' = f /\ blk' = 1 /\ records' = <<>> /\ Len(f.blocks) \in Nat
  BY FileFields DEF Begin
<1>2. phase' # "read"
  BY FileFields DEF Begin, Formats
<1>3. DOMAIN records' = {}
  BY <1>1
<1>4. Reached(blk - 1)'
  BY <1>1 DEF Reached
<1>5. PacketsInv'
  BY <1>1, <1>2, <1>3, <1>4 DEF PacketsInv
<1>6. SpanInv'
  BY <1>3 DEF SpanInv
<1> QED BY <1>5, <1>6

\* A turn that goes on passes one block more, with its record.
LEMMA GoesOnPackets ==
    ASSUME Base, PacketsInv, SpanInv, GoesOn,
           phase = "pcapng" /\ Current.type # "IDB" => FirstSnap = Snap(blk)
    PROVE  PacketsInv' /\ SpanInv'
<1>1. /\ Reading /\ phase' = phase /\ phase # "read" /\ file' = file
      /\ blk \in 1 .. Len(file.blocks) /\ blk' = blk + 1 /\ Whole(blk)
  BY DEF GoesOn, Loop, Reading
<1>2. file \in File /\ Len(file.blocks) \in Nat /\ records \in Seq(Kept) /\ blk \in Nat
  <2>1. file \in File /\ records \in Seq(Kept) /\ blk \in Nat
    BY <1>1 DEF Base, TypeOK, FormatInv, Reading
  <2> QED BY <2>1, FileFields
<1>3. /\ Reached(blk - 1)
      /\ {records[i].blk : i \in DOMAIN records} = {k \in 1 .. blk - 1 : HoldsPacket(k)}
      /\ \A i, j \in DOMAIN records : i < j => records[i].blk < records[j].blk
      /\ \A i \in DOMAIN records : Span(records[i])
  BY <1>1 DEF PacketsInv, SpanInv
<1>4. blk' \in 1 .. Len(file'.blocks) + 1
  BY <1>1, <1>2
<1>5. Reached(blk - 1)'
  <2>1. Reached(blk)
    <3>1. \A j \in 1 .. blk : j \in 1 .. blk - 1 \/ j = blk
      BY <1>1, <1>2
    <3> QED BY <1>1, <1>3, <3>1 DEF Reached
  <2>2. blk' - 1 = blk
    BY <1>1, <1>2
  <2>3. \A k : Reached(k)' <=> Reached(k)
    BY <1>1, SameFile
  <2>4. \A j : Whole(j)' <=> Whole(j)
    BY <1>1, SameFile
  <2> QED BY <2>1, <2>2, <2>4 DEF Reached
<1>6. \A k : HoldsPacket(k)' <=> HoldsPacket(k)
  BY <1>1, SameFile
<1>7. /\ \A r : Span(r)' <=> Span(r)
      /\ \A k : (Truthful(k)' <=> Truthful(k)) /\ Limits(k)' = Limits(k)
  BY <1>1, SameFile
<1>8. CASE HoldsPacket(blk)
  <2>1. PICK r \in Kept : records' = Append(records, r) /\ Made(r)
    BY <1>8 DEF GoesOn
  <2>2. /\ Len(records) \in Nat
        /\ \A i \in 1 .. Len(records) : records'[i] = records[i]
        /\ records'[Len(records) + 1] = r
        /\ DOMAIN records = 1 .. Len(records) /\ DOMAIN records' = 1 .. Len(records) + 1
    BY <1>2, <2>1, RecordAppended
  <2>3. r.blk = blk /\ Span(r)
    <3>1. Current.type # "IDB"
      BY <1>8 DEF HoldsPacket, Current
    <3> QED BY <2>1, <3>1 DEF Made
  <2>4. \A i \in DOMAIN records : records[i].blk \in 1 .. blk - 1
    BY <1>3
  <2>5. {records'[i].blk : i \in DOMAIN records'} = {k \in 1 .. blk : HoldsPacket(k)}
    <3>1. \A i \in DOMAIN records' : i \in DOMAIN records \/ i = Len(records) + 1
      BY <2>2
    <3>2. \A k \in 1 .. blk : k \in 1 .. blk - 1 \/ k = blk
      BY <1>1, <1>2
    <3>3. {records'[i].blk : i \in DOMAIN records'} = {records[i].blk : i \in DOMAIN records} \cup {blk}
      BY <2>2, <2>3, <3>1
    <3>4. {k \in 1 .. blk : HoldsPacket(k)} = {k \in 1 .. blk - 1 : HoldsPacket(k)} \cup {blk}
      BY <1>1, <1>2, <1>8, <3>2
    <3> QED BY <1>3, <3>3, <3>4
  <2>6. \A i, j \in DOMAIN records' : i < j => records'[i].blk < records'[j].blk
    <3>1. SUFFICES ASSUME NEW i \in DOMAIN records', NEW j \in DOMAIN records', i < j
                   PROVE  records'[i].blk < records'[j].blk
      OBVIOUS
    <3>2. i \in DOMAIN records /\ (j \in DOMAIN records \/ j = Len(records) + 1)
      BY <2>2, <3>1
    <3>3. CASE j \in DOMAIN records
      BY <1>3, <2>2, <3>1, <3>2, <3>3
    <3>4. CASE j = Len(records) + 1
      <4>1. records'[j].blk = blk /\ records'[i].blk \in 1 .. blk - 1
        BY <2>2, <2>3, <2>4, <3>2, <3>4
      <4> QED BY <1>2, <4>1
    <3> QED BY <3>2, <3>3, <3>4
  <2>7. \A i \in DOMAIN records' : Span(records'[i])
    <3>1. \A i \in DOMAIN records' : i \in DOMAIN records \/ i = Len(records) + 1
      BY <2>2
    <3> QED BY <1>3, <2>2, <2>3, <3>1
  <2>8. blk' - 1 = blk
    BY <1>1, <1>2
  <2>9. PacketsInv'
    <3>1. {records[i].blk : i \in DOMAIN records}' = {k \in 1 .. blk - 1 : HoldsPacket(k)}'
      BY <1>6, <2>5, <2>8
    <3> QED BY <1>1, <1>4, <1>5, <2>6, <3>1 DEF PacketsInv
  <2>10. SpanInv'
    BY <1>1, <1>7, <2>7 DEF SpanInv, Span, StartOf, EndOf
  <2> QED BY <2>9, <2>10
<1>9. CASE ~HoldsPacket(blk)
  <2>1. records' = records
    BY <1>9 DEF GoesOn
  <2>2. {k \in 1 .. blk : HoldsPacket(k)} = {k \in 1 .. blk - 1 : HoldsPacket(k)}
    <3>1. \A k \in 1 .. blk : k \in 1 .. blk - 1 \/ k = blk
      BY <1>1, <1>2
    <3>2. \A k \in 1 .. blk - 1 : k \in 1 .. blk
      BY <1>1, <1>2
    <3> QED BY <1>9, <3>1, <3>2
  <2>3. blk' - 1 = blk
    BY <1>1, <1>2
  <2>4. PacketsInv'
    <3>1. {records[i].blk : i \in DOMAIN records}' = {k \in 1 .. blk - 1 : HoldsPacket(k)}'
      BY <1>3, <1>6, <2>1, <2>2, <2>3
    <3> QED BY <1>1, <1>3, <1>4, <1>5, <2>1, <3>1 DEF PacketsInv
  <2>5. SpanInv'
    BY <1>1, <1>3, <1>7, <2>1 DEF SpanInv, Span, StartOf, EndOf
  <2> QED BY <2>4, <2>5
<1> QED BY <1>8, <1>9

\* Leaving the loop adds none.
LEMMA LeavesPackets ==
    ASSUME Base, PacketsInv, SpanInv, Leaves
    PROVE  PacketsInv' /\ SpanInv'
<1>1. /\ Reading /\ file' = file /\ blk' = blk /\ records' = records
      /\ (blk \in 1 .. Len(file.blocks) => ~Whole(blk))
  BY DEF Leaves, Loop, Reading
<1>2. /\ \A k : HoldsPacket(k)' <=> HoldsPacket(k)
      /\ \A k : Whole(k)' <=> Whole(k)
      /\ \A r : Span(r)' <=> Span(r)
      /\ \A k : (Truthful(k)' <=> Truthful(k)) /\ Limits(k)' = Limits(k)
  BY <1>1, SameFile
<1>3. /\ Reached(blk - 1)
      /\ {records[i].blk : i \in DOMAIN records} = {k \in 1 .. blk - 1 : HoldsPacket(k)}
      /\ \A i, j \in DOMAIN records : i < j => records[i].blk < records[j].blk
      /\ \A i \in DOMAIN records : Span(records[i])
      /\ blk \in 1 .. Len(file.blocks) + 1
  BY <1>1 DEF PacketsInv, SpanInv
<1>4. Len(file.blocks) \in Nat
  BY <1>1, FileFields DEF Base, TypeOK, Reading
<1>5. PacketsInv'
  <2>1. Reached(blk - 1)'
    BY <1>1, <1>2, <1>3 DEF Reached
  <2>2. {records[i].blk : i \in DOMAIN records}' = {k \in 1 .. blk - 1 : HoldsPacket(k)}'
    BY <1>1, <1>2, <1>3
  <2>3. blk' <= Len(file'.blocks) => ~Whole(blk)'
    BY <1>1, <1>3, <1>4 DEF Whole, EndOf, StartOf
  <2> QED BY <1>1, <1>3, <2>1, <2>2, <2>3 DEF PacketsInv
<1>6. SpanInv'
  BY <1>1, <1>2, <1>3 DEF SpanInv, Span, StartOf, EndOf
<1> QED BY <1>5, <1>6

-----------------------------------------------------------------------------
(* Sections and the interfaces they declare *)

\* The section header that block k is after, 0 if there is none.
IsSection(j, k) == /\ j \in 0 .. k
                   /\ j = 0 \/ file.blocks[j].type = "SHB"
                   /\ \A m \in j + 1 .. k : file.blocks[m].type # "SHB"

\* There is one for every block.
LEMMA SectionIs ==
    ASSUME NEW k \in Nat
    PROVE  IsSection(SectionOf(k), k)
<1> DEFINE S == {n \in Nat : \E j : IsSection(j, n)}
<1>1. 0 \in S
  <2>1. IsSection(0, 0)
    BY DEF IsSection
  <2> QED BY <2>1
<1>2. ASSUME NEW n \in Nat, n \in S PROVE n + 1 \in S
  <2>1. PICK j : IsSection(j, n)
    BY <1>2
  <2>2. n + 1 \in Nat
    OBVIOUS
  <2>3. CASE file.blocks[n + 1].type = "SHB"
    <3>1. IsSection(n + 1, n + 1)
      BY <2>3 DEF IsSection
    <3> QED BY <2>2, <3>1
  <2>4. CASE file.blocks[n + 1].type # "SHB"
    <3>1. j \in 0 .. n + 1
      BY <2>1 DEF IsSection
    <3>2. \A m \in j + 1 .. n + 1 : m \in j + 1 .. n \/ m = n + 1
      BY <3>1
    <3>3. IsSection(j, n + 1)
      BY <2>1, <2>4, <3>1, <3>2 DEF IsSection
    <3> QED BY <2>2, <3>3
  <2> QED BY <2>3, <2>4
<1> HIDE DEF S
<1>3. Nat \subseteq S
  BY <1>1, <1>2, NatSet
<1> USE DEF S
<1>4. \E j \in 0 .. k : IsSection(j, k)
  <2>1. k \in S
    <3> HIDE DEF S
    <3> QED BY <1>3
  <2> QED BY <2>1 DEF IsSection
<1> QED BY <1>4 DEF SectionOf, IsSection

\* And only one.
LEMMA SectionUnique ==
    ASSUME NEW k \in Nat, NEW i, NEW j, IsSection(i, k), IsSection(j, k)
    PROVE  i = j
<1>1. i \in 0 .. k /\ j \in 0 .. k
  BY DEF IsSection
<1>2. CASE i < j
  <2>1. j \in i + 1 .. k /\ j # 0
    BY <1>1, <1>2
  <2> QED BY <2>1 DEF IsSection
<1>3. CASE j < i
  <2>1. i \in j + 1 .. k /\ i # 0
    BY <1>1, <1>3
  <2> QED BY <2>1 DEF IsSection
<1> QED BY <1>1, <1>2, <1>3

\* A section header begins its own section, any other block is in the section of the
\* block before it; the blocks since a section header are all in its section.
LEMMA SectionSteps ==
    ASSUME NEW k \in Nat \ {0}
    PROVE  /\ SectionOf(k) \in 0 .. k
           /\ file.blocks[k].type = "SHB" => SectionOf(k) = k
           /\ file.blocks[k].type # "SHB" => SectionOf(k) = SectionOf(k - 1)
           /\ \A j \in SectionOf(k) .. k : SectionOf(j) = SectionOf(k)
<1>1. k \in Nat /\ k - 1 \in Nat
  OBVIOUS
<1>2. IsSection(SectionOf(k), k) /\ IsSection(SectionOf(k - 1), k - 1)
  BY <1>1, SectionIs
<1>3. ASSUME file.blocks[k].type = "SHB" PROVE SectionOf(k) = k
  <2>1. IsSection(k, k)
    BY <1>1, <1>3 DEF IsSection
  <2> QED BY <1>1, <1>2, <2>1, SectionUnique
<1>4. ASSUME file.blocks[k].type # "SHB" PROVE SectionOf(k) = SectionOf(k - 1)
  <2> DEFINE i == SectionOf(k - 1)
  <2>1. IsSection(i, k - 1)
    BY <1>2
  <2> HIDE DEF i
  <2>2. i \in 0 .. k
    BY <1>1, <2>1 DEF IsSection
  <2>3. \A m \in i + 1 .. k : m \in i + 1 .. k - 1 \/ m = k
    BY <1>1, <2>2
  <2>4. IsSection(i, k)
    BY <1>4, <2>1, <2>2, <2>3 DEF IsSection
  <2> QED BY <1>1, <1>2, <2>4, SectionUnique DEF i
<1>5. ASSUME NEW j \in SectionOf(k) .. k PROVE SectionOf(j) = SectionOf(k)
  <2> DEFINE i == SectionOf(k)
  <2>1. IsSection(i, k) /\ i \in 0 .. k
    BY <1>2 DEF IsSection
  <2>2. j \in i .. k
    BY <1>5
  <2> HIDE DEF i
  <2>3. j \in Nat /\ i \in 0 .. j
    BY <2>1, <2>2
  <2>4. \A m \in i + 1 .. j : m \in i + 1 .. k
    BY <2>1, <2>2
  <2>5. IsSection(i, j)
    BY <2>1, <2>3, <2>4 DEF IsSection
  <2>6. IsSection(SectionOf(j), j)
    BY <2>3, SectionIs
  <2> QED BY <2>3, <2>5, <2>6, SectionUnique DEF i
<1>6. SectionOf(k) \in 0 .. k
  BY <1>2 DEF IsSection
<1> QED BY <1>3, <1>4, <1>5, <1>6

\* The count of declared interfaces: it begins at 0 and grows by one at each declaration.
LEMMA Counted ==
    ASSUME NEW k \in Nat
    PROVE  /\ IsFiniteSet(IdbsTo(k)) /\ CountTo(k) \in Nat
           /\ \A j \in 0 .. k : IdbsTo(j) \subseteq IdbsTo(k) /\ CountTo(j) <= CountTo(k)
<1>1. IsFiniteSet(1 .. k)
  BY FS_Interval
<1>2. IsFiniteSet(IdbsTo(k))
  BY <1>1, FS_Subset DEF IdbsTo
<1>3. CountTo(k) \in Nat
  BY <1>2, FS_CardinalityType DEF CountTo
<1>4. ASSUME NEW j \in 0 .. k PROVE IdbsTo(j) \subseteq IdbsTo(k) /\ CountTo(j) <= CountTo(k)
  <2>1. IdbsTo(j) \subseteq IdbsTo(k)
    BY DEF IdbsTo
  <2> QED BY <1>2, <2>1, FS_Subset DEF CountTo
<1> QED BY <1>2, <1>3, <1>4

\* One block more counts one if it declares an interface.
LEMMA CountSteps ==
    ASSUME NEW k \in Nat \ {0}
    PROVE  /\ CountTo(0) = 0
           /\ file.blocks[k].type = "IDB" => CountTo(k) = CountTo(k - 1) + 1
           /\ file.blocks[k].type # "IDB" => CountTo(k) = CountTo(k - 1)
<1>1. k \in Nat /\ k - 1 \in Nat
  OBVIOUS
<1>2. CountTo(0) = 0
  <2>1. IdbsTo(0) = {}
    BY DEF IdbsTo
  <2> QED BY <2>1, FS_EmptySet DEF CountTo
<1>3. \A j \in 1 .. k : j \in 1 .. k - 1 \/ j = k
  BY <1>1
<1>4. \A j \in 1 .. k - 1 : j \in 1 .. k /\ j # k
  BY <1>1
<1>5. ASSUME file.blocks[k].type = "IDB" PROVE CountTo(k) = CountTo(k - 1) + 1
  <2>1. k \in 1 .. k
    BY <1>1
  <2>2. IdbsTo(k) = IdbsTo(k - 1) \cup {k} /\ k \notin IdbsTo(k - 1)
    BY <1>3, <1>4, <1>5, <2>1 DEF IdbsTo
  <2>3. IsFiniteSet(IdbsTo(k - 1))
    BY <1>1, Counted
  <2> QED BY <2>2, <2>3, FS_AddElement DEF CountTo
<1>6. ASSUME file.blocks[k].type # "IDB" PROVE CountTo(k) = CountTo(k - 1)
  <2>1. IdbsTo(k) = IdbsTo(k - 1)
    BY <1>3, <1>4, <1>6 DEF IdbsTo
  <2> QED BY <2>1 DEF CountTo
<1> QED BY <1>2, <1>5, <1>6

\* What a section declares up to a block, and the position of an interface in it.
LEMMA DeclaredCount ==
    ASSUME NEW k \in Nat \ {0}
    PROVE  /\ CountTo(SectionOf(k)) \in Nat
           /\ Cardinality(Declared(k)) = CountTo(k) - CountTo(SectionOf(k))
           /\ \A j \in IdbsTo(k) : CountTo(j) > CountTo(SectionOf(k)) =>
                 /\ j \in Declared(k)
                 /\ Cardinality(Declared(j)) = CountTo(j) - CountTo(SectionOf(k))
<1>1. SectionOf(k) \in 0 .. k
  BY SectionSteps
<1>2. ASSUME NEW m \in Nat \ {0}
      PROVE  Cardinality(Declared(m)) = CountTo(m) - CountTo(SectionOf(m))
  <2> DEFINE s == SectionOf(m)
  <2>1. s \in 0 .. m
    BY SectionSteps
  <2> HIDE DEF s
  <2>2. Declared(m) = IdbsTo(m) \ IdbsTo(s)
    <3>1. \A j : j \in s + 1 .. m <=> j \in 1 .. m /\ j \notin 1 .. s
      BY <2>1
    <3> QED BY <3>1 DEF Declared, IdbsTo, s
  <2>3. IsFiniteSet(IdbsTo(m)) /\ IdbsTo(s) \subseteq IdbsTo(m)
    BY <2>1, Counted
  <2>4. IdbsTo(m) \cap IdbsTo(s) = IdbsTo(s)
    BY <2>3
  <2>5. Cardinality(IdbsTo(m) \ IdbsTo(s)) = Cardinality(IdbsTo(m)) - Cardinality(IdbsTo(m) \cap IdbsTo(s))
    BY <2>3, FS_Difference
  <2> QED BY <2>2, <2>4, <2>5 DEF CountTo, s
<1>3. ASSUME NEW j \in IdbsTo(k), CountTo(j) > CountTo(SectionOf(k))
      PROVE  /\ j \in Declared(k)
             /\ Cardinality(Declared(j)) = CountTo(j) - CountTo(SectionOf(k))
  <2>1. j \in 1 .. k /\ file.blocks[j].type = "IDB"
    BY DEF IdbsTo
  <2>2. ~(j <= SectionOf(k))
    <3>1. SUFFICES ASSUME j <= SectionOf(k) PROVE FALSE
      OBVIOUS
    <3>2. CountTo(j) <= CountTo(SectionOf(k)) /\ CountTo(j) \in Nat /\ CountTo(SectionOf(k)) \in Nat
      BY <1>1, <2>1, <3>1, Counted
    <3> QED BY <1>3, <3>2
  <2>3. j \in SectionOf(k) + 1 .. k /\ j \in SectionOf(k) .. k /\ j \in Nat \ {0}
    BY <1>1, <2>1, <2>2
  <2>4. SectionOf(j) = SectionOf(k)
    BY <2>3, SectionSteps
  <2> QED BY <1>2, <2>1, <2>3, <2>4 DEF Declared
<1>4. CountTo(SectionOf(k)) \in Nat
  BY <1>1, Counted
<1> QED BY <1>2, <1>3, <1>4

\* Sections and counts stay, if the file does.
LEMMA SameCounts ==
    ASSUME file' = file, NEW k
    PROVE  /\ SectionOf(k)' = SectionOf(k) /\ IdbsTo(k)' = IdbsTo(k) /\ CountTo(k)' = CountTo(k)
           /\ CountTo(SectionOf(k))' = CountTo(SectionOf(k))
           /\ StatedId(k)' = StatedId(k)
<1>1. SectionOf(k)' = SectionOf(k)
  BY DEF SectionOf
<1>2. \A m : IdbsTo(m)' = IdbsTo(m) /\ CountTo(m)' = CountTo(m)
  BY DEF IdbsTo, CountTo
<1>3. StatedId(k)' = StatedId(k)
  BY DEF StatedId
<1> QED BY <1>1, <1>2, <1>3 DEF CountTo, IdbsTo

\* A fresh loop has declared nothing yet.
LEMMA BeginNumbers ==
    ASSUME NEW f \in File, Begin(f)
    PROVE  NumberInv'
<1>1. SUFFICES ASSUME file'.format = "pcapng" PROVE NumberInv'
  BY DEF NumberInv
<1>2. file' = f /\ blk' = 1 /\ interfaces' = <<>> /\ records' = <<>> /\ ifaceBase' = 0
  BY <1>1 DEF Begin
<1>3. CountTo(blk - 1)' = 0 /\ SectionOf(blk - 1)' = 0 /\ CountTo(SectionOf(blk - 1))' = 0
  <2>1. CountTo(0)' = 0
    <3>1. IdbsTo(0)' = {}
      BY DEF IdbsTo
    <3> QED BY <3>1, FS_EmptySet DEF CountTo
  <2>2. SectionOf(0)' = 0
    BY DEF SectionOf
  <2>3. blk' - 1 = 0
    BY <1>2
  <2> QED BY <2>1, <2>2, <2>3 DEF CountTo, IdbsTo, SectionOf
<1>4. DOMAIN interfaces' = {} /\ DOMAIN records' = {} /\ Len(interfaces') = 0
  BY <1>2
<1> QED BY <1>2, <1>3, <1>4 DEF NumberInv

\* Leaving the loop, a default interface is made only if none was declared.
LEMMA LeavesNumbers ==
    ASSUME Base, NumberInv, Leaves
    PROVE  NumberInv'
<1>1. SUFFICES ASSUME file'.format = "pcapng" PROVE NumberInv'
  BY DEF NumberInv
<1>2. /\ Reading /\ file' = file /\ blk' = blk /\ records' = records /\ phase' = "read" /\ phase # "read"
      /\ (interfaces # <<>> => interfaces' = interfaces)
  BY DEF Leaves, Loop, Reading
<1>3. /\ Len(interfaces) = CountTo(blk - 1)
      /\ \A i \in DOMAIN interfaces :
            /\ interfaces[i].blk \in IdbsTo(blk - 1) /\ CountTo(interfaces[i].blk) = i
            /\ interfaces[i].snap = file.blocks[interfaces[i].blk].snap
      /\ \A i \in DOMAIN records :
            /\ records[i].blk \in 1 .. blk - 1
            /\ records[i].iface = CountTo(SectionOf(records[i].blk)) + StatedId(records[i].blk)
  BY <1>1, <1>2 DEF NumberInv
<1>4. \A k : /\ IdbsTo(k)' = IdbsTo(k) /\ CountTo(k)' = CountTo(k)
             /\ CountTo(SectionOf(k))' = CountTo(SectionOf(k)) /\ StatedId(k)' = StatedId(k)
  BY <1>2, SameCounts
<1>5. \A i \in DOMAIN records' :
            /\ records'[i].blk \in 1 .. blk' - 1
            /\ records'[i].iface = (CountTo(SectionOf(records[i].blk)) + StatedId(records[i].blk))'
  BY <1>2, <1>3, <1>4
<1>6. CASE interfaces = <<>>
  <2>1. CountTo(blk - 1)' = 0
    BY <1>2, <1>3, <1>6 DEF CountTo, IdbsTo
  <2> QED BY <1>2, <1>5, <2>1 DEF NumberInv
<1>7. CASE interfaces # <<>>
  <2>1. interfaces' = interfaces
    BY <1>2, <1>7
  <2>2. /\ Len(interfaces') = CountTo(blk - 1)'
        /\ \A i \in DOMAIN interfaces' :
              /\ (interfaces[i].blk \in IdbsTo(blk - 1) /\ CountTo(interfaces[i].blk) = i)'
              /\ interfaces'[i].snap = file'.blocks[interfaces'[i].blk].snap
    BY <1>2, <1>3, <2>1 DEF CountTo, IdbsTo
  <2> QED BY <1>2, <1>5, <2>2 DEF NumberInv
<1> QED BY <1>6, <1>7

\* A block passed keeps the numbering: a declaration takes the next number, a section
\* header makes the number of interfaces so far the base, and a record counts from it.
LEMMA GoesOnNumbers ==
    ASSUME Base, NumberInv, GoesOn
    PROVE  NumberInv'
<1>1. SUFFICES ASSUME file'.format = "pcapng" PROVE NumberInv'
  BY DEF NumberInv
<1>2. /\ Reading /\ file' = file /\ blk' = blk + 1 /\ phase' = phase /\ phase # "read"
      /\ blk \in 1 .. Len(file.blocks) /\ file.format = "pcapng"
  BY <1>1 DEF GoesOn, Loop, Reading
<1>3. phase = "pcapng" /\ file \in File /\ records \in Seq(Kept) /\ interfaces \in Seq(Interface)
  BY <1>2 DEF Base, TypeOK, FormatInv, Reading, Loop
<1>4. blk \in Nat \ {0} /\ blk - 1 \in Nat /\ blk' - 1 = blk
  <2>1. Len(file.blocks) \in Nat
    BY <1>3, FileFields
  <2> QED BY <1>2, <2>1
<1>5. /\ Len(interfaces) = CountTo(blk - 1)
      /\ \A i \in DOMAIN interfaces :
            /\ interfaces[i].blk \in IdbsTo(blk - 1) /\ CountTo(interfaces[i].blk) = i
            /\ interfaces[i].snap = file.blocks[interfaces[i].blk].snap
      /\ ifaceBase = CountTo(SectionOf(blk - 1))
      /\ \A i \in DOMAIN records :
            /\ records[i].blk \in 1 .. blk - 1
            /\ records[i].iface = CountTo(SectionOf(records[i].blk)) + StatedId(records[i].blk)
  BY <1>2, <1>3 DEF NumberInv
<1>6. Current.type = file.blocks[blk].type
  BY DEF Current
<1>7. BaseNow = CountTo(SectionOf(blk))
  <2>1. CASE Current.type = "SHB"
    <3>1. SectionOf(blk) = blk /\ CountTo(blk) = CountTo(blk - 1)
      BY <1>4, <1>6, <2>1, SectionSteps, CountSteps
    <3> QED BY <1>5, <2>1, <3>1 DEF BaseNow
  <2>2. CASE Current.type # "SHB"
    <3>1. SectionOf(blk) = SectionOf(blk - 1)
      BY <1>4, <1>6, <2>2, SectionSteps
    <3> QED BY <1>5, <2>2, <3>1 DEF BaseNow
  <2> QED BY <2>1, <2>2
<1>8. ifaceBase' = CountTo(SectionOf(blk))
  BY <1>3, <1>7 DEF GoesOn
<1>9. /\ Len(interfaces') = CountTo(blk)
      /\ \A i \in DOMAIN interfaces' :
            /\ interfaces'[i].blk \in IdbsTo(blk) /\ CountTo(interfaces'[i].blk) = i
            /\ interfaces'[i].snap = file.blocks[interfaces'[i].blk].snap
  <2>1. IdbsTo(blk - 1) \subseteq IdbsTo(blk)
    BY <1>4, Counted
  <2>2. CASE Current.type = "IDB"
    <3>1. PICK x \in Interface :
            interfaces' = Append(interfaces, x) /\ x.blk = blk /\ x.snap = file.blocks[blk].snap
      BY <2>2 DEF GoesOn, Current
    <3>2. CountTo(blk) = CountTo(blk - 1) + 1 /\ blk \in IdbsTo(blk)
      <4>1. CountTo(blk) = CountTo(blk - 1) + 1
        BY <1>4, <1>6, <2>2, CountSteps
      <4>2. blk \in 1 .. blk
        BY <1>4
      <4> QED BY <1>6, <2>2, <4>1, <4>2 DEF IdbsTo
    <3>3. /\ Len(interfaces') = Len(interfaces) + 1 /\ Len(interfaces) \in Nat
          /\ \A i \in 1 .. Len(interfaces) : interfaces'[i] = interfaces[i]
          /\ interfaces'[Len(interfaces) + 1] = x
          /\ DOMAIN interfaces' = 1 .. Len(interfaces) + 1 /\ DOMAIN interfaces = 1 .. Len(interfaces)
      BY <1>3, <3>1
    <3>4. ASSUME NEW i \in DOMAIN interfaces'
          PROVE  /\ interfaces'[i].blk \in IdbsTo(blk) /\ CountTo(interfaces'[i].blk) = i
                 /\ interfaces'[i].snap = file.blocks[interfaces'[i].blk].snap
      <4>1. i \in DOMAIN interfaces \/ i = Len(interfaces) + 1
        BY <3>3
      <4>2. CASE i \in DOMAIN interfaces
        BY <1>5, <2>1, <3>3, <4>2
      <4>3. CASE i = Len(interfaces) + 1
        BY <1>5, <3>1, <3>2, <3>3, <4>3
      <4> QED BY <4>1, <4>2, <4>3
    <3> QED BY <1>5, <3>2, <3>3, <3>4
  <2>3. CASE Current.type # "IDB"
    <3>1. interfaces' = interfaces
      BY <2>3 DEF GoesOn
    <3>2. CountTo(blk) = CountTo(blk - 1)
      BY <1>4, <1>6, <2>3, CountSteps
    <3> QED BY <1>5, <2>1, <3>1, <3>2
  <2> QED BY <2>2, <2>3
<1>10. \A i \in DOMAIN records' :
            /\ records'[i].blk \in 1 .. blk
            /\ records'[i].iface = CountTo(SectionOf(records'[i].blk)) + StatedId(records'[i].blk)
  <2>1. CASE HoldsPacket(blk)
    <3>1. PICK r \in Kept : records' = Append(records, r) /\ Made(r)
      BY <2>1 DEF GoesOn
    <3>2. /\ Len(records) \in Nat
          /\ \A i \in 1 .. Len(records) : records'[i] = records[i]
          /\ records'[Len(records) + 1] = r
          /\ DOMAIN records = 1 .. Len(records) /\ DOMAIN records' = 1 .. Len(records) + 1
      BY <1>3, <3>1, RecordAppended
    <3>3. r.blk = blk /\ r.iface = CountTo(SectionOf(blk)) + StatedId(blk)
      BY <1>3, <1>7, <3>1 DEF Made
    <3>4. SUFFICES ASSUME NEW i \in DOMAIN records'
          PROVE  /\ records'[i].blk \in 1 .. blk
                 /\ records'[i].iface = CountTo(SectionOf(records'[i].blk)) + StatedId(records'[i].blk)
      OBVIOUS
    <3>5. i \in DOMAIN records \/ i = Len(records) + 1
      BY <3>2
    <3>6. CASE i \in DOMAIN records
      <4>1. records'[i] = records[i] /\ records[i].blk \in 1 .. blk - 1
        BY <1>5, <3>2, <3>6
      <4>2. records[i].blk \in 1 .. blk
        BY <1>4, <4>1
      <4> QED BY <1>5, <3>6, <4>1, <4>2
    <3>7. CASE i = Len(records) + 1
      BY <1>4, <3>2, <3>3, <3>7
    <3> QED BY <3>5, <3>6, <3>7
  <2>2. CASE ~HoldsPacket(blk)
    <3>1. records' = records
      BY <2>2 DEF GoesOn
    <3>2. \A k \in 1 .. blk - 1 : k \in 1 .. blk
      BY <1>4
    <3> QED BY <1>5, <3>1, <3>2
  <2> QED BY <2>1, <2>2
<1>11. \A k : /\ IdbsTo(k)' = IdbsTo(k) /\ CountTo(k)' = CountTo(k)
              /\ CountTo(SectionOf(k))' = CountTo(SectionOf(k)) /\ StatedId(k)' = StatedId(k)
  BY <1>2, SameCounts
<1>12. /\ Len(interfaces') = CountTo(blk - 1)'
       /\ \A i \in DOMAIN interfaces' :
             /\ (interfaces[i].blk \in IdbsTo(blk - 1) /\ CountTo(interfaces[i].blk) = i)'
             /\ interfaces'[i].snap = file'.blocks[interfaces'[i].blk].snap
  BY <1>2, <1>4, <1>9 DEF CountTo, IdbsTo
<1>13. ifaceBase' = CountTo(SectionOf(blk - 1))'
  BY <1>2, <1>4, <1>8, <1>11
<1>14. \A i \in DOMAIN records' :
            /\ records'[i].blk \in 1 .. blk' - 1
            /\ records'[i].iface = (CountTo(SectionOf(records[i].blk)) + StatedId(records[i].blk))'
  BY <1>2, <1>4, <1>10, <1>11
<1> QED BY <1>12, <1>13, <1>14 DEF NumberInv

\* The snap length a simple packet is compared with is the one of the first interface
\* its own section has declared.
LEMMA SnapOfSection ==
    ASSUME Base, NumberInv, phase = "pcapng", blk \in 1 .. Len(file.blocks), Current.type # "IDB"
    PROVE  FirstSnap = Snap(blk)
<1>1. file \in File /\ file.format = "pcapng" /\ interfaces \in Seq(Interface)
  BY DEF Base, TypeOK, FormatInv, Loop
<1>2. blk \in Nat \ {0} /\ blk - 1 \in Nat
  BY <1>1, FileFields
<1>3. /\ Len(interfaces) = CountTo(blk - 1) /\ ifaceBase = CountTo(SectionOf(blk - 1))
      /\ \A i \in DOMAIN interfaces :
            /\ interfaces[i].blk \in IdbsTo(blk - 1) /\ CountTo(interfaces[i].blk) = i
            /\ interfaces[i].snap = file.blocks[interfaces[i].blk].snap
  BY <1>1 DEF NumberInv, Reading
<1>4. CountTo(blk) = CountTo(blk - 1)
  BY <1>2, CountSteps DEF Current
<1> DEFINE b == CountTo(SectionOf(blk))
<1>5. BaseNow = b
  <2>1. CASE Current.type = "SHB"
    <3>1. SectionOf(blk) = blk
      BY <1>2, <2>1, SectionSteps DEF Current
    <3> QED BY <1>3, <1>4, <2>1, <3>1 DEF BaseNow
  <2>2. CASE Current.type # "SHB"
    <3>1. SectionOf(blk) = SectionOf(blk - 1)
      BY <1>2, <2>2, SectionSteps DEF Current
    <3> QED BY <1>3, <2>2, <3>1 DEF BaseNow
  <2> QED BY <2>1, <2>2
<1>6. /\ SectionOf(blk) \in 0 .. blk
      /\ b \in Nat /\ CountTo(blk) \in Nat /\ b <= CountTo(blk)
      /\ Cardinality(Declared(blk)) = CountTo(blk) - b
      /\ \A j \in IdbsTo(blk) : CountTo(j) > b => j \in Declared(blk)
  BY <1>2, SectionSteps, Counted, DeclaredCount
<1>7. IsFiniteSet(Declared(blk))
  <2>1. IsFiniteSet(SectionOf(blk) + 1 .. blk)
    BY <1>2, <1>6, FS_Interval
  <2> QED BY <2>1, FS_Subset DEF Declared
<1>8. CASE b = CountTo(blk)
  <2>1. Declared(blk) = {}
    BY <1>6, <1>7, <1>8, FS_EmptySet
  <2> QED BY <1>3, <1>4, <1>5, <1>6, <1>8, <2>1 DEF FirstSnap, Snap
<1>9. CASE b # CountTo(blk)
  <2> DEFINE j == interfaces[b + 1].blk
  <2>1. b < CountTo(blk) /\ b + 1 \in DOMAIN interfaces
    BY <1>1, <1>3, <1>4, <1>6, <1>9
  <2>2. /\ j \in IdbsTo(blk - 1) /\ CountTo(j) = b + 1
        /\ FirstSnap = file.blocks[j].snap
    BY <1>3, <1>4, <1>5, <2>1 DEF FirstSnap
  <2> HIDE DEF j
  <2>3. IdbsTo(blk - 1) \subseteq IdbsTo(blk)
    BY <1>2, Counted
  <2>4. j \in Declared(blk)
    BY <1>6, <2>2, <2>3
  <2>5. ASSUME NEW m \in Declared(blk) PROVE j <= m
    <3>1. m \in SectionOf(blk) + 1 .. blk /\ file.blocks[m].type = "IDB" /\ j \in SectionOf(blk) + 1 .. blk
      BY <2>4 DEF Declared
    <3>2. SUFFICES ASSUME m < j PROVE FALSE
      BY <1>2, <1>6, <3>1
    <3>3. /\ m \in Nat \ {0} /\ m - 1 \in Nat /\ SectionOf(blk) \in 0 .. m - 1
          /\ j \in Nat \ {0} /\ j - 1 \in Nat /\ m \in 0 .. j - 1 /\ file.blocks[j].type = "IDB"
      BY <1>2, <1>6, <2>4, <3>1, <3>2 DEF Declared
    <3>4. CountTo(m) = CountTo(m - 1) + 1 /\ CountTo(j) = CountTo(j - 1) + 1
      BY <3>1, <3>3, CountSteps
    <3>5. /\ b <= CountTo(m - 1) /\ CountTo(m - 1) \in Nat
          /\ CountTo(m) <= CountTo(j - 1) /\ CountTo(j - 1) \in Nat
      BY <3>3, Counted
    <3> QED BY <1>6, <2>2, <3>4, <3>5
  <2>6. Least(Declared(blk)) = j
    <3> DEFINE First(n) == n \in Declared(blk) /\ \A m \in Declared(blk) : n <= m
               c == Least(Declared(blk))
    <3>1. First(j)
      BY <2>4, <2>5
    <3>2. First(c)
      BY <3>1 DEF Least
    <3>3. Declared(blk) \subseteq Nat
      BY <1>2, <1>6 DEF Declared
    <3> HIDE DEF c
    <3>4. c <= j /\ j <= c /\ c \in Nat /\ j \in Nat
      BY <3>1, <3>2, <3>3
    <3>5. c = j
      BY <3>4
    <3> QED BY <3>5 DEF c
  <2> QED BY <2>2, <2>4, <2>6 DEF Snap
<1> QED BY <1>8, <1>9

-----------------------------------------------------------------------------
(* What is exported is read back *)

\* Before the export there is nothing to read back; OpenFile happens only once.
SavedInv == phase = "idle" => saved = None

\* The export begins a loop over the packets it saved.
LEMMA ReopenedBack ==
    ASSUME Base, NEW sel, ExportAndReopen(sel)
    PROVE  BackInv'
<1>1. interfaces \in Seq(Interface) /\ interfaces # <<>> /\ records \in Seq(Kept)
  BY DEF Base, TypeOK, FormatInv, ExportAndReopen
<1> DEFINE rs == Picked(sel)
           f == writePcap(rs)
<1>2. rs \in Seq(Kept)
  BY <1>1, PickedOf
<1>3. saved' = [i \in DOMAIN rs |-> [ts |-> rs[i].ts, len |-> rs[i].to - rs[i].from,
                                     orig |-> rs[i].orig, link |-> InterfaceOf(rs[i]).link]]
      /\ Begin(f)
  BY DEF ExportAndReopen
<1> HIDE DEF rs
<1>4. /\ f \in File /\ f.format = "pcap" /\ f.v2 = TRUE /\ f.blocks \in Seq(Block) /\ Len(f.blocks) = Len(rs)
      /\ \A i \in 1 .. Len(rs) : f.blocks[i] = Written(rs[i])
      /\ f.size = Starts(PcapHeader, f.blocks)[Len(f.blocks) + 1]
  BY <1>1, <1>2, Exported
<1> HIDE DEF f
<1>5. Base'
  BY ReopenedBase
<1>6. saved' # None => saved' \in Seq(Saved)
  BY <1>5 DEF Base, TypeOK
<1>7. Len(rs) \in Nat /\ DOMAIN rs = 1 .. Len(rs)
  BY <1>2
<1>8. DOMAIN saved' = 1 .. Len(rs) /\ \A i \in 1 .. Len(rs) :
          saved'[i].ts = rs[i].ts /\ saved'[i].len = rs[i].to - rs[i].from /\ saved'[i].orig = rs[i].orig
  BY <1>3, <1>7
<1>9. saved' \in Seq(Saved) => Len(saved') = Len(rs)
  BY <1>7, <1>8
<1>10. f.size >= 2 /\ f.size > 0
  <2>1. /\ Starts(PcapHeader, f.blocks) \in [1 .. Len(f.blocks) + 1 -> Nat]
        /\ Starts(PcapHeader, f.blocks)[1] = PcapHeader
    BY <1>4, StartsUnfold DEF PcapHeader
  <2>2. Len(f.blocks) \in Nat /\ Len(f.blocks) + 1 \in 1 .. Len(f.blocks) + 1 /\ 1 \in 1 .. Len(f.blocks) + 1
    BY <1>4
  <2>3. Starts(PcapHeader, f.blocks)[1] <= Starts(PcapHeader, f.blocks)[Len(f.blocks) + 1]
    BY <1>4, <2>2, StartsGrow DEF PcapHeader
  <2>4. Starts(PcapHeader, f.blocks)[Len(f.blocks) + 1] \in Nat
    BY <2>1, <2>2
  <2> QED BY <1>4, <2>1, <2>3, <2>4 DEF PcapHeader
<1>11. phase' = "pcap" /\ warnings' = {} /\ file' = f /\ blk' = 1 /\ records' = <<>>
  <2>1. f.size \in Nat
    BY <1>4, FileFields
  <2>2. VersionWarning(f) = {}
    BY <1>4, <1>10, <2>1 DEF VersionWarning
  <2> QED BY <1>3, <1>4, <1>10, <2>1, <2>2 DEF Begin
<1>12. ASSUME NEW i \in 1 .. Len(rs)
       PROVE  /\ f.blocks[i].cap = saved'[i].len /\ f.blocks[i].orig = saved'[i].orig
              /\ f.blocks[i].ts = Back(saved'[i].ts) /\ f.blocks[i].res = TicksPerUs
  <2>1. \A r : /\ Written(r).cap = r.to - r.from /\ Written(r).orig = r.orig
               /\ Written(r).ts = Back(r.ts) /\ Written(r).res = TicksPerUs
    BY DEF Written, Back
  <2>2. saved'[i].ts = rs[i].ts /\ saved'[i].len = rs[i].to - rs[i].from /\ saved'[i].orig = rs[i].orig
    BY <1>8
  <2>3. f.blocks[i] = Written(rs[i])
    BY <1>4
  <2> QED BY <2>1, <2>2, <2>3
<1>13. FirstAt(file)' = PcapHeader
  BY <1>4, <1>11 DEF FirstAt
<1>14. file'.size = Starts(FirstAt(file'), file'.blocks)[Len(file'.blocks) + 1]
  BY <1>4, <1>11, <1>13
<1>15. Len(records') = 0 /\ blk' - 1 = 0
  BY <1>11
<1>16. \A i \in 1 .. Len(records') : FALSE
  BY <1>15
<1>17. SUFFICES ASSUME saved' # None PROVE BackInv'
  BY DEF BackInv
<1>18. saved' \in Seq(Saved) /\ Len(saved') = Len(rs)
  BY <1>6, <1>9, <1>17
<1> QED BY <1>4, <1>11, <1>12, <1>14, <1>15, <1>16, <1>18 DEF BackInv

\* In a file that was exported every record is whole, and the file ends with the last.
LEMMA ExportedWhole ==
    ASSUME Base, BackInv, saved # None
    PROVE  /\ file \in File /\ file.format = "pcap" /\ Len(file.blocks) \in Nat /\ file.size \in Nat
           /\ \A k \in 1 .. Len(file.blocks) : Whole(k) /\ HoldsPacket(k) /\ EndOf(k) <= file.size
           /\ file.size = StartOf(Len(file.blocks) + 1)
<1>1. file \in File /\ WellFormed(file) /\ file.format = "pcap"
  BY DEF BackInv, Base, TypeOK, FormatInv
<1>2. file.size = Starts(FirstAt(file), file.blocks)[Len(file.blocks) + 1]
  BY DEF BackInv
<1>3. file.blocks \in Seq(Block) /\ Len(file.blocks) \in Nat /\ FirstAt(file) \in Nat /\ file.size \in Nat
  BY <1>1, FileFields
<1>4. file.size = StartOf(Len(file.blocks) + 1)
  BY <1>2 DEF StartOf
<1>5. ASSUME NEW k \in 1 .. Len(file.blocks)
      PROVE  Whole(k) /\ HoldsPacket(k) /\ EndOf(k) <= file.size
  <2>1. k \in DOMAIN file.blocks /\ k + 1 \in 1 .. Len(file.blocks) + 1 /\ Len(file.blocks) + 1 \in 1 .. Len(file.blocks) + 1
        /\ k + 1 \in 1 .. (Len(file.blocks) + 1)
    BY <1>3
  <2>2. EndOf(k) = StartOf(k + 1)
    BY <1>3, StartsUnfold DEF EndOf, StartOf
  <2>3. StartOf(k + 1) <= StartOf(Len(file.blocks) + 1)
    BY <1>3, <2>1, StartsGrow DEF StartOf
  <2>4. file.blocks[k].type = "REC"
    BY <1>1, <2>1 DEF WellFormed, IsPcap
  <2> QED BY <1>1, <1>4, <2>2, <2>3, <2>4 DEF Whole, HoldsPacket
<1> QED BY <1>1, <1>3, <1>4, <1>5

\* Each record read again is one more of those exported.
LEMMA GoesOnBack ==
    ASSUME Base, BackInv, GoesOn
    PROVE  BackInv'
<1>1. SUFFICES ASSUME saved' # None PROVE BackInv'
  BY DEF BackInv
<1>2. /\ saved' = saved /\ saved # None /\ phase' = phase /\ file' = file /\ blk' = blk + 1 /\ Loop
      /\ blk \in 1 .. Len(file.blocks)
  BY <1>1 DEF GoesOn
<1>3. phase = "pcap" /\ warnings = {} /\ saved \in Seq(Saved) /\ Len(records) = blk - 1
  BY <1>2 DEF BackInv, Loop
<1>4. HoldsPacket(blk) /\ Len(file.blocks) \in Nat /\ records \in Seq(Kept)
  BY <1>2, ExportedWhole DEF Base, FormatInv
<1>5. PICK r \in Kept : records' = Append(records, r) /\ Made(r)
  BY <1>4 DEF GoesOn
<1>6. /\ r.ts = file.blocks[blk].ts * file.blocks[blk].res /\ r.orig = file.blocks[blk].orig
      /\ r.cap = file.blocks[blk].cap /\ r.to - r.from = r.cap
  BY <1>3, <1>5 DEF Made, Current
<1>7. /\ Len(records') = Len(records) + 1 /\ Len(records) \in Nat
      /\ \A i \in 1 .. Len(records) : records'[i] = records[i]
      /\ records'[Len(records) + 1] = r
  BY <1>4, <1>5, RecordAppended
<1>8. blk \in Nat /\ Len(records') = blk' - 1 /\ Len(records) + 1 = blk
  BY <1>2, <1>3, <1>4, <1>7
<1>9. warnings' = {} /\ phase' \in {"pcap", "read"} /\ phase' # "read"
  BY <1>2, <1>3 DEF GoesOn
<1>10. ASSUME NEW i \in 1 .. Len(records')
       PROVE  /\ records'[i].ts = file.blocks[i].ts * file.blocks[i].res
              /\ records'[i].orig = file.blocks[i].orig /\ records'[i].cap = file.blocks[i].cap
              /\ records'[i].to - records'[i].from = records'[i].cap
  <2>1. i \in 1 .. Len(records) \/ i = Len(records) + 1
    BY <1>7
  <2>2. CASE i \in 1 .. Len(records)
    BY <1>2, <1>7, <2>2 DEF BackInv
  <2>3. CASE i = Len(records) + 1
    BY <1>6, <1>7, <1>8, <2>3
  <2> QED BY <2>1, <2>2, <2>3
<1>11. /\ file.format = "pcap" /\ Len(file.blocks) = Len(saved)
       /\ file.size = Starts(FirstAt(file), file.blocks)[Len(file.blocks) + 1]
       /\ \A i \in 1 .. Len(saved) :
             /\ file.blocks[i].cap = saved[i].len /\ file.blocks[i].orig = saved[i].orig
             /\ file.blocks[i].ts = Back(saved[i].ts) /\ file.blocks[i].res = TicksPerUs
  BY <1>2 DEF BackInv
<1>12. file'.size = Starts(FirstAt(file'), file'.blocks)[Len(file'.blocks) + 1]
  BY <1>2, <1>11
<1> QED BY <1>2, <1>3, <1>8, <1>9, <1>10, <1>11, <1>12 DEF BackInv

\* The loop over an exported file ends after the last record, without a warning.
LEMMA RecordsLeftBack ==
    ASSUME Base, BackInv, TruncatedRecord \/ EndOfRecords
    PROVE  BackInv'
<1>1. SUFFICES ASSUME saved' # None PROVE BackInv'
  BY DEF BackInv
<1>2. /\ saved' = saved /\ saved # None /\ phase = "pcap" /\ phase' = "read" /\ file' = file /\ blk' = blk
      /\ records' = records
  BY <1>1 DEF TruncatedRecord, EndOfRecords
<1>3. /\ file \in File /\ file.format = "pcap" /\ Len(file.blocks) \in Nat /\ file.size \in Nat
      /\ \A k \in 1 .. Len(file.blocks) : Whole(k) /\ EndOf(k) <= file.size
      /\ file.size = StartOf(Len(file.blocks) + 1)
  BY <1>2, ExportedWhole
<1>4. blk \in 1 .. Len(file.blocks) + 1 /\ o = StartOf(blk) /\ warnings = {}
  BY <1>2 DEF Base, PlaceInv, Loop, BackInv
<1>5. blk = Len(file.blocks) + 1
  <2>1. Leaves
    BY LeavingStep
  <2>2. ~(blk \in 1 .. Len(file.blocks))
    BY <1>3, <2>1 DEF Leaves
  <2> QED BY <1>3, <1>4, <2>2
<1>6. EndOfRecords
  <2>1. AtEnd(RecordHeader)
    BY <1>3, <1>5 DEF AtEnd
  <2> QED BY <2>1 DEF TruncatedRecord
<1>7. warnings' = {}
  BY <1>3, <1>4, <1>5, <1>6 DEF EndOfRecords, LeftOver
<1>8. /\ Len(file.blocks) = Len(saved) /\ Len(records) = blk - 1 /\ saved \in Seq(Saved)
      /\ file.size = Starts(FirstAt(file), file.blocks)[Len(file.blocks) + 1]
      /\ \A i \in 1 .. Len(saved) :
            /\ file.blocks[i].cap = saved[i].len /\ file.blocks[i].orig = saved[i].orig
            /\ file.blocks[i].ts = Back(saved[i].ts) /\ file.blocks[i].res = TicksPerUs
      /\ \A i \in 1 .. Len(records) :
            /\ records[i].ts = file.blocks[i].ts * file.blocks[i].res
            /\ records[i].orig = file.blocks[i].orig /\ records[i].cap = file.blocks[i].cap
            /\ records[i].to - records[i].from = records[i].cap
  BY <1>2 DEF BackInv
<1>9. file'.size = Starts(FirstAt(file'), file'.blocks)[Len(file'.blocks) + 1]
  BY <1>2, <1>8
<1> QED BY <1>2, <1>3, <1>5, <1>7, <1>8, <1>9 DEF BackInv

-----------------------------------------------------------------------------
(* The invariant of reading, and what it implies *)

\* The inductive invariant.
ReaderInv == Base /\ PacketsInv /\ SpanInv /\ NumberInv /\ BackInv /\ SavedInv /\ StopsAreReported

\* The state before the first file.
LEMMA InitReader == Init => ReaderInv
<1> SUFFICES ASSUME Init PROVE ReaderInv
  OBVIOUS
<1>1. Base
  BY InitBase
<1>2. phase = "idle" /\ saved = None
  BY DEF Init
<1>3. PacketsInv /\ SpanInv /\ NumberInv
  BY <1>2 DEF PacketsInv, SpanInv, NumberInv, Reading
<1>4. BackInv /\ SavedInv /\ StopsAreReported
  BY <1>2 DEF BackInv, SavedInv, StopsAreReported
<1> QED BY <1>1, <1>3, <1>4 DEF ReaderInv

\* Reading stops before the end of the file only with a warning.
LEMMA NextStops ==
    ASSUME Base, StopsAreReported, [Next]_vars
    PROVE  StopsAreReported'
<1>1. SUFFICES ASSUME phase' = "read", warnings' \cap {"order", "truncated", "trailing"} = {}
               PROVE  \/ o' = file'.size
                      \/ file'.format = "pcapng" /\ file'.size - o' < Overhead
                      \/ file'.format = "pcap" /\ "version" \in warnings' /\ file'.size - o' < RecordHeader
  BY DEF StopsAreReported
<1>2. CASE \E f \in File : Begin(f)
  <2>1. phase' # "read"
    BY <1>2, FileFields DEF Begin, Formats
  <2> QED BY <1>1, <2>1
<1>3. CASE UNCHANGED vars
  BY <1>1, <1>3 DEF vars, StopsAreReported
<1>4. CASE GoesOn
  BY <1>1, <1>4 DEF GoesOn, Loop
<1>5. CASE Leaves /\ ~(\E f \in File : Begin(f)) /\ ~UNCHANGED vars
  <2>1. Loop /\ file' = file /\ phase # "read"
    BY <1>5 DEF Leaves, Loop
  <2>2. TruncatedRecord \/ EndOfRecords \/ BadByteOrder \/ TruncatedBlock \/ EndOfBlocks
    <3>1. ~GoesOn
      BY <1>1, <2>1 DEF GoesOn
    <3>2. ~OpenFile /\ ~(\E sel \in SUBSET {records[i].blk : i \in DOMAIN records} : ExportAndReopen(sel))
      BY <2>1 DEF OpenFile, ExportAndReopen, Loop
    <3> QED BY <1>5, <3>1, <3>2, RecordStep, NoPacketStep, PacketStep DEF Next, Pcap, Pcapng
  <2>3. CASE EndOfRecords
    <3>1. warnings' = LeftOver /\ o' = o /\ phase = "pcap" /\ AtEnd(RecordHeader)
      BY <2>3 DEF EndOfRecords
    <3>2. /\ warnings \subseteq {"version"} /\ o = StartOf(blk) /\ blk \in 1 .. Len(file.blocks) + 1
          /\ file \in File /\ WellFormed(file) /\ file.format = "pcap" /\ o \in Nat
      BY <2>1, <3>1 DEF Base, TypeOK, FormatInv, PlaceInv, Loop
    <3>3. Len(file.blocks) \in Nat /\ file.size \in Nat
      BY <3>2, FileFields
    <3>4. CASE warnings = {}
      BY <1>1, <2>1, <3>1, <3>4 DEF LeftOver
    <3>5. CASE warnings # {}
      <4>1. "version" \in warnings'
        BY <3>1, <3>2, <3>5 DEF LeftOver
      <4>2. file.size - o < RecordHeader
        <5>1. CASE blk \in 1 .. Len(file.blocks)
          <6>1. o + RecordHeader > file.size
            BY <3>1, <5>1 DEF AtEnd
          <6> QED BY <3>2, <3>3, <6>1 DEF RecordHeader
        <5>2. CASE blk = Len(file.blocks) + 1
          <6>1. file.size <= o
            BY <3>2, <5>2 DEF WellFormed, StartOf
          <6> QED BY <3>2, <3>3, <6>1 DEF RecordHeader
        <5> QED BY <3>2, <3>3, <5>1, <5>2
      <4> QED BY <2>1, <3>1, <3>2, <4>1, <4>2
    <3> QED BY <3>4, <3>5
  <2>4. CASE TruncatedRecord
    BY <1>1, <2>4 DEF TruncatedRecord
  <2>5. CASE BadByteOrder
    BY <1>1, <2>5 DEF BadByteOrder, Leave
  <2>6. CASE TruncatedBlock
    BY <1>1, <2>6 DEF TruncatedBlock, Leave
  <2>7. CASE EndOfBlocks
    <3>1. phase = "pcapng" /\ AtEnd(Overhead) /\ o' = o
      BY <2>7 DEF EndOfBlocks, Leave
    <3>2. /\ o = StartOf(blk) /\ blk \in 1 .. Len(file.blocks) + 1 /\ o <= file.size
          /\ file \in File /\ WellFormed(file) /\ file.format = "pcapng" /\ o \in Nat
      BY <2>1, <3>1 DEF Base, TypeOK, FormatInv, PlaceInv, Loop
    <3>3. Len(file.blocks) \in Nat /\ file.size \in Nat
      BY <3>2, FileFields
    <3>4. CASE blk \in 1 .. Len(file.blocks)
      <4>1. o + Overhead > file.size
        BY <3>1, <3>4 DEF AtEnd
      <4>2. file.size - o < Overhead
        BY <3>2, <3>3, <4>1 DEF Overhead
      <4> QED BY <2>1, <3>1, <3>2, <4>2
    <3>5. CASE blk = Len(file.blocks) + 1
      <4>1. file.size <= StartOf(Len(file.blocks) + 1)
        BY <3>2 DEF WellFormed, StartOf
      <4> QED BY <2>1, <3>1, <3>2, <3>3, <3>5, <4>1
    <3> QED BY <3>2, <3>3, <3>4, <3>5
  <2> QED BY <2>2, <2>3, <2>4, <2>5, <2>6, <2>7
<1> QED BY <1>2, <1>3, <1>4, <1>5, Steps

\* Every step keeps what is said of the round trip.
LEMMA NextBack ==
    ASSUME Base, BackInv, SavedInv, [Next]_vars
    PROVE  BackInv' /\ SavedInv'
<1>1. CASE OpenFile
  <2>1. saved' = None
    BY <1>1 DEF OpenFile, SavedInv
  <2> QED BY <2>1 DEF BackInv, SavedInv
<1>2. CASE \E sel \in SUBSET {records[i].blk : i \in DOMAIN records} : ExportAndReopen(sel)
  <2>1. BackInv'
    BY <1>2, ReopenedBack
  <2>2. phase' # "idle"
    <3>1. PICK sel : ExportAndReopen(sel)
      BY <1>2
    <3>2. PICK f : Begin(f)
      BY <3>1 DEF ExportAndReopen
    <3>3. interfaces \in Seq(Interface) /\ interfaces # <<>> /\ records \in Seq(Kept)
      BY <3>1 DEF Base, TypeOK, FormatInv, ExportAndReopen
    <3>4. writePcap(Picked(sel)).format = "pcap"
      BY <3>3, PickedOf, Exported
    <3> QED BY <3>1, <3>4 DEF ExportAndReopen, Begin
  <2> QED BY <2>1, <2>2 DEF SavedInv
<1>3. CASE ReadRecord
  <2>1. GoesOn
    BY <1>3, RecordStep
  <2> QED BY <2>1, GoesOnBack DEF GoesOn, SavedInv, Loop
<1>4. CASE TruncatedRecord \/ EndOfRecords
  <2>1. phase' = "read"
    BY <1>4 DEF TruncatedRecord, EndOfRecords
  <2> QED BY <1>4, <2>1, RecordsLeftBack DEF SavedInv
<1>5. CASE Pcapng
  <2>1. phase = "pcapng" /\ saved' = saved /\ phase' # "idle"
    BY <1>5 DEF Pcapng, BadByteOrder, TruncatedBlock, EndOfBlocks, SectionHeader, OtherBlock, InterfaceDescription,
                EnhancedPacket, TruncatedPacket, SimplePacket, ObsoletePacket, Turn, ToNextBlock, InLoop, Leave
  <2>2. saved = None
    BY <2>1 DEF BackInv
  <2> QED BY <2>1, <2>2 DEF BackInv, SavedInv
<1>6. CASE UNCHANGED vars
  <2>1. SavedInv'
    BY <1>6 DEF vars, SavedInv
  <2>2. BackInv'
    BY <1>6 DEF vars, BackInv, FirstAt, Starts, Back, Sec, Usec
  <2> QED BY <2>1, <2>2
<1> QED BY <1>1, <1>2, <1>3, <1>4, <1>5, <1>6 DEF Next, Pcap

\* Every step keeps the whole invariant.
LEMMA NextReader == ReaderInv /\ [Next]_vars => ReaderInv'
<1> SUFFICES ASSUME ReaderInv, [Next]_vars PROVE ReaderInv'
  OBVIOUS
<1>1. Base /\ PacketsInv /\ SpanInv /\ NumberInv /\ BackInv /\ SavedInv /\ StopsAreReported
  BY DEF ReaderInv
<1>2. Base'
  BY <1>1, NextBase
<1>3. BackInv' /\ SavedInv' /\ StopsAreReported'
  BY <1>1, NextBack, NextStops
<1>4. PacketsInv' /\ SpanInv' /\ NumberInv'
  <2>1. CASE \E f \in File : Begin(f)
    BY <2>1, BeginPackets, BeginNumbers
  <2>2. CASE GoesOn
    <3>1. phase = "pcapng" /\ Current.type # "IDB" => FirstSnap = Snap(blk)
      BY <1>1, <2>2, SnapOfSection DEF GoesOn
    <3> QED BY <1>1, <2>2, <3>1, GoesOnPackets, GoesOnNumbers
  <2>3. CASE Leaves
    BY <1>1, <2>3, LeavesPackets, LeavesNumbers
  <2>4. CASE UNCHANGED vars
    <3>1. file' = file /\ blk' = blk /\ phase' = phase /\ records' = records /\ interfaces' = interfaces
          /\ ifaceBase' = ifaceBase
      BY <2>4 DEF vars
    <3>2. PacketsInv'
      BY <1>1, <3>1 DEF PacketsInv, Reading, Reached, Whole, HoldsPacket, EndOf, StartOf
    <3>3. SpanInv'
      <4>1. \A k : (Truthful(k)' <=> Truthful(k)) /\ Limits(k)' = Limits(k)
        BY <3>1, SameFile
      <4> QED BY <1>1, <3>1, <4>1 DEF SpanInv, Reading, Span, EndOf, StartOf
    <3>4. NumberInv'
      <4>1. \A k : /\ SectionOf(k)' = SectionOf(k) /\ IdbsTo(k)' = IdbsTo(k) /\ CountTo(k)' = CountTo(k)
                   /\ CountTo(SectionOf(k))' = CountTo(SectionOf(k)) /\ StatedId(k)' = StatedId(k)
        BY <3>1, SameCounts
      <4> QED BY <1>1, <3>1, <4>1 DEF NumberInv, Reading
    <3> QED BY <3>2, <3>3, <3>4
  <2> QED BY <1>1, <2>1, <2>2, <2>3, <2>4, Steps
<1> QED BY <1>2, <1>3, <1>4 DEF ReaderInv

\* So it holds in every reachable state.
LEMMA ReaderAlways == Spec => []ReaderInv
BY InitReader, NextReader, PTL DEF Spec

\* Reading loses no packet of a whole block before the place it stopped at, keeps the
\* order of the file and adds none (reader.js:68-82, 130-228).
THEOREM NothingIsSkipped == Spec => []ReadsEveryPacket
<1>1. ReaderInv => ReadsEveryPacket
  <2> SUFFICES ASSUME ReaderInv, phase = "read" PROVE ReadsEveryPacket
    BY DEF ReadsEveryPacket
  <2>1. /\ blk \in 1 .. Len(file.blocks) + 1 /\ Reached(blk - 1)
        /\ {records[i].blk : i \in DOMAIN records} = {k \in 1 .. blk - 1 : HoldsPacket(k)}
        /\ \A i, j \in DOMAIN records : i < j => records[i].blk < records[j].blk
        /\ blk <= Len(file.blocks) => ~Whole(blk)
    BY DEF ReaderInv, PacketsInv, Reading
  <2>2. file \in File /\ blk \in Nat
    BY DEF ReaderInv, Base, TypeOK
  <2>3. Len(file.blocks) \in Nat /\ DOMAIN file.blocks = 1 .. Len(file.blocks)
    BY <2>2, FileFields
  <2>4. ASSUME NEW k \in 1 .. Len(file.blocks) PROVE Reached(k) <=> k \in 1 .. blk - 1
    <3>1. CASE k \in 1 .. blk - 1
      <4>1. \A j \in 1 .. k : j \in 1 .. blk - 1
        BY <2>2, <3>1
      <4> QED BY <2>1, <3>1, <4>1 DEF Reached
    <3>2. CASE k \notin 1 .. blk - 1
      <4>1. blk \in 1 .. k /\ blk <= Len(file.blocks)
        BY <2>1, <2>2, <2>3, <3>2
      <4> QED BY <2>1, <3>2, <4>1 DEF Reached
    <3> QED BY <3>1, <3>2
  <2>5. \A k \in 1 .. blk - 1 : k \in 1 .. Len(file.blocks)
    BY <2>1, <2>3
  <2>6. {k \in 1 .. blk - 1 : HoldsPacket(k)} = {k \in DOMAIN file.blocks : Reached(k) /\ HoldsPacket(k)}
    BY <2>3, <2>4, <2>5
  <2> QED BY <2>1, <2>6 DEF ReadsEveryPacket
<1> QED BY <1>1, ReaderAlways, PTL

\* A packet's bytes are inside its own block, however the file was cut, wherever the code
\* compares the two lengths; a simple packet, with no captured length of its own, has the
\* least of its original length, its section's snap length and the room of its block
\* (reader.js:76-80, 183, 193-198).
THEOREM BytesAreItsOwn == Spec => []BytesOfItsBlock
<1>1. ReaderInv => BytesOfItsBlock
  BY DEF ReaderInv, SpanInv, Reading, BytesOfItsBlock, Span
<1> QED BY <1>1, ReaderAlways, PTL

\* Reading stops early only with a warning that says so, but for less than a pcapng block
\* or, where the version was warned of, less than a record's header (reader.js:64, 74-77,
\* 83, 130, 137, 146-149).
THEOREM EarlyStopsAreReported == Spec => []StopsAreReported
<1>1. ReaderInv => StopsAreReported
  BY DEF ReaderInv
<1> QED BY <1>1, ReaderAlways, PTL

\* Over any number of sections a packet is dissected with the interface its own section
\* declares under the number its block states (reader.js:139, 178-179, 194, 204).
THEOREM InterfacesAreTheirSections == Spec => []OwnInterface
<1>1. ReaderInv => OwnInterface
  <2> SUFFICES ASSUME ReaderInv, phase = "read", file.format = "pcapng",
                      NEW i \in DOMAIN records, StatedId(records[i].blk) < Cardinality(Declared(records[i].blk))
               PROVE  /\ InterfaceOf(records[i]).blk \in Declared(records[i].blk)
                      /\ Cardinality(Declared(InterfaceOf(records[i]).blk)) = StatedId(records[i].blk) + 1
    BY DEF OwnInterface, StatedId
  <2> DEFINE r == records[i]
             k == r.blk
             n == StatedId(k)
  <2>1. /\ \/ /\ Len(interfaces) = CountTo(blk - 1)
              /\ \A j \in DOMAIN interfaces :
                    interfaces[j].blk \in IdbsTo(blk - 1) /\ CountTo(interfaces[j].blk) = j
           \/ CountTo(blk - 1) = 0
        /\ k \in 1 .. blk - 1 /\ r.iface = CountTo(SectionOf(k)) + n
    BY DEF ReaderInv, NumberInv, Reading
  <2>2. blk \in 1 .. Len(file.blocks) + 1 /\ file \in File /\ blk \in Nat /\ interfaces \in Seq(Interface)
    BY DEF ReaderInv, PacketsInv, Reading, Base, TypeOK
  <2>3. k \in Nat \ {0} /\ blk - 1 \in Nat /\ k \in 0 .. blk - 1 /\ k \in 1 .. Len(file.blocks)
    <3>1. Len(file.blocks) \in Nat
      BY <2>2, FileFields
    <3> QED BY <2>1, <2>2, <3>1
  <2>4. n \in Nat
    BY <2>2, <2>3, FileFields, BlockFields DEF StatedId
  <2>5. n < Cardinality(Declared(k))
    OBVIOUS
  <2> HIDE DEF n, k, r
  <2>6. /\ CountTo(SectionOf(k)) \in Nat /\ CountTo(k) \in Nat /\ CountTo(blk - 1) \in Nat
        /\ CountTo(k) <= CountTo(blk - 1)
        /\ Cardinality(Declared(k)) = CountTo(k) - CountTo(SectionOf(k))
        /\ \A j \in IdbsTo(k) : CountTo(j) > CountTo(SectionOf(k)) =>
              j \in Declared(k) /\ Cardinality(Declared(j)) = CountTo(j) - CountTo(SectionOf(k))
    BY <2>3, Counted, DeclaredCount
  <2>7. r.iface \in Nat /\ r.iface < CountTo(k) /\ r.iface + 1 = CountTo(SectionOf(k)) + n + 1 /\ CountTo(blk - 1) # 0
    BY <2>1, <2>4, <2>5, <2>6
  <2>8. /\ Len(interfaces) = CountTo(blk - 1)
        /\ \A j \in DOMAIN interfaces :
                    interfaces[j].blk \in IdbsTo(blk - 1) /\ CountTo(interfaces[j].blk) = j
    BY <2>1, <2>7
  <2> DEFINE j == interfaces[r.iface + 1].blk
  <2>9. r.iface < Len(interfaces) /\ r.iface + 1 \in DOMAIN interfaces
    BY <2>2, <2>6, <2>7, <2>8
  <2>10. InterfaceOf(r).blk = j
    BY <2>9 DEF InterfaceOf
  <2>11. j \in IdbsTo(blk - 1) /\ CountTo(j) = r.iface + 1
    BY <2>8, <2>9
  <2> HIDE DEF j
  <2>12. j \in IdbsTo(k)
    <3>1. j \in 1 .. blk - 1 /\ file.blocks[j].type = "IDB"
      BY <2>11 DEF IdbsTo
    <3>2. CASE j <= k
      BY <2>3, <3>1, <3>2 DEF IdbsTo
    <3>3. CASE ~(j <= k)
      <4>1. j - 1 \in Nat /\ k \in 0 .. j - 1 /\ j \in Nat \ {0}
        BY <2>3, <3>1, <3>3
      <4>2. CountTo(k) <= CountTo(j - 1) /\ CountTo(j) = CountTo(j - 1) + 1 /\ CountTo(j - 1) \in Nat
        BY <3>1, <4>1, Counted, CountSteps
      <4> QED BY <2>6, <2>7, <2>11, <4>2
    <3> QED BY <3>2, <3>3
  <2>13. CountTo(j) > CountTo(SectionOf(k)) /\ CountTo(j) - CountTo(SectionOf(k)) = n + 1
    BY <2>4, <2>6, <2>7, <2>11
  <2>14. j \in Declared(k) /\ Cardinality(Declared(j)) = n + 1
    BY <2>6, <2>12, <2>13
  <2> QED BY <2>10, <2>14 DEF n, k, r
<1> QED BY <1>1, ReaderAlways, PTL

\* An exported selection of any packets reads back as those packets, with times to half
\* a microsecond (worker.js:102-107, reader.js:68-82, 238-257).
THEOREM ExportRoundTrip == Spec => []ReadsBack
<1>1. ReaderInv => ReadsBack
  <2> SUFFICES ASSUME ReaderInv, phase = "read", saved # None
               PROVE  /\ Len(records) = Len(saved) /\ warnings = {}
                      /\ \A i \in DOMAIN saved :
                            /\ records[i].to - records[i].from = saved[i].len
                            /\ records[i].cap = saved[i].len /\ records[i].orig = saved[i].orig
                            /\ 2 * (records[i].ts - saved[i].ts) \in -TicksPerUs .. TicksPerUs
    BY DEF ReadsBack
  <2>1. /\ warnings = {} /\ saved \in Seq(Saved) /\ Len(file.blocks) = Len(saved)
        /\ \A i \in 1 .. Len(saved) :
              /\ file.blocks[i].cap = saved[i].len /\ file.blocks[i].orig = saved[i].orig
              /\ file.blocks[i].ts = Back(saved[i].ts) /\ file.blocks[i].res = TicksPerUs
        /\ Len(records) = blk - 1 /\ blk = Len(file.blocks) + 1
        /\ \A i \in 1 .. Len(records) :
              /\ records[i].ts = file.blocks[i].ts * file.blocks[i].res
              /\ records[i].orig = file.blocks[i].orig /\ records[i].cap = file.blocks[i].cap
              /\ records[i].to - records[i].from = records[i].cap
    BY DEF ReaderInv, BackInv
  <2>2. Len(saved) \in Nat /\ DOMAIN saved = 1 .. Len(saved) /\ \A i \in 1 .. Len(saved) : saved[i].ts \in Nat
    <3>1. Len(saved) \in Nat /\ DOMAIN saved = 1 .. Len(saved) /\ \A i \in 1 .. Len(saved) : saved[i] \in Saved
      BY <2>1
    <3>2. \A x \in Saved : x.ts \in Nat
      BY DEF Saved
    <3> QED BY <3>1, <3>2
  <2>3. Len(records) = Len(saved)
    BY <2>1, <2>2
  <2>4. ASSUME NEW i \in 1 .. Len(saved)
        PROVE  /\ records[i].to - records[i].from = saved[i].len
               /\ records[i].cap = saved[i].len /\ records[i].orig = saved[i].orig
               /\ 2 * (records[i].ts - saved[i].ts) \in -TicksPerUs .. TicksPerUs
    <3>1. records[i].ts = Back(saved[i].ts) * TicksPerUs
      BY <2>1, <2>3
    <3>2. 2 * (Back(saved[i].ts) * TicksPerUs - saved[i].ts) \in -TicksPerUs .. TicksPerUs
      BY <2>2, Rounded
    <3> QED BY <2>1, <2>3, <3>1, <3>2
  <2> QED BY <2>1, <2>2, <2>3, <2>4
<1> QED BY <1>1, ReaderAlways, PTL
=============================================================================
