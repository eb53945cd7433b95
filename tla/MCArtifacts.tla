----------------------------- MODULE MCArtifacts -----------------------------
(* Two kinds of connections.  Every sorted list of at most three segments in   *)
(* one direction, behind a first segment that leaves room for five bytes, with *)
(* a few lists in the other: nothing HTTP.  And HTTP conversations of one to   *)
(* three exchanges, cut into segments in up to two places, of which one may be *)
(* lost, repeated, late or cut anew.                                           *)
EXTENDS Artifacts

LOCAL INSTANCE SequencesExt

Shapes == [seq : 0 .. 3, len : 1 .. 3]
Bytes(pkt, seq, len) == [pkt |-> pkt, ts |-> pkt, seq |-> seq, len |-> len]

Room == 5
Filler == MaxReassembly - Room

\* The segments arrived in sequence order, or in the reverse one.
Numbered(s) == {[i \in DOMAIN s |-> Bytes(f[i], Filler + s[i].seq, s[i].len)] :
                  f \in {[i \in DOMAIN s |-> 2 * i + 10], [i \in DOMAIN s |-> 2 * (Len(s) + 1 - i) + 10]}}
Lists == UNION {Numbered(s) : s \in UNION {[1 .. n -> Shapes] : n \in 0 .. 3}}
Replies == {<<>>, <<Bytes(1, 0, 2)>>, <<Bytes(3, 1, 1), Bytes(5, 4, 1)>>}
Plain == {[d \in Dirs |-> IF d = 0 THEN <<Bytes(9, 0, Filler)>> \o s ELSE r] :
            s \in {l \in Lists : Sorted(l)}, r \in Replies}

Starts(is, uri, chunked, length) ==
    [is |-> is, chunked |-> chunked, bodiless |-> FALSE, uri |-> uri, n |-> length]
Byte(n) == [is |-> "byte", chunked |-> FALSE, bodiless |-> FALSE, uri |-> "", n |-> n]
Msg(head, chunks) == [head |-> head, chunks |-> chunks, kind |-> "final"]
Get(uri) == Msg(Starts("request", uri, FALSE, None), <<>>)
Post(uri, body) == Msg(Starts("request", uri, FALSE, Len(body)), <<body>>)
Ok(body) == Msg(Starts("response", "", FALSE, Len(body)), <<body>>)
Chunks(chunks) == Msg(Starts("response", "", TRUE, None), chunks)
NotModified == Msg([Starts("response", "", FALSE, None) EXCEPT !.bodiless = TRUE], <<>>)
Continue == [NotModified EXCEPT !.kind = "interim"]
OnlyHead(n) == [Ok(<<>>) EXCEPT !.head.n = n, !.kind = "bare"]
Rest(body) == Msg(Starts("response", "", FALSE, None), <<body>>)

A == <<Byte(1), Byte(2)>>
B == <<Byte(3)>>
Says(requests, answers) == [d \in Dirs |-> IF d = 0 THEN requests ELSE answers]
MCTalks ==
    <<Says(<<Get("a"), Get("b")>>, <<Ok(A), Chunks(<<B>>)>>),
      Says(<<Get("a"), Get("b"), Get("c")>>, <<NotModified, Ok(A), Ok(B)>>),
      Says(<<Post("a", A), Get("b")>>, <<Chunks(<<B, A>>), Ok(<<>>)>>),
      Says(<<Post("a", B), Get("b")>>, <<Continue, Ok(A), Ok(B)>>),
      Says(<<Get("a"), Get("b")>>, <<OnlyHead(4), Rest(A)>>)>>

\* A text of n units in segments, numbered in order, cut at the given places.
Cut(n, cuts) ==
    LET ends == SetToSortSeq(cuts \cup {n}, LAMBDA i, j : i < j)
    IN [k \in DOMAIN ends |-> Bytes(2 * k, IF k = 1 THEN 0 ELSE ends[k - 1], ends[k] - IF k = 1 THEN 0 ELSE ends[k - 1])]
Late(s) == [s EXCEPT ![1].pkt = 9, ![1].ts = 9]
Lost(s, k) == SelectSeq(s, LAMBDA g : g.seq # s[k].seq)
Again(s, n) == <<s[1], Bytes(8, 0, Min({n, s[1].len + 2}))>> \o Tail(s)
Ways(n, places) ==
    UNION {LET s == Cut(n, cuts) IN {s, Late(s), Again(s, n)} \cup {Lost(s, k) : k \in 2 .. Len(s)} : cuts \in places}
Whole == {{}}
Once(n) == {{i} : i \in 1 .. n - 1}
Twice(n) == {{i, j} : i \in 1 .. n - 1, j \in 1 .. n - 1}

Connection(t, s, r) == [talk |-> t, segs |-> [d \in Dirs |-> IF d = 0 THEN s ELSE r]]
HttpOf(t) ==
    LET n == Len(TextOf(MCTalks[t][0]))
        m == Len(TextOf(MCTalks[t][1]))
    IN {Connection(t, s, r) : s \in Ways(n, Once(n)), r \in Ways(m, Whole)}
       \cup {Connection(t, s, r) : s \in Ways(n, Whole), r \in Ways(m, Twice(m))}

MCConnections == {Connection(None, p[0], p[1]) : p \in Plain} \cup UNION {HttpOf(t) : t \in DOMAIN MCTalks}
MCInputs == {c.segs : c \in MCConnections}
=============================================================================
