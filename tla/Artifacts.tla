------------------------------ MODULE Artifacts ------------------------------
(***************************************************************************)
(* The files carved out of one HTTP connection (src/analysis/extract.js):  *)
(* its two directions are reassembled (Reassembly), each is walked as a    *)
(* sequence of HTTP messages, and the bodies become files.                 *)
(*                                                                         *)
(* The text of a direction is made of units: the start line of a message   *)
(* with its headers, a line break, the size of a chunk with a semicolon    *)
(* after it, or a byte of a body, which is no hexadecimal digit.  A unit   *)
(* is the least that segments and holes cut, and lengths count units.      *)
(* File types, names and hashes are left out, and so is the cut at         *)
(* MAX_FILE_BYTES.                                                         *)
(***************************************************************************)
EXTENDS Reassembly

LOCAL INSTANCE SequencesExt

CONSTANTS Talks,        \* HTTP conversations: what each end says
          Connections,  \* the talk, or None where no dissector saw HTTP, and what was captured
          None

\* `bodiless`: 1xx, 204 or 304.  `n` is the value of Content-Length, or None; of a size
\* its value, of a byte which it is.
Unit == [is : {"request", "response", "break", "size", "byte"}, chunked : BOOLEAN,
         bodiless : BOOLEAN, uri : STRING, n : Nat \cup {None}]

\* What one end says: a head and the chunks of the body; a "bare" answer, to a HEAD, has
\* no body whatever its head says, and an "interim" one is followed by the answer.
Message == [head : Unit, chunks : Seq(Seq(Unit)), kind : {"final", "interim", "bare"}]

ASSUME ArtifactsAssumption ==
    /\ \A t \in DOMAIN Talks : Talks[t] \in [Dirs -> Seq(Message)]
    /\ \A c \in Connections : c.segs \in Inputs /\ c.talk \in DOMAIN Talks \cup {None}

VARIABLES connection,  \* the one being carved, None before one is
          files        \* extractArtifacts' files, None before it returns

artifactsVars == <<vars, connection, files>>

ArtifactsInit == Init /\ connection = None /\ files = None

-----------------------------------------------------------------------------
(* What was sent *)

Sent(d) == IF connection.talk = None THEN <<>> ELSE Talks[connection.talk][d]

Break == [is |-> "break", chunked |-> FALSE, bodiless |-> FALSE, uri |-> "", n |-> 0]
Size(n) == [Break EXCEPT !.is = "size", !.n = n]
Body(m) == FlattenSeq(m.chunks)
Text(m) ==
    <<m.head, Break, Break>>
    \o (IF m.kind = "bare" THEN <<>>
        ELSE IF ~m.head.chunked THEN Body(m)
        ELSE FlattenSeq([i \in DOMAIN m.chunks |->
                <<Size(Len(m.chunks[i])), Break>> \o m.chunks[i] \o <<Break>>]) \o <<Size(0), Break, Break>>)
TextOf(ms) == FlattenSeq([i \in DOMAIN ms |-> Text(ms[i])])

\* reasm.a2b and reasm.b2a: the pieces one after the other, holes closed.
Reassembled(d) ==
    LET text == TextOf(Sent(d))
        pieces == SelectSeq(out, LAMBDA p : p.dir = d)
    IN FlattenSeq([k \in DOMAIN pieces |-> SubSeq(text, pieces[k].from + 1, pieces[k].to)])

-----------------------------------------------------------------------------
(* parseHttpMessages, on a text d *)

\* The first place from p on where two line breaks meet, or 0.
findCRLFCRLF(d, p) ==
    LET is == {i \in p .. Len(d) - 1 : d[i].is = "break" /\ d[i + 1].is = "break"}
    IN IF is = {} THEN 0 ELSE Min(is)

IsHead(u) == u.is \in {"request", "response"}

\* Headers run together where a hole was; of a field the last one counts.
Heads(d, p, end) == {i \in p .. end - 1 : IsHead(d[i])}
Chunked(d, heads) == \E i \in heads : d[i].chunked
ContentLength(d, heads) ==
    LET is == {i \in heads : d[i].n # None} IN IF is = {} THEN None ELSE d[Max(is)].n

\* The URI of the first line, if it holds a request line, whatever stands before that.
UriOf(d, p, end) ==
    LET line == {i \in Heads(d, p, end) : \A j \in p .. i : d[j].is # "break"}
    IN IF line # {} /\ d[Min(line)].is = "request" THEN d[Min(line)].uri ELSE ""

\* Chunks are read up to the empty one, or to a line that is no size.
parseChunked(d, start) ==
    LET rest[p \in Nat] ==
            IF p > Len(d) \/ d[p].is # "size" \/ \A i \in p .. Len(d) : d[i].is # "break" THEN [body |-> <<>>, next |-> p]
            ELSE LET from == 1 + Min({i \in p .. Len(d) : d[i].is = "break"})
                     end == Min({Len(d) + 1, from + d[p].n})
                 IN IF d[p].n = 0 THEN [body |-> <<>>, next |-> from + 1]
                    ELSE [rest[end + 1] EXCEPT !.body = SubSeq(d, from, end - 1) \o @]
    IN rest[start]

\* The body that begins at `start`, and where the next message does.
BodyAt(d, p, start, heads) ==
    LET length == ContentLength(d, heads)
    IN CASE Chunked(d, heads) -> parseChunked(d, start)
         [] ~Chunked(d, heads) /\ length # None ->
              [body |-> SubSeq(d, start, Min({Len(d), start + length - 1})), next |-> start + length]
         [] ~Chunked(d, heads) /\ length = None /\ d[p].is = "response" /\ ~d[p].bodiless ->
              [body |-> SubSeq(d, start, Len(d)), next |-> Len(d) + 1]
         [] OTHER -> [body |-> <<>>, next |-> start]

parseHttpMessages(d) ==
    LET from[p \in Nat] ==
            LET end == findCRLFCRLF(d, p)
                b == BodyAt(d, p, end + 2, Heads(d, p, end))
            IN IF p > Len(d) \/ end = 0 THEN <<>>
               ELSE <<[kind |-> IF d[p].is = "response" THEN "response" ELSE "request",
                       uri |-> UriOf(d, p, end), bodyStart |-> end + 1, body |-> b.body]>> \o from[b.next]
    IN from[1]

-----------------------------------------------------------------------------
(* extractArtifacts *)

File(d, m, uri) == [dir |-> d, uri |-> uri, body |-> m.body, packet |-> offsetToPkt(Follow, d, m.bodyStart)]

\* Faulty variant: only the responses that have a body are counted.
PairedByBody(requests, responses, i) ==
    LET n == Len(SelectSeq(SubSeq(responses, 1, i), LAMBDA m : m.body # <<>>))
    IN IF n \in DOMAIN requests THEN requests[n].uri ELSE None

\* The n-th response is taken for the answer to the n-th request.
Requested(requests, responses, i) == IF i \in DOMAIN requests THEN requests[i].uri ELSE None

Downloads(requests, responses) ==
    LET files1 == [i \in DOMAIN responses |-> File(1, responses[i], Requested(requests, responses, i))]
    IN SelectSeq(files1, LAMBDA f : f.body # <<>>)
Uploads(requests) ==
    LET files0 == [i \in DOMAIN requests |-> File(0, requests[i], requests[i].uri)]
    IN SelectSeq(files0, LAMBDA f : f.body # <<>>)

Carve(c) == connection' = c /\ files' = None /\ Call(c.segs)

Reassemble == Loop /\ UNCHANGED <<connection, files>>

\* A stream that no dissector called HTTP has no files; it is reassembled to be followed.
Skip ==
    /\ dir = Done /\ connection # None /\ files = None
    /\ connection.talk = None
    /\ files' = <<>>
    /\ UNCHANGED <<vars, connection>>

extractArtifacts ==
    /\ dir = Done /\ connection # None /\ files = None
    /\ connection.talk # None
    /\ \E requests \in {SelectSeq(parseHttpMessages(Reassembled(0)), LAMBDA m : m.kind = "request")} :
       \E responses \in {SelectSeq(parseHttpMessages(Reassembled(1)), LAMBDA m : m.kind = "response")} :
          files' = Downloads(requests, responses) \o Uploads(requests)
    /\ UNCHANGED <<vars, connection>>

\* Bound: one connection in a behaviour.
ArtifactsNext ==
    \/ connection = None /\ \E c \in Connections : Carve(c)
    \/ Reassemble
    \/ Skip \/ extractArtifacts

ArtifactsSpec == ArtifactsInit /\ [][ArtifactsNext]_artifactsVars

-----------------------------------------------------------------------------
(* Property *)

\* The positions of a direction that were captured and fitted, from its beginning on.
Unbroken(d) ==
    LET got == UNION {out[k].from .. out[k].to - 1 : k \in {j \in DOMAIN out : out[j].dir = d}}
    IN Cardinality({p \in got : 0 .. p \subseteq got})

\* Message i was captured whole, and so was all that was sent before it.
EndsAt(d, i) == Len(TextOf(SubSeq(Sent(d), 1, i)))
Complete(d, i) == i \in DOMAIN Sent(d) /\ EndsAt(d, i) <= Unbroken(d)

\* Message i was answered, and answers are told apart: nothing up to it is an interim answer
\* or the answer to a HEAD that names a length, and none before it ends with its connection.
Ordinary(i) ==
    \A j \in 1 .. i : LET m == Sent(1)[j]
                      IN /\ m.kind = "final"
                         /\ m.head.chunked \/ m.head.n # None \/ m.head.bodiless

\* The bytes of a body are sent in this position first.
FirstByte(d, i) == EndsAt(d, i - 1) + 3
Brings(pkt, d, p) == \E k \in DOMAIN input[d] :
    input[d][k].pkt = pkt /\ input[d][k].seq <= p /\ p < input[d][k].seq + input[d][k].len

\* What was sent in one piece is carved in one piece, up to the first hole: a body is found
\* whole and alone, chunked or with a length, among messages with and without one, under the
\* address that was asked for with it and the packet that brought it, however the segments
\* cut, repeat and reorder the text; and where nothing is missing nothing else is carved
\* (extract.js:53-123, 178-208; streams.js:24-67).
FilesOfTheirMessages ==
    dir = Done /\ connection # None /\ files # None /\ connection.talk # None =>
        /\ \A i \in DOMAIN Sent(1) :
              LET m == Sent(1)[i]
              IN Complete(1, i) /\ Complete(0, i) /\ Ordinary(i) /\ Body(m) # <<>> =>
                    \E f \in DOMAIN files :
                        /\ files[f].dir = 1 /\ files[f].body = Body(m)
                        /\ files[f].uri = Sent(0)[i].head.uri
                        /\ Brings(files[f].packet, 1, FirstByte(1, i))
        /\ \A i \in DOMAIN Sent(0) :
              LET m == Sent(0)[i]
              IN Complete(0, i) /\ Body(m) # <<>> =>
                    \E f \in DOMAIN files :
                        /\ files[f].dir = 0 /\ files[f].body = Body(m) /\ files[f].uri = m.head.uri
                        /\ Brings(files[f].packet, 0, FirstByte(0, i))
        /\ (\A d \in Dirs : Complete(d, Len(Sent(d)))) /\ Ordinary(Len(Sent(1))) =>
              Len(files) = Cardinality(UNION {{<<d, i>> : i \in {j \in DOMAIN Sent(d) : Body(Sent(d)[j]) # <<>>}} : d \in Dirs})
=============================================================================
