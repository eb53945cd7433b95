------------------------------- MODULE Layers -------------------------------
(***************************************************************************)
(* The dissection of a capture's packets (src/core/dissect.js,             *)
(* src/core/registry.js) with the link, network and transport dissectors   *)
(* (ethernet, vlan, linklayers, ipv4, ipv6, misc, arp, udp, tcp, icmp):    *)
(* which dissector gets which bytes, and what ARP and IPv4 remember.       *)
(*                                                                         *)
(* A packet is its size, the headers it holds and the pieces of its        *)
(* payload.  A header has its length, the length its length field claims,  *)
(* and the dissector registered for the type it names; its other fields    *)
(* only end up in the text of the layer.  An application dissector is what *)
(* it does with a piece: take it, decline, throw, or take it and name the  *)
(* next one (DNS over TCP, dns.js:511).                                    *)
(***************************************************************************)
EXTENDS Capture, FiniteSets

CONSTANTS Packets,     \* the packets a capture may hold
          Dissectors,  \* the application dissectors, in the order of register
          MaxDepth     \* layers of a packet, 32 in the code

Kinds == {"eth", "vlan", "sll", "sll2", "null", "rawip", "ppp", "pppoe", "mpls", "arp",
          "ipv4", "ipv6", "icmp", "icmpv6", "igmp", "gre", "tcp", "udp"}

Ids == {Dissectors[i].id : i \in DOMAIN Dissectors}
Verdicts == {"takes", "declines", "throws", "chains"}

\* `key`: the kind registered for the named type, "unknown" if there is none, "ports"
\* for an application, "none" if nothing is named.  ARP and fragments use the rest.
Header == [kind : Kinds, len : Nat, claims : Nat, key : Kinds \cup {"unknown", "ports", "none"},
           ext : Seq(Nat), frag : {"no", "first", "later"}, src : STRING, dst : STRING,
           reply : BOOLEAN, sport : Nat, dport : Nat]
Piece == [len : Nat, does : [Ids -> Verdicts]]
Packet == [size : Nat, fcs : Nat, hdrs : Seq(Header), pieces : Seq(Piece)]

\* How long a header of a kind may be.
LengthsOf(kind) ==
    CASE kind \in {"vlan", "null"} -> {4} [] kind = "sll" -> {16} [] kind = "sll2" -> {20} [] kind = "rawip" -> {0}
      [] kind = "pppoe" -> {6} [] kind = "udp" -> {8} [] kind = "ipv6" -> {40} [] kind = "eth" -> {14, 22}
      [] kind = "ppp" -> 1 .. 4 [] kind = "gre" -> {4, 8, 12, 16}
      [] kind \in {"mpls", "ipv4", "tcp"} -> {n \in Nat : n % 4 = 0}
      [] OTHER -> Nat

\* A type that is named is followed by what is read as its header, and a transport by what
\* is read as its payload, however much of it the packet has.
Complete(p) ==
    /\ p.hdrs # <<>>
    /\ \A i \in DOMAIN p.hdrs :
          /\ p.hdrs[i].key \in Kinds => i < Len(p.hdrs)
          \* only the first nibble of an IP header may say that it is another
          /\ p.hdrs[i].key \in Kinds \ {"ipv4", "ipv6"} => p.hdrs[i + 1].kind = p.hdrs[i].key
          /\ p.hdrs[i].len \in LengthsOf(p.hdrs[i].kind)
          /\ {p.hdrs[i].kind, p.hdrs[i].key} \cap {"tcp", "udp", "ports"} # {} => p.pieces # <<>>
    /\ \A i \in DOMAIN p.pieces :
          (\E d \in Ids : p.pieces[i].does[d] = "chains") => i < Len(p.pieces)

ASSUME LayersAssumption ==
    /\ Packets \subseteq Packet
    /\ \A p \in Packets : Complete(p)
    /\ MaxDepth \in Nat \ {0}
    \* an id is unique (registry.js:5), and the headers have ids of their own
    /\ Dissectors \in Seq([id : STRING, ports : SUBSET Nat, heuristic : BOOLEAN])
    /\ Ids \cap (Kinds \cup {"data"}) = {}
    /\ \A i, j \in DOMAIN Dissectors : Dissectors[i].id = Dissectors[j].id => i = j

VARIABLES
    walking,     \* the loop over the layers of the last captured packet is running
    offset, end, \* the bytes left to it
    hdr, piece,  \* how many headers and pieces are behind `offset`
    key,         \* what dissects next
    queue,       \* application candidates not tried yet, None before they are picked
    layers,      \* packet.layers
    tried,       \* history: the candidates tried on the current piece
    errors,      \* packet.errors
    bindings, conflicts,   \* state.ext.arp
    arps,        \* history: which headers were dissected as ARP messages
    ipfrag       \* state.ext.ipfrag: the fragments of each datagram

layerVars == <<walking, offset, end, hdr, piece, key, queue, layers, tried, errors,
               bindings, conflicts, arps, ipfrag>>

LayersInit ==
    /\ walking = FALSE
    /\ offset = 0 /\ end = 0 /\ hdr = 0 /\ piece = 0 /\ key = "none"
    /\ queue = None /\ layers = <<>> /\ tried = <<>> /\ errors = {}
    /\ bindings = <<>> /\ conflicts = <<>> /\ arps = <<>> /\ ipfrag = <<>>

Least(m, n) == IF m < n THEN m ELSE n
packet == captured[Len(captured)]
Hdr == packet.hdrs[hdr + 1]
Room == end - offset

\* dissectCapture: the next record, and the start of dissectPacket.
NextPacket(p) ==
    /\ Receive(p)
    /\ walking' = TRUE
    /\ offset' = 0
    /\ end' = IF p.size > p.fcs THEN p.size - p.fcs ELSE p.size
    /\ hdr' = 0 /\ piece' = 0 /\ key' = p.hdrs[1].kind
    /\ queue' = None /\ layers' = <<>> /\ tried' = <<>> /\ errors' = {}
    /\ UNCHANGED <<bindings, conflicts, arps, ipfrag>>

-----------------------------------------------------------------------------
(* Headers: what the dissector of each returns for the bytes it is given, None where it
   declines.  A layer owns the bytes up to `to`, what it holds ends at `bound`. *)

Found(to, bound, next) == [to |-> to, bound |-> bound, next |-> next]
AfterHeader == offset + Hdr.len

\* A message of which nothing is passed on owns all that is left.
LastLayer == Found(end, end, "none")

\* A header of which the length is fixed, or known when it has been read.
Simple(needs) == IF Room < needs THEN None ELSE Found(AfterHeader, end, Hdr.key)

\* An 802.3 frame ends where its SNAP header is cut off or its LLC names no type.
Ethernet == IF Room < 14 THEN None
            ELSE IF Hdr.key = "none" \/ Hdr.len > Room THEN LastLayer
            ELSE Found(AfterHeader, end, Hdr.key)
Vlan == Simple(4)
Sll == Simple(16)
Sll2 == Simple(20)
NullLoop == Simple(4)
RawIp == Simple(1)
Ppp == Simple(2)
Gre == Simple(4)
Pppoe == IF Room < 8 THEN None ELSE Found(AfterHeader, Least(end, AfterHeader + Hdr.claims), Hdr.key)

\* The labels up to the bottom of the stack; without it, as many as there are, and what is
\* left is too short for whatever it is taken for.
Mpls == IF Hdr.len <= Room THEN Found(AfterHeader, end, Hdr.key) ELSE Found(end - (Room % 4), end, "unknown")

Arp == IF Room < 8 \/ Room < Hdr.len THEN None ELSE Found(AfterHeader, end, "none")
Igmp == IF Room < 8 THEN None ELSE LastLayer
Icmp == IF Room < 4 THEN None ELSE LastLayer
Icmpv6 == IF Room < 4 THEN None ELSE LastLayer

\* Faulty variant: what the header claims is believed, as far as the packet goes.
ClaimedEnd == Least(packet.size, offset + Hdr.claims)

\* Where the payload ends: the packet may be padded behind it, and may be cut off before.
Ipv4End == IF Hdr.claims < Hdr.len THEN end ELSE Least(end, offset + Hdr.claims)

\* A later fragment has no header of the next protocol.
Ipv4 == IF Room < 20 \/ Hdr.kind # "ipv4" \/ Hdr.len < 20 \/ Hdr.len > Room THEN None
        ELSE Found(AfterHeader, Ipv4End, IF Hdr.frag = "later" THEN "none" ELSE Hdr.key)

Ipv6End == Least(end, AfterHeader + Hdr.claims)

\* Where the n-th extension header ends; the walk stops where fewer than eight bytes are
\* left, with the type of the extension header that was not walked.
ExtEnd[n \in 0 .. Len(Hdr.ext)] == IF n = 0 THEN AfterHeader ELSE ExtEnd[n - 1] + Hdr.ext[n]
Walked == CHOOSE n \in 0 .. Len(Hdr.ext) :
              /\ \A m \in 0 .. n - 1 : ExtEnd[m] + 8 <= Ipv6End
              /\ n < Len(Hdr.ext) => ExtEnd[n] + 8 > Ipv6End
Ipv6 == IF Room < 40 \/ Hdr.kind # "ipv6" THEN None
        ELSE Found(ExtEnd[Walked], Ipv6End,
                   CASE Walked < Len(Hdr.ext) -> "unknown"
                     [] Hdr.frag = "later" /\ Hdr.ext # <<>> -> "none"
                     [] OTHER -> Hdr.key)

UdpEnd == IF Hdr.claims < 8 THEN end ELSE Least(end, offset + Hdr.claims)
Udp == IF Room < 8 THEN None ELSE Found(AfterHeader, UdpEnd, "ports")
Tcp == IF Room < 20 \/ Hdr.len < 20 THEN None ELSE Found(AfterHeader, end, "ports")

Dissected ==
    CASE key = "eth" -> Ethernet [] key = "vlan" -> Vlan [] key = "sll" -> Sll [] key = "sll2" -> Sll2
      [] key = "null" -> NullLoop [] key = "rawip" -> RawIp [] key = "ppp" -> Ppp [] key = "pppoe" -> Pppoe
      [] key = "mpls" -> Mpls [] key = "gre" -> Gre [] key = "arp" -> Arp [] key = "igmp" -> Igmp
      [] key = "icmp" -> Icmp [] key = "icmpv6" -> Icmpv6 [] key = "ipv4" -> Ipv4 [] key = "ipv6" -> Ipv6
      [] key = "udp" -> Udp [] key = "tcp" -> Tcp

Layer(proto, from, to, bound) == [proto |-> proto, from |-> from, to |-> to, bound |-> bound]

\* The loop goes on with what is named, unless no byte is left for it.
GoesOn(found) == found.next # "none" /\ found.to < found.bound

\* ARP replies bind an address to a hardware address, and a new one is a conflict; one
\* without length is bound, and then forgotten.
Rebinds == /\ key = "arp" /\ Hdr.reply
           /\ Hdr.src \in DOMAIN bindings /\ bindings[Hdr.src] \notin {"", Hdr.dst}

\* Faulty variant: the first binding stays.
FirstBinding == IF Hdr.src \in DOMAIN bindings THEN bindings
                ELSE [a \in DOMAIN bindings \cup {Hdr.src} |-> IF a = Hdr.src THEN Hdr.dst ELSE bindings[a]]
NewBindings == [a \in DOMAIN bindings \cup {Hdr.src} |-> IF a = Hdr.src THEN Hdr.dst ELSE bindings[a]]

ArpState ==
    /\ bindings' = IF key = "arp" /\ Hdr.reply THEN NewBindings ELSE bindings
    /\ conflicts' = IF Rebinds THEN Append(conflicts, [ip |-> Hdr.src, old |-> bindings[Hdr.src],
                                                       new |-> Hdr.dst, pkt |-> Len(captured)])
                    ELSE conflicts
    /\ arps' = IF key = "arp" THEN Append(arps, [pkt |-> Len(captured), hdr |-> hdr + 1]) ELSE arps

\* Fragments are kept per pair of addresses (the identification is theirs here).
FragmentState ==
    LET k == <<Hdr.src, Hdr.dst>>
        so == IF k \in DOMAIN ipfrag THEN ipfrag[k] ELSE [packets |-> <<>>, bytes |-> 0]
    IN ipfrag' = IF key = "ipv4" /\ Hdr.frag # "no"
                 THEN [d \in DOMAIN ipfrag \cup {k} |->
                         IF d # k THEN ipfrag[d]
                         ELSE [packets |-> Append(so.packets, Len(captured)),
                               bytes |-> so.bytes + Ipv4End - AfterHeader]]
                 ELSE ipfrag

\* One turn of the loop with a header: the layer, and where the next one begins.
HeaderLayer ==
    /\ walking /\ Len(layers) < MaxDepth /\ key \in Kinds
    /\ \E found \in {Dissected} :
         /\ found # None
         /\ layers' = Append(layers, Layer(key, offset, found.to, found.bound))
         /\ walking' = GoesOn(found)
         /\ IF GoesOn(found)
            THEN offset' = found.to /\ end' = found.bound /\ hdr' = hdr + 1 /\ key' = found.next
            ELSE UNCHANGED <<offset, end, hdr, key>>
    /\ errors' = IF Rebinds THEN errors \cup {"arp"} ELSE errors
    /\ ArpState /\ FragmentState
    /\ UNCHANGED <<traffic, captured, piece, queue, tried>>

\* Nobody takes the bytes: they become a data layer, the last one.
DataLayer ==
    /\ layers' = IF offset < end THEN Append(layers, Layer("data", offset, end, end)) ELSE layers
    /\ walking' = FALSE

NoDissector ==
    /\ walking /\ Len(layers) < MaxDepth
    /\ key = "unknown" \/ (key \in Kinds /\ Dissected = None)
    /\ DataLayer
    /\ UNCHANGED <<traffic, captured, offset, end, hdr, piece, key, queue, tried, errors, bindings, conflicts, arps, ipfrag>>

\* The rest of a packet nested deeper than the loop goes is left without a layer.
TooDeep ==
    /\ walking /\ Len(layers) >= MaxDepth
    /\ walking' = FALSE
    /\ UNCHANGED <<traffic, captured, offset, end, hdr, piece, key, queue, layers, tried, errors, bindings, conflicts, arps, ipfrag>>

-----------------------------------------------------------------------------
(* Applications *)

Claimants(port) == {i \in DOMAIN Dissectors : port \in Dissectors[i].ports}

\* Map.set: the last registration of a port wins.  (A set: empty if there is none.)
lookup(port) == {Dissectors[i].id : i \in {j \in Claimants(port) : \A k \in Claimants(port) : k <= j}}

OneOf(ids) == IF ids = {} THEN <<>> ELSE <<CHOOSE d \in ids : TRUE>>
Heuristic(out) ==
    LET upTo[n \in 0 .. Len(Dissectors)] ==
            IF n = 0 THEN <<>>
            ELSE IF Dissectors[n].heuristic /\ Dissectors[n].id \notin out
                 THEN Append(upTo[n - 1], Dissectors[n].id) ELSE upTo[n - 1]
    IN upTo[Len(Dissectors)]

\* Faulty variant: both ports are looked up, even if one dissector has both.
EveryMatch(sp, dp) ==
    OneOf(lookup(dp)) \o OneOf(lookup(sp)) \o Heuristic(lookup(dp) \cup lookup(sp))

\* The dissector of the destination port, the one of the source port, the heuristics.
pickCandidates(sp, dp) ==
    OneOf(lookup(dp)) \o OneOf(lookup(sp) \ lookup(dp)) \o Heuristic(lookup(dp) \cup lookup(sp))

Ports == packet.hdrs[hdr]
Piece1 == packet.pieces[piece + 1]

PickCandidates ==
    /\ walking /\ Len(layers) < MaxDepth /\ key = "ports" /\ queue = None
    /\ queue' = pickCandidates(Ports.sport, Ports.dport)
    /\ tried' = <<>>
    /\ UNCHANGED <<traffic, captured, walking, offset, end, hdr, piece, key, layers, errors, bindings, conflicts, arps, ipfrag>>

Candidate == queue[1]
Verdict == Piece1.does[Candidate]
TryNext == /\ walking /\ key = "ports" /\ queue # None /\ queue # <<>>
           /\ tried' = Append(tried, Candidate)

\* A candidate that declines, or throws: the next one is tried.
CandidateFails ==
    /\ TryNext /\ Verdict \in {"declines", "throws"}
    /\ queue' = Tail(queue)
    /\ errors' = IF Verdict = "throws" THEN errors \cup {Candidate} ELSE errors
    /\ UNCHANGED <<traffic, captured, walking, offset, end, hdr, piece, key, layers, bindings, conflicts, arps, ipfrag>>

CandidateTakes ==
    /\ TryNext /\ Verdict = "takes"
    /\ layers' = Append(layers, Layer(Candidate, offset, end, end))
    /\ walking' = FALSE
    /\ UNCHANGED <<traffic, captured, offset, end, hdr, piece, key, queue, errors, bindings, conflicts, arps, ipfrag>>

\* One message of several: what follows it is dissected with the same ports, if a length
\* of the next is there.
CandidateChains ==
    /\ TryNext /\ Verdict = "chains"
    /\ LET to == Least(end, offset + Piece1.len)
       IN /\ layers' = Append(layers, Layer(Candidate, offset, to, end))
          /\ walking' = (to + 2 <= end)
          /\ offset' = to
    /\ piece' = piece + 1
    /\ queue' = None
    /\ UNCHANGED <<traffic, captured, end, hdr, key, errors, bindings, conflicts, arps, ipfrag>>

NoCandidate ==
    /\ walking /\ key = "ports" /\ queue = <<>>
    /\ DataLayer
    /\ UNCHANGED <<traffic, captured, offset, end, hdr, piece, key, queue, tried, errors, bindings, conflicts, arps, ipfrag>>

LayersNext ==
    \/ ~walking /\ More("layers") /\ \E p \in Packets : NextPacket(p)
    \/ HeaderLayer \/ NoDissector \/ TooDeep
    \/ PickCandidates \/ CandidateFails \/ CandidateTakes \/ CandidateChains \/ NoCandidate

-----------------------------------------------------------------------------
(* Properties *)

\* The layers follow each other without gap or overlap, each inside what every header
\* around it claims and without the frame check sequence: padding behind an IP packet, or
\* behind a datagram in a tunnel, never becomes payload, and no byte has two owners
\* (dissect.js:42, 63-67; ipv4.js:92; ipv6.js:35; linklayers.js:127; udp.js:18).
\* Four headers say how long they are and are not held to it: TCP, GRE, PPP and the
\* extensions of IPv6 (tcp.js:67; misc.js:24; linklayers.js:100; ipv6.js:68).  Such a
\* layer may be longer than what it was given, and then nothing follows it.
Overlong == {"tcp", "gre", "ppp", "ipv6"}
LayersTile ==
    traffic = "layers" => \A i \in DOMAIN layers :
        /\ layers[i].from = IF i = 1 THEN 0 ELSE layers[i - 1].to
        /\ layers[i].to <= layers[i].bound \/ (layers[i].proto \in Overlong /\ i = Len(layers))
        /\ layers[i].bound <= packet.size - (IF packet.size > packet.fcs THEN packet.fcs ELSE 0)
        /\ \A j \in 1 .. i - 1 :
              /\ layers[j].proto \in {"ipv4", "udp"} /\ packet.hdrs[j].claims >= packet.hdrs[j].len
                    => layers[i].bound <= layers[j].from + packet.hdrs[j].claims
              /\ layers[j].proto \in {"ipv6", "pppoe"}
                    => layers[i].bound <= layers[j].from + packet.hdrs[j].len + packet.hdrs[j].claims

\* The port decides before the content: the candidates are tried in the order destination
\* port, source port, heuristics, and none of them twice on the same bytes - a dissector
\* that failed after it changed the shared state would change it again (dissect.js:73-90).
\* Of the dissectors that claim a port the one registered last is asked (registry.js:38).
TriedOnceInOrder ==
    walking /\ key = "ports" /\ queue # None =>
        LET all == tried \o queue
            last(port) == {Dissectors[i].id : i \in {j \in Claimants(port) : \A k \in Claimants(port) : k <= j}}
            rank(d) == CASE d \in last(Ports.dport) -> 1
                         [] d \in last(Ports.sport) \ last(Ports.dport) -> 2
                         [] OTHER -> 2 + (CHOOSE i \in DOMAIN Dissectors : Dissectors[i].id = d)
        IN /\ \A i, j \in DOMAIN all : i < j => rank(all[i]) < rank(all[j])
           /\ \A port \in {Ports.dport, Ports.sport} : \A d \in last(port) : \E i \in DOMAIN all : all[i] = d

\* The n-th ARP message, and what is reported of reply n if reply k was the last before it
\* to give its address: that the address has changed hands.
Arped(n) == captured[arps[n].pkt].hdrs[arps[n].hdr]
ChangesHands(k, n) ==
    /\ k < n /\ Arped(k).reply /\ Arped(n).reply /\ Arped(k).src = Arped(n).src
    /\ Arped(k).dst \notin {"", Arped(n).dst}
    /\ \A m \in k + 1 .. n - 1 : Arped(m).reply => Arped(m).src # Arped(n).src
Change(k, n) == [ip |-> Arped(n).src, old |-> Arped(k).dst, new |-> Arped(n).dst, pkt |-> arps[n].pkt]

\* An ARP conflict is reported when an address changes hands, each time it does, once, and
\* never otherwise: not for a repeated reply, not for a request.  It names the hardware
\* address that had the address last and the one that has it now (arp.js:34-48).
ConflictsAreRebinds ==
    traffic = "layers" =>
        /\ \A k, n \in DOMAIN arps : ChangesHands(k, n) => \E i \in DOMAIN conflicts : conflicts[i] = Change(k, n)
        /\ \A i \in DOMAIN conflicts : \E k, n \in DOMAIN arps : ChangesHands(k, n) /\ conflicts[i] = Change(k, n)
        /\ \A i, j \in DOMAIN conflicts : i < j => conflicts[i].pkt < conflicts[j].pkt
=============================================================================
