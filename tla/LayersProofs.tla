---------------------------- MODULE LayersProofs ----------------------------
(***************************************************************************)
(* Theorems of Dissection about the layers of a packet (Layers): they tile *)
(* it, each inside what the headers around it claim; the candidates for a  *)
(* payload are tried once each and in order; and an ARP conflict is        *)
(* reported exactly when an address changes hands.                         *)
(***************************************************************************)
EXTENDS Dissection, SeqLemmas

\* The traffic of a capture is of one kind from its first packet on.
LEMMA OneKindOfTraffic == ASSUME [Next]_vars PROVE traffic' = traffic
<1>1. CASE UNCHANGED vars
  BY <1>1 DEF vars
<1>2. CASE LayersNext
  <2>1. (\E p \in Packets : NextPacket(p)) => traffic' = traffic
    BY DEF NextPacket, Receive
  <2>2. HeaderLayer \/ NoDissector \/ TooDeep => traffic' = traffic
    BY DEF HeaderLayer, NoDissector, TooDeep
  <2>3. PickCandidates \/ CandidateFails \/ CandidateTakes => traffic' = traffic
    BY DEF PickCandidates, CandidateFails, CandidateTakes
  <2>4. CandidateChains \/ NoCandidate => traffic' = traffic
    BY DEF CandidateChains, NoCandidate
  <2> QED
    BY <1>2, <2>1, <2>2, <2>3, <2>4 DEF LayersNext
<1>3. CASE DnsNext
  BY <1>3 DEF DnsNext, DnsMessage, Receive
<1>4. CASE SessionsNext
  BY <1>4 DEF SessionsNext, Receive
<1>5. CASE HostNamesNext
  BY <1>5 DEF HostNamesNext, Receive
<1>6. CASE HandshakesNext
  BY <1>6 DEF HandshakesNext, Receive
<1> QED
  BY <1>1, <1>2, <1>3, <1>4, <1>5, <1>6 DEF Next

\* A step of a capture of packets is one of the layers, or none.
LEMMA LayersOnly ==
    ASSUME [Next]_vars, traffic = "layers"
    PROVE  LayersNext \/ UNCHANGED <<captured, layerVars>>
<1>1. ~DnsNext
  BY DEF DnsNext, More
<1>2. ~SessionsNext
  BY DEF SessionsNext, More, SessionTraffic
<1>3. ~HostNamesNext
  BY DEF HostNamesNext, More
<1>4. ~HandshakesNext
  BY DEF HandshakesNext, More
<1> QED
  BY <1>1, <1>2, <1>3, <1>4 DEF Next, vars

\* Without packets the loop over their layers never starts.
LEMMA LayersNever ==
    ASSUME [Next]_vars, traffic # "layers", ~walking
    PROVE  ~walking'
<1>1. ~LayersNext
  BY DEF LayersNext, More, HeaderLayer, NoDissector, TooDeep, PickCandidates,
         CandidateFails, CandidateTakes, CandidateChains, NoCandidate, TryNext
<1>2. UNCHANGED layerVars
  BY <1>1 DEF Next, vars
<1> QED
  BY <1>2 DEF layerVars

-----------------------------------------------------------------------------
(* What a dissector makes of a header *)

\* The walk over the extension headers of IPv6 ends somewhere.
LEMMA WalkEnds ==
    ASSUME offset \in Nat, end \in Nat, Hdr \in Header
    PROVE  ExtEnd[Walked] \in Nat
<1> DEFINE L == Len(Hdr.ext)
           a == AfterHeader
           step == [p \in Nat \X Nat |-> IF p[1] \in 1 .. L THEN p[2] + Hdr.ext[p[1]] ELSE p[2]]
           Recurs(g) == g = [n \in 0 .. L |-> IF n = 0 THEN AfterHeader ELSE g[n - 1] + Hdr.ext[n]]
<1>1. L \in Nat /\ \A i \in 1 .. L : Hdr.ext[i] \in Nat
  BY DEF Header
<1>2. a \in Nat /\ Ipv6End \in Nat
  BY DEF Header, AfterHeader, Ipv6End, Least
<1>3. ExtEnd = CHOOSE g : Recurs(g)
  BY DEF ExtEnd
<1> HIDE DEF L
<1>4. step \in [Nat \X Nat -> Nat]
  BY <1>1
<1>5. ASSUME NEW i \in 1 .. L, NEW q \in Nat PROVE step[<<i, q>>] = q + Hdr.ext[i]
  <2>1. <<i, q>> \in Nat \X Nat
    BY <1>1
  <2> QED
    BY <2>1
<1> HIDE DEF step
<1>6. PICK f \in [0 .. L -> Nat] : f[0] = a /\ \A i \in 1 .. L : f[i] = step[<<i, f[i - 1]>>]
  <2>1. FunctionUpTo(L, Nat, a, step)
    BY <1>1, <1>2, <1>4, Recursion
  <2> QED
    BY <2>1 DEF FunctionUpTo
<1>7. Recurs(f)
  <2>1. ASSUME NEW i \in 0 .. L PROVE f[i] = IF i = 0 THEN AfterHeader ELSE f[i - 1] + Hdr.ext[i]
    <3>1. CASE i = 0
      BY <1>6, <3>1
    <3>2. CASE i # 0
      <4>1. i \in 1 .. L /\ i - 1 \in 0 .. L
        BY <1>1, <3>2
      <4>2. f[i - 1] \in Nat
        BY <4>1
      <4> QED
        BY <1>5, <1>6, <3>2, <4>1, <4>2
    <3> QED
      BY <3>1, <3>2
  <2> QED
    BY <2>1
<1>8. Recurs(ExtEnd)
  <2> HIDE DEF Recurs
  <2> QED
    BY <1>3, <1>7
<1> HIDE DEF a
<1> DEFINE E == ExtEnd
<1>9. /\ E[0] = AfterHeader
      /\ \A i \in 1 .. L : E[i] = E[i - 1] + Hdr.ext[i]
  BY <1>1, <1>8
<1> HIDE DEF E, Recurs
<1> DEFINE S == {n \in Nat : n \in 0 .. L => E[n] \in Nat}
<1>10. \A n \in 0 .. L : E[n] \in Nat
  <2>1. 0 \in S
    BY <1>2, <1>9 DEF a
  <2>2. ASSUME NEW n \in Nat, n \in S PROVE n + 1 \in S
    <3>1. CASE n + 1 \in 1 .. L
      <4>1. (n + 1) - 1 = n /\ n \in 0 .. L
        BY <1>1, <3>1
      <4>2. E[n] \in Nat /\ Hdr.ext[n + 1] \in Nat
        BY <1>1, <2>2, <3>1, <4>1
      <4> QED
        BY <1>9, <3>1, <4>1, <4>2
    <3>2. CASE n + 1 \notin 1 .. L
      BY <1>1, <3>2
    <3> QED
      BY <3>1, <3>2
  <2> HIDE DEF S
  <2>3. \A n \in Nat : n \in S
    BY <2>1, <2>2, NatSet
  <2> QED
    BY <1>1, <2>3 DEF S
<1> DEFINE stops(n) == n = L \/ E[n] + 8 > Ipv6End
           A == {n \in 1 .. L + 1 : stops(n - 1)}
<1>11. \E n \in 0 .. L : (\A m \in 0 .. n - 1 : E[m] + 8 <= Ipv6End) /\ (n < L => E[n] + 8 > Ipv6End)
  <2>1. L + 1 \in A /\ L + 1 \in Nat /\ A \in SUBSET (1 .. L + 1)
    BY <1>1
  <2>2. PICK k \in A : \A j \in A : k <= j
    <3> HIDE DEF A
    <3> QED
      BY <2>1, MinOfSome
  <2>3. k \in 1 .. L + 1 /\ k - 1 \in 0 .. L /\ stops(k - 1)
    BY <1>1
  <2>4. ASSUME NEW m \in 0 .. (k - 1) - 1 PROVE E[m] + 8 <= Ipv6End
    <3>1. m + 1 \in 1 .. L + 1 /\ (m + 1) - 1 = m /\ m + 1 < k /\ m \in 0 .. L /\ m # L
      BY <1>1, <2>3
    <3>2. m + 1 \notin A
      BY <2>2, <3>1
    <3>3. ~stops(m)
      BY <3>1, <3>2
    <3> QED
      BY <1>2, <1>10, <3>1, <3>3
  <2> QED
    BY <2>3, <2>4
<1>12. Walked \in 0 .. L
  BY <1>11 DEF Walked, E, L
<1> QED
  BY <1>10, <1>12 DEF E

\* What the loop is told by a dissector: the layer ends, and what it holds ends inside what
\* was given to it and what the header claims.
Fits(f) ==
    /\ f.to \in Nat /\ f.bound \in Nat /\ f.bound <= end
    /\ f.to <= f.bound \/ key \in Overlong
    /\ f.next \in {Hdr.key, "none", "unknown"} \/ (f.next = "ports" /\ key \in {"tcp", "udp"})
    /\ key \in {"ipv4", "udp"} /\ Hdr.claims >= Hdr.len => f.bound <= offset + Hdr.claims
    /\ key \in {"ipv6", "pppoe"} => f.bound <= offset + Hdr.len + Hdr.claims

\* Whatever a dissector takes fits into what it was given.
LEMMA DissectedFits ==
    ASSUME offset \in Nat, end \in Nat, offset <= end, Hdr \in Header, key \in Kinds,
           key \notin {"ipv4", "ipv6"} => Hdr.kind = key, Hdr.len \in LengthsOf(Hdr.kind), Dissected # None
    PROVE  Fits(Dissected)
<1> DEFINE h == Hdr
           d == Dissected
<1>1. h.len \in Nat /\ h.claims \in Nat /\ AfterHeader \in Nat /\ AfterHeader = offset + h.len
  BY DEF Header, AfterHeader
<1>2. Room \in Nat /\ offset + Room = end
  BY DEF Room
<1>3. CASE key \in {"vlan", "sll", "sll2", "null", "rawip", "ppp", "gre"}
  <2>1. PICK n \in {0, 1, 2, 4, 16, 20} : d = Simple(n) /\ (key \notin Overlong => h.len <= n)
    <3>1. key = "vlan" \/ key = "null" => d = Simple(4) /\ h.len = 4
      BY DEF Dissected, Vlan, NullLoop, LengthsOf
    <3>2. key = "sll" => d = Simple(16) /\ h.len = 16
      BY DEF Dissected, Sll, LengthsOf
    <3>3. key = "sll2" => d = Simple(20) /\ h.len = 20
      BY DEF Dissected, Sll2, LengthsOf
    <3>4. key = "rawip" => d = Simple(1) /\ h.len = 0
      BY DEF Dissected, RawIp, LengthsOf
    <3>5. key = "ppp" => d = Simple(2)
      BY DEF Dissected, Ppp
    <3>6. key = "gre" => d = Simple(4)
      BY DEF Dissected, Gre
    <3> HIDE DEF d, h
    <3> QED
      BY ONLY <1>3, <3>1, <3>2, <3>3, <3>4, <3>5, <3>6 DEF Overlong
  <2>2. d = Found(AfterHeader, end, h.key) /\ Room >= n
    <3> HIDE DEF h
    <3> QED
      BY <2>1, <1>2 DEF Simple, h
  <2> HIDE DEF d, h
  <2>3. d.to = AfterHeader /\ d.bound = end /\ d.next = h.key
    BY ONLY <2>2 DEF Found
  <2>4. d.to <= d.bound \/ key \in Overlong
    BY ONLY <1>1, <1>2, <2>1, <2>2, <2>3, offset \in Nat, end \in Nat
  <2> QED
    BY <1>1, <1>3, <2>3, <2>4 DEF Fits, d, h
<1>4. CASE key \in {"eth", "arp", "igmp", "icmp", "icmpv6"}
  <2>1. \/ h.len <= Room /\ d \in {Found(AfterHeader, end, h.key), Found(AfterHeader, end, "none")}
        \/ d = LastLayer
    <3>1. key = "eth" => d = LastLayer \/ (h.len <= Room /\ d = Found(AfterHeader, end, h.key))
      BY <1>1, <1>2 DEF Dissected, Ethernet
    <3>2. key = "arp" => h.len <= Room /\ d = Found(AfterHeader, end, "none")
      BY <1>1, <1>2 DEF Dissected, Arp
    <3>3. key \in {"igmp", "icmp", "icmpv6"} => d = LastLayer
      BY DEF Dissected, Igmp, Icmp, Icmpv6
    <3> HIDE DEF d, h
    <3> QED
      BY ONLY <1>4, <3>1, <3>2, <3>3
  <2> HIDE DEF d, h
  <2>2. /\ d.to \in Nat /\ d.bound = end /\ d.to <= end
        /\ d.next \in {h.key, "none"}
    BY ONLY <1>1, <1>2, <2>1, offset \in Nat, end \in Nat DEF Found, LastLayer
  <2> QED
    BY <1>4, <2>2 DEF Fits, d, h
<1>5. CASE key = "pppoe"
  <2>1. d = Found(AfterHeader, Least(end, AfterHeader + h.claims), h.key) /\ Room >= 8
    BY <1>2, <1>5 DEF Dissected, Pppoe
  <2>2. h.len = 6
    BY <1>5 DEF LengthsOf
  <2> QED
    BY <1>1, <1>2, <1>5, <2>1, <2>2 DEF Fits, Found, Least
<1>10. CASE key = "mpls"
  <2>1. Room % 4 \in Nat /\ Room % 4 <= Room
    BY <1>2
  <2>2. \/ h.len <= Room /\ d = Found(AfterHeader, end, h.key)
        \/ d = Found(end - (Room % 4), end, "unknown")
    BY <1>10 DEF Dissected, Mpls
  <2> HIDE DEF d, h
  <2>3. /\ d.to \in Nat /\ d.bound = end /\ d.to <= end
        /\ d.next \in {h.key, "unknown"}
    BY ONLY <1>1, <1>2, <2>1, <2>2, offset \in Nat, end \in Nat DEF Found
  <2> QED
    BY <1>10, <2>3 DEF Fits, d, h
<1>6. CASE key = "ipv4"
  <2>1. d = Found(AfterHeader, Ipv4End, IF h.frag = "later" THEN "none" ELSE h.key) /\ h.len <= Room
    BY <1>1, <1>2, <1>6 DEF Dissected, Ipv4
  <2>2. Ipv4End \in Nat /\ Ipv4End <= end /\ (h.claims >= h.len => Ipv4End <= offset + h.claims)
        /\ AfterHeader <= Ipv4End
    BY <1>1, <1>2, <2>1 DEF Ipv4End, Least
  <2> QED
    BY <1>1, <1>6, <2>1, <2>2 DEF Fits, Found
<1>7. CASE key = "ipv6"
  <2>1. \E next \in {"unknown", "none", h.key} : d = Found(ExtEnd[Walked], Ipv6End, next)
    BY <1>7 DEF Dissected, Ipv6
  <2>2. Ipv6End \in Nat /\ Ipv6End <= end /\ Ipv6End <= offset + h.len + h.claims
    BY <1>1 DEF Ipv6End, Least
  <2>3. ExtEnd[Walked] \in Nat
    BY WalkEnds
  <2> QED
    BY <1>7, <2>1, <2>2, <2>3 DEF Fits, Found, Overlong
<1>8. CASE key = "udp"
  <2>1. d = Found(AfterHeader, UdpEnd, "ports") /\ Room >= 8
    BY <1>2, <1>8 DEF Dissected, Udp
  <2>2. h.len = 8
    BY <1>8 DEF LengthsOf
  <2>3. UdpEnd \in Nat /\ UdpEnd <= end /\ (h.claims >= h.len => UdpEnd <= offset + h.claims)
        /\ AfterHeader <= UdpEnd
    BY <1>1, <1>2, <2>1, <2>2 DEF UdpEnd, Least
  <2> QED
    BY <1>1, <1>8, <2>1, <2>3 DEF Fits, Found
<1>9. CASE key = "tcp"
  <2>1. d = Found(AfterHeader, end, "ports")
    BY <1>9 DEF Dissected, Tcp
  <2> QED
    BY <1>1, <1>9, <2>1 DEF Fits, Found, Overlong
<1> QED
  BY <1>3, <1>4, <1>5, <1>6, <1>7, <1>8, <1>9, <1>10 DEF Kinds

-----------------------------------------------------------------------------
(* The candidates for a payload *)

Place(d) == CHOOSE i \in DOMAIN Dissectors : Dissectors[i].id = d

\* A dissector is where it was registered.
LEMMA Placed ==
    ASSUME NEW i \in 1 .. Len(Dissectors)
    PROVE  Dissectors[i].id \in Ids /\ Place(Dissectors[i].id) = i
<1>1. i \in DOMAIN Dissectors
  BY LayersAssumption
<1>2. \A j, k \in DOMAIN Dissectors : Dissectors[j].id = Dissectors[k].id => j = k
  BY LayersAssumption
<1> QED
  BY ONLY <1>1, <1>2 DEF Ids, Place

\* Some of the first n dissectors, in the order of their registration.
PlacedUpTo(h, n, out) ==
    /\ h \in Seq(Ids)
    /\ \A k \in DOMAIN h : h[k] \notin out /\ Place(h[k]) \in 1 .. n
    /\ \A j, k \in DOMAIN h : j < k => Place(h[j]) < Place(h[k])

\* One more dissector at the end of such a list.
LEMMA PlacedOneMore ==
    ASSUME NEW out, NEW n \in Nat, n + 1 \in 1 .. Len(Dissectors), NEW h, PlacedUpTo(h, n, out)
    PROVE  /\ PlacedUpTo(h, n + 1, out)
           /\ Dissectors[n + 1].id \notin out => PlacedUpTo(Append(h, Dissectors[n + 1].id), n + 1, out)
<1> DEFINE d == Dissectors[n + 1].id
           t == Append(h, d)
<1>1. d \in Ids /\ Place(d) = n + 1
  BY Placed
<1>2. \A k \in DOMAIN h : Place(h[k]) \in 1 .. n /\ Place(h[k]) \in 1 .. n + 1 /\ Place(h[k]) < n + 1
  BY DEF PlacedUpTo
<1> HIDE DEF d
<1>3. t \in Seq(Ids)
  BY <1>1, Enqueued DEF PlacedUpTo
<1>4. /\ Len(h) \in Nat /\ DOMAIN h = 1 .. Len(h) /\ DOMAIN t = 1 .. Len(h) + 1
      /\ \A k \in 1 .. Len(h) : t[k] = h[k]
      /\ t[Len(h) + 1] = d
  BY Grown DEF PlacedUpTo
<1> HIDE DEF t
<1>5. ASSUME d \notin out PROVE PlacedUpTo(t, n + 1, out)
  <2>1. ASSUME NEW k \in DOMAIN t PROVE t[k] \notin out /\ Place(t[k]) \in 1 .. n + 1
    <3>1. k \in 1 .. Len(h) \/ k = Len(h) + 1
      BY <1>4
    <3> QED
      BY <1>1, <1>2, <1>4, <1>5, <3>1 DEF PlacedUpTo
  <2>2. ASSUME NEW j \in DOMAIN t, NEW k \in DOMAIN t, j < k PROVE Place(t[j]) < Place(t[k])
    <3>1. j \in 1 .. Len(h) /\ (k \in 1 .. Len(h) \/ k = Len(h) + 1)
      BY <1>4, <2>2
    <3> QED
      BY <1>1, <1>2, <1>4, <2>2, <3>1 DEF PlacedUpTo
  <2> QED
    BY <1>3, <2>1, <2>2 DEF PlacedUpTo
<1> QED
  BY <1>2, <1>5 DEF PlacedUpTo, t, d

\* The heuristic candidates are in the order of their registration.
LEMMA HeuristicsInOrder ==
    ASSUME NEW out
    PROVE  PlacedUpTo(Heuristic(out), Len(Dissectors), out)
<1> DEFINE N == Len(Dissectors)
           wanted(i) == Dissectors[i].heuristic /\ Dissectors[i].id \notin out
           next(i, q) == IF wanted(i) THEN Append(q, Dissectors[i].id) ELSE q
           step == [p \in Nat \X Seq(Ids) |-> IF p[1] \in 1 .. N THEN next(p[1], p[2]) ELSE p[2]]
           Recurs(g) == g = [n \in 0 .. N |->
               IF n = 0 THEN <<>>
               ELSE IF Dissectors[n].heuristic /\ Dissectors[n].id \notin out
                    THEN Append(g[n - 1], Dissectors[n].id) ELSE g[n - 1]]
           g == CHOOSE h : Recurs(h)
<1>1. N \in Nat
  BY LayersAssumption
<1>2. Heuristic(out) = g[N]
  BY DEF Heuristic
<1> HIDE DEF N
<1>3. ASSUME NEW i \in 1 .. N, NEW q \in Seq(Ids) PROVE next(i, q) \in Seq(Ids)
  <2>1. Dissectors[i].id \in Ids
    BY Placed DEF N
  <2> QED
    BY <2>1, Enqueued
<1> HIDE DEF next
<1>4. step \in [Nat \X Seq(Ids) -> Seq(Ids)]
  BY <1>3
<1>5. ASSUME NEW i \in 1 .. N, NEW q \in Seq(Ids) PROVE step[<<i, q>>] = next(i, q)
  <2>1. <<i, q>> \in Nat \X Seq(Ids)
    BY <1>1
  <2> QED
    BY <2>1
<1> HIDE DEF step
<1>6. PICK f \in [0 .. N -> Seq(Ids)] : f[0] = <<>> /\ \A i \in 1 .. N : f[i] = step[<<i, f[i - 1]>>]
  <2>1. <<>> \in Seq(Ids)
    BY Nothing
  <2>2. FunctionUpTo(N, Seq(Ids), <<>>, step)
    BY ONLY <1>1, <1>4, <2>1, Recursion
  <2> QED
    BY <2>2 DEF FunctionUpTo
<1>7. ASSUME NEW i \in 1 .. N PROVE f[i] = next(i, f[i - 1])
  <2>1. i - 1 \in 0 .. N
    BY <1>1
  <2>2. f[i - 1] \in Seq(Ids)
    BY <2>1
  <2> QED
    BY <1>5, <1>6, <2>2
<1>8. Recurs(f)
  <2>1. ASSUME NEW i \in 0 .. N
        PROVE f[i] = IF i = 0 THEN <<>>
                     ELSE IF Dissectors[i].heuristic /\ Dissectors[i].id \notin out
                          THEN Append(f[i - 1], Dissectors[i].id) ELSE f[i - 1]
    <3>1. i = 0 \/ i \in 1 .. N
      BY <1>1
    <3> QED
      BY <1>6, <1>7, <3>1 DEF next
  <2> QED
    BY <2>1
<1>9. Recurs(g)
  <2> HIDE DEF Recurs
  <2> QED
    BY <1>8
<1> HIDE DEF g
<1>10. ASSUME NEW i \in 1 .. N PROVE g[i] = next(i, g[i - 1])
  <2>1. i \in 0 .. N /\ i # 0
    BY <1>1
  <2> QED
    BY <1>9, <2>1 DEF next
<1> DEFINE S == {n \in Nat : n \in 0 .. N => PlacedUpTo(g[n], n, out)}
<1>11. 0 \in S
  <2>1. g[0] = <<>>
    BY <1>1, <1>9
  <2>2. <<>> \in Seq(Ids) /\ DOMAIN <<>> = {}
    BY Nothing
  <2> QED
    BY <2>1, <2>2 DEF PlacedUpTo
<1>12. ASSUME NEW n \in Nat, n \in S PROVE n + 1 \in S
  <2>1. CASE n + 1 \in 1 .. N
    <3>1. n \in 0 .. N /\ (n + 1) - 1 = n
      BY <1>1, <2>1
    <3>2. g[n + 1] = next(n + 1, g[n])
      BY <1>10, <2>1, <3>1
    <3>3. PlacedUpTo(g[n], n, out)
      BY <1>12, <3>1
    <3>4. n + 1 \in 1 .. Len(Dissectors)
      BY <2>1 DEF N
    <3>5. /\ PlacedUpTo(g[n], n + 1, out)
          /\ Dissectors[n + 1].id \notin out => PlacedUpTo(Append(g[n], Dissectors[n + 1].id), n + 1, out)
      BY ONLY <1>12, <3>3, <3>4, PlacedOneMore
    <3>6. PlacedUpTo(g[n + 1], n + 1, out)
      BY <3>2, <3>5 DEF next
    <3> QED
      BY <3>6
  <2>2. CASE n + 1 \notin 1 .. N
    BY <1>1, <2>2
  <2> QED
    BY <2>1, <2>2
<1> HIDE DEF S
<1>13. N \in S
  BY <1>1, <1>11, <1>12, NatSet
<1> QED
  BY <1>1, <1>2, <1>13 DEF S, N

Rank(d, sp, dp) == CASE d \in lookup(dp) -> 1 [] d \in lookup(sp) \ lookup(dp) -> 2 [] OTHER -> 2 + Place(d)

\* The candidates for two ports: what claims the ports is among them, and they are ranked.
Ranked(all, sp, dp) ==
    /\ all \in Seq(Ids)
    /\ \A i, j \in DOMAIN all : i < j => Rank(all[i], sp, dp) < Rank(all[j], sp, dp)
    /\ \A d \in lookup(dp) \cup lookup(sp) : \E i \in DOMAIN all : all[i] = d

\* At most one dissector is found for a port.
LEMMA OneLookedUp ==
    ASSUME NEW port
    PROVE  lookup(port) = {} \/ \E d \in Ids : lookup(port) = {d}
<1> DEFINE last == {j \in Claimants(port) : \A k \in Claimants(port) : k <= j}
<1>1. last \subseteq 1 .. Len(Dissectors) /\ DOMAIN Dissectors = 1 .. Len(Dissectors)
  BY LayersAssumption DEF Claimants
<1>2. \A i, j \in last : i = j
  BY <1>1, LayersAssumption
<1>3. lookup(port) = {Dissectors[i].id : i \in last}
  BY DEF lookup
<1>4. \A i \in last : Dissectors[i].id \in Ids
  BY <1>1 DEF Ids
<1> HIDE DEF last
<1>5. CASE last = {}
  BY <1>3, <1>5
<1>6. CASE last # {}
  <2>1. PICK i \in last : TRUE
    BY <1>6
  <2>2. lookup(port) = {Dissectors[i].id}
    BY <1>2, <1>3, <2>1
  <2> QED
    BY <1>4, <2>1, <2>2
<1> QED
  BY <1>5, <1>6

\* What is taken from a set of one is the one.
LEMMA OneOfOne == OneOf({}) = <<>> /\ \A d : OneOf({d}) = <<d>>
<1>1. OneOf({}) = <<>>
  BY DEF OneOf
<1>2. ASSUME NEW d PROVE OneOf({d}) = <<d>>
  <2>1. (CHOOSE e \in {d} : TRUE) = d
    OBVIOUS
  <2> QED
    BY <2>1 DEF OneOf
<1> QED
  BY <1>1, <1>2

\* One candidate before ranked ones, if it is of a lower rank than they are.
LEMMA RankedOneMore ==
    ASSUME NEW sp, NEW dp, NEW d \in Ids, NEW h \in Seq(Ids),
           \A k \in DOMAIN h : Rank(d, sp, dp) < Rank(h[k], sp, dp),
           \A i, j \in DOMAIN h : i < j => Rank(h[i], sp, dp) < Rank(h[j], sp, dp),
           NEW all, all = <<d>> \o h
    PROVE  /\ all \in Seq(Ids) /\ DOMAIN all = 1 .. Len(h) + 1 /\ all[1] = d
           /\ \A k \in DOMAIN h : all[k + 1] = h[k]
           /\ \A i, j \in DOMAIN all : i < j => Rank(all[i], sp, dp) < Rank(all[j], sp, dp)
<1>1. Len(h) \in Nat /\ DOMAIN h = 1 .. Len(h)
  OBVIOUS
<1>2. /\ all \in Seq(Ids) /\ DOMAIN all = 1 .. Len(h) + 1 /\ all[1] = d
      /\ \A k \in 1 .. Len(h) : all[k + 1] = h[k]
  BY <1>1
<1>3. ASSUME NEW i \in DOMAIN all, NEW j \in DOMAIN all, i < j
      PROVE  Rank(all[i], sp, dp) < Rank(all[j], sp, dp)
  <2>1. j - 1 \in 1 .. Len(h) /\ all[j] = h[j - 1]
    <3>1. j - 1 \in 1 .. Len(h) /\ (j - 1) + 1 = j
      BY <1>1, <1>2, <1>3
    <3> QED
      BY <1>2, <3>1
  <2>2. CASE i = 1
    BY <1>1, <1>2, <2>1, <2>2
  <2>3. CASE i # 1
    <3>1. i - 1 \in 1 .. Len(h) /\ (i - 1) + 1 = i /\ i - 1 < j - 1
      BY <1>1, <1>2, <1>3, <2>3
    <3> QED
      BY <1>1, <1>2, <2>1, <3>1
  <2> QED
    BY <2>2, <2>3
<1> QED
  BY <1>1, <1>2, <1>3

\* The candidates are ranked: destination port, source port, heuristics as registered.
LEMMA CandidatesAreRanked ==
    ASSUME NEW sp, NEW dp
    PROVE  Ranked(pickCandidates(sp, dp), sp, dp)
<1> DEFINE D == lookup(dp)
           S == lookup(sp)
           h == Heuristic(D \cup S)
           q == OneOf(S \ D) \o h
           all == OneOf(D) \o q
           Rises(s) == \A i, j \in DOMAIN s : i < j => Rank(s[i], sp, dp) < Rank(s[j], sp, dp)
<1>1. PlacedUpTo(h, Len(Dissectors), D \cup S) /\ Len(Dissectors) \in Nat
  BY HeuristicsInOrder, LayersAssumption
<1> HIDE DEF h
<1>2. ASSUME NEW k \in DOMAIN h
      PROVE  Rank(h[k], sp, dp) = 2 + Place(h[k]) /\ Place(h[k]) \in Nat \ {0} /\ Rank(h[k], sp, dp) > 2
  <2>1. h[k] \notin D \cup S /\ Place(h[k]) \in 1 .. Len(Dissectors)
    BY ONLY <1>1, <1>2 DEF PlacedUpTo
  <2>2. Rank(h[k], sp, dp) = 2 + Place(h[k])
    BY ONLY <2>1 DEF Rank
  <2>3. Place(h[k]) \in Nat \ {0}
    BY ONLY <1>1, <2>1
  <2> QED
    BY ONLY <2>2, <2>3
<1>3. h \in Seq(Ids) /\ Rises(h)
  <2>1. ASSUME NEW i \in DOMAIN h, NEW j \in DOMAIN h, i < j PROVE Rank(h[i], sp, dp) < Rank(h[j], sp, dp)
    <3>1. Place(h[i]) < Place(h[j])
      BY ONLY <1>1, <2>1 DEF PlacedUpTo
    <3> QED
      BY ONLY <1>2, <3>1
  <2>2. h \in Seq(Ids)
    BY ONLY <1>1 DEF PlacedUpTo
  <2> QED
    BY ONLY <2>1, <2>2
<1>4. D = {} \/ \E d \in Ids : D = {d}
  BY OneLookedUp
<1>5. S = {} \/ \E d \in Ids : S = {d}
  BY OneLookedUp
<1>6. /\ \A d \in D : Rank(d, sp, dp) = 1
      /\ \A d \in S \ D : Rank(d, sp, dp) = 2
  BY ONLY TRUE DEF Rank
<1> HIDE DEF D, S
<1>7. pickCandidates(sp, dp) = all
  <2>1. pickCandidates(sp, dp) = OneOf(D) \o OneOf(S \ D) \o h
    BY DEF pickCandidates, h, D, S
  <2>2. OneOf(D) \in Seq(Ids)
    <3>1. D = {} => OneOf(D) \in Seq(Ids)
      BY OneOfOne, Nothing
    <3>2. ASSUME NEW d \in Ids, D = {d} PROVE OneOf(D) \in Seq(Ids)
      <4>1. OneOf(D) = <<d>>
        BY ONLY <3>2, OneOfOne
      <4>2. <<d>> \in Seq(Ids)
        BY <3>2
      <4> QED
        BY ONLY <4>1, <4>2
    <3> QED
      BY <1>4, <3>1, <3>2
  <2>3. OneOf(S \ D) \in Seq(Ids)
    <3>1. S \ D = {} => OneOf(S \ D) \in Seq(Ids)
      BY OneOfOne, Nothing
    <3>2. ASSUME NEW d \in Ids, S \ D = {d} PROVE OneOf(S \ D) \in Seq(Ids)
      <4>1. OneOf(S \ D) = <<d>>
        BY ONLY <3>2, OneOfOne
      <4>2. <<d>> \in Seq(Ids)
        BY <3>2
      <4> QED
        BY ONLY <4>1, <4>2
    <3>3. S \ D = {} \/ \E d \in Ids : S \ D = {d}
      BY <1>5
    <3> QED
      BY <3>1, <3>2, <3>3
  <2>4. ASSUME NEW x \in Seq(Ids), NEW y \in Seq(Ids), NEW z \in Seq(Ids) PROVE (x \o y) \o z = x \o (y \o z)
    OBVIOUS
  <2> QED
    BY ONLY <1>3, <2>1, <2>2, <2>3, <2>4
<1>8. /\ q \in Seq(Ids) /\ Rises(q) /\ \A k \in DOMAIN q : Rank(q[k], sp, dp) > 1
      /\ \A d \in S \ D : \E k \in DOMAIN q : q[k] = d
  <2>1. CASE S \ D = {}
    <3>1. q = h
      <4>1. OneOf(S \ D) = <<>>
        BY ONLY <2>1, OneOfOne
      <4>2. <<>> \o h = h
        BY ONLY <1>3
      <4> QED
        BY ONLY <4>1, <4>2
    <3>2. \A k \in DOMAIN h : Rank(h[k], sp, dp) > 1
      BY ONLY <1>2
    <3> HIDE DEF q
    <3> QED
      BY ONLY <1>3, <2>1, <3>1, <3>2
  <2>2. CASE S \ D # {}
    <3>1. PICK d \in Ids : S \ D = {d}
      BY <1>5, <2>2
    <3>2. q = <<d>> \o h
      BY ONLY <3>1, OneOfOne
    <3>3. Rank(d, sp, dp) = 2
      BY <1>6, <3>1
    <3>4. \A k \in DOMAIN h : Rank(d, sp, dp) < Rank(h[k], sp, dp)
      BY ONLY <1>2, <3>3
    <3> HIDE DEF q
    <3>5. /\ q \in Seq(Ids) /\ DOMAIN q = 1 .. Len(h) + 1 /\ q[1] = d
          /\ \A k \in DOMAIN h : q[k + 1] = h[k]
          /\ Rises(q)
      BY ONLY <1>3, <3>1, <3>2, <3>4, RankedOneMore
    <3>6. Len(h) \in Nat /\ DOMAIN h = 1 .. Len(h)
      BY ONLY <1>3
    <3>7. ASSUME NEW k \in DOMAIN q PROVE Rank(q[k], sp, dp) > 1
      <4>1. CASE k = 1
        BY ONLY <3>3, <3>5, <4>1
      <4>2. CASE k # 1
        <5>1. k - 1 \in DOMAIN h /\ (k - 1) + 1 = k
          BY ONLY <3>5, <3>6, <3>7, <4>2
        <5>2. Rank(q[k], sp, dp) = 2 + Place(h[k - 1]) /\ Place(h[k - 1]) \in Nat
          BY ONLY <1>2, <3>5, <5>1
        <5> QED
          BY ONLY <5>2
      <4> QED
        BY ONLY <4>1, <4>2
    <3>8. 1 \in DOMAIN q
      BY ONLY <3>5, <3>6
    <3>9. \A e \in S \ D : \E k \in DOMAIN q : q[k] = e
      BY ONLY <3>1, <3>5, <3>8
    <3> QED
      BY ONLY <3>5, <3>7, <3>9
  <2> QED
    BY ONLY <2>1, <2>2
<1> HIDE DEF q
<1>9. CASE D = {}
  <2>1. all = q
    <3>1. OneOf(D) = <<>>
      BY ONLY <1>9, OneOfOne
    <3>2. <<>> \o q = q
      BY ONLY <1>8
    <3> QED
      BY ONLY <3>1, <3>2
  <2>2. D \cup S = S \ D
    BY ONLY <1>9
  <2> HIDE DEF all
  <2> QED
    BY ONLY <1>7, <1>8, <2>1, <2>2 DEF Ranked, D, S
<1>10. CASE D # {}
  <2>1. PICK d \in Ids : D = {d}
    BY ONLY <1>4, <1>10
  <2>2. all = <<d>> \o q
    BY ONLY <2>1, OneOfOne
  <2>3. Rank(d, sp, dp) = 1
    BY ONLY <1>6, <2>1
  <2>4. \A k \in DOMAIN q : Rank(d, sp, dp) < Rank(q[k], sp, dp)
    BY ONLY <1>8, <2>3
  <2> HIDE DEF all
  <2>5. /\ all \in Seq(Ids) /\ DOMAIN all = 1 .. Len(q) + 1 /\ all[1] = d
        /\ \A k \in DOMAIN q : all[k + 1] = q[k]
        /\ Rises(all)
    BY ONLY <1>8, <2>1, <2>2, <2>4, RankedOneMore
  <2>6. Len(q) \in Nat /\ DOMAIN q = 1 .. Len(q)
    BY ONLY <1>8
  <2>7. ASSUME NEW e \in D \cup S PROVE \E k \in DOMAIN all : all[k] = e
    <3>1. CASE e = d
      <4>1. 1 \in DOMAIN all
        BY ONLY <2>5, <2>6
      <4> QED
        BY ONLY <2>5, <3>1, <4>1
    <3>2. CASE e # d
      <4>1. PICK k \in DOMAIN q : q[k] = e
        BY ONLY <1>8, <2>1, <2>7, <3>2
      <4>2. k + 1 \in DOMAIN all
        BY ONLY <2>5, <2>6, <4>1
      <4> QED
        BY ONLY <2>5, <4>1, <4>2
    <3> QED
      BY ONLY <3>1, <3>2
  <2> QED
    BY ONLY <1>7, <2>5, <2>7 DEF Ranked, D, S
<1> QED
  BY ONLY <1>9, <1>10

-----------------------------------------------------------------------------
(* The layers of a packet *)

LayerOf == [proto : Kinds \cup Ids \cup {"data"}, from : Nat, to : Nat, bound : Nat]
EndOf(ls) == IF ls = <<>> THEN 0 ELSE ls[Len(ls)].to
Frame(p) == p.size - (IF p.size > p.fcs THEN p.fcs ELSE 0)

\* A layer with this header may hold bytes up to b.
Allows(l, h, b) ==
    /\ l.proto \in {"ipv4", "udp"} /\ h.claims >= h.len => b <= l.from + h.claims
    /\ l.proto \in {"ipv6", "pppoe"} => b <= l.from + h.len + h.claims

\* The packet and all its layers may.
Bounded(ls, p, b) == b <= Frame(p) /\ \A j \in DOMAIN ls : Allows(ls[j], p.hdrs[j], b)

\* The last layer is inside what it was given.
Closed(ls) == ls # <<>> => ls[Len(ls)].to <= ls[Len(ls)].bound

\* Layers that follow each other, each inside those before it; those of headers come first.
Tiles(ls, p) ==
    /\ ls \in Seq(LayerOf)
    /\ \A i \in DOMAIN ls :
          /\ ls[i].proto \in Kinds => i \in DOMAIN p.hdrs
          /\ ls[i].from = IF i = 1 THEN 0 ELSE ls[i - 1].to
          /\ ls[i].to <= ls[i].bound \/ (ls[i].proto \in Overlong /\ i = Len(ls))
          /\ ls[i].bound <= Frame(p)
          /\ \A j \in 1 .. i - 1 : Allows(ls[j], p.hdrs[j], ls[i].bound)

\* What may hold bytes up to b may hold less.
LEMMA AllowsLess ==
    ASSUME NEW l \in LayerOf, NEW h, l.proto \in Kinds => h \in Header, NEW b \in Nat, NEW c \in Nat,
           c <= b, Allows(l, h, b)
    PROVE  Allows(l, h, c)
<1>1. l.from \in Nat
  BY DEF LayerOf
<1>2. l.proto \in {"ipv4", "udp", "ipv6", "pppoe"} => h.claims \in Nat /\ h.len \in Nat
  BY DEF Kinds, Header
<1> QED
  BY ONLY b \in Nat, c \in Nat, c <= b, Allows(l, h, b), <1>1, <1>2 DEF Allows

\* The layers end with the last one.
LEMMA EndsWithIt ==
    ASSUME NEW ls \in Seq(LayerOf), NEW e
    PROVE  EndOf(Append(ls, e)) = e.to
<1> DEFINE t == Append(ls, e)
<1>1. Len(ls) \in Nat /\ Len(t) = Len(ls) + 1 /\ DOMAIN t = 1 .. Len(ls) + 1 /\ t[Len(ls) + 1] = e
  BY Grown
<1> HIDE DEF t
<1>2. t # <<>>
  BY <1>1
<1> QED
  BY <1>1, <1>2 DEF EndOf, t

\* One more layer where the last one ended.
LEMMA TilesOneMore ==
    ASSUME NEW p \in Packet, NEW ls, Tiles(ls, p), Closed(ls), NEW b \in Nat, Bounded(ls, p, b),
           NEW e \in LayerOf, e.from = EndOf(ls), e.bound <= b, e.to <= e.bound \/ e.proto \in Overlong,
           e.proto \in Kinds => Len(ls) + 1 \in DOMAIN p.hdrs,
           NEW t, t = Append(ls, e)
    PROVE  /\ Tiles(t, p) /\ Len(t) = Len(ls) + 1 /\ Len(ls) \in Nat
           /\ e.to <= e.bound => Closed(t)
           /\ Allows(e, p.hdrs[Len(ls) + 1], e.bound) => Bounded(t, p, e.bound)
           /\ e.proto \notin Kinds => Bounded(t, p, b)
<1>1. ls \in Seq(LayerOf)
  BY DEF Tiles
<1>2. /\ Len(ls) \in Nat /\ DOMAIN ls = 1 .. Len(ls) /\ DOMAIN t = 1 .. Len(ls) + 1
      /\ \A k \in 1 .. Len(ls) : t[k] = ls[k]
      /\ t[Len(ls) + 1] = e
  BY <1>1, Grown
<1>3. t \in Seq(LayerOf)
  BY <1>1, Enqueued
<1>4. Frame(p) \in Nat
  BY DEF Packet, Frame
<1>5. \A i \in DOMAIN p.hdrs : p.hdrs[i] \in Header
  BY DEF Packet
<1>6. e.bound \in Nat
  BY DEF LayerOf
<1>7. ASSUME NEW j \in 1 .. Len(ls) PROVE Allows(ls[j], p.hdrs[j], e.bound)
  <2>1. ls[j] \in LayerOf
    BY <1>1, <1>2
  <2>2. ls[j].proto \in Kinds => p.hdrs[j] \in Header
    BY <1>2, <1>5 DEF Tiles
  <2>3. Allows(ls[j], p.hdrs[j], b)
    BY <1>2 DEF Bounded
  <2> DEFINE l == ls[j]
             h == p.hdrs[j]
  <2> HIDE DEF l, h
  <2>4. Allows(l, h, e.bound)
    BY ONLY <1>6, <2>1, <2>2, <2>3, b \in Nat, e.bound <= b, AllowsLess DEF l, h
  <2> QED
    BY <2>4 DEF l, h
<1>8. e.bound <= Frame(p)
  BY <1>4, <1>6 DEF Bounded
<1>10. Len(t) = Len(ls) + 1
  BY <1>1
<1>9. ASSUME NEW i \in DOMAIN t
      PROVE  /\ t[i].proto \in Kinds => i \in DOMAIN p.hdrs
             /\ t[i].from = IF i = 1 THEN 0 ELSE t[i - 1].to
             /\ t[i].to <= t[i].bound \/ (t[i].proto \in Overlong /\ i = Len(t))
             /\ t[i].bound <= Frame(p)
             /\ \A j \in 1 .. i - 1 : Allows(t[j], p.hdrs[j], t[i].bound)
  <2>1. CASE i \in 1 .. Len(ls)
    <3>1. t[i] = ls[i] /\ (i # 1 => t[i - 1] = ls[i - 1]) /\ \A j \in 1 .. i - 1 : t[j] = ls[j]
      BY ONLY <1>2, <2>1
    <3>2. i \in DOMAIN ls
      BY <1>2, <2>1
    <3>3. ls[i].to <= ls[i].bound
      <4>1. CASE i = Len(ls)
        <5>1. ls # <<>>
          BY <1>2, <2>1
        <5> QED
          BY <4>1, <5>1 DEF Closed
      <4>2. CASE i # Len(ls)
        BY <3>2, <4>2 DEF Tiles
      <4> QED
        BY <4>1, <4>2
    <3> QED
      BY <3>1, <3>2, <3>3 DEF Tiles
  <2>2. CASE i = Len(ls) + 1
    <3>1. t[i] = e /\ \A j \in 1 .. i - 1 : j \in 1 .. Len(ls) /\ t[j] = ls[j]
      BY ONLY <1>2, <2>2
    <3>2. e.from = IF i = 1 THEN 0 ELSE t[i - 1].to
      <4>1. CASE ls = <<>>
        <5>1. i = 1
          BY <2>2, <4>1
        <5> QED
          BY <4>1, <5>1 DEF EndOf
      <4>2. CASE ls # <<>>
        <5>1. Len(ls) # 0
          BY <1>1, <4>2
        <5>2. i # 1 /\ i - 1 = Len(ls) /\ i - 1 \in 1 .. Len(ls)
          BY ONLY <1>2, <2>2, <5>1
        <5> QED
          BY <1>2, <4>2, <5>2 DEF EndOf
      <4> QED
        BY <4>1, <4>2
    <3>3. \A j \in 1 .. i - 1 : Allows(t[j], p.hdrs[j], t[i].bound)
      BY ONLY <1>7, <3>1
    <3> QED
      BY <1>8, <1>10, <2>2, <3>1, <3>2, <3>3
  <2> QED
    BY <1>2, <2>1, <2>2
<1>11. ASSUME Allows(e, p.hdrs[Len(ls) + 1], e.bound) PROVE Bounded(t, p, e.bound)
  <2>1. ASSUME NEW j \in DOMAIN t PROVE Allows(t[j], p.hdrs[j], e.bound)
    <3>1. j \in 1 .. Len(ls) \/ j = Len(ls) + 1
      BY ONLY <1>2, <2>1
    <3>2. CASE j \in 1 .. Len(ls)
      BY ONLY <1>2, <1>7, <3>2
    <3>3. CASE j = Len(ls) + 1
      BY ONLY <1>2, <1>11, <3>3
    <3> QED
      BY <3>1, <3>2, <3>3
  <2> QED
    BY ONLY <1>8, <2>1 DEF Bounded
<1>12. ASSUME e.proto \notin Kinds PROVE Bounded(t, p, b)
  <2>1. ASSUME NEW j \in DOMAIN t PROVE Allows(t[j], p.hdrs[j], b)
    <3>1. j \in 1 .. Len(ls) \/ j = Len(ls) + 1
      BY ONLY <1>2, <2>1
    <3>2. CASE j \in 1 .. Len(ls)
      BY ONLY <1>2, <3>2, Bounded(ls, p, b) DEF Bounded
    <3>3. CASE j = Len(ls) + 1
      <4>1. t[j] = e /\ e.proto \notin {"ipv4", "udp", "ipv6", "pppoe"}
        BY ONLY <1>2, <1>12, <3>3 DEF Kinds
      <4> QED
        BY ONLY <4>1 DEF Allows
    <3> QED
      BY <3>1, <3>2, <3>3
  <2> QED
    BY ONLY <2>1, Bounded(ls, p, b) DEF Bounded
<1>13. e.to <= e.bound => Closed(t)
  BY ONLY <1>2, <1>10 DEF Closed
<1> QED
  BY <1>2, <1>3, <1>9, <1>10, <1>11, <1>12, <1>13 DEF Tiles

-----------------------------------------------------------------------------
(* The inductive invariant *)

\* While the loop runs: it is where the last layer ends, nothing it may still read lies
\* outside the layers so far, and a named type has its header, an application its payload.
WalkInv ==
    /\ captured # <<>>
    /\ offset \in Nat /\ end \in Nat /\ hdr \in Nat /\ piece \in Nat
    /\ offset = EndOf(layers) /\ offset <= end
    /\ Bounded(layers, packet, end) /\ Closed(layers)
    /\ key \in Kinds \cup {"unknown", "ports"}
    /\ key \in Kinds => /\ hdr = Len(layers) /\ hdr + 1 \in DOMAIN packet.hdrs
                        /\ piece = 0 /\ queue = None
                        /\ key \notin {"ipv4", "ipv6"} => Hdr.kind = key
    /\ key = "ports" => piece + 1 \in DOMAIN packet.pieces
    /\ key = "ports" /\ queue # None => /\ queue \in Seq(Ids) /\ tried \in Seq(Ids)
                                        /\ tried \o queue = pickCandidates(Ports.sport, Ports.dport)

LayersInv ==
    /\ captured \in Seq(Packets)
    /\ Tiles(layers, packet)
    /\ walking => WalkInv

\* The packet under way is one of the packets.
LEMMA PacketUnderWay ==
    ASSUME captured \in Seq(Packets), captured # <<>>
    PROVE  packet \in Packets /\ packet \in Packet /\ Complete(packet)
<1>1. Len(captured) \in DOMAIN captured
  BY captured \in Seq(Packets), captured # <<>>
<1>2. packet \in Packets
  BY <1>1 DEF packet
<1> QED
  BY <1>2, LayersAssumption

\* Without layers there is nothing to tile.
LEMMA NoLayers == ASSUME NEW p PROVE Tiles(<<>>, p)
<1>1. <<>> \in Seq(LayerOf)
  BY Nothing
<1> QED
  BY <1>1 DEF Tiles

\* A captured packet: the loop starts with its first header.
LEMMA NextPacketInv ==
    ASSUME LayersInv, NEW p \in Packets, NextPacket(p)
    PROVE  LayersInv'
<1>1. captured' = Append(captured, p) /\ captured \in Seq(Packets)
  BY DEF NextPacket, Receive, LayersInv
<1>2. captured' \in Seq(Packets)
  BY <1>1, Enqueued
<1>3. /\ Len(captured) \in Nat /\ DOMAIN captured' = 1 .. Len(captured) + 1
      /\ captured'[Len(captured) + 1] = p
  BY <1>1, Grown
<1>4. Len(captured') = Len(captured) + 1 /\ captured' # <<>>
  BY <1>1
<1>5. packet' = p
  BY <1>3, <1>4 DEF packet
<1>6. layers' = <<>> /\ hdr' = 0 /\ piece' = 0 /\ offset' = 0 /\ queue' = None /\ key' = p.hdrs[1].kind
      /\ end' = IF p.size > p.fcs THEN p.size - p.fcs ELSE p.size
  BY DEF NextPacket
<1>7. p \in Packet /\ Complete(p)
  BY LayersAssumption
<1>8. 1 \in DOMAIN p.hdrs /\ p.hdrs[1].kind \in Kinds
  <2>1. p.hdrs \in Seq(Header) /\ p.hdrs # <<>>
    BY <1>7 DEF Packet, Complete
  <2>2. 1 \in DOMAIN p.hdrs
    BY <2>1
  <2>3. p.hdrs[1] \in Header
    BY <2>1, <2>2
  <2> QED
    BY ONLY <2>2, <2>3 DEF Header
<1>9. end' \in Nat /\ end' <= Frame(p)
  BY <1>6, <1>7 DEF Packet, Frame
<1>10. Tiles(layers, packet)'
  BY <1>6, NoLayers
<1>11. (offset <= end)' /\ (Bounded(layers, packet, end) /\ Closed(layers))'
  BY <1>5, <1>6, <1>9 DEF Bounded, Closed
<1>12. Hdr' = p.hdrs[1]
  BY <1>5, <1>6 DEF Hdr
<1>13. hdr' + 1 = 1 /\ EndOf(layers)' = 0 /\ Len(layers)' = 0
  BY <1>6 DEF EndOf
<1>14. key' \in Kinds /\ key' # "ports"
  BY <1>6, <1>8 DEF Kinds
<1>15. WalkInv'
  BY <1>4, <1>5, <1>6, <1>8, <1>9, <1>11, <1>12, <1>13, <1>14 DEF WalkInv
<1> QED
  BY <1>2, <1>10, <1>15 DEF LayersInv

\* A header: its layer, and the loop goes on with what it names inside what it claims.
LEMMA HeaderLayerInv ==
    ASSUME LayersInv, HeaderLayer
    PROVE  LayersInv'
<1> DEFINE p == packet
           h == Hdr
           d == Dissected
           e == Layer(key, offset, d.to, d.bound)
<1>1. WalkInv /\ captured \in Seq(Packets) /\ Tiles(layers, p)
  BY DEF LayersInv, HeaderLayer
<1>2. p \in Packet /\ Complete(p)
  BY <1>1, PacketUnderWay DEF WalkInv
<1>3. /\ key \in Kinds /\ hdr = Len(layers) /\ hdr \in Nat /\ hdr + 1 \in DOMAIN p.hdrs
      /\ piece = 0 /\ queue = None /\ (key \notin {"ipv4", "ipv6"} => h.kind = key)
      /\ offset \in Nat /\ end \in Nat /\ offset = EndOf(layers) /\ offset <= end
      /\ Bounded(layers, p, end) /\ Closed(layers)
  BY <1>1 DEF WalkInv, HeaderLayer
<1>4. h = p.hdrs[hdr + 1] /\ h \in Header
  BY <1>2, <1>3 DEF Packet, Hdr
<1>5. h.len \in LengthsOf(h.kind)
  BY <1>2, <1>3, <1>4 DEF Complete
<1>6. d # None /\ layers' = Append(layers, e) /\ walking' = GoesOn(d)
      /\ IF GoesOn(d) THEN offset' = d.to /\ end' = d.bound /\ hdr' = hdr + 1 /\ key' = d.next
                      ELSE UNCHANGED <<offset, end, hdr, key>>
  BY DEF HeaderLayer
<1>7. captured' = captured /\ piece' = piece /\ queue' = queue /\ tried' = tried
  BY DEF HeaderLayer
<1>8. Fits(d)
  BY <1>3, <1>4, <1>5, <1>6, DissectedFits
<1> HIDE DEF d
<1>9. /\ e \in LayerOf /\ e.from = EndOf(layers) /\ e.bound = d.bound /\ e.to = d.to /\ e.proto = key
      /\ e.bound <= end /\ (e.to <= e.bound \/ e.proto \in Overlong)
  <2>1. d.to \in Nat /\ d.bound \in Nat /\ d.bound <= end /\ (d.to <= d.bound \/ key \in Overlong)
    BY ONLY <1>8 DEF Fits
  <2>2. key \in Kinds
    BY <1>3
  <2>3. offset \in Nat /\ offset = EndOf(layers)
    BY ONLY <1>3
  <2>4. e = [proto |-> key, from |-> offset, to |-> d.to, bound |-> d.bound]
    BY ONLY TRUE DEF Layer
  <2> HIDE DEF e
  <2>5. e \in LayerOf
    BY ONLY <2>1, <2>2, <2>3, <2>4 DEF LayerOf
  <2> QED
    BY ONLY <2>1, <2>3, <2>4, <2>5
<1>10. Allows(e, p.hdrs[Len(layers) + 1], e.bound)
  <2>1. e.from = offset /\ p.hdrs[Len(layers) + 1] = h
    BY <1>3, <1>4, <1>9
  <2> HIDE DEF e, h
  <2>2. key \in {"ipv4", "udp"} /\ h.claims >= h.len => d.bound <= offset + h.claims
    BY <1>8 DEF Fits, h
  <2>3. key \in {"ipv6", "pppoe"} => d.bound <= offset + h.len + h.claims
    BY <1>8 DEF Fits, h
  <2> QED
    BY ONLY <1>9, <2>1, <2>2, <2>3 DEF Allows
<1> HIDE DEF e, p, h
<1>11. /\ Tiles(layers', p) /\ EndOf(layers') = d.to /\ Len(layers') = Len(layers) + 1
       /\ Bounded(layers', p, d.bound) /\ (d.to <= d.bound => Closed(layers'))
  <2>1. key \in Kinds => Len(layers) + 1 \in DOMAIN p.hdrs
    BY <1>3
  <2>2. layers' = Append(layers, e)
    BY <1>6
  <2> DEFINE t == layers'
  <2> HIDE DEF t
  <2>3. /\ Tiles(t, p) /\ EndOf(t) = e.to /\ Len(t) = Len(layers) + 1
        /\ Bounded(t, p, e.bound) /\ (e.to <= e.bound => Closed(t))
    <3>1. p \in Packet /\ Tiles(layers, p) /\ Closed(layers) /\ end \in Nat /\ Bounded(layers, p, end)
      BY <1>1, <1>2, <1>3
    <3>2. /\ e \in LayerOf /\ e.from = EndOf(layers) /\ e.bound <= end
          /\ e.to <= e.bound \/ e.proto \in Overlong
      BY <1>9
    <3>3. e.proto \in Kinds => Len(layers) + 1 \in DOMAIN p.hdrs
      BY <1>9, <2>1
    <3>4. t = Append(layers, e)
      BY <2>2 DEF t
    <3>5. Tiles(t, p) /\ Len(t) = Len(layers) + 1 /\ (e.to <= e.bound => Closed(t))
      BY ONLY <3>1, <3>2, <3>3, <3>4, TilesOneMore
    <3>7. EndOf(t) = e.to
      BY ONLY <3>1, <3>4, EndsWithIt DEF Tiles
    <3>6. Allows(e, p.hdrs[Len(layers) + 1], e.bound) => Bounded(t, p, e.bound)
      BY ONLY <3>1, <3>2, <3>3, <3>4, TilesOneMore
    <3> QED
      BY ONLY <1>10, <3>5, <3>6, <3>7
  <2> QED
    BY <1>9, <2>3 DEF t
<1>12. packet' = p
  BY <1>7 DEF packet, p
<1>13. ASSUME GoesOn(d) PROVE WalkInv'
  <2>1. /\ offset' = d.to /\ end' = d.bound /\ hdr' = hdr + 1 /\ key' = d.next /\ d.next # "none"
        /\ d.to < d.bound
    BY <1>6, <1>13 DEF GoesOn
  <2>2. d.to \in Nat /\ d.bound \in Nat
    BY <1>8 DEF Fits
  <2>3. d.next \in {h.key, "unknown"} \/ (d.next = "ports" /\ key \in {"tcp", "udp"})
    BY <1>8, <2>1 DEF Fits, h
  <2>4. h.key \in Kinds \cup {"unknown", "ports", "none"}
    BY <1>4 DEF Header
  <2>5. key' \in Kinds \cup {"unknown", "ports"}
    BY ONLY <2>1, <2>3, <2>4
  <2>6. ASSUME key' \in Kinds
        PROVE  hdr' = Len(layers') /\ hdr' + 1 \in DOMAIN p.hdrs
               /\ (key' \notin {"ipv4", "ipv6"} => p.hdrs[hdr' + 1].kind = key')
    <3>1. key' = h.key /\ h.key \in Kinds
      <4>1. "unknown" \notin Kinds /\ "ports" \notin Kinds
        BY DEF Kinds
      <4> QED
        BY ONLY <2>1, <2>3, <2>6, <4>1
    <3>2. hdr + 1 < Len(p.hdrs) /\ (h.key \notin {"ipv4", "ipv6"} => p.hdrs[(hdr + 1) + 1].kind = h.key)
      BY <1>2, <1>3, <1>4, <3>1 DEF Complete
    <3>3. DOMAIN p.hdrs = 1 .. Len(p.hdrs) /\ Len(p.hdrs) \in Nat
      BY <1>2 DEF Packet
    <3>4. (hdr + 1) + 1 \in DOMAIN p.hdrs
      BY ONLY <1>3, <3>2, <3>3
    <3> QED
      BY ONLY <1>3, <1>11, <2>1, <3>1, <3>2, <3>4
  <2>7. ASSUME key' = "ports" PROVE 1 \in DOMAIN p.pieces
    <3>1. {h.kind, h.key} \cap {"tcp", "udp", "ports"} # {}
      BY ONLY <1>3, <2>1, <2>3, <2>7
    <3>2. p.pieces # <<>>
      BY <1>2, <1>3, <1>4, <3>1 DEF Complete
    <3>3. p.pieces \in Seq(Piece)
      BY <1>2 DEF Packet
    <3> QED
      BY ONLY <3>2, <3>3
  <2>8. Hdr' = p.hdrs[hdr' + 1]
    BY <1>12 DEF Hdr
  <2>9. captured' # <<>> /\ hdr' \in Nat /\ piece' = 0 /\ piece' + 1 = 1 /\ queue' = None
    BY <1>1, <1>3, <1>7, <2>1 DEF WalkInv
  <2> QED
    BY <1>11, <1>12, <2>1, <2>2, <2>5, <2>6, <2>7, <2>8, <2>9 DEF WalkInv
<1> QED
  BY <1>1, <1>6, <1>7, <1>11, <1>12, <1>13 DEF LayersInv

\* A layer that is no header's ends the packet, or leaves the bounds as they are.
LEMMA PayloadLayer ==
    ASSUME LayersInv, walking, NEW name \in Ids \cup {"data"}, NEW to \in Nat, to <= end, captured' = captured,
           layers' = Append(layers, Layer(name, offset, to, end))
    PROVE  /\ packet' = packet /\ Tiles(layers', packet) /\ EndOf(layers') = to
           /\ Bounded(layers', packet, end) /\ Closed(layers')
<1> DEFINE p == packet
           e == Layer(name, offset, to, end)
           t == layers'
<1>1. WalkInv /\ captured \in Seq(Packets) /\ Tiles(layers, p)
  BY DEF LayersInv
<1>2. p \in Packet
  BY <1>1, PacketUnderWay DEF WalkInv
<1>3. offset \in Nat /\ end \in Nat /\ offset = EndOf(layers) /\ Bounded(layers, p, end) /\ Closed(layers)
  BY <1>1 DEF WalkInv
<1>4. e.from = offset /\ e.to = to /\ e.bound = end /\ e.proto = name
  BY DEF Layer
<1>5. e \in LayerOf
  BY <1>3 DEF Layer, LayerOf
<1>6. e.proto \notin Kinds
  <2>1. "data" \notin Kinds
    BY DEF Kinds
  <2> HIDE DEF e
  <2> QED
    BY <1>4, <2>1, LayersAssumption
<1>7. t = Append(layers, e)
  OBVIOUS
<1>8. packet' = p
  BY DEF packet
<1> HIDE DEF e, p, t
<1>9. /\ e.from = EndOf(layers) /\ e.bound <= end /\ e.to <= e.bound
      /\ e.proto \in Kinds => Len(layers) + 1 \in DOMAIN p.hdrs
  BY <1>3, <1>4, <1>6
<1>10. Tiles(t, p) /\ (e.proto \notin Kinds => Bounded(t, p, end)) /\ Closed(t)
  BY ONLY <1>1, <1>2, <1>3, <1>5, <1>7, <1>9, TilesOneMore
<1>11. EndOf(t) = e.to
  BY ONLY <1>1, <1>7, EndsWithIt DEF Tiles
<1> QED
  BY <1>4, <1>6, <1>8, <1>10, <1>11 DEF p, t

\* The loop is left: with a data layer for the bytes nobody took, or with nothing.
LEMMA LoopEnds ==
    ASSUME LayersInv, walking, walking' = FALSE, captured' = captured, layers' = layers \/ DataLayer
    PROVE  LayersInv'
<1>1. packet' = packet
  BY DEF packet
<1>2. CASE layers' = layers
  BY <1>1, <1>2 DEF LayersInv
<1>3. CASE layers' # layers
  <2>1. layers' = Append(layers, Layer("data", offset, end, end))
    BY <1>3 DEF DataLayer
  <2>2. end \in Nat /\ end <= end
    BY DEF LayersInv, WalkInv
  <2>3. Tiles(layers', packet)
    BY <2>1, <2>2, PayloadLayer
  <2> QED
    BY <1>1, <2>3 DEF LayersInv
<1> QED
  BY <1>2, <1>3

\* The candidates of the ports are all to be tried.
LEMMA PickCandidatesInv ==
    ASSUME LayersInv, PickCandidates
    PROVE  LayersInv'
<1>1. /\ UNCHANGED <<captured, walking, offset, end, hdr, piece, key, layers>> /\ walking /\ key = "ports"
      /\ tried' = <<>> /\ queue' = pickCandidates(Ports.sport, Ports.dport)
  BY DEF PickCandidates
<1>2. packet' = packet /\ Ports' = Ports
  BY <1>1 DEF packet, Ports
<1>3. queue' \in Seq(Ids)
  BY <1>1, CandidatesAreRanked DEF Ranked
<1>4. tried' \in Seq(Ids)
  BY <1>1, Nothing
<1>5. tried' \o queue' = queue'
  <2>1. \A q \in Seq(Ids) : <<>> \o q = q
    OBVIOUS
  <2> QED
    BY ONLY <1>1, <1>3, <2>1
<1>6. "ports" \notin Kinds
  BY DEF Kinds
<1>7. WalkInv'
  BY <1>1, <1>2, <1>3, <1>4, <1>5, <1>6 DEF WalkInv, LayersInv
<1> QED
  BY <1>1, <1>2, <1>7 DEF LayersInv

\* What the candidate under trial is, and what is left when it has been tried.
LEMMA Trying ==
    ASSUME LayersInv, TryNext
    PROVE  /\ Candidate \in Ids /\ Tail(queue) \in Seq(Ids) /\ tried' \in Seq(Ids)
           /\ tried' \o Tail(queue) = tried \o queue
           /\ walking /\ key = "ports" /\ queue # None /\ WalkInv
<1>1. WalkInv /\ walking /\ key = "ports" /\ queue # None /\ queue # <<>> /\ tried' = Append(tried, queue[1])
  BY DEF LayersInv, TryNext, Candidate
<1>2. queue \in Seq(Ids) /\ tried \in Seq(Ids)
  BY <1>1 DEF WalkInv
<1>3. Head(queue) = queue[1] /\ Head(queue) \in Ids /\ Tail(queue) \in Seq(Ids)
  BY <1>1, <1>2, Dequeued
<1>4. tried' \in Seq(Ids)
  BY <1>1, <1>2, <1>3, Enqueued
<1>5. Append(tried, Head(queue)) \o Tail(queue) = tried \o queue
  BY ONLY <1>1, <1>2
<1> QED
  BY <1>1, <1>3, <1>4, <1>5 DEF Candidate

\* A candidate that fails: the rest is still to be tried.
LEMMA CandidateFailsInv ==
    ASSUME LayersInv, CandidateFails
    PROVE  LayersInv'
<1>1. UNCHANGED <<captured, walking, offset, end, hdr, piece, key, layers>> /\ TryNext /\ queue' = Tail(queue)
  BY DEF CandidateFails
<1>2. /\ Tail(queue) \in Seq(Ids) /\ tried' \in Seq(Ids)
      /\ tried' \o Tail(queue) = tried \o queue
      /\ walking /\ key = "ports" /\ queue # None /\ WalkInv
  BY <1>1, Trying
<1>3. packet' = packet /\ Ports' = Ports
  BY <1>1 DEF packet, Ports
<1>4. "ports" \notin Kinds
  BY DEF Kinds
<1>5. WalkInv'
  BY <1>1, <1>2, <1>3, <1>4 DEF WalkInv
<1> QED
  BY <1>1, <1>3, <1>5 DEF LayersInv

\* A candidate that takes the bytes: its layer is the last.
LEMMA CandidateTakesInv ==
    ASSUME LayersInv, CandidateTakes
    PROVE  LayersInv'
<1>1. /\ captured' = captured /\ TryNext /\ walking' = FALSE
      /\ layers' = Append(layers, Layer(Candidate, offset, end, end))
  BY DEF CandidateTakes
<1>2. Candidate \in Ids /\ walking /\ end \in Nat /\ end <= end
  BY <1>1, Trying DEF WalkInv
<1>3. packet' = packet /\ Tiles(layers', packet)
  BY <1>1, <1>2, PayloadLayer
<1> QED
  BY <1>1, <1>3 DEF LayersInv

\* A message of several: the next one is tried with the same ports, on the next piece.
LEMMA CandidateChainsInv ==
    ASSUME LayersInv, CandidateChains
    PROVE  LayersInv'
<1> DEFINE to == Least(end, offset + Piece1.len)
<1>1. /\ UNCHANGED <<captured, end, hdr, key>> /\ TryNext /\ queue' = None /\ piece' = piece + 1
      /\ layers' = Append(layers, Layer(Candidate, offset, to, end)) /\ offset' = to
      /\ Piece1.does[Candidate] = "chains" /\ walking' = (to + 2 <= end)
  BY DEF CandidateChains, Verdict
<1>2. Candidate \in Ids /\ walking /\ key = "ports" /\ WalkInv
  BY <1>1, Trying
<1>3. packet \in Packet /\ Complete(packet)
  BY <1>2, PacketUnderWay DEF WalkInv, LayersInv
<1>4. piece \in Nat /\ piece + 1 \in DOMAIN packet.pieces /\ Piece1 = packet.pieces[piece + 1]
      /\ end \in Nat /\ offset \in Nat /\ hdr \in Nat /\ captured # <<>>
  BY <1>2 DEF WalkInv, Piece1
<1>5. Piece1 \in Piece
  BY <1>3, <1>4 DEF Packet
<1>6. to \in Nat /\ to <= end
  BY <1>4, <1>5 DEF Piece, Least
<1> HIDE DEF to
<1>7. /\ packet' = packet /\ Tiles(layers', packet) /\ EndOf(layers') = to
      /\ Bounded(layers', packet, end) /\ Closed(layers')
  BY <1>1, <1>2, <1>6, PayloadLayer
<1>8. piece' + 1 \in DOMAIN packet.pieces
  <2>1. piece + 1 < Len(packet.pieces)
    BY <1>1, <1>2, <1>3, <1>4 DEF Complete
  <2>2. Len(packet.pieces) \in Nat /\ DOMAIN packet.pieces = 1 .. Len(packet.pieces)
    BY <1>3 DEF Packet
  <2> QED
    BY ONLY <1>1, <1>4, <2>1, <2>2
<1>9. "ports" \notin Kinds
  BY DEF Kinds
<1>10. WalkInv'
  BY <1>1, <1>2, <1>4, <1>6, <1>7, <1>8, <1>9 DEF WalkInv
<1> QED
  BY <1>1, <1>7, <1>10 DEF LayersInv

-----------------------------------------------------------------------------
(* The theorems *)

\* Other traffic has no layers.
PipelineInv == IF traffic = "layers" THEN LayersInv ELSE ~walking

LEMMA PipelineInit == Init => PipelineInv
<1> SUFFICES ASSUME Init PROVE PipelineInv
  OBVIOUS
<1>1. captured = <<>> /\ layers = <<>> /\ walking = FALSE
  BY DEF Init, CaptureInit, LayersInit
<1>2. captured \in Seq(Packets)
  BY <1>1, Nothing
<1>3. Tiles(layers, packet)
  BY <1>1, NoLayers
<1> QED
  BY <1>1, <1>2, <1>3 DEF PipelineInv, LayersInv

\* One step of the pipeline, in the order of Layers.
LEMMA LayersNextInv ==
    ASSUME LayersInv, LayersNext
    PROVE  LayersInv'
<1>1. CASE \E p \in Packets : NextPacket(p)
  BY <1>1, NextPacketInv
<1>2. CASE HeaderLayer
  BY <1>2, HeaderLayerInv
<1>3. CASE NoDissector
  <2>1. walking /\ walking' = FALSE /\ captured' = captured /\ DataLayer
    BY <1>3 DEF NoDissector, DataLayer
  <2> QED
    BY ONLY <2>1, LayersInv, LoopEnds
<1>4. CASE TooDeep
  <2>1. walking /\ walking' = FALSE /\ captured' = captured /\ layers' = layers
    BY <1>4 DEF TooDeep
  <2> QED
    BY ONLY <2>1, LayersInv, LoopEnds
<1>5. CASE PickCandidates
  BY <1>5, PickCandidatesInv
<1>6. CASE CandidateFails
  BY <1>6, CandidateFailsInv
<1>7. CASE CandidateTakes
  BY <1>7, CandidateTakesInv
<1>8. CASE CandidateChains
  BY <1>8, CandidateChainsInv
<1>9. CASE NoCandidate
  <2>1. walking /\ walking' = FALSE /\ captured' = captured /\ DataLayer
    BY <1>9 DEF NoCandidate, DataLayer
  <2> QED
    BY ONLY <2>1, LayersInv, LoopEnds
<1> QED
  BY <1>1, <1>2, <1>3, <1>4, <1>5, <1>6, <1>7, <1>8, <1>9 DEF LayersNext

LEMMA PipelineStep == PipelineInv /\ [Next]_vars => PipelineInv'
<1> SUFFICES ASSUME PipelineInv, [Next]_vars PROVE PipelineInv'
  OBVIOUS
<1>1. traffic' = traffic
  BY OneKindOfTraffic
<1>2. CASE traffic = "layers"
  <2>1. LayersNext \/ UNCHANGED <<captured, layerVars>>
    BY <1>2, LayersOnly
  <2>2. LayersInv
    BY <1>2 DEF PipelineInv
  <2>3. CASE LayersNext
    BY <1>1, <1>2, <2>2, <2>3, LayersNextInv DEF PipelineInv
  <2>4. CASE UNCHANGED <<captured, layerVars>>
    <3>1. UNCHANGED <<captured, walking, offset, end, hdr, piece, key, queue, layers, tried>>
      BY <2>4 DEF layerVars
    <3>2. packet' = packet /\ Hdr' = Hdr /\ Ports' = Ports
      BY <3>1 DEF packet, Hdr, Ports
    <3>3. WalkInv => WalkInv'
      BY <3>1, <3>2 DEF WalkInv
    <3> QED
      BY <1>1, <1>2, <2>2, <3>1, <3>2, <3>3 DEF PipelineInv, LayersInv
  <2> QED
    BY <2>1, <2>3, <2>4
<1>3. CASE traffic # "layers"
  BY <1>1, <1>3, LayersNever DEF PipelineInv
<1> QED
  BY <1>2, <1>3

LEMMA LayersTileFollows == PipelineInv => LayersTile
<1> SUFFICES ASSUME PipelineInv, traffic = "layers" PROVE LayersTile
  BY DEF LayersTile
<1>1. Tiles(layers, packet)
  BY DEF PipelineInv, LayersInv
<1> QED
  BY <1>1 DEF Tiles, Allows, Frame, LayersTile

LEMMA TriedFollows == PipelineInv => TriedOnceInOrder
<1> SUFFICES ASSUME PipelineInv, walking, key = "ports", queue # None PROVE TriedOnceInOrder
  BY DEF TriedOnceInOrder
<1> DEFINE all == tried \o queue
           sp == Ports.sport
           dp == Ports.dport
<1>1. all = pickCandidates(sp, dp)
  BY DEF PipelineInv, LayersInv, WalkInv
<1>2. Ranked(all, sp, dp)
  BY <1>1, CandidatesAreRanked
<1>3. /\ \A i, j \in DOMAIN all : i < j => Rank(all[i], sp, dp) < Rank(all[j], sp, dp)
      /\ \A port \in {dp, sp} : \A d \in lookup(port) : \E i \in DOMAIN all : all[i] = d
  BY <1>2 DEF Ranked
<1> QED
  BY ONLY <1>3 DEF TriedOnceInOrder, Rank, Place, lookup

\* The layers of a packet follow each other without gap or overlap, each inside what every
\* header around it claims and outside the frame check sequence (dissect.js:42, 63-67;
\* ipv4.js:92; ipv6.js:35; linklayers.js:127; udp.js:18), whatever the packet holds and
\* however its lengths disagree.  TCP, GRE, PPP and the extensions of IPv6 are not held to
\* their length, and such a layer may be longer than what it was given; nothing follows it then.
THEOREM LayersTileTheirPackets == Spec => []LayersTile
<1> QED
  BY PipelineInit, PipelineStep, LayersTileFollows, PTL DEF Spec

\* Destination port, source port, heuristics, each dissector once (dissect.js:73-90,
\* registry.js:38), whatever is registered for whatever ports.
THEOREM CandidatesAreTriedInOrder == Spec => []TriedOnceInOrder
<1> QED
  BY PipelineInit, PipelineStep, TriedFollows, PTL DEF Spec

-----------------------------------------------------------------------------
(* The bindings of ARP *)

\* No ARP reply after the n-th message, which is one, gives the address it gives.
LatestReply(n) == /\ Arped(n).reply
             /\ \A m \in DOMAIN arps : n < m /\ Arped(m).reply => Arped(m).src # Arped(n).src

\* The messages are of packets dissected before, one of a packet, and so are the conflicts.
ArpPackets ==
    /\ arps \in Seq([pkt : Nat, hdr : Nat]) /\ \E S : conflicts \in Seq(S)
    /\ \A n \in DOMAIN arps :
          arps[n].pkt \in 1 .. Len(captured) /\ (walking => arps[n].pkt < Len(captured))
    /\ \A i \in DOMAIN conflicts :
          conflicts[i].pkt \in 1 .. Len(captured) /\ (walking => conflicts[i].pkt < Len(captured))
    /\ \A i, j \in DOMAIN conflicts : i < j => conflicts[i].pkt < conflicts[j].pkt

\* An address is bound to what the latest reply says of it.
ArpBound ==
    /\ \A x : x \in DOMAIN bindings <=> \E n \in DOMAIN arps : Arped(n).reply /\ Arped(n).src = x
    /\ \A n \in DOMAIN arps : LatestReply(n) => bindings[Arped(n).src] = Arped(n).dst

\* The conflicts are the changes of hands.
ArpReported ==
    /\ \A k, n \in DOMAIN arps : ChangesHands(k, n) => \E i \in DOMAIN conflicts : conflicts[i] = Change(k, n)
    /\ \A i \in DOMAIN conflicts : \E k, n \in DOMAIN arps : ChangesHands(k, n) /\ conflicts[i] = Change(k, n)

ArpInv == ArpPackets /\ ArpBound /\ ArpReported

\* What was dissected as ARP stays what it was when packets are added.
LEMMA ArpStays ==
    ASSUME ArpInv, captured \in Seq(Packets), UNCHANGED <<arps, bindings, conflicts>>,
           \/ captured' = captured /\ (walking' => walking)
           \/ ~walking /\ \E p \in Packets : captured' = Append(captured, p)
    PROVE  ArpInv'
<1>1. /\ Len(captured) \in Nat /\ Len(captured)' \in Nat /\ Len(captured) <= Len(captured)'
      /\ \A i \in 1 .. Len(captured) : captured'[i] = captured[i]
      /\ (walking' => walking \/ Len(captured) < Len(captured)')
  <2>1. CASE captured' = captured /\ (walking' => walking)
    BY <2>1
  <2>2. CASE \E p \in Packets : captured' = Append(captured, p)
    <3>1. PICK p \in Packets : captured' = Append(captured, p)
      BY <2>2
    <3>2. Len(captured') = Len(captured) + 1
      BY <3>1
    <3> QED
      BY <3>1, <3>2, Grown
  <2> QED
    BY <2>1, <2>2
<1>2. ASSUME NEW n \in DOMAIN arps PROVE Arped(n)' = Arped(n)
  <2>1. arps[n].pkt \in 1 .. Len(captured)
    BY DEF ArpInv, ArpPackets
  <2> QED
    BY <1>1, <2>1 DEF Arped
<1>3. ArpPackets'
  <2>1. ASSUME NEW n \in DOMAIN arps
        PROVE  arps[n].pkt \in 1 .. Len(captured)' /\ (walking' => arps[n].pkt < Len(captured)')
    <3>1. arps[n].pkt \in 1 .. Len(captured) /\ (walking => arps[n].pkt < Len(captured))
      BY DEF ArpInv, ArpPackets
    <3> QED
      BY <1>1, <3>1
  <2>2. ASSUME NEW i \in DOMAIN conflicts
        PROVE  conflicts[i].pkt \in 1 .. Len(captured)' /\ (walking' => conflicts[i].pkt < Len(captured)')
    <3>1. conflicts[i].pkt \in 1 .. Len(captured) /\ (walking => conflicts[i].pkt < Len(captured))
      BY DEF ArpInv, ArpPackets
    <3> QED
      BY <1>1, <3>1
  <2> QED
    BY <2>1, <2>2 DEF ArpInv, ArpPackets
<1>4. \A n \in DOMAIN arps : LatestReply(n)' <=> LatestReply(n)
  BY <1>2 DEF LatestReply
<1>5. ArpBound'
  BY <1>2, <1>4 DEF ArpInv, ArpBound
<1>6. ASSUME NEW k \in DOMAIN arps, NEW n \in DOMAIN arps
      PROVE  (ChangesHands(k, n)' <=> ChangesHands(k, n)) /\ Change(k, n)' = Change(k, n)
  <2>1. \A m \in k + 1 .. n - 1 : m \in DOMAIN arps
    <3>1. Len(arps) \in Nat /\ DOMAIN arps = 1 .. Len(arps)
      BY DEF ArpInv, ArpPackets
    <3> QED
      BY <3>1
  <2> QED
    BY <1>2, <2>1 DEF ChangesHands, Change
<1>7. ArpReported'
  BY <1>6 DEF ArpInv, ArpReported
<1> QED
  BY <1>3, <1>5, <1>7 DEF ArpInv

\* An address that is bound was last bound by some reply.
LEMMA LatestOfBound ==
    ASSUME ArpInv, NEW x \in DOMAIN bindings
    PROVE  \E n \in DOMAIN arps : LatestReply(n) /\ Arped(n).src = x
<1> DEFINE N == Len(arps)
           A == {n \in 1 .. N : Arped(n).reply /\ Arped(n).src = x}
<1>1. N \in Nat /\ DOMAIN arps = 1 .. N
  BY DEF ArpInv, ArpPackets
<1>2. A # {} /\ A \in SUBSET (1 .. N)
  BY <1>1 DEF ArpInv, ArpBound
<1>3. PICK n \in A : \A m \in A : m <= n
  <2> HIDE DEF A, N
  <2> QED
    BY <1>1, <1>2, MaxOfSome
<1>4. ASSUME NEW m \in DOMAIN arps, n < m, Arped(m).reply PROVE Arped(m).src # Arped(n).src
  BY <1>1, <1>3, <1>4
<1> QED
  BY <1>1, <1>3, <1>4 DEF LatestReply

\* One more ARP message, which is `h`: the ones before stay, and their changes of hands.
LEMMA ArpOneMore ==
    ASSUME ArpInv, NEW h, captured' = captured,
           NEW e, arps' = Append(arps, e), e.pkt = Len(captured), e.pkt \in 1 .. Len(captured),
           captured[e.pkt].hdrs[e.hdr] = h, NEW N, N = Len(arps), NEW M, M = N + 1
    PROVE  /\ N \in Nat /\ DOMAIN arps = 1 .. N /\ DOMAIN arps' = 1 .. N + 1
           /\ \A n \in 1 .. N : Arped(n)' = Arped(n) /\ arps'[n] = arps[n]
           /\ Arped(M)' = h /\ arps'[M] = e
           /\ \A k, n \in 1 .. N : (ChangesHands(k, n)' <=> ChangesHands(k, n)) /\ Change(k, n)' = Change(k, n)
<1>1. /\ N \in Nat /\ DOMAIN arps = 1 .. N /\ DOMAIN arps' = 1 .. N + 1
      /\ \A n \in 1 .. N : arps'[n] = arps[n]
      /\ arps'[N + 1] = e
  <2>1. PICK S : arps \in Seq(S)
    BY DEF ArpInv, ArpPackets
  <2> DEFINE t == Append(arps, e)
  <2>2. /\ Len(arps) \in Nat /\ DOMAIN arps = 1 .. Len(arps) /\ DOMAIN t = 1 .. Len(arps) + 1
        /\ \A n \in 1 .. Len(arps) : t[n] = arps[n]
        /\ t[Len(arps) + 1] = e
    BY <2>1, Grown
  <2> QED
    BY <2>2
<1>2. ASSUME NEW n \in 1 .. N PROVE Arped(n)' = Arped(n)
  BY <1>1 DEF Arped
<1>3. Arped(M)' = h
  BY <1>1 DEF Arped
<1>4. ASSUME NEW k \in 1 .. N, NEW n \in 1 .. N
      PROVE  (ChangesHands(k, n)' <=> ChangesHands(k, n)) /\ Change(k, n)' = Change(k, n)
  <2>1. \A m \in k + 1 .. n - 1 : m \in 1 .. N
    BY <1>1
  <2> QED
    BY <1>1, <1>2, <2>1 DEF ChangesHands, Change
<1> QED
  BY <1>1, <1>2, <1>3, <1>4

\* An ARP message is dissected: what it binds, and what is reported of it.
LEMMA ArpMessage ==
    ASSUME ArpInv, walking, ~walking', captured # <<>>, captured \in Seq(Packets), captured' = captured,
           key = "arp", hdr \in Nat, ArpState, NEW N, N = Len(arps), NEW M, M = N + 1
    PROVE  ArpInv'
<1> DEFINE C == Len(captured)
           h == Hdr
           e == [pkt |-> C, hdr |-> hdr + 1]
           old == bindings[h.src]
           c == [ip |-> h.src, old |-> old, new |-> h.dst, pkt |-> C]
<1>1. C \in Nat /\ C \in 1 .. C
  <2>1. Len(captured) \in Nat /\ Len(captured) # 0
    OBVIOUS
  <2> QED
    BY <2>1
<1>2. arps' = Append(arps, e) /\ e.pkt = C /\ captured[e.pkt].hdrs[e.hdr] = h
  BY DEF ArpState, Hdr, packet
<1>3. /\ bindings' = IF h.reply THEN [a \in DOMAIN bindings \cup {h.src} |-> IF a = h.src THEN h.dst ELSE bindings[a]]
                     ELSE bindings
      /\ conflicts' = IF Rebinds THEN Append(conflicts, c) ELSE conflicts
      /\ Rebinds <=> h.reply /\ h.src \in DOMAIN bindings /\ old \notin {"", h.dst}
  BY DEF ArpState, NewBindings, Rebinds
<1> HIDE DEF h, e, C
<1>4. /\ N \in Nat /\ DOMAIN arps = 1 .. N /\ DOMAIN arps' = 1 .. N + 1
      /\ \A n \in 1 .. N : Arped(n)' = Arped(n) /\ arps'[n] = arps[n]
      /\ Arped(M)' = h /\ arps'[M] = e
      /\ \A k, n \in 1 .. N : (ChangesHands(k, n)' <=> ChangesHands(k, n)) /\ Change(k, n)' = Change(k, n)
  <2>1. e.pkt = Len(captured) /\ e.pkt \in 1 .. Len(captured)
    BY <1>1, <1>2 DEF C
  <2> QED
    BY <1>2, <2>1, ArpOneMore
<1>5. /\ M = N + 1 /\ M \in Nat /\ M \in 1 .. M
      /\ \A n \in 1 .. M : n \in 1 .. N \/ n = M
      /\ \A n \in 1 .. N : n \in 1 .. M /\ n < M /\ n # M
  BY <1>4
<1> DEFINE Is(k) == /\ k \in 1 .. N /\ Arped(k).reply /\ h.reply /\ Arped(k).src = h.src
                    /\ Arped(k).dst \notin {"", h.dst} /\ LatestReply(k)
<1>7. ASSUME NEW k \in 1 .. M, NEW n, n = M
      PROVE  /\ ChangesHands(k, n)' <=> Is(k)
             /\ Is(k) => Change(k, n)' = [ip |-> h.src, old |-> Arped(k).dst, new |-> h.dst, pkt |-> C]
  <2>1. Arped(n)' = h /\ arps'[n] = e /\ n \in 1 .. M /\ n \notin 1 .. N
    BY <1>4, <1>5, <1>7
  <2>2. CASE k = M
    BY <1>5, <1>7, <2>2 DEF ChangesHands
  <2>3. CASE k \in 1 .. N
    <3>1. Arped(k)' = Arped(k) /\ k < n
      BY <1>4, <1>5, <1>7, <2>3
    <3>2. \A m : m \in k + 1 .. n - 1 <=> m \in 1 .. N /\ k < m
      BY <1>4, <1>5, <1>7, <2>3
    <3>3. (\A m \in k + 1 .. n - 1 : Arped(m)'.reply => Arped(m)'.src # Arped(n)'.src)
              <=> (\A m \in 1 .. N : k < m /\ Arped(m).reply => Arped(m).src # h.src)
      BY <1>4, <2>1, <3>2
    <3>4. ChangesHands(k, n)' <=> /\ k < n /\ Arped(k)'.reply /\ Arped(n)'.reply /\ Arped(k)'.src = Arped(n)'.src
                                  /\ Arped(k)'.dst \notin {"", Arped(n)'.dst}
                                  /\ \A m \in k + 1 .. n - 1 : Arped(m)'.reply => Arped(m)'.src # Arped(n)'.src
      BY DEF ChangesHands
    <3>5. ChangesHands(k, n)' <=> Is(k)
      BY <1>4, <2>1, <2>3, <3>1, <3>3, <3>4 DEF LatestReply
    <3>6. Change(k, n)' = [ip |-> h.src, old |-> Arped(k).dst, new |-> h.dst, pkt |-> C]
      BY <1>2, <2>1, <3>1 DEF Change
    <3> QED
      BY <3>5, <3>6
  <2> QED
    BY <1>5, <2>2, <2>3
<1>8. \A k \in 1 .. N : Is(k) => Rebinds /\ old = Arped(k).dst
  BY <1>3, <1>4 DEF ArpInv, ArpBound
<1>9. Rebinds => \E k \in 1 .. N : Is(k) /\ old = Arped(k).dst
  <2> SUFFICES ASSUME Rebinds PROVE \E k \in 1 .. N : Is(k) /\ old = Arped(k).dst
    OBVIOUS
  <2>1. h.src \in DOMAIN bindings /\ h.reply
    BY <1>3
  <2>2. PICK k \in DOMAIN arps : LatestReply(k) /\ Arped(k).src = h.src
    BY <2>1, LatestOfBound
  <2>3. old = Arped(k).dst /\ Arped(k).reply
    BY <1>4, <2>2 DEF ArpInv, ArpBound, LatestReply
  <2> QED
    BY <1>3, <1>4, <2>1, <2>2, <2>3
<1> HIDE DEF old
<1> DEFINE L == Len(conflicts)
           t == Append(conflicts, c)
<1>10. /\ \E S : conflicts \in Seq(S) /\ t \in Seq(S)
       /\ L \in Nat /\ DOMAIN conflicts = 1 .. L /\ DOMAIN t = 1 .. L + 1
       /\ \A i \in 1 .. L : t[i] = conflicts[i] /\ i \in 1 .. L + 1
       /\ t[L + 1] = c /\ L + 1 \in 1 .. L + 1
       /\ \A i \in 1 .. L + 1 : i \in 1 .. L \/ i = L + 1
       /\ \A i \in 1 .. L + 1, j \in 1 .. L + 1 : i < j => i \in 1 .. L
  <2>1. PICK S : conflicts \in Seq(S)
    BY DEF ArpInv, ArpPackets
  <2> DEFINE U == S \cup {c}
  <2>2. conflicts \in Seq(U) /\ c \in U
    BY <2>1
  <2> HIDE DEF U, c
  <2>3. t \in Seq(U)
    BY <2>2, Enqueued
  <2>4. /\ L \in Nat /\ DOMAIN conflicts = 1 .. L /\ DOMAIN t = 1 .. L + 1
        /\ \A i \in 1 .. L : t[i] = conflicts[i]
        /\ t[L + 1] = c
    BY <2>1, Grown
  <2> HIDE DEF t, L
  <2> QED
    BY <2>2, <2>3, <2>4
<1>11. (Rebinds => conflicts' = t) /\ (~Rebinds => conflicts' = conflicts)
  BY <1>3
<1> HIDE DEF t, L
<1>12. ArpPackets'
  <2>1. arps' \in Seq([pkt : Nat, hdr : Nat])
    <3>1. e \in [pkt : Nat, hdr : Nat]
      BY <1>1 DEF e
    <3> HIDE DEF e
    <3> QED
      BY <1>2, <3>1, Enqueued DEF ArpInv, ArpPackets
  <2>2. ASSUME NEW n \in 1 .. M PROVE arps'[n].pkt \in 1 .. C
    BY <1>1, <1>2, <1>4, <1>5 DEF ArpInv, ArpPackets, C
  <2>3. c.pkt = C
    OBVIOUS
  <2>4. \A i \in DOMAIN conflicts : conflicts[i].pkt \in 1 .. C /\ conflicts[i].pkt < C
    BY DEF ArpInv, ArpPackets, C
  <2>5. \A i, j \in DOMAIN conflicts : i < j => conflicts[i].pkt < conflicts[j].pkt
    BY DEF ArpInv, ArpPackets
  <2> HIDE DEF c
  <2>6. /\ \A i \in DOMAIN conflicts' : conflicts'[i].pkt \in 1 .. C
        /\ \A i, j \in DOMAIN conflicts' : i < j => conflicts'[i].pkt < conflicts'[j].pkt
    <3>1. CASE Rebinds
      <4>1. conflicts' = t
        BY <1>11, <3>1
      <4>2. ASSUME NEW i \in 1 .. L + 1, NEW j \in 1 .. L + 1, i < j PROVE t[i].pkt < t[j].pkt
        BY <1>10, <2>3, <2>4, <2>5, <4>2
      <4>3. ASSUME NEW i \in 1 .. L + 1 PROVE t[i].pkt \in 1 .. C
        BY <1>1, <1>10, <2>3, <2>4
      <4> QED
        BY <1>10, <4>1, <4>2, <4>3
    <3>2. CASE ~Rebinds
      BY <1>11, <2>4, <2>5, <3>2
    <3> QED
      BY <3>1, <3>2
  <2> QED
    BY <1>4, <1>10, <1>11, <2>1, <2>2, <2>6 DEF ArpPackets, C
<1>13. ArpBound'
  <2>1. ASSUME NEW x PROVE x \in DOMAIN bindings' <=> \E n \in 1 .. M : Arped(n)'.reply /\ Arped(n)'.src = x
    <3>1. x \in DOMAIN bindings <=> \E n \in 1 .. N : Arped(n).reply /\ Arped(n).src = x
      BY <1>4 DEF ArpInv, ArpBound
    <3>2. x \in DOMAIN bindings' <=> x \in DOMAIN bindings \/ (h.reply /\ x = h.src)
      BY <1>3
    <3> QED
      BY <1>4, <1>5, <3>1, <3>2
  <2>2. ASSUME NEW n \in 1 .. M, LatestReply(n)' PROVE bindings'[Arped(n)'.src] = Arped(n)'.dst
    <3>1. Arped(n)'.reply /\ \A m \in 1 .. M : n < m /\ Arped(m)'.reply => Arped(m)'.src # Arped(n)'.src
      BY <1>4, <2>2 DEF LatestReply
    <3>2. CASE n = M
      <4>1. h.reply
        BY <1>4, <3>1, <3>2
      <4> QED
        BY <1>3, <1>4, <3>2, <4>1
    <3>3. CASE n \in 1 .. N
      <4>1. Arped(n)' = Arped(n) /\ n < M /\ (h.reply => h.src # Arped(n).src)
        BY <1>4, <1>5, <3>1, <3>3
      <4>2. LatestReply(n)
        BY <1>4, <1>5, <3>1, <3>3, <4>1 DEF LatestReply
      <4>3. Arped(n).src \in DOMAIN bindings /\ bindings[Arped(n).src] = Arped(n).dst
        BY <1>4, <3>3, <4>2 DEF ArpInv, ArpBound, LatestReply
      <4> QED
        BY <1>3, <4>1, <4>3
    <3> QED
      BY <1>5, <3>2, <3>3
  <2> QED
    BY <1>4, <2>1, <2>2 DEF ArpBound
<1>14. ArpReported'
  <2>1. ASSUME NEW k \in 1 .. M, NEW n \in 1 .. M, ChangesHands(k, n)'
        PROVE  \E i \in DOMAIN conflicts' : conflicts'[i] = Change(k, n)'
    <3>1. CASE n = M
      <4>1. Is(k) /\ Rebinds /\ Change(k, n)' = c
        BY <1>7, <1>8, <2>1, <3>1
      <4> HIDE DEF c
      <4>2. L + 1 \in DOMAIN conflicts' /\ conflicts'[L + 1] = c
        BY <1>10, <1>11, <4>1
      <4> QED
        BY <4>1, <4>2
    <3>2. CASE n \in 1 .. N
      <4>1. k \in 1 .. N
        <5>1. k < n
          BY <2>1 DEF ChangesHands
        <5> QED
          BY <1>4, <3>2, <5>1
      <4>2. PICK i \in DOMAIN conflicts : conflicts[i] = Change(k, n)
        BY <1>4, <2>1, <3>2, <4>1 DEF ArpInv, ArpReported
      <4>3. i \in DOMAIN conflicts' /\ conflicts'[i] = conflicts[i]
        BY <1>10, <1>11, <4>2
      <4> QED
        BY <1>4, <3>2, <4>1, <4>2, <4>3
    <3> QED
      BY <1>5, <3>1, <3>2
  <2>2. ASSUME NEW i \in DOMAIN conflicts'
        PROVE  \E k, n \in 1 .. M : ChangesHands(k, n)' /\ conflicts'[i] = Change(k, n)'
    <3>1. CASE i \in DOMAIN conflicts /\ conflicts'[i] = conflicts[i]
      <4>1. PICK k \in 1 .. N, n \in 1 .. N : ChangesHands(k, n) /\ conflicts[i] = Change(k, n)
        BY <1>4, <3>1 DEF ArpInv, ArpReported
      <4> QED
        BY <1>4, <1>5, <3>1, <4>1
    <3>2. CASE Rebinds /\ conflicts'[i] = c
      <4>1. PICK k \in 1 .. N : Is(k) /\ old = Arped(k).dst
        BY <1>9, <3>2
      <4>2. ChangesHands(k, M)' /\ Change(k, M)' = c
        BY <1>5, <1>7, <4>1
      <4> HIDE DEF c
      <4> QED
        BY <1>5, <3>2, <4>2
    <3>3. Rebinds => (i \in DOMAIN conflicts /\ conflicts'[i] = conflicts[i]) \/ conflicts'[i] = c
      <4> HIDE DEF c
      <4> QED
        BY <1>10, <1>11
    <3> QED
      BY <1>11, <3>1, <3>2, <3>3
  <2> QED
    BY <1>4, <2>1, <2>2 DEF ArpReported
<1> QED
  BY <1>12, <1>13, <1>14 DEF ArpInv

\* What is known of the bindings of ARP stays true from step to step.
LEMMA ArpStep ==
    ASSUME ArpInv, LayersInv, LayersNext
    PROVE  ArpInv'
<1>1. captured \in Seq(Packets)
  BY DEF LayersInv
<1>2. CASE ~walking /\ \E p \in Packets : NextPacket(p)
  <2>1. UNCHANGED <<arps, bindings, conflicts>> /\ \E p \in Packets : captured' = Append(captured, p)
    BY <1>2 DEF NextPacket, Receive
  <2> QED
    BY <1>1, <1>2, <2>1, ArpStays
<1>3. CASE HeaderLayer
  <2>1. walking /\ captured' = captured /\ ArpState
    BY <1>3 DEF HeaderLayer
  <2>2. captured # <<>> /\ hdr \in Nat
    BY <2>1 DEF LayersInv, WalkInv
  <2>3. CASE key = "arp"
    <3>1. ~walking'
      <4>1. Dissected = Arp
        BY <2>3 DEF Dissected
      <4>2. Dissected # None => Dissected.next = "none"
        BY <4>1 DEF Arp, Found
      <4> QED
        BY <1>3, <4>2 DEF HeaderLayer, GoesOn
    <3> DEFINE n == Len(arps)
    <3>2. \A N, M : N = n /\ M = N + 1 => ArpInv'
      BY <1>1, <2>1, <2>2, <2>3, <3>1, ArpMessage
    <3> QED
      BY <3>2
  <2>4. CASE key # "arp"
    <3>1. UNCHANGED <<arps, bindings, conflicts>>
      BY <2>1, <2>4 DEF ArpState, Rebinds
    <3> QED
      BY <1>1, <2>1, <3>1, ArpStays
  <2> QED
    BY <2>3, <2>4
<1>4. ASSUME captured' = captured, walking' => walking, UNCHANGED <<arps, bindings, conflicts>> PROVE ArpInv'
  BY <1>1, <1>4, ArpStays
<1>5. CASE NoDissector \/ TooDeep \/ NoCandidate
  BY <1>4, <1>5 DEF NoDissector, TooDeep, NoCandidate
<1>6. CASE PickCandidates \/ CandidateFails \/ CandidateTakes \/ CandidateChains
  BY <1>4, <1>6 DEF PickCandidates, CandidateFails, CandidateTakes, CandidateChains, TryNext
<1> QED
  BY <1>2, <1>3, <1>5, <1>6 DEF LayersNext

\* Both invariants of the pipeline.
ArpPipeline == PipelineInv /\ (traffic = "layers" => ArpInv)

LEMMA ArpInit == Init => ArpPipeline
<1> SUFFICES ASSUME Init PROVE ArpPipeline
  OBVIOUS
<1>1. arps = <<>> /\ conflicts = <<>> /\ bindings = <<>>
  BY DEF Init, LayersInit
<1>2. /\ arps \in Seq([pkt : Nat, hdr : Nat]) /\ conflicts \in Seq({})
      /\ DOMAIN arps = {} /\ DOMAIN conflicts = {} /\ DOMAIN bindings = {}
  BY <1>1, Nothing
<1>3. ArpInv
  BY <1>2 DEF ArpInv, ArpPackets, ArpBound, ArpReported
<1> QED
  BY <1>3, PipelineInit DEF ArpPipeline

LEMMA ArpNext == ArpPipeline /\ [Next]_vars => ArpPipeline'
<1> SUFFICES ASSUME ArpPipeline, [Next]_vars PROVE ArpPipeline'
  OBVIOUS
<1>1. PipelineInv' /\ traffic' = traffic
  BY PipelineStep, OneKindOfTraffic DEF ArpPipeline
<1>2. ASSUME traffic = "layers" PROVE ArpInv'
  <2>1. LayersInv /\ ArpInv
    BY <1>2 DEF ArpPipeline, PipelineInv
  <2>2. CASE LayersNext
    BY <2>1, <2>2, ArpStep
  <2>3. CASE UNCHANGED <<captured, layerVars>>
    <3>1. captured' = captured /\ (walking' => walking) /\ UNCHANGED <<arps, bindings, conflicts>>
      BY <2>3 DEF layerVars
    <3>2. captured \in Seq(Packets)
      BY <2>1 DEF LayersInv
    <3> QED
      BY <2>1, <3>1, <3>2, ArpStays
  <2> QED
    BY <1>2, <2>2, <2>3, LayersOnly
<1> QED
  BY <1>1, <1>2 DEF ArpPipeline

LEMMA RebindsFollow == ArpPipeline => ConflictsAreRebinds
BY DEF ArpPipeline, ArpInv, ArpPackets, ArpReported, ConflictsAreRebinds

\* Every change of hands of an address is reported once, with the hardware address that had
\* it last, and nothing else is: whatever the replies of a capture say, in whatever order
\* and under whatever headers (arp.js:34-48).
THEOREM EveryConflictIsARebind == Spec => []ConflictsAreRebinds
<1> QED
  BY ArpInit, ArpNext, RebindsFollow, PTL DEF Spec
=============================================================================
