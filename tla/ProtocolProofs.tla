--------------------------- MODULE ProtocolProofs ---------------------------
(***************************************************************************)
(* Theorems of Dissection about the state that the dissectors of           *)
(* applications keep between packets (DnsState, Sessions, HostNames and    *)
(* Handshakes).                                                            *)
(*                                                                         *)
(* Each invariant says of the traffic it is about what its state has to do *)
(* with the messages captured so far; a step of any other traffic leaves   *)
(* both alone.                                                             *)
(***************************************************************************)
EXTENDS Dissection, SeqLemmas, FiniteSetTheorems

\* A step of one kind of traffic leaves the state of the others alone, and a step of
\* the layer loop that takes no new packet leaves the capture alone too.
LEMMA ByTraffic ==
    ASSUME [Next]_vars
    PROVE  \/ /\ \/ UNCHANGED <<traffic, captured>>
                 \/ traffic' = traffic /\ traffic = "layers"
              /\ UNCHANGED <<dnsVars, sessionVars, hostVars, handshakeVars>>
           \/ /\ DnsNext /\ traffic = "dns" /\ traffic' = traffic
              /\ UNCHANGED <<sessionVars, hostVars, handshakeVars>>
           \/ /\ SessionsNext /\ traffic \in SessionTraffic /\ traffic' = traffic
              /\ UNCHANGED <<dnsVars, hostVars, handshakeVars>>
           \/ /\ HostNamesNext /\ traffic = "hosts" /\ traffic' = traffic
              /\ UNCHANGED <<dnsVars, sessionVars, handshakeVars>>
           \/ /\ HandshakesNext /\ traffic = "handshakes" /\ traffic' = traffic
              /\ UNCHANGED <<dnsVars, sessionVars, hostVars>>
<1>1. CASE UNCHANGED vars
  BY <1>1 DEF vars
<1>2. CASE LayersNext /\ UNCHANGED <<dnsVars, sessionVars, hostVars, handshakeVars>>
  <2>1. (traffic' = traffic /\ traffic = "layers") \/ UNCHANGED <<traffic, captured>>
    <3>1. ASSUME NEW p \in Packets, NextPacket(p), More("layers")
          PROVE  traffic' = traffic /\ traffic = "layers"
      BY <3>1 DEF NextPacket, Receive, More
    <3>2. HeaderLayer => UNCHANGED <<traffic, captured>>
      BY DEF HeaderLayer
    <3>3. NoDissector \/ TooDeep => UNCHANGED <<traffic, captured>>
      BY DEF NoDissector, TooDeep
    <3>4. PickCandidates \/ CandidateFails \/ CandidateTakes => UNCHANGED <<traffic, captured>>
      BY DEF PickCandidates, CandidateFails, CandidateTakes
    <3>5. CandidateChains \/ NoCandidate => UNCHANGED <<traffic, captured>>
      BY DEF CandidateChains, NoCandidate
    <3> QED
      BY <1>2, <3>1, <3>2, <3>3, <3>4, <3>5 DEF LayersNext
  <2> QED
    BY <1>2, <2>1
<1>3. CASE DnsNext /\ UNCHANGED <<layerVars, sessionVars, hostVars, handshakeVars>>
  BY <1>3 DEF DnsNext, DnsMessage, More, Receive
<1>4. CASE SessionsNext /\ UNCHANGED <<layerVars, dnsVars, hostVars, handshakeVars>>
  <2>1. PICK kind \in SessionTraffic : More(kind) /\ \E s \in Segments[kind] : Receive(s)
    BY <1>4 DEF SessionsNext
  <2> QED
    BY <1>4, <2>1 DEF More, Receive
<1>5. CASE HostNamesNext /\ UNCHANGED <<layerVars, dnsVars, sessionVars, handshakeVars>>
  BY <1>5 DEF HostNamesNext, More, Receive
<1>6. CASE HandshakesNext /\ UNCHANGED <<layerVars, dnsVars, sessionVars, hostVars>>
  BY <1>6 DEF HandshakesNext, More, Receive
<1> QED
  BY <1>1, <1>2, <1>3, <1>4, <1>5, <1>6 DEF Next

-----------------------------------------------------------------------------
(* DNS: queries and responses *)

\* The key of a message's transaction: number, question, client and server.
MsgKey(m) == KeyOf(m, FirstQuestion(parseDnsMessage(m)))
Keyed == [key : {MsgKey(m) : m \in DnsMessages}, query : Nat \cup {None}, response : Nat \cup {None}]

\* Message q of a capture is the last one before message r with r's key, and a query.
LastQuery(cap, q, r) ==
    /\ ~cap[q].resp /\ MsgKey(cap[q]) = MsgKey(cap[r])
    /\ \A j \in q + 1 .. r - 1 : MsgKey(cap[j]) # MsgKey(cap[r])

DnsTypes == captured \in Seq(DnsMessages) /\ transactions \in Seq(Keyed)

\* A transaction has a query and a response of its key, and every message is in one.
InTransactions ==
    /\ \A t \in DOMAIN transactions :
          LET x == transactions[t]
          IN /\ x.query # None => /\ x.query \in DOMAIN captured /\ ~captured[x.query].resp
                                  /\ MsgKey(captured[x.query]) = x.key
             /\ x.response # None => /\ x.response \in DOMAIN captured /\ captured[x.response].resp
                                     /\ MsgKey(captured[x.response]) = x.key
    /\ \A i \in DOMAIN captured : \E t \in DOMAIN transactions :
          i \in {transactions[t].query, transactions[t].response}
    /\ \A i \in DOMAIN captured : \A t, u \in DOMAIN transactions :
          /\ i \in {transactions[t].query, transactions[t].response}
          /\ i \in {transactions[u].query, transactions[u].response}
          => t = u

\* What is pending under a key is the transaction of the last message with that key,
\* a query; where the last message with a key is a query, something is pending.
PendingInv ==
    /\ \A k \in DOMAIN pending :
          /\ pending[k] \in DOMAIN transactions
          /\ transactions[pending[k]].key = k
          /\ transactions[pending[k]].query # None /\ transactions[pending[k]].response = None
          /\ \A j \in DOMAIN captured : j > transactions[pending[k]].query => MsgKey(captured[j]) # k
    /\ \A i \in DOMAIN captured :
          ~captured[i].resp /\ (\A j \in DOMAIN captured : j > i => MsgKey(captured[j]) # MsgKey(captured[i]))
          => MsgKey(captured[i]) \in DOMAIN pending

AnswersInv ==
    \A t \in DOMAIN transactions :
        LET x == transactions[t]
        IN x.response # None =>
              IF x.query = None THEN \A i \in 1 .. x.response - 1 : ~LastQuery(captured, i, x.response)
              ELSE x.query < x.response /\ LastQuery(captured, x.query, x.response)

DnsInv == traffic = "dns" => DnsTypes /\ InTransactions /\ PendingInv /\ AnswersInv

\* A message has one key, and taking it appends it to the capture.
LEMMA MessageTaken ==
    ASSUME NEW S, captured \in Seq(S), NEW m \in S, captured' = Append(captured, m)
    PROVE  /\ Len(captured) \in Nat /\ DOMAIN captured = 1 .. Len(captured)
           /\ Len(captured') = Len(captured) + 1
           /\ captured' \in Seq(S) /\ DOMAIN captured' = 1 .. Len(captured) + 1
           /\ \A i \in 1 .. Len(captured) : captured'[i] = captured[i]
           /\ captured'[Len(captured) + 1] = m
<1>1. captured' \in Seq(S) /\ Len(captured') = Len(captured) + 1
  BY Enqueued
<1> QED
  BY <1>1, Grown

\* What is learnt of earlier messages stays true when another one follows.
LEMMA LastQueryStays ==
    ASSUME NEW N \in Nat, NEW cap, NEW new, \A i \in 1 .. N : new[i] = cap[i],
           NEW q \in 1 .. N, NEW r \in 1 .. N
    PROVE  LastQuery(new, q, r) <=> LastQuery(cap, q, r)
<1>1. \A j \in q + 1 .. r - 1 : j \in 1 .. N
  OBVIOUS
<1> QED
  BY <1>1 DEF LastQuery

\* A query: a new transaction, which is now the pending one of its key.
LEMMA QueryBooked ==
    ASSUME DnsTypes, InTransactions, PendingInv, AnswersInv,
           NEW m \in DnsMessages, captured' = Append(captured, m), ~m.resp,
           transactions' = Append(transactions, Transaction(MsgKey(m), Number, None)),
           pending' = Put(pending, MsgKey(m), Len(transactions) + 1)
    PROVE  (DnsTypes /\ InTransactions /\ PendingInv /\ AnswersInv)'
<1> DEFINE N == Len(captured)
           T == Len(transactions)
           new == Transaction(MsgKey(m), Number, None)
<1>1. /\ N \in Nat /\ DOMAIN captured = 1 .. N
      /\ captured' \in Seq(DnsMessages) /\ DOMAIN captured' = 1 .. N + 1
      /\ \A i \in 1 .. N : captured'[i] = captured[i]
      /\ captured'[N + 1] = m
  BY MessageTaken DEF DnsTypes
<1>2. /\ new \in Keyed /\ new.key = MsgKey(m) /\ new.query = N + 1 /\ new.response = None
      /\ None \notin Nat
  BY <1>1, CaptureAssumption DEF Keyed, Transaction, Number
<1>3. /\ T \in Nat /\ DOMAIN transactions = 1 .. T
      /\ transactions' \in Seq(Keyed) /\ DOMAIN transactions' = 1 .. T + 1
      /\ \A t \in 1 .. T : transactions'[t] = transactions[t]
      /\ transactions'[T + 1] = new
  BY <1>2, Grown, Enqueued DEF DnsTypes
<1>4. /\ DOMAIN pending' = DOMAIN pending \cup {MsgKey(m)}
      /\ pending'[MsgKey(m)] = T + 1
      /\ \A k \in DOMAIN pending : k # MsgKey(m) => pending'[k] = pending[k]
  BY DEF Put
<1> HIDE DEF N, T, new
<1>5. DnsTypes'
  BY <1>1, <1>3 DEF DnsTypes
<1>6. InTransactions'
  <2>1. ASSUME NEW t \in DOMAIN transactions'
        PROVE  LET x == transactions'[t]
               IN /\ x.query # None => /\ x.query \in DOMAIN captured' /\ ~captured'[x.query].resp
                                       /\ MsgKey(captured'[x.query]) = x.key
                  /\ x.response # None => /\ x.response \in DOMAIN captured' /\ captured'[x.response].resp
                                          /\ MsgKey(captured'[x.response]) = x.key
    BY <1>1, <1>2, <1>3, <2>1 DEF InTransactions
  <2>2. ASSUME NEW i \in DOMAIN captured'
        PROVE  \E t \in DOMAIN transactions' : i \in {transactions'[t].query, transactions'[t].response}
    <3>1. CASE i = N + 1
      BY <1>2, <1>3, <3>1
    <3>2. CASE i \in 1 .. N
      BY <1>1, <1>3, <3>2 DEF InTransactions
    <3> QED
      BY <1>1, <3>1, <3>2
  <2>3. ASSUME NEW i \in DOMAIN captured', NEW t \in DOMAIN transactions',
               i \in {transactions'[t].query, transactions'[t].response}
        PROVE  (i = N + 1 /\ t = T + 1) \/ (i \in 1 .. N /\ t \in 1 .. T)
    <3>1. CASE t = T + 1
      BY <1>1, <1>2, <1>3, <2>3, <3>1
    <3>2. CASE t \in 1 .. T
      BY <1>1, <1>2, <1>3, <2>3, <3>2 DEF InTransactions
    <3> QED
      BY <1>3, <3>1, <3>2
  <2>4. ASSUME NEW i \in DOMAIN captured', NEW t \in DOMAIN transactions', NEW u \in DOMAIN transactions',
               i \in {transactions'[t].query, transactions'[t].response},
               i \in {transactions'[u].query, transactions'[u].response}
        PROVE  t = u
    <3>1. CASE i = N + 1
      BY <1>1, <2>3, <2>4, <3>1
    <3>2. CASE i \in 1 .. N /\ t \in 1 .. T /\ u \in 1 .. T
      BY <1>1, <1>3, <2>4, <3>2 DEF InTransactions
    <3> QED
      BY <1>1, <2>3, <2>4, <3>1, <3>2
  <2> QED
    BY <2>1, <2>2, <2>4 DEF InTransactions
<1>7. PendingInv'
  <2>1. ASSUME NEW k \in DOMAIN pending'
        PROVE  /\ pending'[k] \in DOMAIN transactions'
               /\ transactions'[pending'[k]].key = k
               /\ transactions'[pending'[k]].query # None /\ transactions'[pending'[k]].response = None
               /\ \A j \in DOMAIN captured' : j > transactions'[pending'[k]].query => MsgKey(captured'[j]) # k
    <3>1. CASE k = MsgKey(m)
      BY <1>1, <1>2, <1>3, <1>4, <3>1
    <3>2. CASE k # MsgKey(m)
      BY <1>1, <1>2, <1>3, <1>4, <3>2 DEF PendingInv
    <3> QED
      BY <3>1, <3>2
  <2>2. ASSUME NEW i \in DOMAIN captured', ~captured'[i].resp,
               \A j \in DOMAIN captured' : j > i => MsgKey(captured'[j]) # MsgKey(captured'[i])
        PROVE  MsgKey(captured'[i]) \in DOMAIN pending'
    <3>1. CASE i = N + 1
      BY <1>1, <1>4, <3>1
    <3>2. CASE i \in 1 .. N
      <4>1. \A j \in DOMAIN captured : j > i => MsgKey(captured[j]) # MsgKey(captured[i])
        BY <1>1, <2>2, <3>2
      <4> QED
        BY <1>1, <1>4, <2>2, <3>2, <4>1 DEF PendingInv
    <3> QED
      BY <1>1, <3>1, <3>2
  <2> QED
    BY <2>1, <2>2 DEF PendingInv
<1>8. AnswersInv'
  <2> SUFFICES ASSUME NEW t \in DOMAIN transactions', transactions'[t].response # None
               PROVE  IF transactions'[t].query = None
                      THEN \A i \in 1 .. transactions'[t].response - 1 : ~LastQuery(captured', i, transactions'[t].response)
                      ELSE /\ transactions'[t].query < transactions'[t].response
                           /\ LastQuery(captured', transactions'[t].query, transactions'[t].response)
    BY DEF AnswersInv
  <2>1. t \in 1 .. T /\ transactions'[t] = transactions[t]
    BY <1>2, <1>3
  <2>2. transactions[t].response \in 1 .. N
    BY <1>1, <1>3, <2>1 DEF InTransactions
  <2>3. transactions[t].query # None => transactions[t].query \in 1 .. N
    BY <1>1, <1>3, <2>1 DEF InTransactions
  <2>4. \A i \in 1 .. transactions[t].response - 1 : i \in 1 .. N
    BY <1>1, <2>2
  <2>5. \A q, r \in 1 .. N : LastQuery(captured', q, r) <=> LastQuery(captured, q, r)
    BY <1>1, LastQueryStays
  <2> QED
    BY <1>3, <2>1, <2>2, <2>3, <2>4, <2>5 DEF AnswersInv
<1> QED
  BY <1>5, <1>6, <1>7, <1>8

\* A response to a pending transaction: it is completed and no longer pending.
LEMMA ResponseBooked ==
    ASSUME DnsTypes, InTransactions, PendingInv, AnswersInv,
           NEW m \in DnsMessages, captured' = Append(captured, m), m.resp,
           MsgKey(m) \in DOMAIN pending,
           transactions' = [transactions EXCEPT ![pending[MsgKey(m)]].response = Number],
           pending' = [k \in DOMAIN pending \ {MsgKey(m)} |-> pending[k]]
    PROVE  (DnsTypes /\ InTransactions /\ PendingInv /\ AnswersInv)'
<1> DEFINE N == Len(captured)
           T == Len(transactions)
           p == pending[MsgKey(m)]
<1>1. /\ N \in Nat /\ DOMAIN captured = 1 .. N
      /\ captured' \in Seq(DnsMessages) /\ DOMAIN captured' = 1 .. N + 1
      /\ \A i \in 1 .. N : captured'[i] = captured[i]
      /\ captured'[N + 1] = m
  BY MessageTaken DEF DnsTypes
<1>2. Number = N + 1 /\ None \notin Nat
  BY CaptureAssumption DEF Number
<1>3. /\ T \in Nat /\ DOMAIN transactions = 1 .. T /\ p \in 1 .. T
      /\ \A t \in 1 .. T : transactions[t] \in Keyed
      /\ transactions[p].key = MsgKey(m)
      /\ transactions[p].query # None /\ transactions[p].response = None
      /\ \A j \in 1 .. N : j > transactions[p].query => MsgKey(captured[j]) # MsgKey(m)
  BY <1>1 DEF DnsTypes, PendingInv
<1> HIDE DEF N, T, p
<1>4. /\ transactions' \in Seq(Keyed) /\ DOMAIN transactions' = 1 .. T
      /\ \A t \in 1 .. T : t # p => transactions'[t] = transactions[t]
      /\ transactions'[p].key = MsgKey(m) /\ transactions'[p].query = transactions[p].query
      /\ transactions'[p].response = N + 1
  <2>1. transactions' = [transactions EXCEPT ![p].response = N + 1]
    BY <1>2 DEF p
  <2>2. [transactions[p] EXCEPT !.response = N + 1] \in Keyed
    BY <1>1, <1>3 DEF Keyed
  <2>3. transactions \in Seq(Keyed)
    BY DEF DnsTypes
  <2> DEFINE e == [transactions[p] EXCEPT !.response = N + 1]
  <2>4. transactions' = [transactions EXCEPT ![p] = e]
    BY <2>1
  <2>8. e \in Keyed /\ p \in 1 .. Len(transactions)
    BY <1>3, <2>2 DEF T
  <2>9. e = [transactions[p] EXCEPT !.response = N + 1]
    OBVIOUS
  <2> HIDE DEF e
  <2>5. /\ transactions' \in Seq(Keyed) /\ DOMAIN transactions' = 1 .. T
        /\ transactions'[p] = [transactions[p] EXCEPT !.response = N + 1]
        /\ \A t \in 1 .. T : t # p => transactions'[t] = transactions[t]
    BY ONLY <2>3, <2>4, <2>8, <2>9, Updated DEF T
  <2>6. transactions[p] \in Keyed
    BY <1>3
  <2>7. /\ transactions'[p].key = transactions[p].key /\ transactions'[p].query = transactions[p].query
        /\ transactions'[p].response = N + 1
    BY <2>5, <2>6 DEF Keyed
  <2> QED
    BY <1>3, <2>5, <2>7
<1>5. /\ DOMAIN pending' = DOMAIN pending \ {MsgKey(m)}
      /\ \A k \in DOMAIN pending' : pending'[k] = pending[k] /\ k # MsgKey(m)
  OBVIOUS
<1>6. transactions[p].query \in 1 .. N /\ ~captured[transactions[p].query].resp
      /\ MsgKey(captured[transactions[p].query]) = MsgKey(m)
  BY <1>1, <1>3 DEF InTransactions
<1>13. \A t \in 1 .. T :
          /\ transactions[t].query # None =>
                /\ transactions[t].query \in 1 .. N /\ ~captured[transactions[t].query].resp
                /\ MsgKey(captured[transactions[t].query]) = transactions[t].key
          /\ transactions[t].response # None =>
                /\ transactions[t].response \in 1 .. N /\ captured[transactions[t].response].resp
                /\ MsgKey(captured[transactions[t].response]) = transactions[t].key
  BY <1>1, <1>3 DEF InTransactions
<1>7. DnsTypes'
  BY <1>1, <1>4 DEF DnsTypes
<1>8. ASSUME NEW i \in 1 .. N, NEW t \in 1 .. T
      PROVE  i \in {transactions'[t].query, transactions'[t].response}
             <=> i \in {transactions[t].query, transactions[t].response}
  BY <1>1, <1>2, <1>3, <1>4
<1>9. ASSUME NEW t \in 1 .. T, N + 1 \in {transactions'[t].query, transactions'[t].response}
      PROVE  t = p
  BY <1>1, <1>2, <1>3, <1>4, <1>9 DEF InTransactions
<1>10. InTransactions'
  <2>1. ASSUME NEW t \in DOMAIN transactions'
        PROVE  LET x == transactions'[t]
               IN /\ x.query # None => /\ x.query \in DOMAIN captured' /\ ~captured'[x.query].resp
                                       /\ MsgKey(captured'[x.query]) = x.key
                  /\ x.response # None => /\ x.response \in DOMAIN captured' /\ captured'[x.response].resp
                                          /\ MsgKey(captured'[x.response]) = x.key
    <3>1. CASE t = p
      BY <1>1, <1>4, <1>6, <3>1
    <3>2. CASE t # p
      <4>1. t \in 1 .. T /\ transactions'[t] = transactions[t]
        BY <1>4, <3>2
      <4>2. transactions[t].query # None => captured'[transactions[t].query] = captured[transactions[t].query]
        BY <1>1, <1>13, <4>1
      <4>3. transactions[t].response # None => captured'[transactions[t].response] = captured[transactions[t].response]
        BY <1>1, <1>13, <4>1
      <4>4. 1 .. N \subseteq 1 .. N + 1
        BY <1>1
      <4> QED
        BY ONLY <1>1, <1>13, <4>1, <4>2, <4>3, <4>4
    <3> QED
      BY <3>1, <3>2
  <2>2. ASSUME NEW i \in DOMAIN captured'
        PROVE  \E t \in DOMAIN transactions' : i \in {transactions'[t].query, transactions'[t].response}
    <3>1. CASE i = N + 1
      BY <1>3, <1>4, <3>1
    <3>2. CASE i \in 1 .. N
      <4>1. PICK t \in 1 .. T : i \in {transactions[t].query, transactions[t].response}
        BY <1>1, <1>3, <3>2 DEF InTransactions
      <4> QED
        BY <1>4, <1>8, <3>2, <4>1
    <3> QED
      BY <1>1, <3>1, <3>2
  <2>3. ASSUME NEW i \in DOMAIN captured', NEW t \in DOMAIN transactions', NEW u \in DOMAIN transactions',
               i \in {transactions'[t].query, transactions'[t].response},
               i \in {transactions'[u].query, transactions'[u].response}
        PROVE  t = u
    <3>1. CASE i = N + 1
      BY <1>4, <1>9, <2>3, <3>1
    <3>2. CASE i \in 1 .. N
      <4>1. i \in {transactions[t].query, transactions[t].response}
            /\ i \in {transactions[u].query, transactions[u].response}
        BY <1>4, <1>8, <2>3, <3>2
      <4> QED
        BY <1>1, <1>3, <1>4, <3>2, <4>1 DEF InTransactions
    <3> QED
      BY <1>1, <3>1, <3>2
  <2> QED
    BY <2>1, <2>2, <2>3 DEF InTransactions
<1>11. PendingInv'
  <2>1. ASSUME NEW k \in DOMAIN pending'
        PROVE  /\ pending'[k] \in DOMAIN transactions'
               /\ transactions'[pending'[k]].key = k
               /\ transactions'[pending'[k]].query # None /\ transactions'[pending'[k]].response = None
               /\ \A j \in DOMAIN captured' : j > transactions'[pending'[k]].query => MsgKey(captured'[j]) # k
    <3>1. /\ pending[k] \in 1 .. T /\ transactions[pending[k]].key = k /\ k # MsgKey(m)
          /\ transactions[pending[k]].query # None /\ transactions[pending[k]].response = None
          /\ \A j \in 1 .. N : j > transactions[pending[k]].query => MsgKey(captured[j]) # k
      BY <1>1, <1>3, <1>5 DEF PendingInv
    <3>2. pending'[k] = pending[k] /\ pending[k] # p
      BY <1>3, <1>5, <3>1
    <3>3. transactions'[pending'[k]] = transactions[pending[k]] /\ pending'[k] \in DOMAIN transactions'
      BY <1>4, <3>1, <3>2
    <3>4. transactions[pending[k]].query \in 1 .. N
      BY <1>13, <3>1
    <3>5. ASSUME NEW j \in DOMAIN captured', j > transactions[pending[k]].query
          PROVE  MsgKey(captured'[j]) # k
      BY <1>1, <3>1, <3>5
    <3> QED
      BY <3>1, <3>3, <3>5
  <2>2. ASSUME NEW i \in DOMAIN captured', ~captured'[i].resp,
               \A j \in DOMAIN captured' : j > i => MsgKey(captured'[j]) # MsgKey(captured'[i])
        PROVE  MsgKey(captured'[i]) \in DOMAIN pending'
    <3>1. i \in 1 .. N
      BY <1>1, <2>2
    <3>2. MsgKey(captured[i]) # MsgKey(m)
      BY <1>1, <2>2, <3>1
    <3>3. \A j \in DOMAIN captured : j > i => MsgKey(captured[j]) # MsgKey(captured[i])
      BY <1>1, <2>2, <3>1
    <3> QED
      BY <1>1, <1>5, <2>2, <3>1, <3>2, <3>3 DEF PendingInv
  <2> QED
    BY <2>1, <2>2 DEF PendingInv
<1>12. AnswersInv'
  <2> SUFFICES ASSUME NEW t \in DOMAIN transactions', transactions'[t].response # None
               PROVE  IF transactions'[t].query = None
                      THEN \A i \in 1 .. transactions'[t].response - 1 : ~LastQuery(captured', i, transactions'[t].response)
                      ELSE /\ transactions'[t].query < transactions'[t].response
                           /\ LastQuery(captured', transactions'[t].query, transactions'[t].response)
    BY DEF AnswersInv
  <2>1. CASE t = p
    <3>1. transactions'[t].query \in 1 .. N /\ transactions'[t].response = N + 1
      BY <1>4, <1>6, <2>1
    <3>2. LastQuery(captured', transactions[p].query, N + 1)
      BY <1>1, <1>3, <1>6 DEF LastQuery
    <3> QED
      BY <1>1, <1>2, <1>4, <2>1, <3>1, <3>2
  <2>2. CASE t # p
    <3>1. t \in 1 .. T /\ transactions'[t] = transactions[t]
      BY <1>4, <2>2
    <3>2. transactions[t].response \in 1 .. N
      BY <1>13, <3>1
    <3>3. transactions[t].query # None => transactions[t].query \in 1 .. N
      BY <1>13, <3>1
    <3>4. \A i \in 1 .. transactions[t].response - 1 : i \in 1 .. N
      BY <1>1, <3>2
    <3>5. \A q, r \in 1 .. N : LastQuery(captured', q, r) <=> LastQuery(captured, q, r)
      BY <1>1, LastQueryStays
    <3> QED
      BY <1>3, <3>1, <3>2, <3>3, <3>4, <3>5 DEF AnswersInv
  <2> QED
    BY <2>1, <2>2
<1> QED
  BY <1>7, <1>10, <1>11, <1>12

\* A response nothing is pending for: a transaction without a query.
LEMMA StrayBooked ==
    ASSUME DnsTypes, InTransactions, PendingInv, AnswersInv,
           NEW m \in DnsMessages, captured' = Append(captured, m), m.resp,
           MsgKey(m) \notin DOMAIN pending,
           transactions' = Append(transactions, Transaction(MsgKey(m), None, Number)),
           pending' = pending
    PROVE  (DnsTypes /\ InTransactions /\ PendingInv /\ AnswersInv)'
<1> DEFINE N == Len(captured)
           T == Len(transactions)
           new == Transaction(MsgKey(m), None, Number)
<1>1. /\ N \in Nat /\ DOMAIN captured = 1 .. N
      /\ captured' \in Seq(DnsMessages) /\ DOMAIN captured' = 1 .. N + 1
      /\ \A i \in 1 .. N : captured'[i] = captured[i]
      /\ captured'[N + 1] = m
  BY MessageTaken DEF DnsTypes
<1>2. /\ new \in Keyed /\ new.key = MsgKey(m) /\ new.query = None /\ new.response = N + 1
      /\ None \notin Nat
  BY <1>1, CaptureAssumption DEF Keyed, Transaction, Number
<1>3. /\ T \in Nat /\ DOMAIN transactions = 1 .. T
      /\ transactions' \in Seq(Keyed) /\ DOMAIN transactions' = 1 .. T + 1
      /\ \A t \in 1 .. T : transactions'[t] = transactions[t]
      /\ transactions'[T + 1] = new
  BY <1>2, Grown, Enqueued DEF DnsTypes
<1> HIDE DEF N, T, new
<1>4. DnsTypes'
  BY <1>1, <1>3 DEF DnsTypes
<1>5. InTransactions'
  <2>1. ASSUME NEW t \in DOMAIN transactions'
        PROVE  LET x == transactions'[t]
               IN /\ x.query # None => /\ x.query \in DOMAIN captured' /\ ~captured'[x.query].resp
                                       /\ MsgKey(captured'[x.query]) = x.key
                  /\ x.response # None => /\ x.response \in DOMAIN captured' /\ captured'[x.response].resp
                                          /\ MsgKey(captured'[x.response]) = x.key
    BY <1>1, <1>2, <1>3, <2>1 DEF InTransactions
  <2>2. ASSUME NEW i \in DOMAIN captured'
        PROVE  \E t \in DOMAIN transactions' : i \in {transactions'[t].query, transactions'[t].response}
    <3>1. CASE i = N + 1
      BY <1>2, <1>3, <3>1
    <3>2. CASE i \in 1 .. N
      BY <1>1, <1>3, <3>2 DEF InTransactions
    <3> QED
      BY <1>1, <3>1, <3>2
  <2>3. ASSUME NEW i \in DOMAIN captured', NEW t \in DOMAIN transactions',
               i \in {transactions'[t].query, transactions'[t].response}
        PROVE  (i = N + 1 /\ t = T + 1) \/ (i \in 1 .. N /\ t \in 1 .. T)
    <3>1. CASE t = T + 1
      BY <1>1, <1>2, <1>3, <2>3, <3>1
    <3>2. CASE t \in 1 .. T
      BY <1>1, <1>2, <1>3, <2>3, <3>2 DEF InTransactions
    <3> QED
      BY <1>3, <3>1, <3>2
  <2>4. ASSUME NEW i \in DOMAIN captured', NEW t \in DOMAIN transactions', NEW u \in DOMAIN transactions',
               i \in {transactions'[t].query, transactions'[t].response},
               i \in {transactions'[u].query, transactions'[u].response}
        PROVE  t = u
    <3>1. CASE i = N + 1
      BY <1>1, <2>3, <2>4, <3>1
    <3>2. CASE i \in 1 .. N /\ t \in 1 .. T /\ u \in 1 .. T
      BY <1>1, <1>3, <2>4, <3>2 DEF InTransactions
    <3> QED
      BY <1>1, <2>3, <2>4, <3>1, <3>2
  <2> QED
    BY <2>1, <2>2, <2>4 DEF InTransactions
<1>6. PendingInv'
  <2>1. ASSUME NEW k \in DOMAIN pending
        PROVE  /\ pending[k] \in DOMAIN transactions'
               /\ transactions'[pending[k]].key = k
               /\ transactions'[pending[k]].query # None /\ transactions'[pending[k]].response = None
               /\ \A j \in DOMAIN captured' : j > transactions'[pending[k]].query => MsgKey(captured'[j]) # k
    BY <1>1, <1>2, <1>3 DEF PendingInv
  <2>2. ASSUME NEW i \in DOMAIN captured', ~captured'[i].resp,
               \A j \in DOMAIN captured' : j > i => MsgKey(captured'[j]) # MsgKey(captured'[i])
        PROVE  MsgKey(captured'[i]) \in DOMAIN pending
    <3>1. i \in 1 .. N
      BY <1>1, <2>2
    <3>2. \A j \in DOMAIN captured : j > i => MsgKey(captured[j]) # MsgKey(captured[i])
      BY <1>1, <2>2, <3>1
    <3> QED
      BY <1>1, <2>2, <3>1, <3>2 DEF PendingInv
  <2> QED
    BY <2>1, <2>2 DEF PendingInv
<1>7. \A i \in 1 .. N : ~LastQuery(captured', i, N + 1)
  <2> SUFFICES ASSUME NEW i \in 1 .. N, LastQuery(captured', i, N + 1) PROVE FALSE
    OBVIOUS
  <2>1. ~captured[i].resp /\ MsgKey(captured[i]) = MsgKey(m)
    BY <1>1 DEF LastQuery
  <2>2. \A j \in DOMAIN captured : j > i => MsgKey(captured[j]) # MsgKey(captured[i])
    BY <1>1, <2>1 DEF LastQuery
  <2> QED
    BY <1>1, <2>1, <2>2 DEF PendingInv
<1>8. AnswersInv'
  <2> SUFFICES ASSUME NEW t \in DOMAIN transactions', transactions'[t].response # None
               PROVE  IF transactions'[t].query = None
                      THEN \A i \in 1 .. transactions'[t].response - 1 : ~LastQuery(captured', i, transactions'[t].response)
                      ELSE /\ transactions'[t].query < transactions'[t].response
                           /\ LastQuery(captured', transactions'[t].query, transactions'[t].response)
    BY DEF AnswersInv
  <2>1. CASE t = T + 1
    <3>1. (N + 1) - 1 = N
      BY <1>1
    <3> QED
      BY <1>2, <1>3, <1>7, <2>1, <3>1
  <2>2. CASE t \in 1 .. T
    <3>1. transactions'[t] = transactions[t]
      BY <1>3, <2>2
    <3>2. transactions[t].response \in 1 .. N
      BY <1>1, <1>3, <2>2, <3>1 DEF InTransactions
    <3>3. transactions[t].query # None => transactions[t].query \in 1 .. N
      BY <1>1, <1>3, <2>2 DEF InTransactions
    <3>4. \A i \in 1 .. transactions[t].response - 1 : i \in 1 .. N
      BY <1>1, <3>2
    <3>5. \A q, r \in 1 .. N : LastQuery(captured', q, r) <=> LastQuery(captured, q, r)
      BY <1>1, LastQueryStays
    <3> QED
      BY <1>3, <2>2, <3>1, <3>2, <3>3, <3>4, <3>5 DEF AnswersInv
  <2> QED
    BY <1>3, <2>1, <2>2
<1> QED
  BY <1>4, <1>5, <1>6, <1>8

\* The step of a DNS message.
LEMMA MessageBooked ==
    ASSUME DnsTypes, InTransactions, PendingInv, AnswersInv, DnsNext
    PROVE  (DnsTypes /\ InTransactions /\ PendingInv /\ AnswersInv)'
<1>1. PICK m \in DnsMessages : DnsMessage(m)
  BY DEF DnsNext
<1>2. /\ captured' = Append(captured, m)
      /\ IF ~m.resp
         THEN /\ transactions' = Append(transactions, Transaction(MsgKey(m), Number, None))
              /\ pending' = Put(pending, MsgKey(m), Len(transactions) + 1)
         ELSE IF MsgKey(m) \in DOMAIN pending
              THEN /\ transactions' = [transactions EXCEPT ![pending[MsgKey(m)]].response = Number]
                   /\ pending' = [k \in DOMAIN pending \ {MsgKey(m)} |-> pending[k]]
              ELSE /\ transactions' = Append(transactions, Transaction(MsgKey(m), None, Number))
                   /\ pending' = pending
  BY <1>1 DEF DnsMessage, MsgKey, Receive
<1> QED
  BY <1>2, QueryBooked, ResponseBooked, StrayBooked

LEMMA DnsInvInductive ==
    /\ Init => DnsInv
    /\ DnsInv /\ [Next]_vars => DnsInv'
<1>1. Init => DnsInv
  <2> SUFFICES ASSUME Init PROVE DnsTypes /\ InTransactions /\ PendingInv /\ AnswersInv
    BY DEF DnsInv
  <2>1. captured = <<>> /\ transactions = <<>> /\ pending = <<>>
    BY DEF Init, CaptureInit, DnsInit
  <2>2. DnsTypes
    BY <2>1, Nothing DEF DnsTypes
  <2>3. DOMAIN captured = {} /\ DOMAIN transactions = {} /\ DOMAIN pending = {}
    BY <2>1
  <2> QED
    BY <2>2, <2>3 DEF InTransactions, PendingInv, AnswersInv
<1>2. ASSUME DnsInv, [Next]_vars, traffic' = "dns"
      PROVE  (DnsTypes /\ InTransactions /\ PendingInv /\ AnswersInv)'
  <2>1. (DnsNext /\ traffic = "dns") \/ UNCHANGED <<traffic, captured, dnsVars>>
    BY <1>2, ByTraffic DEF SessionTraffic
  <2>2. CASE DnsNext /\ traffic = "dns"
    BY <1>2, <2>2, MessageBooked DEF DnsInv
  <2>3. CASE UNCHANGED <<traffic, captured, dnsVars>>
    <3>1. DnsTypes /\ InTransactions /\ PendingInv /\ AnswersInv
      BY <1>2, <2>3 DEF DnsInv
    <3>2. UNCHANGED <<captured, transactions, pending>>
      BY <2>3 DEF dnsVars
    <3> QED
      BY <3>1, <3>2 DEF DnsTypes, InTransactions, PendingInv, AnswersInv
  <2> QED
    BY <2>1, <2>2, <2>3
<1> QED
  BY <1>1, <1>2 DEF DnsInv

\* A message is in one transaction, and a response is with the query it answers.
LEMMA DnsInvSuffices == DnsInv => AnswersItsQuery
<1> SUFFICES ASSUME DnsTypes, InTransactions, AnswersInv
             PROVE  /\ \A i \in DOMAIN captured :
                          Cardinality({t \in DOMAIN transactions : i \in {transactions[t].query, transactions[t].response}}) = 1
                    /\ \A t \in DOMAIN transactions :
                          transactions[t].response # None =>
                             IF Answered(transactions[t].response) = {} THEN transactions[t].query = None
                             ELSE Answered(transactions[t].response) = {transactions[t].query}
  BY DEF DnsInv, AnswersItsQuery
<1>1. Len(captured) \in Nat /\ DOMAIN captured = 1 .. Len(captured)
  BY DEF DnsTypes
<1>2. ASSUME NEW i \in DOMAIN captured
      PROVE  Cardinality({t \in DOMAIN transactions : i \in {transactions[t].query, transactions[t].response}}) = 1
  <2>1. PICK t \in DOMAIN transactions : i \in {transactions[t].query, transactions[t].response}
    BY DEF InTransactions
  <2>2. {u \in DOMAIN transactions : i \in {transactions[u].query, transactions[u].response}} = {t}
    BY <2>1 DEF InTransactions
  <2> QED
    BY <2>2, FS_Singleton
<1>3. ASSUME NEW q \in 1 .. Len(captured), NEW r \in 1 .. Len(captured)
      PROVE  MsgKey(captured[q]) = MsgKey(captured[r]) <=> Same(q, r)
  BY DEF MsgKey, KeyOf, Same, Parties, QuestionOf
<1>4. ASSUME NEW r \in 1 .. Len(captured), captured[r].resp
      PROVE  Answered(r) = {i \in 1 .. r - 1 : LastQuery(captured, i, r)}
  <2>1. \A i \in 1 .. r - 1 : i \in 1 .. Len(captured) /\ \A j \in i + 1 .. r - 1 : j \in 1 .. Len(captured)
    BY <1>1
  <2> QED
    BY <1>3, <1>4, <2>1 DEF Answered, LastQuery
<1>5. ASSUME NEW t \in DOMAIN transactions, transactions[t].response # None
      PROVE  IF Answered(transactions[t].response) = {} THEN transactions[t].query = None
             ELSE Answered(transactions[t].response) = {transactions[t].query}
  <2> DEFINE r == transactions[t].response
             q == transactions[t].query
  <2>1. r \in 1 .. Len(captured) /\ captured[r].resp /\ (q # None => q \in 1 .. Len(captured))
    BY <1>1, <1>5 DEF InTransactions
  <2>2. IF q = None THEN \A i \in 1 .. r - 1 : ~LastQuery(captured, i, r)
        ELSE q < r /\ LastQuery(captured, q, r)
    BY <1>5 DEF AnswersInv
  <2> HIDE DEF q, r
  <2>3. Answered(r) = {i \in 1 .. r - 1 : LastQuery(captured, i, r)}
    BY <1>4, <2>1
  <2>4. ASSUME q = None PROVE IF Answered(r) = {} THEN q = None ELSE Answered(r) = {q}
    BY <2>2, <2>3, <2>4
  <2>5. ASSUME q # None PROVE IF Answered(r) = {} THEN q = None ELSE Answered(r) = {q}
    <3>1. q \in 1 .. r - 1 /\ LastQuery(captured, q, r)
      BY <1>1, <2>1, <2>2, <2>5
    <3>2. ASSUME NEW i \in 1 .. r - 1, LastQuery(captured, i, r) PROVE i = q
      <4>1. CASE i < q
        <5>1. q \in i + 1 .. r - 1
          BY <1>1, <2>1, <3>1, <4>1
        <5> QED
          BY <3>1, <3>2, <5>1 DEF LastQuery
      <4>2. CASE q < i
        <5>1. i \in q + 1 .. r - 1
          BY <1>1, <2>1, <3>1, <4>2
        <5> QED
          BY <3>1, <3>2, <5>1 DEF LastQuery
      <4> QED
        BY <1>1, <2>1, <3>1, <4>1, <4>2
    <3> QED
      BY <2>3, <3>1, <3>2
  <2> QED
    BY <2>4, <2>5 DEF q, r
<1> QED
  BY <1>2, <1>5

\* However queries and responses are repeated, crossed or forged, a response is shown
\* with the query it answers, and every message is in one transaction (dns.js:409-433).
THEOREM AnswersFindTheirQueries == Spec => []AnswersItsQuery
<1> QED
  BY DnsInvInductive, DnsInvSuffices, PTL DEF Spec

-----------------------------------------------------------------------------
(* DNS: the names of an address *)

\* The image of a finite set has at most as many elements.
LEMMA ImageIsFinite ==
    ASSUME NEW S, IsFiniteSet(S), NEW f, NEW T, T = {f[x] : x \in S}
    PROVE  IsFiniteSet(T) /\ Cardinality(T) \in Nat /\ Cardinality(S) \in Nat /\ Cardinality(T) <= Cardinality(S)
<1> DEFINE g == [x \in S |-> f[x]]
<1>1. g \in Surjection(S, T)
  BY DEF Surjection
<1> HIDE DEF g
<1>2. IsFiniteSet(T) /\ Cardinality(T) <= Cardinality(S)
  BY <1>1, FS_Surjection
<1> QED
  BY <1>2, FS_CardinalityType

\* The alias of a name is the owner of a record that points to it.
LEMMA AliasHasRecord ==
    ASSUME NEW N \in Nat, NEW read, DOMAIN read \in SUBSET (1 .. N), NEW n, Owners(read, n) # {}
    PROVE  \E i \in Owners(read, n) : AliasOf(read, n) = read[i].name
<1>1. Owners(read, n) \in SUBSET (1 .. N)
  BY DEF Owners
<1>2. \E i \in Owners(read, n) : \A j \in Owners(read, n) : j <= i
  BY <1>1, MaxOfSome
<1> QED
  BY <1>2 DEF AliasOf

\* The names of an address record are a walk: each is the alias of the one before it.
Walk(at, read, name) ==
    /\ at[0] = name
    /\ \A h \in 1 .. MaxHops :
          at[h] = IF Owners(read, at[h - 1]) = {} THEN at[h - 1] ELSE AliasOf(read, at[h - 1])
LEMMA NamesAreAWalk ==
    ASSUME NEW N \in Nat, NEW read, DOMAIN read \in SUBSET (1 .. N), NEW name
    PROVE  \E at : Walk(at, read, name) /\ NamesOf(read, name) = {at[h] : h \in 0 .. MaxHops}
<1> DEFINE T == {name} \cup {read[i].name : i \in DOMAIN read}
           next(x) == IF Owners(read, x) = {} THEN x ELSE AliasOf(read, x)
           step == [p \in Nat \X T |-> next(p[2])]
           Recurs(f) == f = [h \in 0 .. MaxHops |->
                               IF h = 0 THEN name
                               ELSE IF Owners(read, f[h - 1]) = {} THEN f[h - 1] ELSE AliasOf(read, f[h - 1])]
           at == CHOOSE f : Recurs(f)
<1>1. MaxHops \in Nat
  BY DnsAssumption
<1>2. \A x \in T : next(x) \in T
  <2> SUFFICES ASSUME NEW x \in T, Owners(read, x) # {} PROVE AliasOf(read, x) \in T
    OBVIOUS
  <2>1. PICK i \in Owners(read, x) : AliasOf(read, x) = read[i].name
    BY AliasHasRecord
  <2>2. i \in DOMAIN read
    BY DEF Owners
  <2> QED
    BY <2>1, <2>2
<1>3. name \in T
  OBVIOUS
<1> HIDE DEF T
<1>4. step \in [Nat \X T -> T]
  <2>1. \A p \in Nat \X T : next(p[2]) \in T
    <3> HIDE DEF next
    <3> QED
      BY <1>2
  <2> HIDE DEF next
  <2> QED
    BY <2>1
<1>5. PICK f \in [0 .. MaxHops -> T] : f[0] = name /\ \A i \in 1 .. MaxHops : f[i] = step[<<i, f[i - 1]>>]
  <2> HIDE DEF step
  <2>1. FunctionUpTo(MaxHops, T, name, step)
    BY <1>1, <1>3, <1>4, Recursion
  <2> QED
    BY <2>1 DEF FunctionUpTo
<1>6. ASSUME NEW i \in 1 .. MaxHops PROVE f[i] = next(f[i - 1])
  <2>1. i - 1 \in 0 .. MaxHops /\ i \in Nat
    BY <1>1
  <2>2. f[i - 1] \in T
    BY <2>1
  <2>3. <<i, f[i - 1]>> \in Nat \X T
    BY <2>1, <2>2
  <2> HIDE DEF next
  <2> QED
    BY <1>5, <2>3
<1> HIDE DEF step
<1>7. Recurs(f)
  <2>1. ASSUME NEW i \in 0 .. MaxHops PROVE f[i] = IF i = 0 THEN name ELSE next(f[i - 1])
    <3>1. i = 0 \/ i \in 1 .. MaxHops
      BY <1>1
    <3> HIDE DEF next
    <3> QED
      BY <1>1, <1>5, <1>6, <3>1
  <2> QED
    BY <2>1
<1>8. Recurs(at)
  <2> HIDE DEF Recurs
  <2> QED
    BY <1>7
<1>9. NamesOf(read, name) = {at[h] : h \in 0 .. MaxHops}
  BY DEF NamesOf
<1> HIDE DEF at
<1>10. Walk(at, read, name)
  <2>1. at[0] = name
    BY <1>1, <1>8
  <2>2. ASSUME NEW h \in 1 .. MaxHops
        PROVE  at[h] = IF Owners(read, at[h - 1]) = {} THEN at[h - 1] ELSE AliasOf(read, at[h - 1])
    <3>1. h \in 0 .. MaxHops /\ h # 0
      BY <1>1
    <3> QED
      BY <1>8, <3>1
  <2> QED
    BY <2>1, <2>2 DEF Walk
<1> QED
  BY <1>9, <1>10
\* The searches of Reaching: each adds the names that lead to one found before.
Search(back, pairs, n) ==
    /\ back[0] = {n}
    /\ \A k \in 1 .. Cardinality(pairs) :
          back[k] = back[k - 1] \cup {p[1] : p \in {q \in pairs : q[2] \in back[k - 1]}}
LEMMA ReachingIsASearch ==
    ASSUME NEW pairs, IsFiniteSet(pairs), NEW n
    PROVE  \E back : /\ Search(back, pairs, n) /\ Reaching(pairs, n) = back[Cardinality(pairs)]
                     /\ \A k \in 0 .. Cardinality(pairs) : back[k] \subseteq {n} \cup {p[1] : p \in pairs}
<1> DEFINE U == {n} \cup {p[1] : p \in pairs}
           C == Cardinality(pairs)
           next(r) == r \cup {p[1] : p \in {q \in pairs : q[2] \in r}}
           step == [p \in Nat \X SUBSET U |-> next(p[2])]
           Recurs(f) == f = [k \in 0 .. C |->
                               IF k = 0 THEN {n}
                               ELSE f[k - 1] \cup {p[1] : p \in {q \in pairs : q[2] \in f[k - 1]}}]
           back == CHOOSE f : Recurs(f)
<1>1. C \in Nat
  BY FS_CardinalityType
<1>2. {n} \in SUBSET U /\ \A r \in SUBSET U : next(r) \in SUBSET U
  OBVIOUS
<1> HIDE DEF U
<1>3. step \in [Nat \X SUBSET U -> SUBSET U]
  <2> HIDE DEF next
  <2>1. \A p \in Nat \X SUBSET U : next(p[2]) \in SUBSET U
    BY <1>2
  <2> QED
    BY <2>1
<1> HIDE DEF C
<1>4. PICK f \in [0 .. C -> SUBSET U] : f[0] = {n} /\ \A i \in 1 .. C : f[i] = step[<<i, f[i - 1]>>]
  <2> HIDE DEF step
  <2>1. FunctionUpTo(C, SUBSET U, {n}, step)
    BY <1>1, <1>2, <1>3, Recursion
  <2> QED
    BY <2>1 DEF FunctionUpTo
<1>5. ASSUME NEW i \in 1 .. C PROVE f[i] = next(f[i - 1])
  <2>1. i - 1 \in 0 .. C /\ i \in Nat
    BY <1>1
  <2>2. f[i - 1] \in SUBSET U
    BY <2>1
  <2>3. <<i, f[i - 1]>> \in Nat \X SUBSET U
    BY <2>1, <2>2
  <2> HIDE DEF next
  <2> QED
    BY <1>4, <2>3
<1> HIDE DEF step
<1>6. Recurs(f)
  <2>1. ASSUME NEW i \in 0 .. C PROVE f[i] = IF i = 0 THEN {n} ELSE next(f[i - 1])
    <3>1. i = 0 \/ i \in 1 .. C
      BY <1>1
    <3> HIDE DEF next
    <3> QED
      BY <1>1, <1>4, <1>5, <3>1
  <2> QED
    BY <2>1
<1>7. Recurs(back)
  <2> HIDE DEF Recurs
  <2> QED
    BY <1>6
<1>8. Reaching(pairs, n) = back[C]
  BY DEF Reaching, C
<1> HIDE DEF back
<1>9. back[0] = {n}
  BY <1>1, <1>7
<1>10. ASSUME NEW k \in 1 .. C PROVE back[k] = next(back[k - 1])
  <2>1. k \in 0 .. C /\ k # 0
    BY <1>1
  <2> QED
    BY <1>7, <2>1
<1>11. Search(back, pairs, n)
  BY <1>9, <1>10 DEF Search, C
<1>12. \A k \in 0 .. C : back[k] \in SUBSET U
  <2> DEFINE S == {k \in Nat : k <= C => back[k] \in SUBSET U}
  <2>1. 0 \in S
    BY <1>2, <1>9
  <2>2. ASSUME NEW k \in Nat, k \in S PROVE k + 1 \in S
    <3>1. CASE k + 1 <= C
      <4>1. k + 1 \in 1 .. C /\ (k + 1) - 1 = k /\ k <= C
        BY <1>1, <3>1
      <4>2. back[k + 1] = next(back[k]) /\ back[k] \in SUBSET U
        BY <1>10, <2>2, <4>1
      <4> HIDE DEF next
      <4> QED
        BY <1>2, <4>2
    <3> QED
      BY <3>1
  <2> HIDE DEF S
  <2>3. Nat \subseteq S
    BY <2>1, <2>2, NatSet
  <2> QED
    BY <1>1, <2>3 DEF S
<1> QED
  BY <1>8, <1>11, <1>12 DEF C, U

\* It has found all of them at its end: as long as it finds some, it has found more than
\* it has made searches, and there are no more than the pairs have names.
LEMMA ReachingIsClosed ==
    ASSUME NEW pairs, IsFiniteSet(pairs), NEW n
    PROVE  /\ n \in Reaching(pairs, n)
           /\ \A p \in pairs : p[2] \in Reaching(pairs, n) => p[1] \in Reaching(pairs, n)
<1> DEFINE U == {n} \cup {p[1] : p \in pairs}
           C == Cardinality(pairs)
           Closed(r) == \A p \in pairs : p[2] \in r => p[1] \in r
<1>1. PICK back : /\ Search(back, pairs, n) /\ Reaching(pairs, n) = back[C]
                  /\ \A k \in 0 .. C : back[k] \subseteq U
  BY ReachingIsASearch
<1>2. C \in Nat /\ IsFiniteSet(U) /\ Cardinality(U) \in Nat /\ Cardinality(U) <= C + 1
  <2> DEFINE f == [p \in pairs |-> p[1]]
             T == {p[1] : p \in pairs}
  <2>1. T = {f[p] : p \in pairs}
    OBVIOUS
  <2> HIDE DEF f, T
  <2>2. IsFiniteSet(T) /\ Cardinality(T) \in Nat /\ C \in Nat /\ Cardinality(T) <= C
    BY <2>1, ImageIsFinite
  <2>3. U = T \cup {n}
    BY DEF T
  <2>4. IsFiniteSet(T \cup {n}) /\ Cardinality(T \cup {n}) = IF n \in T THEN Cardinality(T) ELSE Cardinality(T) + 1
    BY <2>2, FS_AddElement
  <2> HIDE DEF U, C
  <2> QED
    BY <2>2, <2>3, <2>4
<1> DEFINE S == {k \in Nat : k <= C => n \in back[k] /\ (Closed(back[k]) \/ Cardinality(back[k]) >= k + 1)}
<1> HIDE DEF U
<1>3. 0 \in S
  <2>1. back[0] = {n}
    BY <1>1 DEF Search
  <2>2. Cardinality({n}) = 1
    BY FS_Singleton
  <2> HIDE DEF Closed
  <2> QED
    BY <2>1, <2>2
<1>4. ASSUME NEW k \in Nat, k \in S PROVE k + 1 \in S
  <2> SUFFICES ASSUME k + 1 <= C
               PROVE  n \in back[k + 1] /\ (Closed(back[k + 1]) \/ Cardinality(back[k + 1]) >= (k + 1) + 1)
    BY <1>4
  <2>1. k \in 0 .. C /\ k + 1 \in 0 .. C /\ k + 1 \in 1 .. C /\ (k + 1) - 1 = k /\ k <= C
    BY <1>2
  <2>2. back[k + 1] = back[k] \cup {p[1] : p \in {q \in pairs : q[2] \in back[k]}}
    BY <1>1, <2>1 DEF Search
  <2>3. n \in back[k] /\ (Closed(back[k]) \/ Cardinality(back[k]) >= k + 1)
    BY <1>4, <2>1
  <2>4. CASE Closed(back[k])
    <3>1. back[k + 1] = back[k]
      BY <2>2, <2>4
    <3> HIDE DEF Closed
    <3> QED
      BY <2>3, <2>4, <3>1
  <2>5. CASE ~Closed(back[k]) /\ Cardinality(back[k]) >= k + 1
    <3>1. back[k] \in SUBSET back[k + 1] /\ back[k] # back[k + 1]
      BY <2>2, <2>5
    <3>2. IsFiniteSet(back[k + 1]) /\ IsFiniteSet(back[k])
      BY <1>1, <1>2, <2>1, FS_Subset
    <3>3. /\ Cardinality(back[k]) <= Cardinality(back[k + 1])
          /\ Cardinality(back[k + 1]) = Cardinality(back[k]) => back[k + 1] = back[k]
      BY <3>1, <3>2, FS_Subset
    <3>4. Cardinality(back[k]) \in Nat /\ Cardinality(back[k + 1]) \in Nat
      BY <3>2, FS_CardinalityType
    <3>5. Cardinality(back[k]) # Cardinality(back[k + 1])
      BY <3>1, <3>3
    <3>6. Cardinality(back[k + 1]) >= (k + 1) + 1
      BY <2>5, <3>3, <3>4, <3>5
    <3> QED
      BY <2>3, <3>1, <3>6
  <2> QED
    BY <2>3, <2>4, <2>5
<1> HIDE DEF S
<1>5. C \in S
  BY <1>2, <1>3, <1>4, NatSet
<1>6. n \in back[C] /\ (Closed(back[C]) \/ Cardinality(back[C]) >= C + 1)
  BY <1>2, <1>5 DEF S
<1>7. CASE Cardinality(back[C]) >= C + 1
  <2>1. back[C] \in SUBSET U
    BY <1>1, <1>2
  <2>2. IsFiniteSet(back[C]) /\ Cardinality(back[C]) <= Cardinality(U)
        /\ (Cardinality(U) = Cardinality(back[C]) => U = back[C])
    BY <1>2, <2>1, FS_Subset
  <2>3. Cardinality(back[C]) \in Nat
    BY <2>2, FS_CardinalityType
  <2>4. back[C] = U
    BY <1>2, <1>7, <2>2, <2>3
  <2> QED
    BY <1>1, <1>6, <2>4 DEF U
<1> QED
  BY <1>1, <1>6, <1>7

\* What is read of a message is numbered within it, and its aliases are finitely many.
LEMMA ReadIsBounded ==
    ASSUME NEW m \in DnsMessages
    PROVE  \E N \in Nat : DOMAIN parseDnsMessage(m) \in SUBSET (1 .. N)
<1>1. m \in Message
  BY DnsAssumption
<1>2. m.items \in Seq(Item)
  BY <1>1 DEF Message
<1>3. Len(m.items) \in Nat /\ DOMAIN m.items = 1 .. Len(m.items)
  BY <1>2
<1>4. DOMAIN parseDnsMessage(m) = ReadItems(m)
  BY DEF parseDnsMessage
<1>5. ReadItems(m) \in SUBSET (1 .. Len(m.items))
  BY <1>3 DEF ReadItems
<1> QED
  BY <1>3, <1>4, <1>5

\* The address of a record that is read is that of a whole record.
LEMMA AddressIsWhole ==
    ASSUME NEW m, NEW r \in Addresses(parseDnsMessage(m))
    PROVE  r.addr # "" /\ HoldsWhole(m, r.addr)
<1> DEFINE read == parseDnsMessage(m)
<1>1. PICK k \in DOMAIN read : r = read[k] /\ ~r.question /\ r.type = "A" /\ r.addr # ""
  BY DEF Addresses
<1>2. DOMAIN read = ReadItems(m)
  BY DEF parseDnsMessage
<1>3. k \in DOMAIN m.items /\ k <= m.claims
  BY <1>1, <1>2 DEF ReadItems
<1>4. /\ r.question = m.items[k].question /\ r.type = m.items[k].type
      /\ r.addr = IF m.items[k].fits = "all" THEN m.items[k].addr ELSE ""
  BY <1>1, <1>2 DEF parseDnsMessage
<1> QED
  BY <1>1, <1>3, <1>4 DEF HoldsWhole

LEMMA OwnersLead ==
    ASSUME NEW read, NEW x
    PROVE  /\ \A i \in Owners(read, x) : <<read[i].name, x>> \in LeadsTo(read)
           /\ \A p \in LeadsTo(read) : p[2] = x => \E i \in Owners(read, x) : p = <<read[i].name, x>>
BY DEF Owners, LeadsTo

LEMMA LeadsToIsFinite ==
    ASSUME NEW N \in Nat, NEW read, DOMAIN read \in SUBSET (1 .. N)
    PROVE  IsFiniteSet(LeadsTo(read))
<1> DEFINE D == {i \in DOMAIN read : ~read[i].question /\ read[i].type = "CNAME"}
           f == [i \in D |-> <<read[i].name, read[i].target>>]
<1>1. IsFiniteSet(1 .. N)
  BY FS_Interval
<1>2. D \in SUBSET (1 .. N)
  OBVIOUS
<1>3. IsFiniteSet(D)
  BY <1>1, <1>2, FS_Subset
<1>4. LeadsTo(read) = {f[i] : i \in D}
  BY DEF LeadsTo
<1> HIDE DEF D, f
<1> QED
  BY <1>3, <1>4, ImageIsFinite

\* A name that an address gets from a message leads to it through the message's aliases.
LEMMA NamesLeadThere ==
    ASSUME NEW N \in Nat, NEW read, DOMAIN read \in SUBSET (1 .. N), NEW name
    PROVE  NamesOf(read, name) \subseteq Reaching(LeadsTo(read), name)
<1> DEFINE pairs == LeadsTo(read)
           R == Reaching(pairs, name)
<1>1. name \in R /\ \A p \in pairs : p[2] \in R => p[1] \in R
  BY LeadsToIsFinite, ReachingIsClosed
<1>2. PICK at : Walk(at, read, name) /\ NamesOf(read, name) = {at[h] : h \in 0 .. MaxHops}
  BY NamesAreAWalk
<1> HIDE DEF R
<1> DEFINE S == {h \in Nat : h <= MaxHops => at[h] \in R}
<1>3. 0 \in S
  BY <1>1, <1>2 DEF Walk
<1>4. ASSUME NEW h \in Nat, h \in S PROVE h + 1 \in S
  <2> SUFFICES ASSUME h + 1 <= MaxHops PROVE at[h + 1] \in R
    OBVIOUS
  <2>1. MaxHops \in Nat
    BY DnsAssumption
  <2>2. h + 1 \in 1 .. MaxHops /\ (h + 1) - 1 = h /\ h <= MaxHops
    BY <2>1
  <2>3. at[h + 1] = IF Owners(read, at[h]) = {} THEN at[h] ELSE AliasOf(read, at[h])
    BY <1>2, <2>2 DEF Walk
  <2>4. at[h] \in R
    BY <1>4, <2>2
  <2>5. CASE Owners(read, at[h]) # {}
    <3>1. PICK i \in Owners(read, at[h]) : AliasOf(read, at[h]) = read[i].name
      BY <2>5, AliasHasRecord
    <3>2. <<read[i].name, at[h]>> \in pairs
      BY OwnersLead
    <3> HIDE DEF pairs
    <3>3. read[i].name \in R
      BY <1>1, <2>4, <3>2
    <3> QED
      BY <2>3, <2>5, <3>1, <3>3
  <2> QED
    BY <2>3, <2>4, <2>5
<1> HIDE DEF S
<1>5. Nat \subseteq S
  BY <1>3, <1>4, NatSet
<1>6. \A h \in 0 .. MaxHops : at[h] \in R
  BY <1>5, DnsAssumption DEF S
<1> QED
  BY <1>2, <1>6 DEF R

\* Where every alias is the only one for its target, and there are no more than hops
\* allowed, the address gets every name that leads to it.
LEMMA NamesAreAll ==
    ASSUME NEW N \in Nat, NEW read, DOMAIN read \in SUBSET (1 .. N), NEW name,
           Unambiguous(LeadsTo(read)), Cardinality(LeadsTo(read)) <= MaxHops
    PROVE  Reaching(LeadsTo(read), name) \subseteq NamesOf(read, name)
<1> DEFINE pairs == LeadsTo(read)
           C == Cardinality(pairs)
<1>1. IsFiniteSet(pairs) /\ C \in Nat /\ MaxHops \in Nat
  BY LeadsToIsFinite, FS_CardinalityType, DnsAssumption
<1>2. PICK back : Search(back, pairs, name) /\ Reaching(pairs, name) = back[C]
  BY <1>1, ReachingIsASearch
<1>3. PICK at : Walk(at, read, name) /\ NamesOf(read, name) = {at[h] : h \in 0 .. MaxHops}
  BY NamesAreAWalk
<1> DEFINE S == {k \in Nat : k <= C => back[k] \subseteq {at[h] : h \in 0 .. k}}
<1>4. 0 \in S
  BY <1>2, <1>3 DEF Walk, Search
<1>5. ASSUME NEW k \in Nat, k \in S PROVE k + 1 \in S
  <2> SUFFICES ASSUME k + 1 <= C, NEW x \in back[k + 1] PROVE \E h \in 0 .. k + 1 : x = at[h]
    BY <1>5
  <2> HIDE DEF C
  <2>1. k + 1 \in 1 .. C /\ (k + 1) - 1 = k /\ k <= C /\ \A h \in 0 .. k : h \in 0 .. k + 1
    BY <1>1
  <2>2. back[k + 1] = back[k] \cup {p[1] : p \in {q \in pairs : q[2] \in back[k]}}
    BY <1>2, <2>1 DEF Search, C
  <2>3. back[k] \subseteq {at[h] : h \in 0 .. k}
    BY <1>5, <2>1 DEF C
  <2>4. CASE x \in back[k]
    BY <2>1, <2>3, <2>4
  <2>5. CASE x \notin back[k]
    <3>1. PICK p \in pairs : p[2] \in back[k] /\ x = p[1]
      BY <2>2, <2>5
    <3>2. PICK h \in 0 .. k : p[2] = at[h]
      BY <2>3, <3>1
    <3>3. PICK i \in Owners(read, at[h]) : p = <<read[i].name, at[h]>>
      BY <3>2, OwnersLead
    <3>4. PICK j \in Owners(read, at[h]) : AliasOf(read, at[h]) = read[j].name
      BY <3>3, AliasHasRecord
    <3>5. <<read[j].name, at[h]>> \in pairs
      BY OwnersLead
    <3>6. <<read[j].name, at[h]>> = p
      BY <3>3, <3>5 DEF Unambiguous
    <3>7. AliasOf(read, at[h]) = x
      BY <3>1, <3>4, <3>6
    <3>8. h + 1 \in 1 .. MaxHops /\ (h + 1) - 1 = h /\ h + 1 \in 0 .. k + 1
      BY <1>1, <2>1 DEF C
    <3>9. at[h + 1] = AliasOf(read, at[h])
      BY <1>3, <3>3, <3>8 DEF Walk
    <3> QED
      BY <3>7, <3>8, <3>9
  <2> QED
    BY <2>4, <2>5
<1> HIDE DEF S
<1>6. C \in S
  BY <1>1, <1>4, <1>5, NatSet
<1>7. \A h \in 0 .. C : h \in 0 .. MaxHops
  BY <1>1
<1> QED
  BY <1>1, <1>2, <1>3, <1>6, <1>7 DEF S

\* The names of an address, at any time, and that every address read has some.
AddressInv ==
    traffic = "dns" => /\ captured \in Seq(DnsMessages) /\ NamesFollowTheChain
                       /\ \A read \in Reads : \A r \in Addresses(read) : r.addr \in DOMAIN names

\* One message teaches its names.
LEMMA NamesLearnt ==
    ASSUME AddressInv, traffic = "dns", NEW m \in DnsMessages, DnsMessage(m)
    PROVE  AddressInv'
<1> DEFINE new == parseDnsMessage(m)
           Gives(read, a) == UNION {Reaching(LeadsTo(read), r.name) : r \in {s \in Addresses(read) : s.addr = a}}
           Learns(a) == UNION {NamesOf(new, r.name) : r \in {s \in Addresses(new) : s.addr = a}}
<1>1. /\ names' = [a \in DOMAIN names \cup {r.addr : r \in Addresses(new)} |-> At(names, a) \cup Learns(a)]
      /\ captured' = Append(captured, m) /\ traffic' = traffic
  BY DEF DnsMessage, Learn, Receive
<1>2. captured \in Seq(DnsMessages) /\ NamesFollowTheChain
      /\ \A read \in Reads : \A r \in Addresses(read) : r.addr \in DOMAIN names
  BY DEF AddressInv
<1>3. captured' \in Seq(DnsMessages) /\ Reads' = Reads \cup {new}
  <2>1. /\ Len(captured) \in Nat /\ DOMAIN captured = 1 .. Len(captured) /\ captured' \in Seq(DnsMessages)
        /\ DOMAIN captured' = 1 .. Len(captured) + 1
        /\ \A i \in 1 .. Len(captured) : captured'[i] = captured[i]
        /\ captured'[Len(captured) + 1] = m
    BY <1>1, <1>2, MessageTaken
  <2>2. \A i : i \in 1 .. Len(captured) + 1 <=> i \in 1 .. Len(captured) \/ i = Len(captured) + 1
    BY <2>1
  <2>3. Reads' = {parseDnsMessage(captured'[i]) : i \in DOMAIN captured'}
    BY DEF Reads
  <2> QED
    BY <2>1, <2>2, <2>3 DEF Reads
<1>4. PICK N \in Nat : DOMAIN new \in SUBSET (1 .. N)
  BY ReadIsBounded
<1> HIDE DEF new
<1>5. ASSUME NEW a \in DOMAIN names'
      PROVE  /\ a # "" /\ \E i \in DOMAIN captured' : HoldsWhole(captured'[i], a)
             /\ names'[a] \subseteq UNION {Gives(read, a) : read \in Reads'}
             /\ \A read \in Reads' : \A r \in Addresses(read) :
                   r.addr = a /\ Unambiguous(LeadsTo(read)) /\ Cardinality(LeadsTo(read)) <= MaxHops
                     => Reaching(LeadsTo(read), r.name) \subseteq names'[a]
  <2>1. names'[a] = At(names, a) \cup Learns(a)
    BY <1>1
  <2>2. Learns(a) \subseteq Gives(new, a)
    <3>1. \A r \in Addresses(new) : NamesOf(new, r.name) \subseteq Reaching(LeadsTo(new), r.name)
      BY <1>4, NamesLeadThere
    <3> QED
      BY <3>1
  <2>3. ASSUME a \in DOMAIN names
        PROVE  /\ a # "" /\ \E i \in DOMAIN captured : HoldsWhole(captured[i], a)
               /\ names[a] \subseteq UNION {Gives(read, a) : read \in Reads}
               /\ \A read \in Reads : \A r \in Addresses(read) :
                     r.addr = a /\ Unambiguous(LeadsTo(read)) /\ Cardinality(LeadsTo(read)) <= MaxHops
                       => Reaching(LeadsTo(read), r.name) \subseteq names[a]
    BY <1>2, <2>3 DEF NamesFollowTheChain
  <2>4. At(names, a) \subseteq UNION {Gives(read, a) : read \in Reads}
    <3> HIDE DEF Gives
    <3> QED
      BY <2>3 DEF At
  <2>5. names'[a] \subseteq UNION {Gives(read, a) : read \in Reads'}
    <3> HIDE DEF Gives, Learns
    <3> QED
      BY <1>3, <2>1, <2>2, <2>4
  <2>6. ASSUME NEW read \in Reads', NEW r \in Addresses(read), r.addr = a,
               Unambiguous(LeadsTo(read)), Cardinality(LeadsTo(read)) <= MaxHops
        PROVE  Reaching(LeadsTo(read), r.name) \subseteq names'[a]
    <3>1. CASE read \in Reads
      <4>1. a \in DOMAIN names
        BY <1>2, <2>6, <3>1
      <4>2. Reaching(LeadsTo(read), r.name) \subseteq names[a]
        BY <2>3, <2>6, <3>1, <4>1
      <4> QED
        BY <2>1, <4>1, <4>2 DEF At
    <3>2. CASE read = new
      <4>1. Reaching(LeadsTo(new), r.name) \subseteq NamesOf(new, r.name)
        BY <1>4, <2>6, <3>2, NamesAreAll
      <4>2. NamesOf(new, r.name) \subseteq Learns(a)
        BY <2>6, <3>2
      <4> QED
        BY <2>1, <3>2, <4>1, <4>2
    <3> QED
      BY <1>3, <2>6, <3>1, <3>2
  <2>7. a # "" /\ \E i \in DOMAIN captured' : HoldsWhole(captured'[i], a)
    <3>1. /\ Len(captured) \in Nat /\ DOMAIN captured = 1 .. Len(captured)
          /\ DOMAIN captured' = 1 .. Len(captured) + 1
          /\ \A i \in 1 .. Len(captured) : captured'[i] = captured[i]
          /\ captured'[Len(captured) + 1] = m
      BY <1>1, <1>2, MessageTaken
    <3>2. CASE a \in DOMAIN names
      <4>1. PICK i \in 1 .. Len(captured) : HoldsWhole(captured[i], a)
        BY <2>3, <3>1, <3>2
      <4>2. i \in DOMAIN captured' /\ captured'[i] = captured[i]
        BY <3>1, <4>1
      <4>3. HoldsWhole(captured'[i], a)
        BY <4>1, <4>2
      <4> QED
        BY <2>3, <3>2, <4>2, <4>3
    <3>3. CASE a \notin DOMAIN names
      <4>1. a \in {r.addr : r \in Addresses(new)}
        BY <1>1, <3>3
      <4>2. a # "" /\ HoldsWhole(m, a)
        BY <4>1, AddressIsWhole DEF new
      <4>3. Len(captured) + 1 \in DOMAIN captured'
        BY <3>1
      <4> QED
        BY <3>1, <4>2, <4>3
    <3> QED
      BY <3>2, <3>3
  <2> QED
    BY <2>5, <2>6, <2>7
<1>6. \A read \in Reads' : \A r \in Addresses(read) : r.addr \in DOMAIN names'
  BY <1>1, <1>2, <1>3
<1>7. NamesFollowTheChain'
  BY <1>5 DEF NamesFollowTheChain
<1> QED
  BY <1>3, <1>6, <1>7 DEF AddressInv

LEMMA AddressInvInductive ==
    /\ Init => AddressInv
    /\ AddressInv /\ [Next]_vars => AddressInv'
<1>1. Init => AddressInv
  <2> SUFFICES ASSUME Init PROVE AddressInv
    OBVIOUS
  <2>1. captured = <<>> /\ names = <<>>
    BY DEF Init, CaptureInit, DnsInit
  <2>2. DOMAIN captured = {} /\ DOMAIN names = {}
    BY <2>1
  <2> QED
    BY <2>1, <2>2, Nothing DEF AddressInv, NamesFollowTheChain, Reads
<1>2. ASSUME AddressInv, [Next]_vars, traffic' = "dns"
      PROVE  AddressInv'
  <2>1. (DnsNext /\ traffic = "dns") \/ UNCHANGED <<traffic, captured, dnsVars>>
    BY <1>2, ByTraffic DEF SessionTraffic
  <2>2. CASE DnsNext /\ traffic = "dns"
    BY <1>2, <2>2, NamesLearnt DEF DnsNext
  <2>3. CASE UNCHANGED <<traffic, captured, dnsVars>>
    <3>1. traffic' = traffic /\ captured' = captured /\ names' = names
      BY <2>3 DEF dnsVars
    <3>2. Reads' = Reads
      BY <3>1 DEF Reads
    <3>3. NamesFollowTheChain => NamesFollowTheChain'
      BY <3>1, <3>2 DEF NamesFollowTheChain
    <3> QED
      BY <1>2, <3>1, <3>2, <3>3 DEF AddressInv
  <2> QED
    BY <2>1, <2>2, <2>3
<1>3. traffic' # "dns" => AddressInv'
  BY DEF AddressInv
<1> QED
  BY <1>1, <1>2, <1>3

\* However aliases loop, fork, break off or run on from message to message, an address that
\* some message holds whole is called by the names that lead to it in one message, and by all
\* of them where each alias is the only one for its target and there are no more than hops
\* allowed (dns.js:122-125, 392-407).
THEOREM AddressesHaveTheirNames == Spec => []NamesFollowTheChain
<1>1. AddressInv => NamesFollowTheChain
  BY DEF AddressInv, NamesFollowTheChain
<1> QED
  BY <1>1, AddressInvInductive, PTL DEF Spec

-----------------------------------------------------------------------------
(* Sessions: the state of a stream *)

\* An argument that is missing is empty.
LEMMA ArgIsText ==
    ASSUME NEW s \in Segment, NEW n \in Nat \ {0}
    PROVE  Arg(s, n) \in Seq(STRING)
<1>1. s.args \in Seq(Seq(STRING))
  BY DEF Segment
<1>2. CASE n <= Len(s.args)
  <2>1. n \in 1 .. Len(s.args)
    BY <1>1, <1>2
  <2> QED
    BY <1>1, <1>2, <2>1 DEF Arg
<1>3. CASE ~(n <= Len(s.args))
  BY <1>3, Nothing DEF Arg
<1> QED
  BY <1>2, <1>3

\* Only the state of a segment's own stream changes.
LEMMA OwnStreamOnly ==
    ASSUME NEW s, s.stream \in SessionStreams, DOMAIN per = SessionStreams,
           \/ SmtpParse(s) \/ PopDissect(s) \/ ImapDissect(s) \/ IrcDissect(s) \/ TelnetDissect(s)
           \/ FtpDissect(s) \/ FtpData(s) \/ HttpDissect(s)
    PROVE  DOMAIN per' = SessionStreams /\ \A x \in SessionStreams \ {s.stream} : per'[x] = per[x]
<1> DEFINE Kept == DOMAIN per' = SessionStreams /\ \A x \in SessionStreams \ {s.stream} : per'[x] = per[x]
<1> SUFFICES Kept
  OBVIOUS
<1>1. ASSUME NEW new, Becomes(s, new) PROVE Kept
  BY <1>1 DEF Becomes, StreamState
<1>2. UNCHANGED per => Kept
  OBVIOUS
<1> HIDE DEF Kept
<1>3. CASE SmtpParse(s)
  <2>1. smtpBody(s) => Kept
    BY <1>1 DEF smtpBody
  <2>2. smtpAuthContinue(s) => Kept
    BY <1>1 DEF smtpAuthContinue
  <2>3. smtpAuthStart(s) => Kept
    BY <1>1, <1>2 DEF smtpAuthStart
  <2>4. smtpCommand(s) => Kept
    BY <1>1, <1>2 DEF smtpCommand
  <2> QED
    BY <1>2, <1>3, <2>1, <2>2, <2>3, <2>4 DEF SmtpParse
<1>4. CASE PopDissect(s) \/ ImapDissect(s) \/ IrcDissect(s) \/ HttpDissect(s)
  BY <1>1, <1>2, <1>4 DEF PopDissect, ImapDissect, IrcDissect, HttpDissect
<1>5. CASE TelnetDissect(s)
  <2>1. s.dir # 1 => \E new : Becomes(s, new)
    BY <1>5 DEF TelnetDissect
  <2>2. s.dir = 1 => per' = per \/ Becomes(s, [per[s.stream] EXCEPT !.prompt = s.verb])
    BY <1>5 DEF TelnetDissect, Becomes
  <2> QED
    BY <1>1, <1>2, <2>1, <2>2
<1>6. CASE FtpDissect(s)
  <2>1. FtpRequest(s) => Kept
    BY <1>1, <1>2 DEF FtpRequest
  <2>2. FtpReply(s) => Kept
    BY <1>2 DEF FtpReply
  <2> QED
    BY <1>6, <2>1, <2>2 DEF FtpDissect
<1>7. CASE FtpData(s)
  BY <1>2, <1>7 DEF FtpData
<1> QED
  BY <1>3, <1>4, <1>5, <1>6, <1>7

\* The streams on which all traffic of a kind has one protocol.
OnlyOf(kind, proto) == {x \in SessionStreams : \A s \in Segments[kind] : s.stream = x => s.proto = proto}

LEMMA OneProtocol ==
    ASSUME NEW kind \in SessionTraffic, NEW s \in Segments[kind]
    PROVE  /\ s \in Segment /\ s.stream \in OnlyOf(kind, s.proto)
           /\ \A proto : s.stream \in OnlyOf(kind, proto) => s.proto = proto
<1>1. s \in Segment /\ \A r \in Segments[kind] : r.stream = s.stream => r.proto = s.proto
  BY SessionsAssumption
<1>2. s.stream \in SessionStreams
  BY <1>1 DEF Segment
<1> QED
  BY ONLY s \in Segments[kind], <1>1, <1>2 DEF OnlyOf

\* The step of a segment of one kind of traffic.
LEMMA SegmentTaken ==
    ASSUME NEW kind \in SessionTraffic, traffic = kind, SessionsNext
    PROVE  \E s \in Segments[kind] :
              /\ \/ SmtpParse(s) \/ PopDissect(s) \/ ImapDissect(s) \/ IrcDissect(s) \/ TelnetDissect(s)
                 \/ FtpDissect(s) \/ FtpData(s) \/ HttpDissect(s)
              /\ captured' = Append(captured, s)
BY DEF SessionsNext, More, Receive

-----------------------------------------------------------------------------
(* FTP: data channels and the files transferred *)

\* The commands by which the client of stream x asked for a file before packet n.
Asked(cap, n, x) == {i \in 1 .. n - 1 : /\ cap[i].stream = x /\ cap[i].dir = 0
                                        /\ cap[i].verb \in {"RETR", "STOR"}}
FileAsked(cap, n, x) == IF Asked(cap, n, x) = {} THEN <<>> ELSE Arg(cap[LastIn(Asked(cap, n, x))], 1)

\* Packet i is the first one before n that announces an endpoint.
AnnouncesAt(cap, i, at) ==
    /\ cap[i].proto = "ftp" /\ cap[i].at = at
    /\ cap[i].verb \in (IF cap[i].dir = 0 THEN {"PORT", "EPRT"} ELSE {"227", "229"})
FirstFor(cap, n, at, i) ==
    /\ i \in 1 .. n - 1 /\ AnnouncesAt(cap, i, at)
    /\ \A j \in 1 .. i - 1 : ~AnnouncesAt(cap, j, at)

Channel == [at : STRING, forStream : SessionStreams]
Transfer == [packet : Nat, forStream : SessionStreams, file : Seq(STRING)]

FtpTypes ==
    /\ captured \in Seq(Segments["ftp"])
    /\ DOMAIN per = SessionStreams
    /\ dataChannels \in Seq(Channel)
    /\ transfers \in Seq(Transfer)

\* A control stream remembers the file it asked for last.
LastFiles ==
    \A x \in OnlyOf("ftp", "ftp") :
        /\ DOMAIN per[x] = DOMAIN NewStream
        /\ per[x].lastFile \in Seq(STRING)
        /\ per[x].lastFile = FileAsked(captured, Len(captured) + 1, x)

\* The first channel to an endpoint is the one its first announcement made.
ChannelInv ==
    /\ \A c \in DOMAIN dataChannels :
          c \in findChannel(dataChannels[c].at) =>
              \E i \in DOMAIN captured : /\ FirstFor(captured, Len(captured) + 1, dataChannels[c].at, i)
                                         /\ captured[i].stream = dataChannels[c].forStream
    /\ \A i \in DOMAIN captured :
          AnnouncesAt(captured, i, captured[i].at) => \E c \in DOMAIN dataChannels : dataChannels[c].at = captured[i].at

TransfersInv ==
    /\ \A n \in DOMAIN transfers :
          LET t == transfers[n]
          IN /\ t.packet \in DOMAIN captured
             /\ \E i \in DOMAIN captured : /\ FirstFor(captured, t.packet, captured[t.packet].at, i)
                                           /\ captured[i].stream = t.forStream
             /\ t.file = FileAsked(captured, t.packet, t.forStream)
    /\ \A i \in DOMAIN captured :
          captured[i].proto = "ftpdata" /\ (\E j \in 1 .. i - 1 : AnnouncesAt(captured, j, captured[i].at))
             => \E n \in DOMAIN transfers : transfers[n].packet = i

FtpInv == traffic = "ftp" => FtpTypes /\ LastFiles /\ ChannelInv /\ TransfersInv

LEMMA LastOfMore ==
    ASSUME NEW N \in Nat, NEW A \in SUBSET (1 .. N)
    PROVE  LastIn(A \cup {N + 1}) = N + 1
<1>1. \A j \in A \cup {N + 1} : j <= N + 1
  OBVIOUS
<1>2. \A i \in A \cup {N + 1} : (\A j \in A \cup {N + 1} : j <= i) => i = N + 1
  OBVIOUS
<1> QED
  BY <1>1, <1>2 DEF LastIn

\* What precedes a packet is not changed by the packets that follow.
LEMMA BeforeStays ==
    ASSUME NEW N \in Nat, NEW cap, NEW new, \A i \in 1 .. N : new[i] = cap[i],
           NEW n \in 1 .. N + 1, NEW x
    PROVE  /\ FileAsked(new, n, x) = FileAsked(cap, n, x)
           /\ \A i : FirstFor(new, n, x, i) <=> FirstFor(cap, n, x, i)
<1>1. \A i \in 1 .. n - 1 : i \in 1 .. N /\ new[i] = cap[i]
  OBVIOUS
<1>2. Asked(new, n, x) = Asked(cap, n, x)
  BY <1>1 DEF Asked
<1>3. ASSUME Asked(cap, n, x) # {}
      PROVE  new[LastIn(Asked(cap, n, x))] = cap[LastIn(Asked(cap, n, x))]
  <2> DEFINE A == Asked(cap, n, x)
  <2>1. A \subseteq 1 .. n - 1 /\ A # {} /\ n - 1 \in Nat
    BY <1>3 DEF Asked
  <2> HIDE DEF A
  <2>2. \E i \in A : \A j \in A : j <= i
    BY <2>1, MaxOfSome
  <2>3. LastIn(A) \in A
    BY <2>2 DEF LastIn
  <2> QED
    BY <1>1, <2>1, <2>3 DEF A
<1>4. FileAsked(new, n, x) = FileAsked(cap, n, x)
  BY <1>2, <1>3 DEF FileAsked
<1>5. ASSUME NEW i PROVE FirstFor(new, n, x, i) <=> FirstFor(cap, n, x, i)
  <2>1. i \in 1 .. n - 1 => \A j \in 1 .. i - 1 : j \in 1 .. n - 1
    OBVIOUS
  <2> QED
    BY <1>1, <2>1 DEF FirstFor, AnnouncesAt
<1> QED
  BY <1>4, <1>5

\* The next packet may ask for a file.
LEMMA AskedNext ==
    ASSUME NEW N \in Nat, NEW cap, NEW x
    PROVE  FileAsked(cap, N + 2, x) =
              IF cap[N + 1].stream = x /\ cap[N + 1].dir = 0 /\ cap[N + 1].verb \in {"RETR", "STOR"}
              THEN Arg(cap[N + 1], 1) ELSE FileAsked(cap, N + 1, x)
<1>1. 1 .. (N + 2) - 1 = (1 .. (N + 1) - 1) \cup {N + 1} /\ (N + 1) - 1 = N
  OBVIOUS
<1>2. CASE cap[N + 1].stream = x /\ cap[N + 1].dir = 0 /\ cap[N + 1].verb \in {"RETR", "STOR"}
  <2>1. Asked(cap, N + 2, x) = Asked(cap, N + 1, x) \cup {N + 1}
    BY <1>1, <1>2 DEF Asked
  <2>2. Asked(cap, N + 1, x) \in SUBSET (1 .. N)
    BY <1>1 DEF Asked
  <2>3. LastIn(Asked(cap, N + 2, x)) = N + 1
    BY <2>1, <2>2, LastOfMore
  <2> QED
    BY <1>2, <2>1, <2>3 DEF FileAsked
<1>3. CASE ~(cap[N + 1].stream = x /\ cap[N + 1].dir = 0 /\ cap[N + 1].verb \in {"RETR", "STOR"})
  <2>1. Asked(cap, N + 2, x) = Asked(cap, N + 1, x)
    BY <1>1, <1>3 DEF Asked
  <2> QED
    BY <1>3, <2>1 DEF FileAsked
<1> QED
  BY <1>2, <1>3

\* Whether a segment announces an endpoint, or is data of one that was announced.
Announcing(s) == s.proto = "ftp" /\ s.verb \in (IF s.dir = 0 THEN {"PORT", "EPRT"} ELSE {"227", "229"})

LEMMA ChannelsAndTransfers ==
    ASSUME NEW s \in Segment,
           \/ SmtpParse(s) \/ PopDissect(s) \/ ImapDissect(s) \/ IrcDissect(s) \/ TelnetDissect(s)
           \/ FtpDissect(s) \/ FtpData(s) \/ HttpDissect(s)
    PROVE  /\ dataChannels' = IF Announcing(s) THEN Append(dataChannels, [at |-> s.at, forStream |-> s.stream])
                              ELSE dataChannels
           /\ IF s.proto = "ftpdata" /\ findChannel(s.at) # {}
              THEN \E c \in findChannel(s.at) :
                      transfers' = Append(transfers, [packet |-> Number, forStream |-> dataChannels[c].forStream,
                                                      file |-> per[dataChannels[c].forStream].lastFile])
              ELSE transfers' = transfers
<1>1. CASE FtpDissect(s)
  <2>1. s.proto = "ftp" /\ transfers' = transfers
    BY <1>1 DEF FtpDissect
  <2>2. CASE s.dir = 0
    <3>1. FtpRequest(s)
      BY <1>1, <2>2 DEF FtpDissect
    <3>2. CASE s.verb \in {"PORT", "EPRT"}
      BY <2>1, <2>2, <3>1, <3>2 DEF FtpRequest, recordChannel, Announcing
    <3>3. CASE s.verb \notin {"PORT", "EPRT"}
      BY <2>1, <2>2, <3>1, <3>3 DEF FtpRequest, Announcing
    <3> QED
      BY <3>2, <3>3
  <2>3. CASE s.dir # 0
    BY <1>1, <2>1, <2>3 DEF FtpDissect, FtpReply, recordChannel, Announcing
  <2> QED
    BY <2>2, <2>3
<1>2. CASE FtpData(s)
  <2>1. s.proto = "ftpdata" /\ ~Announcing(s) /\ dataChannels' = dataChannels
    BY <1>2 DEF FtpData, Announcing
  <2>2. CASE findChannel(s.at) = {}
    BY <1>2, <2>1, <2>2 DEF FtpData
  <2>3. CASE findChannel(s.at) # {}
    <3>1. (CHOOSE i \in findChannel(s.at) : TRUE) \in findChannel(s.at)
      BY <2>3
    <3> QED
      BY <1>2, <2>1, <2>3, <3>1 DEF FtpData
  <2> QED
    BY <2>2, <2>3
<1>3. CASE SmtpParse(s) \/ PopDissect(s) \/ ImapDissect(s) \/ IrcDissect(s) \/ TelnetDissect(s) \/ HttpDissect(s)
  <2>1. s.proto \notin {"ftp", "ftpdata"} /\ UNCHANGED <<dataChannels, transfers>>
    BY <1>3 DEF SmtpParse, PopDissect, ImapDissect, IrcDissect, TelnetDissect, HttpDissect
  <2> QED
    BY <2>1 DEF Announcing
<1> QED
  BY <1>1, <1>2, <1>3

\* What a step makes of the file that a control stream asked for.
LEMMA LastFileStep ==
    ASSUME NEW s \in Segment, DOMAIN per = SessionStreams,
           DOMAIN per[s.stream] = DOMAIN NewStream, per[s.stream].lastFile \in Seq(STRING), FtpDissect(s)
    PROVE  /\ DOMAIN per'[s.stream] = DOMAIN NewStream
           /\ per'[s.stream].lastFile = IF s.dir = 0 /\ s.verb \in {"RETR", "STOR"} THEN Arg(s, 1)
                                        ELSE per[s.stream].lastFile
<1> DEFINE p == per[s.stream]
<1>1. s.stream \in SessionStreams /\ "lastFile" \in DOMAIN p /\ "user" # "lastFile"
  BY DEF Segment, NewStream
<1>2. ASSUME NEW v PROVE /\ DOMAIN [p EXCEPT !.user = v] = DOMAIN NewStream
                         /\ [p EXCEPT !.user = v].lastFile = p.lastFile
  BY <1>1
<1>3. ASSUME NEW v PROVE /\ DOMAIN [p EXCEPT !.lastFile = v] = DOMAIN NewStream
                         /\ [p EXCEPT !.lastFile = v].lastFile = v
  BY <1>1
<1> HIDE DEF p
<1>4. ASSUME NEW new, Becomes(s, new) PROVE per'[s.stream] = new
  BY <1>1, <1>4 DEF Becomes, StreamState
<1>5. CASE s.dir # 0
  <2>1. UNCHANGED per
    BY <1>5 DEF FtpDissect, FtpReply
  <2> QED
    BY <1>5, <2>1
<1>6. CASE s.dir = 0
  <2>1. FtpRequest(s)
    BY <1>6 DEF FtpDissect
  <2>2. CASE s.verb = "USER"
    <3>1. Becomes(s, [p EXCEPT !.user = Arg(s, 1)])
      BY <2>1, <2>2 DEF FtpRequest, p
    <3> QED
      BY <1>2, <1>4, <2>2, <3>1 DEF p
  <2>3. CASE s.verb \in {"RETR", "STOR"}
    <3>1. Becomes(s, [p EXCEPT !.lastFile = Arg(s, 1)])
      BY <2>1, <2>3 DEF FtpRequest, p
    <3> QED
      BY <1>3, <1>4, <1>6, <2>3, <3>1 DEF p
  <2>4. CASE s.verb \notin {"USER", "RETR", "STOR"}
    <3>1. UNCHANGED per
      BY <2>1, <2>4 DEF FtpRequest
    <3> QED
      BY <2>4, <3>1
  <2> QED
    BY <2>2, <2>3, <2>4
<1> QED
  BY <1>5, <1>6

LEMMA LastFilesStep ==
    ASSUME FtpTypes, LastFiles, NEW s \in Segments["ftp"], captured' = Append(captured, s),
           \/ SmtpParse(s) \/ PopDissect(s) \/ ImapDissect(s) \/ IrcDissect(s) \/ TelnetDissect(s)
           \/ FtpDissect(s) \/ FtpData(s) \/ HttpDissect(s)
    PROVE  DOMAIN per' = SessionStreams /\ LastFiles'
<1> DEFINE N == Len(captured)
<1>1. /\ N \in Nat /\ DOMAIN captured = 1 .. N /\ Len(captured') = N + 1
      /\ \A i \in 1 .. N : captured'[i] = captured[i]
      /\ captured'[N + 1] = s
  BY MessageTaken DEF FtpTypes
<1>2. /\ s \in Segment /\ s.stream \in SessionStreams
      /\ \A proto : s.stream \in OnlyOf("ftp", proto) => s.proto = proto
  BY OneProtocol DEF SessionTraffic, Segment
<1>3. DOMAIN per' = SessionStreams /\ \A x \in SessionStreams \ {s.stream} : per'[x] = per[x]
  BY <1>2, OwnStreamOnly DEF FtpTypes
<1> HIDE DEF N
<1>4. ASSUME NEW x
      PROVE  FileAsked(captured', N + 2, x) =
                IF s.stream = x /\ s.dir = 0 /\ s.verb \in {"RETR", "STOR"} THEN Arg(s, 1)
                ELSE FileAsked(captured, N + 1, x)
  <2>1. N + 1 \in 1 .. N + 1
    BY <1>1
  <2>2. FileAsked(captured', N + 1, x) = FileAsked(captured, N + 1, x)
    <3>1. N \in Nat /\ \A i \in 1 .. N : captured'[i] = captured[i]
      BY <1>1
    <3> QED
      BY ONLY <2>1, <3>1, BeforeStays
  <2>3. N \in Nat
    BY <1>1
  <2>4. FileAsked(captured', N + 2, x) =
           IF captured'[N + 1].stream = x /\ captured'[N + 1].dir = 0 /\ captured'[N + 1].verb \in {"RETR", "STOR"}
           THEN Arg(captured'[N + 1], 1) ELSE FileAsked(captured', N + 1, x)
    BY ONLY <2>3, AskedNext
  <2> QED
    BY <1>1, <2>2, <2>4
<1>5. ASSUME NEW x \in OnlyOf("ftp", "ftp")
      PROVE  /\ DOMAIN per'[x] = DOMAIN NewStream
             /\ per'[x].lastFile \in Seq(STRING)
             /\ per'[x].lastFile = FileAsked(captured', N + 2, x)
  <2>1. /\ DOMAIN per[x] = DOMAIN NewStream /\ per[x].lastFile \in Seq(STRING)
        /\ per[x].lastFile = FileAsked(captured, N + 1, x)
        /\ x \in SessionStreams
    BY DEF LastFiles, N, OnlyOf
  <2>2. CASE x # s.stream
    BY <1>3, <1>4, <2>1, <2>2
  <2>3. CASE x = s.stream
    <3>1. FtpDissect(s)
      BY <1>2, <2>3 DEF SmtpParse, PopDissect, ImapDissect, IrcDissect, TelnetDissect, FtpData, HttpDissect
    <3>2. /\ DOMAIN per'[x] = DOMAIN NewStream
          /\ per'[x].lastFile = IF s.dir = 0 /\ s.verb \in {"RETR", "STOR"} THEN Arg(s, 1) ELSE per[x].lastFile
      BY <1>2, <2>1, <2>3, <3>1, LastFileStep DEF FtpTypes
    <3>3. Arg(s, 1) \in Seq(STRING)
      BY <1>2, ArgIsText
    <3> QED
      BY <1>4, <2>1, <2>3, <3>2, <3>3
  <2> QED
    BY <2>2, <2>3
<1>6. Len(captured') + 1 = N + 2
  BY <1>1
<1> QED
  BY <1>3, <1>5, <1>6 DEF LastFiles

LEMMA ChannelStep ==
    ASSUME FtpTypes, ChannelInv, NEW s \in Segments["ftp"], captured' = Append(captured, s),
           \/ SmtpParse(s) \/ PopDissect(s) \/ ImapDissect(s) \/ IrcDissect(s) \/ TelnetDissect(s)
           \/ FtpDissect(s) \/ FtpData(s) \/ HttpDissect(s)
    PROVE  dataChannels' \in Seq(Channel) /\ ChannelInv'
<1> DEFINE N == Len(captured)
           C == Len(dataChannels)
           new == [at |-> s.at, forStream |-> s.stream]
<1>1. /\ N \in Nat /\ DOMAIN captured = 1 .. N /\ Len(captured') = N + 1 /\ DOMAIN captured' = 1 .. N + 1
      /\ \A i \in 1 .. N : captured'[i] = captured[i]
      /\ captured'[N + 1] = s
  BY MessageTaken DEF FtpTypes
<1>2. s \in Segment /\ new \in Channel /\ new.at = s.at /\ new.forStream = s.stream
  BY OneProtocol DEF SessionTraffic, Segment, Channel
<1>3. dataChannels' = IF Announcing(s) THEN Append(dataChannels, new) ELSE dataChannels
  BY <1>2, ChannelsAndTransfers
<1>4. C \in Nat /\ DOMAIN dataChannels = 1 .. C
  BY DEF FtpTypes
<1> HIDE DEF new
<1>5. Announcing(s) => /\ DOMAIN dataChannels' = 1 .. C + 1
                       /\ \A c \in 1 .. C : dataChannels'[c] = dataChannels[c]
                       /\ dataChannels'[C + 1] = new
  BY <1>2, <1>3, Grown DEF FtpTypes
<1>6. dataChannels' \in Seq(Channel)
  BY <1>2, <1>3, Enqueued DEF FtpTypes
<1> HIDE DEF N, C
<1>7. \A at : AnnouncesAt(captured', N + 1, at) <=> Announcing(s) /\ s.at = at
  BY <1>1 DEF AnnouncesAt, Announcing
<1>8. \A i \in 1 .. N : \A at : AnnouncesAt(captured', i, at) <=> AnnouncesAt(captured, i, at)
  BY <1>1 DEF AnnouncesAt
<1>9. ASSUME NEW at, NEW i \in DOMAIN captured, FirstFor(captured, N + 1, at, i)
      PROVE  i \in DOMAIN captured' /\ captured'[i] = captured[i] /\ FirstFor(captured', N + 2, at, i)
  <2>1. i \in 1 .. N /\ i \in 1 .. (N + 2) - 1 /\ \A j \in 1 .. i - 1 : j \in 1 .. N
    BY <1>1
  <2> QED
    BY <1>1, <1>8, <1>9, <2>1 DEF FirstFor
<1>10. ASSUME NEW c \in DOMAIN dataChannels', c \in findChannel(dataChannels[c].at)'
       PROVE  \E i \in DOMAIN captured' : /\ FirstFor(captured', N + 2, dataChannels'[c].at, i)
                                          /\ captured'[i].stream = dataChannels'[c].forStream
  <2>1. CASE c \in 1 .. C
    <3>1. dataChannels'[c] = dataChannels[c] /\ \A j \in 1 .. c - 1 : j \in 1 .. C /\ dataChannels'[j] = dataChannels[j]
      BY <1>3, <1>4, <1>5, <2>1
    <3>2. c \in findChannel(dataChannels[c].at)
      BY <1>4, <1>10, <2>1, <3>1 DEF findChannel
    <3>3. PICK i \in DOMAIN captured : /\ FirstFor(captured, N + 1, dataChannels[c].at, i)
                                       /\ captured[i].stream = dataChannels[c].forStream
      BY <1>4, <2>1, <3>2 DEF ChannelInv, N
    <3> QED
      BY <1>9, <3>1, <3>3
  <2>2. CASE c \notin 1 .. C
    <3>1. Announcing(s) /\ c = C + 1 /\ dataChannels'[c] = new
      BY <1>3, <1>4, <1>5, <2>2
    <3>2. \A j \in 1 .. C : dataChannels[j].at # s.at
      <4>1. \A j \in 1 .. (C + 1) - 1 : dataChannels'[j].at # s.at
        BY <1>2, <1>10, <3>1 DEF findChannel
      <4>2. (C + 1) - 1 = C
        BY <1>4
      <4> QED
        BY <1>5, <3>1, <4>1, <4>2
    <3>3. \A i \in 1 .. N : ~AnnouncesAt(captured, i, s.at)
      <4> SUFFICES ASSUME NEW i \in 1 .. N, AnnouncesAt(captured, i, s.at) PROVE FALSE
        OBVIOUS
      <4>1. captured[i].at = s.at
        BY DEF AnnouncesAt
      <4> QED
        BY <1>1, <1>4, <3>2, <4>1 DEF ChannelInv
    <3>4. FirstFor(captured', N + 2, s.at, N + 1)
      <4>1. N + 1 \in 1 .. (N + 2) - 1 /\ 1 .. (N + 1) - 1 = 1 .. N
        BY <1>1
      <4> QED
        BY <1>7, <1>8, <3>1, <3>3, <4>1 DEF FirstFor
    <3> QED
      BY <1>1, <1>2, <3>1, <3>4
  <2> QED
    BY <2>1, <2>2
<1>11. ASSUME NEW i \in DOMAIN captured', AnnouncesAt(captured', i, captured'[i].at)
       PROVE  \E c \in DOMAIN dataChannels' : dataChannels'[c].at = captured'[i].at
  <2>1. CASE i \in 1 .. N
    <3>1. PICK c \in DOMAIN dataChannels : dataChannels[c].at = captured[i].at
      BY <1>1, <1>8, <1>11, <2>1 DEF ChannelInv
    <3> QED
      BY <1>1, <1>3, <1>4, <1>5, <2>1, <3>1
  <2>2. CASE i = N + 1
    <3>1. C + 1 \in 1 .. C + 1
      BY <1>4
    <3> QED
      BY <1>1, <1>2, <1>5, <1>7, <1>11, <2>2, <3>1
  <2> QED
    BY <1>1, <2>1, <2>2
<1>12. Len(captured') + 1 = N + 2
  BY <1>1
<1> QED
  BY <1>6, <1>10, <1>11, <1>12 DEF ChannelInv

LEMMA TransferStep ==
    ASSUME FtpTypes, LastFiles, ChannelInv, TransfersInv,
           NEW s \in Segments["ftp"], captured' = Append(captured, s),
           \/ SmtpParse(s) \/ PopDissect(s) \/ ImapDissect(s) \/ IrcDissect(s) \/ TelnetDissect(s)
           \/ FtpDissect(s) \/ FtpData(s) \/ HttpDissect(s)
    PROVE  transfers' \in Seq(Transfer) /\ TransfersInv'
<1> DEFINE N == Len(captured)
           T == Len(transfers)
           Shown == s.proto = "ftpdata" /\ findChannel(s.at) # {}
<1>1. /\ N \in Nat /\ DOMAIN captured = 1 .. N /\ DOMAIN captured' = 1 .. N + 1
      /\ \A i \in 1 .. N : captured'[i] = captured[i]
      /\ captured'[N + 1] = s /\ Number = N + 1
  BY MessageTaken DEF FtpTypes, Number
<1>2. s \in Segment
  BY OneProtocol DEF SessionTraffic
<1>3. T \in Nat /\ DOMAIN transfers = 1 .. T /\ transfers \in Seq(Transfer)
  BY DEF FtpTypes
<1>4. ASSUME NEW n \in 1 .. N + 1, NEW x
      PROVE  /\ FileAsked(captured', n, x) = FileAsked(captured, n, x)
             /\ \A i : FirstFor(captured', n, x, i) <=> FirstFor(captured, n, x, i)
  <2>1. N \in Nat /\ \A i \in 1 .. N : captured'[i] = captured[i]
    BY <1>1
  <2> HIDE DEF N
  <2> QED
    BY ONLY <2>1, n \in 1 .. N + 1, BeforeStays
<1> HIDE DEF N
<1>5. ASSUME NEW c \in findChannel(s.at)
      PROVE  /\ dataChannels[c].forStream \in SessionStreams
             /\ \E i \in 1 .. N : /\ FirstFor(captured, N + 1, s.at, i)
                                  /\ captured[i].stream = dataChannels[c].forStream
             /\ per[dataChannels[c].forStream].lastFile = FileAsked(captured, N + 1, dataChannels[c].forStream)
             /\ per[dataChannels[c].forStream].lastFile \in Seq(STRING)
  <2>1. c \in DOMAIN dataChannels /\ dataChannels[c].at = s.at
    BY DEF findChannel
  <2>2. PICK i \in 1 .. N : /\ FirstFor(captured, N + 1, s.at, i)
                            /\ captured[i].stream = dataChannels[c].forStream
    BY <1>1, <1>5, <2>1 DEF ChannelInv, N
  <2>3. captured[i] \in Segments["ftp"] /\ captured[i].proto = "ftp"
    BY <1>1, <2>2 DEF FirstFor, AnnouncesAt, FtpTypes
  <2>4. dataChannels[c].forStream \in OnlyOf("ftp", "ftp")
    BY <2>2, <2>3, OneProtocol DEF SessionTraffic
  <2>5. dataChannels[c].forStream \in SessionStreams
    BY <2>4 DEF OnlyOf
  <2> QED
    BY <2>2, <2>4, <2>5 DEF LastFiles, N
<1>6. ASSUME Shown
      PROVE  \E t \in Transfer :
                /\ transfers' = Append(transfers, t)
                /\ t.packet = N + 1
                /\ \E i \in 1 .. N : FirstFor(captured, N + 1, s.at, i) /\ captured[i].stream = t.forStream
                /\ t.file = FileAsked(captured, N + 1, t.forStream)
  <2>1. PICK c \in findChannel(s.at) :
           transfers' = Append(transfers, [packet |-> Number, forStream |-> dataChannels[c].forStream,
                                           file |-> per[dataChannels[c].forStream].lastFile])
    BY <1>2, <1>6, ChannelsAndTransfers
  <2> DEFINE t == [packet |-> Number, forStream |-> dataChannels[c].forStream,
                   file |-> per[dataChannels[c].forStream].lastFile]
  <2>2. t \in Transfer
    BY <1>1, <1>5 DEF Transfer
  <2> QED
    BY <1>1, <1>5, <2>1, <2>2
<1>7. ~Shown => transfers' = transfers
  BY <1>2, ChannelsAndTransfers
<1> HIDE DEF Shown, T
<1>8. ASSUME NEW t \in Transfer, t.packet = N + 1, NEW i \in 1 .. N,
             FirstFor(captured, N + 1, s.at, i), captured[i].stream = t.forStream,
             t.file = FileAsked(captured, N + 1, t.forStream)
      PROVE  /\ t.packet \in DOMAIN captured'
             /\ \E j \in DOMAIN captured' : /\ FirstFor(captured', t.packet, captured'[t.packet].at, j)
                                            /\ captured'[j].stream = t.forStream
             /\ t.file = FileAsked(captured', t.packet, t.forStream)
  <2>1. N + 1 \in 1 .. N + 1 /\ i \in 1 .. N + 1
    BY <1>1
  <2>2. FirstFor(captured', N + 1, s.at, i) /\ FileAsked(captured', N + 1, t.forStream) = FileAsked(captured, N + 1, t.forStream)
    BY <1>4, <1>8, <2>1
  <2>3. captured'[t.packet] = s /\ captured'[i].stream = t.forStream
    BY <1>1, <1>8
  <2> QED
    BY <1>1, <1>8, <2>1, <2>2, <2>3
<1>9. ASSUME NEW n \in 1 .. T
      PROVE  /\ transfers[n].packet \in DOMAIN captured'
             /\ \E j \in DOMAIN captured' : /\ FirstFor(captured', transfers[n].packet, captured'[transfers[n].packet].at, j)
                                            /\ captured'[j].stream = transfers[n].forStream
             /\ transfers[n].file = FileAsked(captured', transfers[n].packet, transfers[n].forStream)
  <2> DEFINE t == transfers[n]
  <2>1. /\ t.packet \in 1 .. N
        /\ \E i \in DOMAIN captured : FirstFor(captured, t.packet, captured[t.packet].at, i) /\ captured[i].stream = t.forStream
        /\ t.file = FileAsked(captured, t.packet, t.forStream)
    BY <1>1, <1>3 DEF TransfersInv
  <2> HIDE DEF t
  <2>2. PICK i \in 1 .. N : FirstFor(captured, t.packet, captured[t.packet].at, i) /\ captured[i].stream = t.forStream
    BY <1>1, <2>1
  <2>3. t.packet \in 1 .. N + 1 /\ i \in 1 .. N + 1 /\ captured'[t.packet] = captured[t.packet] /\ captured'[i] = captured[i]
    BY <1>1, <2>1
  <2>4. /\ t.packet \in DOMAIN captured'
        /\ \E j \in DOMAIN captured' : FirstFor(captured', t.packet, captured'[t.packet].at, j) /\ captured'[j].stream = t.forStream
        /\ t.file = FileAsked(captured', t.packet, t.forStream)
    BY <1>1, <1>4, <2>1, <2>2, <2>3
  <2> QED
    BY <2>4 DEF t
<1>10. ASSUME NEW i \in 1 .. N, captured[i].proto = "ftpdata",
              NEW j \in 1 .. i - 1, AnnouncesAt(captured', j, captured'[i].at)
       PROVE  \E n \in 1 .. T : transfers[n].packet = i
  <2>1. AnnouncesAt(captured, j, captured[i].at)
    BY <1>1, <1>10 DEF AnnouncesAt
  <2> QED
    BY <1>1, <1>3, <1>10, <2>1 DEF TransfersInv
<1>11. ASSUME s.proto = "ftpdata", NEW j \in 1 .. N, AnnouncesAt(captured', j, s.at)
       PROVE  Shown
  <2>1. AnnouncesAt(captured, j, captured[j].at) /\ captured[j].at = s.at
    BY <1>1, <1>11 DEF AnnouncesAt
  <2> DEFINE A == {c \in DOMAIN dataChannels : dataChannels[c].at = s.at}
  <2>2. A # {}
    BY <1>1, <2>1 DEF ChannelInv
  <2>3. Len(dataChannels) \in Nat /\ DOMAIN dataChannels = 1 .. Len(dataChannels) /\ A \in SUBSET (1 .. Len(dataChannels))
    BY DEF FtpTypes
  <2>4. PICK c \in A : \A d \in A : c <= d
    <3> HIDE DEF A
    <3> QED
      BY <2>2, <2>3, MinOfSome
  <2>5. \A d \in 1 .. c - 1 : d \in DOMAIN dataChannels /\ ~(c <= d)
    BY <2>3
  <2>6. c \in findChannel(s.at)
    BY <2>4, <2>5 DEF findChannel
  <2> QED
    BY <1>11, <2>6 DEF Shown
<1>12. CASE ~Shown
  <2>1. transfers' = transfers
    BY <1>7, <1>12
  <2>2. ASSUME NEW i \in DOMAIN captured', captured'[i].proto = "ftpdata",
               NEW j \in 1 .. i - 1, AnnouncesAt(captured', j, captured'[i].at)
        PROVE  \E n \in DOMAIN transfers' : transfers'[n].packet = i
    <3>1. i # N + 1
      <4> SUFFICES ASSUME i = N + 1 PROVE FALSE
        OBVIOUS
      <4>1. j \in 1 .. N
        BY <1>1
      <4> QED
        BY <1>1, <1>11, <1>12, <2>2, <4>1
    <3>2. i \in 1 .. N /\ captured[i].proto = "ftpdata"
      BY <1>1, <2>2, <3>1
    <3> QED
      BY <1>3, <1>10, <2>1, <2>2, <3>2
  <2> QED
    BY <1>3, <1>9, <2>1, <2>2 DEF TransfersInv
<1>13. CASE Shown
  <2>1. PICK t \in Transfer :
           /\ transfers' = Append(transfers, t)
           /\ t.packet = N + 1
           /\ \E i \in 1 .. N : FirstFor(captured, N + 1, s.at, i) /\ captured[i].stream = t.forStream
           /\ t.file = FileAsked(captured, N + 1, t.forStream)
    BY <1>6, <1>13
  <2>2. /\ transfers' \in Seq(Transfer) /\ DOMAIN transfers' = 1 .. T + 1
        /\ \A n \in 1 .. T : transfers'[n] = transfers[n]
        /\ transfers'[T + 1] = t
    BY <1>3, <2>1, Grown, Enqueued DEF T
  <2>3. ASSUME NEW n \in DOMAIN transfers'
        PROVE  /\ transfers'[n].packet \in DOMAIN captured'
               /\ \E j \in DOMAIN captured' : /\ FirstFor(captured', transfers'[n].packet, captured'[transfers'[n].packet].at, j)
                                              /\ captured'[j].stream = transfers'[n].forStream
               /\ transfers'[n].file = FileAsked(captured', transfers'[n].packet, transfers'[n].forStream)
    <3>1. CASE n \in 1 .. T
      BY <1>9, <2>2, <3>1
    <3>2. CASE n = T + 1
      <4>1. transfers'[n] = t
        BY <2>2, <3>2
      <4> QED
        BY <1>8, <2>1, <4>1
    <3> QED
      BY <1>3, <2>2, <3>1, <3>2
  <2>4. ASSUME NEW i \in DOMAIN captured', captured'[i].proto = "ftpdata",
               NEW j \in 1 .. i - 1, AnnouncesAt(captured', j, captured'[i].at)
        PROVE  \E n \in DOMAIN transfers' : transfers'[n].packet = i
    <3>1. CASE i = N + 1
      <4>1. T + 1 \in DOMAIN transfers'
        BY <1>3, <2>2
      <4> QED
        BY <2>1, <2>2, <3>1, <4>1
    <3>2. CASE i \in 1 .. N
      <4>1. PICK n \in 1 .. T : transfers[n].packet = i
        BY <1>1, <1>10, <2>4, <3>2
      <4>2. transfers'[n] = transfers[n]
        BY <2>2, <4>1
      <4>3. n \in 1 .. T + 1
        BY <1>3, <4>1
      <4> QED
        BY <2>2, <4>1, <4>2, <4>3
    <3> QED
      BY <1>1, <3>1, <3>2
  <2> QED
    BY <2>2, <2>3, <2>4 DEF TransfersInv
<1> QED
  BY <1>3, <1>7, <1>12, <1>13 DEF TransfersInv

LEMMA FtpInvInductive ==
    /\ Init => FtpInv
    /\ FtpInv /\ [Next]_vars => FtpInv'
<1>1. Init => FtpInv
  <2> SUFFICES ASSUME Init PROVE FtpTypes /\ LastFiles /\ ChannelInv /\ TransfersInv
    BY DEF FtpInv
  <2>1. captured = <<>> /\ dataChannels = <<>> /\ transfers = <<>> /\ per = [s \in SessionStreams |-> NewStream]
    BY DEF Init, CaptureInit, SessionsInit
  <2>2. FtpTypes
    BY <2>1, Nothing DEF FtpTypes
  <2>3. DOMAIN captured = {} /\ DOMAIN dataChannels = {} /\ DOMAIN transfers = {} /\ Len(captured) = 0
    BY <2>1
  <2>4. LastFiles
    <3>1. \A x \in SessionStreams : per[x] = NewStream
      BY <2>1
    <3>2. NewStream.lastFile = <<>> /\ <<>> \in Seq(STRING)
      BY Nothing DEF NewStream
    <3>3. \A x : Asked(captured, 1, x) = {}
      BY DEF Asked
    <3>4. Len(captured) + 1 = 1
      BY <2>3
    <3>5. \A x : FileAsked(captured, Len(captured) + 1, x) = <<>>
      BY <3>3, <3>4 DEF FileAsked
    <3>6. OnlyOf("ftp", "ftp") \subseteq SessionStreams
      BY DEF OnlyOf
    <3> QED
      BY <3>1, <3>2, <3>5, <3>6 DEF LastFiles
  <2> QED
    BY <2>2, <2>3, <2>4 DEF ChannelInv, TransfersInv
<1>2. ASSUME FtpInv, [Next]_vars, traffic' = "ftp"
      PROVE  (FtpTypes /\ LastFiles /\ ChannelInv /\ TransfersInv)'
  <2>1. (SessionsNext /\ traffic = "ftp") \/ UNCHANGED <<traffic, captured, sessionVars>>
    BY <1>2, ByTraffic
  <2>2. CASE SessionsNext /\ traffic = "ftp"
    <3>1. FtpTypes /\ LastFiles /\ ChannelInv /\ TransfersInv
      BY <1>2, <2>2 DEF FtpInv
    <3>2. PICK s \in Segments["ftp"] :
             /\ \/ SmtpParse(s) \/ PopDissect(s) \/ ImapDissect(s) \/ IrcDissect(s) \/ TelnetDissect(s)
                \/ FtpDissect(s) \/ FtpData(s) \/ HttpDissect(s)
             /\ captured' = Append(captured, s)
      BY <2>2, SegmentTaken DEF SessionTraffic
    <3>3. captured' \in Seq(Segments["ftp"])
      BY <3>1, <3>2, Enqueued DEF FtpTypes
    <3>4. DOMAIN per' = SessionStreams /\ LastFiles'
      BY <3>1, <3>2, LastFilesStep
    <3>5. dataChannels' \in Seq(Channel) /\ ChannelInv'
      BY <3>1, <3>2, ChannelStep
    <3>6. transfers' \in Seq(Transfer) /\ TransfersInv'
      BY <3>1, <3>2, TransferStep
    <3> QED
      BY <3>3, <3>4, <3>5, <3>6 DEF FtpTypes
  <2>3. CASE UNCHANGED <<traffic, captured, sessionVars>>
    <3>1. FtpTypes /\ LastFiles /\ ChannelInv /\ TransfersInv
      BY <1>2, <2>3 DEF FtpInv
    <3>2. UNCHANGED <<captured, per, dataChannels, transfers>>
      BY <2>3 DEF sessionVars
    <3> QED
      BY <3>1, <3>2 DEF FtpTypes, LastFiles, ChannelInv, TransfersInv, findChannel
  <2> QED
    BY <2>1, <2>2, <2>3
<1> QED
  BY <1>1, <1>2 DEF FtpInv

LEMMA FtpInvSuffices == FtpInv => TransferOfItsSession
<1> SUFFICES ASSUME FtpTypes, TransfersInv
             PROVE  /\ \A n \in DOMAIN transfers :
                          LET t == transfers[n]
                              announced == {i \in 1 .. t.packet - 1 : Announces(i, captured[t.packet].at)}
                              first == CHOOSE i \in announced : \A j \in announced : i <= j
                          IN /\ announced # {} /\ t.forStream = captured[first].stream
                             /\ t.file = LastArg({i \in Before(t.packet, t.forStream) : captured[i].verb \in {"RETR", "STOR"}})
                    /\ \A i \in DOMAIN captured :
                          captured[i].proto = "ftpdata" /\ (\E j \in 1 .. i - 1 : Announces(j, captured[i].at))
                            => \E n \in DOMAIN transfers : transfers[n].packet = i
  BY DEF FtpInv, TransferOfItsSession
<1>1. \A i, at : Announces(i, at) <=> AnnouncesAt(captured, i, at)
  BY DEF Announces, AnnouncesAt
<1>2. ASSUME NEW n \in Nat, NEW at, NEW i \in Nat, FirstFor(captured, n, at, i)
      PROVE  LET announced == {j \in 1 .. n - 1 : Announces(j, at)}
             IN announced # {} /\ (CHOOSE j \in announced : \A k \in announced : j <= k) = i
  <2> DEFINE announced == {j \in 1 .. n - 1 : Announces(j, at)}
  <2>1. i \in announced
    BY <1>1, <1>2 DEF FirstFor
  <2>2. ASSUME NEW k \in announced PROVE i <= k
    <3>1. k \in 1 .. n - 1 /\ AnnouncesAt(captured, k, at)
      BY <1>1
    <3>2. k \notin 1 .. i - 1
      BY <1>2, <3>1 DEF FirstFor
    <3> QED
      BY <3>1, <3>2
  <2>3. announced \subseteq Nat
    OBVIOUS
  <2> HIDE DEF announced
  <2>4. ASSUME NEW j \in announced, \A k \in announced : j <= k PROVE j = i
    BY <2>1, <2>2, <2>3, <2>4
  <2>5. (CHOOSE j \in announced : \A k \in announced : j <= k) = i
    BY <2>1, <2>2, <2>4
  <2> QED
    BY <2>1, <2>5 DEF announced
<1>3. ASSUME NEW n, NEW x
      PROVE  FileAsked(captured, n, x) = LastArg({i \in Before(n, x) : captured[i].verb \in {"RETR", "STOR"}})
  <2>1. Asked(captured, n, x) = {i \in Before(n, x) : captured[i].verb \in {"RETR", "STOR"}}
    BY DEF Asked, Before
  <2> QED
    BY <2>1 DEF FileAsked, LastArg
<1>4. ASSUME NEW n \in DOMAIN transfers
      PROVE  LET t == transfers[n]
                 announced == {i \in 1 .. t.packet - 1 : Announces(i, captured[t.packet].at)}
                 first == CHOOSE i \in announced : \A j \in announced : i <= j
             IN /\ announced # {} /\ t.forStream = captured[first].stream
                /\ t.file = LastArg({i \in Before(t.packet, t.forStream) : captured[i].verb \in {"RETR", "STOR"}})
  <2>1. PICK i \in DOMAIN captured : /\ FirstFor(captured, transfers[n].packet, captured[transfers[n].packet].at, i)
                                     /\ captured[i].stream = transfers[n].forStream
    BY DEF TransfersInv
  <2>2. transfers[n].packet \in Nat /\ i \in Nat
    BY DEF TransfersInv, FtpTypes
  <2>3. transfers[n].file = FileAsked(captured, transfers[n].packet, transfers[n].forStream)
    BY DEF TransfersInv
  <2> QED
    BY <1>2, <1>3, <2>1, <2>2, <2>3
<1>5. ASSUME NEW i \in DOMAIN captured, captured[i].proto = "ftpdata",
             NEW j \in 1 .. i - 1, Announces(j, captured[i].at)
      PROVE  \E n \in DOMAIN transfers : transfers[n].packet = i
  BY <1>1, <1>5 DEF TransfersInv
<1> QED
  BY <1>4, <1>5

\* Every data segment of an announced endpoint is shown as a transfer of the session that
\* announced it first, under the file that session asked for last, however the sessions,
\* their commands and their transfers interleave (ftp.js:78-85, 104-117, 134-158).
THEOREM TransfersFindTheirSession == Spec => []TransferOfItsSession
<1> QED
  BY FtpInvInductive, FtpInvSuffices, PTL DEF Spec

-----------------------------------------------------------------------------
(* HostNames: leases, servers and names *)

LastHostOf(cap, mac, n) ==
    LET said == {i \in 1 .. n : HostIn(cap[i]) # "" /\ cap[i].mac = mac}
    IN IF said = {} THEN None ELSE HostIn(cap[CHOOSE i \in said : \A j \in said : j <= i])

SpeaksAs(m) == m.proto = "dhcp" /\ ServerSpeaks(m, AllOptions(m))
SpokenIn(cap, n) == {Server(cap[i], AllOptions(cap[i])) : i \in {j \in 1 .. n : SpeaksAs(cap[j])}} \ {"", "0.0.0.0"}

\* The host names and the servers are those of the messages so far.
LeasesInv ==
    /\ \E S : leases \in Seq(S)
    /\ \A mac : LastHostOf(captured, mac, Len(captured)) = IF mac \in DOMAIN hostnames THEN hostnames[mac] ELSE None
    /\ \A i \in DOMAIN leases : /\ leases[i].packet \in DOMAIN captured
                                /\ leases[i].hostname = LastHostOf(captured, leases[i].mac, leases[i].packet)

ServersInv ==
    /\ servers = SpokenIn(captured, Len(captured))
    /\ rogue \subseteq DOMAIN captured
    /\ \A n \in DOMAIN captured : n \in rogue <=> SpeaksAs(captured[n]) /\ \E s, t \in SpokenIn(captured, n) : s # t

\* A name of an address, and an address of a name, was said in one message, and what name
\* records told is known.
NetbiosInv ==
    /\ \A ip \in DOMAIN netbios : \A p \in netbios[ip] : \E i \in DOMAIN captured : Said(captured[i], ip, p[1])
    /\ \A name \in DOMAIN byName : \A ip \in byName[name] : ip \in DOMAIN netbios /\ \E p \in netbios[ip] : p[1] = name
    /\ \A i \in DOMAIN captured : captured[i].proto = "nbns" => \A f \in Told(captured[i]) : Knows(f)

HostsInv == traffic = "hosts" => captured \in Seq(Announcements) /\ LeasesInv /\ ServersInv /\ NetbiosInv

\* The last host name among the first n messages is not changed by the messages that follow.
LEMMA LastHostStays ==
    ASSUME NEW n \in Nat, NEW cap, NEW new, \A i \in 1 .. n : new[i] = cap[i], NEW mac
    PROVE  LastHostOf(new, mac, n) = LastHostOf(cap, mac, n)
<1> DEFINE Says(m) == HostIn(m) # "" /\ m.mac = mac
           SaidIn(c) == {i \in 1 .. n : Says(c[i])}
           Newest(A) == CHOOSE i \in A : \A j \in A : j <= i
<1>1. \A c : LastHostOf(c, mac, n) = IF SaidIn(c) = {} THEN None ELSE HostIn(c[Newest(SaidIn(c))])
  BY DEF LastHostOf
<1> HIDE DEF Says
<1>2. SaidIn(new) = SaidIn(cap) /\ SaidIn(cap) \in SUBSET (1 .. n)
  OBVIOUS
<1> HIDE DEF SaidIn
<1>3. CASE SaidIn(cap) = {}
  BY <1>1, <1>2, <1>3
<1>4. CASE SaidIn(cap) # {}
  <2>1. \E i \in SaidIn(cap) : \A j \in SaidIn(cap) : j <= i
    BY ONLY n \in Nat, <1>2, <1>4, MaxOfSome
  <2>2. Newest(SaidIn(cap)) \in SaidIn(cap)
    BY ONLY <2>1
  <2> HIDE DEF Newest
  <2>3. new[Newest(SaidIn(cap))] = cap[Newest(SaidIn(cap))]
    BY <1>2, <2>2
  <2> QED
    BY <1>1, <1>2, <2>3
<1> QED
  BY <1>3, <1>4

\* The next message may tell another name.
LEMMA LastHostNext ==
    ASSUME NEW N \in Nat, NEW cap, NEW mac
    PROVE  LastHostOf(cap, mac, N + 1) = IF HostIn(cap[N + 1]) # "" /\ cap[N + 1].mac = mac THEN HostIn(cap[N + 1])
                                         ELSE LastHostOf(cap, mac, N)
<1> DEFINE Says(m) == HostIn(m) # "" /\ m.mac = mac
           SaidIn(n) == {i \in 1 .. n : Says(cap[i])}
           Newest(A) == CHOOSE i \in A : \A j \in A : j <= i
<1>1. \A n : LastHostOf(cap, mac, n) = IF SaidIn(n) = {} THEN None ELSE HostIn(cap[Newest(SaidIn(n))])
  BY DEF LastHostOf
<1> HIDE DEF Says
<1>2. CASE Says(cap[N + 1])
  <2>1. N + 1 \in SaidIn(N + 1)
    BY <1>2
  <2>2. SaidIn(N + 1) \subseteq 1 .. N + 1
    OBVIOUS
  <2> HIDE DEF SaidIn
  <2>3. \A i \in SaidIn(N + 1) : i \in Nat /\ i <= N + 1
    BY <2>2
  <2>4. \A i \in SaidIn(N + 1) : (\A j \in SaidIn(N + 1) : j <= i) => i = N + 1
    BY ONLY <2>1, <2>3, N \in Nat
  <2>5. Newest(SaidIn(N + 1)) = N + 1
    BY ONLY <2>1, <2>3, <2>4
  <2> HIDE DEF Newest
  <2>6. LastHostOf(cap, mac, N + 1) = HostIn(cap[N + 1])
    BY <1>1, <2>1, <2>5
  <2> QED
    BY <1>2, <2>6 DEF Says
<1>3. CASE ~Says(cap[N + 1])
  <2>1. 1 .. N + 1 = (1 .. N) \cup {N + 1}
    OBVIOUS
  <2>2. SaidIn(N + 1) = SaidIn(N)
    BY <1>3, <2>1
  <2>3. LastHostOf(cap, mac, N + 1) = LastHostOf(cap, mac, N)
    <3> HIDE DEF SaidIn, Newest
    <3> QED
      BY <1>1, <2>2
  <2> QED
    BY <1>3, <2>3 DEF Says
<1> QED
  BY <1>2, <1>3

\* The servers among the messages up to n, one message further.
LEMMA SpokenNext ==
    ASSUME NEW N \in Nat, NEW cap, NEW new, \A i \in 1 .. N : new[i] = cap[i]
    PROVE  /\ \A n \in 0 .. N : SpokenIn(new, n) = SpokenIn(cap, n)
           /\ SpokenIn(new, N + 1) =
                 SpokenIn(cap, N) \cup (IF SpeaksAs(new[N + 1]) THEN {Server(new[N + 1], AllOptions(new[N + 1]))} \ {"", "0.0.0.0"}
                                        ELSE {})
<1>1. ASSUME NEW n \in 0 .. N PROVE SpokenIn(new, n) = SpokenIn(cap, n)
  <2>1. \A i \in 1 .. n : new[i] = cap[i]
    OBVIOUS
  <2> QED
    BY <2>1 DEF SpokenIn
<1>2. 1 .. N + 1 = (1 .. N) \cup {N + 1} /\ N \in 0 .. N
  OBVIOUS
<1>3. SpokenIn(new, N + 1) =
         SpokenIn(new, N) \cup (IF SpeaksAs(new[N + 1]) THEN {Server(new[N + 1], AllOptions(new[N + 1]))} \ {"", "0.0.0.0"}
                                ELSE {})
  BY <1>2 DEF SpokenIn
<1> QED
  BY <1>1, <1>2, <1>3

\* What a message does: tell the name of one host, give it a lease under the name it has
\* by then, make one more server known and be marked if two are known by then.
TellsHost(m) == hostnames' = IF HostIn(m) # "" THEN Put(hostnames, m.mac, HostIn(m)) ELSE hostnames
GrantsLease == \/ leases' = leases
               \/ \E l : /\ leases' = Append(leases, l) /\ l.packet = Number
                         /\ l.hostname = IF l.mac \in DOMAIN hostnames' THEN hostnames'[l.mac] ELSE None
ShowsServer(m) ==
    /\ servers' = servers \cup (IF SpeaksAs(m) THEN {Server(m, AllOptions(m))} \ {"", "0.0.0.0"} ELSE {})
    /\ rogue' = IF SpeaksAs(m) /\ (\E s, t \in servers' : s # t) THEN rogue \cup {Number} ELSE rogue

LEMMA LeasesStep ==
    ASSUME captured \in Seq(Announcements), LeasesInv, NEW m \in Announcements, captured' = Append(captured, m),
           TellsHost(m), GrantsLease
    PROVE  LeasesInv'
<1> DEFINE N == Len(captured)
<1>1. /\ N \in Nat /\ DOMAIN captured = 1 .. N /\ Len(captured') = N + 1 /\ DOMAIN captured' = 1 .. N + 1
      /\ \A i \in 1 .. N : captured'[i] = captured[i]
      /\ captured'[N + 1] = m /\ Number = N + 1
  BY MessageTaken DEF Number
<1>2. /\ \E S : leases \in Seq(S)
      /\ \A mac : LastHostOf(captured, mac, N) = IF mac \in DOMAIN hostnames THEN hostnames[mac] ELSE None
      /\ \A i \in DOMAIN leases : /\ leases[i].packet \in 1 .. N
                                  /\ leases[i].hostname = LastHostOf(captured, leases[i].mac, leases[i].packet)
  BY <1>1 DEF LeasesInv
<1> HIDE DEF N
<1>3. ASSUME NEW mac
      PROVE  /\ \A n \in 0 .. N : LastHostOf(captured', mac, n) = LastHostOf(captured, mac, n)
             /\ LastHostOf(captured', mac, N + 1) = IF HostIn(m) # "" /\ m.mac = mac THEN HostIn(m)
                                                    ELSE LastHostOf(captured, mac, N)
  <2>1. ASSUME NEW n \in 0 .. N PROVE LastHostOf(captured', mac, n) = LastHostOf(captured, mac, n)
    <3>1. n \in Nat /\ \A i \in 1 .. n : captured'[i] = captured[i]
      BY <1>1
    <3> QED
      BY ONLY <3>1, LastHostStays
  <2>2. LastHostOf(captured', mac, N + 1) =
           IF HostIn(captured'[N + 1]) # "" /\ captured'[N + 1].mac = mac THEN HostIn(captured'[N + 1])
           ELSE LastHostOf(captured', mac, N)
    <3>1. N \in Nat
      BY <1>1
    <3> QED
      BY ONLY <3>1, LastHostNext
  <2>3. N \in 0 .. N
    BY <1>1
  <2> QED
    BY <1>1, <2>1, <2>2, <2>3
<1>4. ASSUME NEW mac
      PROVE  LastHostOf(captured', mac, N + 1) = IF mac \in DOMAIN hostnames' THEN hostnames'[mac] ELSE None
  <2>1. CASE HostIn(m) # ""
    <3>1. DOMAIN hostnames' = DOMAIN hostnames \cup {m.mac}
      BY <2>1 DEF Put, TellsHost
    <3>2. mac \in DOMAIN hostnames' => hostnames'[mac] = IF mac = m.mac THEN HostIn(m) ELSE hostnames[mac]
      BY <2>1, <3>1 DEF Put, TellsHost
    <3> QED
      BY <1>2, <1>3, <2>1, <3>1, <3>2
  <2>2. CASE HostIn(m) = ""
    BY <1>2, <1>3, <2>2 DEF TellsHost
  <2> QED
    BY <2>1, <2>2
<1>5. ASSUME NEW i \in DOMAIN leases
      PROVE  /\ leases[i].packet \in 1 .. N + 1
             /\ leases[i].hostname = LastHostOf(captured', leases[i].mac, leases[i].packet)
  <2>1. leases[i].packet \in 0 .. N /\ leases[i].packet \in 1 .. N + 1
    BY <1>1, <1>2
  <2> QED
    BY <1>2, <1>3, <2>1
<1>6. CASE leases' = leases
  BY <1>1, <1>2, <1>4, <1>5, <1>6 DEF LeasesInv
<1>7. CASE leases' # leases
  <2>1. PICK l : /\ leases' = Append(leases, l) /\ l.packet = N + 1
                 /\ l.hostname = IF l.mac \in DOMAIN hostnames' THEN hostnames'[l.mac] ELSE None
    BY <1>1, <1>7 DEF GrantsLease
  <2>2. PICK S : leases \in Seq(S)
    BY <1>2
  <2>3. leases' \in Seq(S \cup {l})
    <3>1. leases \in Seq(S \cup {l}) /\ l \in S \cup {l}
      BY <2>2
    <3> QED
      BY <2>1, <3>1, Enqueued
  <2>4. \A k \in DOMAIN leases' : leases'[k] = l \/ \E j \in DOMAIN leases : leases'[k] = leases[j]
    BY <2>1, <2>2, AppendElements
  <2>5. l.hostname = LastHostOf(captured', l.mac, N + 1) /\ N + 1 \in 1 .. N + 1
    BY <1>1, <1>4, <2>1
  <2>6. \A i \in DOMAIN leases' : /\ leases'[i].packet \in 1 .. N + 1
                                  /\ leases'[i].hostname = LastHostOf(captured', leases'[i].mac, leases'[i].packet)
    BY <1>5, <2>1, <2>4, <2>5
  <2> QED
    BY <1>1, <1>4, <2>3, <2>6 DEF LeasesInv
<1> QED
  BY <1>6, <1>7

LEMMA ServersStep ==
    ASSUME captured \in Seq(Announcements), ServersInv, NEW m \in Announcements, captured' = Append(captured, m),
           ShowsServer(m)
    PROVE  ServersInv'
<1> DEFINE N == Len(captured)
<1>1. /\ N \in Nat /\ DOMAIN captured = 1 .. N /\ Len(captured') = N + 1 /\ DOMAIN captured' = 1 .. N + 1
      /\ \A i \in 1 .. N : captured'[i] = captured[i]
      /\ captured'[N + 1] = m /\ Number = N + 1
  BY MessageTaken DEF Number
<1>2. /\ servers = SpokenIn(captured, N)
      /\ rogue \subseteq 1 .. N
      /\ \A n \in 1 .. N : n \in rogue <=> SpeaksAs(captured[n]) /\ \E s, t \in SpokenIn(captured, n) : s # t
  BY <1>1 DEF ServersInv
<1> HIDE DEF N
<1>3. /\ \A n \in 0 .. N : SpokenIn(captured', n) = SpokenIn(captured, n)
      /\ SpokenIn(captured', N + 1) =
            SpokenIn(captured, N) \cup (IF SpeaksAs(m) THEN {Server(m, AllOptions(m))} \ {"", "0.0.0.0"} ELSE {})
  <2>1. N \in Nat /\ \A i \in 1 .. N : captured'[i] = captured[i]
    BY <1>1
  <2>2. /\ \A n \in 0 .. N : SpokenIn(captured', n) = SpokenIn(captured, n)
        /\ SpokenIn(captured', N + 1) =
              SpokenIn(captured, N) \cup (IF SpeaksAs(captured'[N + 1])
                                          THEN {Server(captured'[N + 1], AllOptions(captured'[N + 1]))} \ {"", "0.0.0.0"}
                                          ELSE {})
    BY ONLY <2>1, SpokenNext
  <2> QED
    BY <1>1, <2>2
<1>4. servers' = SpokenIn(captured', N + 1)
  BY <1>2, <1>3 DEF ShowsServer
<1>5. rogue' \subseteq 1 .. N + 1
  <2>1. rogue' \subseteq rogue \cup {N + 1}
    BY <1>1 DEF ShowsServer
  <2> QED
    BY <1>1, <1>2, <2>1
<1>6. ASSUME NEW n \in 1 .. N + 1
      PROVE  n \in rogue' <=> SpeaksAs(captured'[n]) /\ \E s, t \in SpokenIn(captured', n) : s # t
  <2>1. CASE n = N + 1
    <3>1. N + 1 \notin rogue
      BY <1>1, <1>2
    <3>2. N + 1 \in rogue' <=> SpeaksAs(m) /\ \E s, t \in servers' : s # t
      BY <1>1, <3>1 DEF ShowsServer
    <3> QED
      BY <1>1, <1>4, <2>1, <3>2
  <2>2. CASE n \in 1 .. N
    <3>1. n # N + 1
      BY <1>1, <2>2
    <3>2. n \in rogue' <=> n \in rogue
      <4>1. rogue' = rogue \cup {N + 1} \/ rogue' = rogue
        BY <1>1 DEF ShowsServer
      <4> QED
        BY <3>1, <4>1
    <3>3. n \in 0 .. N
      BY <1>1, <2>2
    <3>4. SpokenIn(captured', n) = SpokenIn(captured, n) /\ captured'[n] = captured[n]
      BY <1>1, <1>3, <2>2, <3>3
    <3> QED
      BY <1>2, <2>2, <3>2, <3>4
  <2> QED
    BY <1>1, <2>1, <2>2
<1> QED
  BY <1>1, <1>4, <1>5, <1>6 DEF ServersInv

\* A record that is read is one of the message.
LEMMA ReadIsSent ==
    ASSUME NEW m \in Announcements, m.proto = "nbns"
    PROVE  /\ Range(ReadRecords(m)) \subseteq Range(m.records)
           /\ \A k \in DOMAIN m.records :
                 m.records[k].fits \in {"all", "rdata"} /\ (\A h \in 1 .. k - 1 : m.records[h].fits = "all")
                   => m.records[k] \in Range(ReadRecords(m))
<1> DEFINE bad == {i \in DOMAIN m.records : m.records[i].fits # "all"}
           first == CHOOSE i \in bad : \A j \in bad : i <= j
           upto == IF bad = {} THEN Len(m.records) ELSE IF m.records[first].fits = "no" THEN first - 1 ELSE first
<1>1. m \in NameService
  BY HostNamesAssumption DEF Lease, Datagram
<1>2. m.records \in Seq(NbRecord)
  BY <1>1 DEF NameService
<1>3. Len(m.records) \in Nat /\ DOMAIN m.records = 1 .. Len(m.records)
  BY <1>2
<1>4. bad \in SUBSET (1 .. Len(m.records))
  BY <1>3
<1>5. ReadRecords(m) = SubSeq(m.records, 1, upto)
  BY DEF ReadRecords
<1> HIDE DEF bad
<1>6. bad # {} => \E i \in bad : \A j \in bad : i <= j
  BY ONLY <1>3, <1>4, MinOfSome
<1>7. bad # {} => first \in bad
  BY ONLY <1>6
<1> HIDE DEF first
<1>8. upto \in 0 .. Len(m.records)
  <2>1. bad # {} => first \in 1 .. Len(m.records)
    BY <1>4, <1>7
  <2>2. \A n \in 1 .. Len(m.records) : n \in 0 .. Len(m.records) /\ n - 1 \in 0 .. Len(m.records)
    BY <1>3
  <2>3. Len(m.records) \in 0 .. Len(m.records)
    BY <1>3
  <2> QED
    BY <2>1, <2>2, <2>3
<1>11. ASSUME NEW k \in DOMAIN m.records, m.records[k].fits \in {"all", "rdata"},
              \A h \in 1 .. k - 1 : m.records[h].fits = "all"
       PROVE  k \in 1 .. upto
  <2>1. CASE bad = {}
    BY <1>3, <2>1
  <2>2. CASE bad # {}
    <3>1. first \in 1 .. Len(m.records) /\ m.records[first].fits # "all"
      BY <1>3, <1>7, <2>2 DEF bad
    <3>2. k \in 1 .. Len(m.records)
      BY <1>3
    <3>3. ~(first \in 1 .. k - 1)
      BY <1>11, <3>1
    <3>4. k <= first
      BY <1>3, <3>1, <3>2, <3>3
    <3>5. m.records[first].fits = "no" => k # first
      BY <1>11
    <3> QED
      BY <1>3, <2>2, <3>1, <3>2, <3>4, <3>5
  <2> QED
    BY <2>1, <2>2
<1> HIDE DEF upto
<1>9. /\ DOMAIN SubSeq(m.records, 1, upto) = 1 .. upto
      /\ \A i \in 1 .. upto : SubSeq(m.records, 1, upto)[i] = m.records[i]
  <2> DEFINE s == m.records
  <2>1. s \in Seq(NbRecord) /\ upto \in 0 .. Len(s)
    BY <1>2, <1>8
  <2> HIDE DEF s
  <2>2. DOMAIN SubSeq(s, 1, upto) = 1 .. upto /\ \A i \in 1 .. upto : SubSeq(s, 1, upto)[i] = s[i]
    BY ONLY <2>1, FirstElements
  <2> QED
    BY <2>2 DEF s
<1>10. 1 .. upto \subseteq 1 .. Len(m.records)
  BY <1>3, <1>8
<1>12. Range(ReadRecords(m)) \subseteq Range(m.records)
  BY <1>3, <1>5, <1>9, <1>10 DEF Range
<1>13. \A k \in 1 .. upto : m.records[k] \in Range(ReadRecords(m))
  BY <1>5, <1>9 DEF Range
<1> QED
  BY <1>11, <1>12, <1>13

\* The facts of the name records that are read are learnt, whatever follows them.
LEMMA ToldIsLearnt ==
    ASSUME NEW m \in Announcements, m.proto = "nbns"
    PROVE  Told(m) \subseteq Learnt(Facts(m))
<1> SUFFICES ASSUME NEW k \in DOMAIN m.records,
                    m.records[k].section \in {"answers", "additionals"}, m.records[k].type = "NB",
                    m.records[k].fits \in {"all", "rdata"}, \A h \in 1 .. k - 1 : m.records[h].fits = "all"
             PROVE  Learnt(Named(m.records[k])) \subseteq Learnt(Facts(m))
  BY DEF Told
<1> DEFINE nb == {r \in Range(ReadRecords(m)) :
                     r.section \in {"answers", "additionals"} /\ r.type = "NB" /\ r.fits # "short"}
<1>1. m.records[k] \in Range(ReadRecords(m))
  BY ReadIsSent
<1>2. m.records[k] \in nb
  BY <1>1
<1>3. UNION {Named(r) : r \in nb} \subseteq Facts(m)
  BY DEF Facts
<1> HIDE DEF nb
<1>4. Named(m.records[k]) \subseteq Facts(m)
  BY <1>2, <1>3
<1> QED
  BY <1>4 DEF Learnt

\* What is learnt was said.
LEMMA FactsAreSaid ==
    ASSUME NEW m \in Announcements, m.proto = "nbns", NEW f \in Learnt(Facts(m))
    PROVE  Said(m, f.ip, f.name)
<1>1. Range(ReadRecords(m)) \subseteq Range(m.records)
  BY ReadIsSent
<1>2. f \in Facts(m)
  BY DEF Learnt
<1>3. CASE \E r \in Range(ReadRecords(m)) : r.type = "NB" /\ f \in Named(r)
  <2>1. PICK r \in Range(m.records) : r.type = "NB" /\ f \in Named(r)
    BY <1>1, <1>3
  <2>2. r.name = f.name /\ f.ip \in Range(r.addrs)
    BY <2>1 DEF Named, Fact
  <2> QED
    BY <2>1, <2>2 DEF Said
<1>4. CASE \E r \in Range(ReadRecords(m)) : r.type = "NBSTAT" /\ f \in Listed(r, m.src)
  <2>1. PICK r \in Range(m.records) : r.type = "NBSTAT" /\ f \in Listed(r, m.src)
    BY <1>1, <1>4
  <2>2. m.src = f.ip /\ \E n \in Range(r.nodes) : n.name = f.name /\ ~n.group
    BY <2>1 DEF Listed, Fact
  <2> QED
    BY <2>1, <2>2 DEF Said
<1>5. ASSUME NEW r \in Range(ReadRecords(m)), r.type = "NB", f \in Named(r) PROVE Said(m, f.ip, f.name)
  BY <1>3, <1>5
<1>6. ASSUME NEW r \in Range(ReadRecords(m)), r.type = "NBSTAT", f \in Listed(r, m.src) PROVE Said(m, f.ip, f.name)
  BY <1>4, <1>6
<1> DEFINE nb == {r \in Range(ReadRecords(m)) :
                     r.section \in {"answers", "additionals"} /\ r.type = "NB" /\ r.fits # "short"}
           status == {r \in Range(ReadRecords(m)) : r.section = "answers" /\ r.type = "NBSTAT" /\ r.fits # "short"}
<1>7. (\E r \in nb : f \in Named(r)) \/ \E r \in status : f \in Listed(r, m.src)
  BY <1>2 DEF Facts
<1> QED
  BY <1>5, <1>6, <1>7

\* What was known stays, and what is new was said by one message.
LEMMA NetbiosStep ==
    ASSUME captured \in Seq(Announcements), NetbiosInv, NEW m \in Announcements, captured' = Append(captured, m),
           NEW facts, \A f \in facts : Said(m, f.ip, f.name),
           netbios' = NamesOfHosts(facts), byName' = byName \/ byName' = HostsOfNames(facts),
           m.proto = "nbns" => Told(m) \subseteq facts /\ byName' = HostsOfNames(facts)
    PROVE  NetbiosInv'
<1> DEFINE N == Len(captured)
<1>1. /\ N \in Nat /\ DOMAIN captured = 1 .. N /\ DOMAIN captured' = 1 .. N + 1
      /\ \A i \in 1 .. N : captured'[i] = captured[i]
      /\ captured'[N + 1] = m
  BY MessageTaken
<1> HIDE DEF N
<1>2. /\ \A ip \in DOMAIN netbios : \A p \in netbios[ip] : \E i \in 1 .. N : Said(captured[i], ip, p[1])
      /\ \A name \in DOMAIN byName : \A ip \in byName[name] : ip \in DOMAIN netbios /\ \E p \in netbios[ip] : p[1] = name
  BY <1>1 DEF NetbiosInv
<1>3. /\ DOMAIN netbios' = DOMAIN netbios \cup {f.ip : f \in facts}
      /\ \A ip \in DOMAIN netbios' : netbios'[ip] = (IF ip \in DOMAIN netbios THEN netbios[ip] ELSE {})
                                                    \cup {<<f.name, f.suffix>> : f \in {g \in facts : g.ip = ip}}
  BY DEF NamesOfHosts
<1>4. ASSUME NEW ip \in DOMAIN netbios', NEW p \in netbios'[ip]
      PROVE  \E i \in DOMAIN captured' : Said(captured'[i], ip, p[1])
  <2>1. CASE ip \in DOMAIN netbios /\ p \in netbios[ip]
    <3>1. PICK i \in 1 .. N : Said(captured[i], ip, p[1])
      BY <1>2, <2>1
    <3> QED
      BY <1>1, <3>1
  <2>2. CASE ~(ip \in DOMAIN netbios /\ p \in netbios[ip])
    <3>1. PICK f \in facts : f.ip = ip /\ p = <<f.name, f.suffix>>
      BY <1>3, <1>4, <2>2
    <3>2. Said(m, ip, p[1])
      BY <3>1
    <3>3. N + 1 \in 1 .. N + 1
      BY <1>1
    <3> QED
      BY <1>1, <3>2, <3>3
  <2> QED
    BY <2>1, <2>2
<1>5. ASSUME NEW ip, NEW name, ip \in DOMAIN netbios /\ \E p \in netbios[ip] : p[1] = name
      PROVE  ip \in DOMAIN netbios' /\ \E p \in netbios'[ip] : p[1] = name
  BY <1>3, <1>5
<1>6. ASSUME NEW name \in DOMAIN byName', NEW ip \in byName'[name]
      PROVE  ip \in DOMAIN netbios' /\ \E p \in netbios'[ip] : p[1] = name
  <2>1. CASE name \in DOMAIN byName /\ ip \in byName[name]
    BY <1>2, <1>5, <2>1
  <2>2. CASE ~(name \in DOMAIN byName /\ ip \in byName[name])
    <3>1. byName' = HostsOfNames(facts)
      BY <1>6, <2>2
    <3>2. ip \in (IF name \in DOMAIN byName THEN byName[name] ELSE {}) \cup {f.ip : f \in {g \in facts : g.name = name}}
      BY <1>6, <3>1 DEF HostsOfNames
    <3>3. PICK f \in facts : f.name = name /\ f.ip = ip
      BY <2>2, <3>2
    <3>4. ip \in DOMAIN netbios' /\ <<f.name, f.suffix>> \in netbios'[ip]
      BY <1>3, <3>3
    <3>5. <<f.name, f.suffix>>[1] = name
      BY <3>3
    <3> QED
      BY <3>4, <3>5
  <2> QED
    BY <2>1, <2>2
<1>7. ASSUME NEW f, Knows(f)
      PROVE  Knows(f)'
  <2>1. f.ip \in DOMAIN netbios' /\ <<f.name, f.suffix>> \in netbios'[f.ip]
    BY <1>3, <1>7 DEF Knows
  <2>2. f.name \in DOMAIN byName' /\ f.ip \in byName'[f.name]
    BY <1>7 DEF Knows, HostsOfNames
  <2> QED
    BY <2>1, <2>2 DEF Knows
<1>8. ASSUME NEW f \in facts, byName' = HostsOfNames(facts)
      PROVE  Knows(f)'
  <2>1. f.ip \in DOMAIN netbios' /\ <<f.name, f.suffix>> \in netbios'[f.ip]
    BY <1>3
  <2>2. f.name \in DOMAIN byName' /\ f.ip \in byName'[f.name]
    BY <1>8 DEF HostsOfNames
  <2> QED
    BY <2>1, <2>2 DEF Knows
<1>9. ASSUME NEW i \in DOMAIN captured', captured'[i].proto = "nbns", NEW f \in Told(captured'[i])
      PROVE  Knows(f)'
  <2>1. CASE i \in 1 .. N
    <3>1. captured[i].proto = "nbns" /\ f \in Told(captured[i]) /\ i \in DOMAIN captured
      BY <1>1, <1>9, <2>1
    <3> QED
      BY <1>7, <3>1 DEF NetbiosInv
  <2>2. CASE i = N + 1
    BY <1>1, <1>8, <1>9, <2>2
  <2> QED
    BY <1>1, <2>1, <2>2
<1> QED
  BY <1>4, <1>6, <1>9 DEF NetbiosInv

\* A NetBIOS message does not touch what DHCP messages told, nor they what it told.
LEMMA HostsStep ==
    ASSUME captured \in Seq(Announcements), LeasesInv, ServersInv, NetbiosInv, HostNamesNext
    PROVE  captured' \in Seq(Announcements) /\ LeasesInv' /\ ServersInv' /\ NetbiosInv'
<1>1. PICK m \in Announcements : (DhcpDissect(m) \/ NbnsDissect(m) \/ NbdgmDissect(m)) /\ captured' = Append(captured, m)
  BY DEF HostNamesNext, Receive
<1>2. captured' \in Seq(Announcements)
  BY <1>1, Enqueued
<1>3. TellsHost(m) /\ GrantsLease /\ ShowsServer(m)
  <2>1. CASE DhcpDissect(m)
    <3>1. HostIn(m) = FirstOption(AllOptions(m), "host") /\ (SpeaksAs(m) <=> ServerSpeaks(m, AllOptions(m)))
      BY <2>1 DEF DhcpDissect, HostIn, SpeaksAs
    <3>2. CASE ~m.whole
      <4>1. FirstOption(<<>>, "host") = "" /\ FirstOption(<<>>, "type") = ""
        BY DEF FirstOption
      <4>2. AllOptions(m) = <<>>
        BY <3>2 DEF AllOptions
      <4>3. HostIn(m) = "" /\ ~SpeaksAs(m)
        BY <3>1, <4>1, <4>2 DEF ServerSpeaks
      <4>4. UNCHANGED <<leases, servers, hostnames, rogue>>
        BY <2>1, <3>2 DEF DhcpDissect
      <4> QED
        BY <4>3, <4>4 DEF TellsHost, GrantsLease, ShowsServer
    <3>3. CASE m.whole
      <4> DEFINE opts == AllOptions(m)
                 host == FirstOption(opts, "host")
                 server == Server(m, opts)
                 speaks == ServerSpeaks(m, opts)
      <4>1. /\ hostnames' = RememberedHostnames(host, m.mac)
            /\ servers' = IF speaks /\ server \notin {"", "0.0.0.0"} THEN servers \cup {server} ELSE servers
            /\ rogue' = IF speaks /\ (\E s, t \in servers' : s # t) THEN rogue \cup {Number} ELSE rogue
            /\ leases' = IF FirstOption(opts, "type") \in {"offer", "ack"}
                         THEN Append(leases, [mac |-> m.mac, ip |-> m.yours, server |-> server, packet |-> Number,
                                              hostname |-> IF m.mac \in DOMAIN hostnames' THEN hostnames'[m.mac]
                                                           ELSE None,
                                              tentative |-> FirstOption(opts, "type") = "offer"])
                         ELSE leases
        BY <2>1, <3>3 DEF DhcpDissect
      <4>2. GrantsLease
        <5> DEFINE l == [mac |-> m.mac, ip |-> m.yours, server |-> server, packet |-> Number,
                         hostname |-> IF m.mac \in DOMAIN hostnames' THEN hostnames'[m.mac] ELSE None,
                         tentative |-> FirstOption(opts, "type") = "offer"]
        <5>1. /\ l.packet = Number /\ l.mac = m.mac
              /\ l.hostname = IF m.mac \in DOMAIN hostnames' THEN hostnames'[m.mac] ELSE None
          OBVIOUS
        <5>2. leases' = leases \/ leases' = Append(leases, l)
          BY <4>1
        <5> HIDE DEF l
        <5> QED
          BY <5>1, <5>2 DEF GrantsLease
      <4>3. TellsHost(m)
        BY <3>1, <4>1 DEF TellsHost, RememberedHostnames
      <4> HIDE DEF opts, host, server, speaks
      <4>4. servers' = servers \cup (IF speaks THEN {server} \ {"", "0.0.0.0"} ELSE {})
        BY <4>1
      <4>5. ShowsServer(m)
        BY <3>1, <4>1, <4>4 DEF ShowsServer, opts, server, speaks
      <4> QED
        BY <4>2, <4>3, <4>5
    <3> QED
      BY <3>2, <3>3
  <2>2. CASE NbnsDissect(m) \/ NbdgmDissect(m)
    <3>1. UNCHANGED <<leases, servers, hostnames, rogue>>
      BY <2>2 DEF NbnsDissect, NbdgmDissect
    <3>2. HostIn(m) = "" /\ ~SpeaksAs(m)
      BY <2>2 DEF NbnsDissect, NbdgmDissect, HostIn, SpeaksAs
    <3> QED
      BY <3>1, <3>2 DEF TellsHost, GrantsLease, ShowsServer
  <2> QED
    BY <1>1, <2>1, <2>2
<1>4. NetbiosInv'
  <2>1. ASSUME UNCHANGED <<netbios, byName>>, m.proto # "nbns" PROVE NetbiosInv'
    <3>1. /\ Len(captured) \in Nat /\ DOMAIN captured = 1 .. Len(captured)
          /\ DOMAIN captured' = 1 .. Len(captured) + 1
          /\ \A i \in 1 .. Len(captured) : captured'[i] = captured[i]
          /\ captured'[Len(captured) + 1] = m
      BY <1>1, MessageTaken
    <3>2. \A i \in DOMAIN captured : i \in DOMAIN captured' /\ captured'[i] = captured[i]
      BY <3>1
    <3>3. \A f : Knows(f) => Knows(f)'
      BY <2>1 DEF Knows
    <3>4. \A i \in DOMAIN captured' : captured'[i].proto = "nbns" => \A f \in Told(captured'[i]) : Knows(f)'
      <4>1. \A i \in 1 .. Len(captured) + 1 : i \in 1 .. Len(captured) \/ i = Len(captured) + 1
        BY <3>1
      <4> QED
        BY <2>1, <3>1, <3>3, <4>1 DEF NetbiosInv
    <3>5. /\ \A ip \in DOMAIN netbios : \A p \in netbios[ip] : \E i \in DOMAIN captured' : Said(captured'[i], ip, p[1])
          /\ \A name \in DOMAIN byName : \A ip \in byName[name] :
                ip \in DOMAIN netbios /\ \E p \in netbios[ip] : p[1] = name
      BY <3>2 DEF NetbiosInv
    <3> QED
      BY <2>1, <3>4, <3>5 DEF NetbiosInv
  <2>2. CASE DhcpDissect(m)
    BY <2>1, <2>2 DEF DhcpDissect
  <2>3. CASE NbnsDissect(m)
    <3>1. netbios' = NamesOfHosts(Learnt(Facts(m))) /\ byName' = HostsOfNames(Learnt(Facts(m))) /\ m.proto = "nbns"
      BY <2>3 DEF NbnsDissect
    <3>2. \A f \in Learnt(Facts(m)) : Said(m, f.ip, f.name)
      BY <3>1, FactsAreSaid
    <3>3. Told(m) \subseteq Learnt(Facts(m))
      BY <3>1, ToldIsLearnt
    <3> QED
      BY <1>1, <3>1, <3>2, <3>3, NetbiosStep
  <2>4. CASE NbdgmDissect(m)
    <3> DEFINE facts == {Fact(m.name, m.suffix, m.from)}
    <3>1. netbios' = NamesOfHosts(facts) \/ netbios' = netbios
      BY <2>4 DEF NbdgmDissect
    <3>2. \A f \in facts : Said(m, f.ip, f.name)
      <4>1. \A f \in facts : f.ip = m.from /\ f.name = m.name
        BY DEF Fact
      <4>2. m.proto = "nbdgm"
        BY <2>4 DEF NbdgmDissect
      <4> HIDE DEF facts
      <4> QED
        BY <4>1, <4>2 DEF Said
    <3>3. byName' = byName
      BY <2>4 DEF NbdgmDissect
    <3>4. m.proto # "nbns"
      BY <2>4 DEF NbdgmDissect
    <3> HIDE DEF facts
    <3> QED
      BY <1>1, <2>1, <3>1, <3>2, <3>3, <3>4, NetbiosStep
  <2> QED
    BY <1>1, <2>2, <2>3, <2>4
<1> QED
  BY <1>1, <1>2, <1>3, <1>4, LeasesStep, ServersStep

LEMMA HostsInvInductive ==
    /\ Init => HostsInv
    /\ HostsInv /\ [Next]_vars => HostsInv'
<1>1. Init => HostsInv
  <2> SUFFICES ASSUME Init PROVE captured \in Seq(Announcements) /\ LeasesInv /\ ServersInv /\ NetbiosInv
    BY DEF HostsInv
  <2>1. /\ captured = <<>> /\ leases = <<>> /\ servers = {} /\ hostnames = <<>>
        /\ netbios = <<>> /\ byName = <<>> /\ rogue = {}
    BY DEF Init, CaptureInit, HostNamesInit
  <2>2. captured \in Seq(Announcements) /\ leases \in Seq(STRING)
    BY <2>1, Nothing
  <2>3. /\ DOMAIN captured = {} /\ DOMAIN leases = {} /\ DOMAIN hostnames = {} /\ DOMAIN netbios = {}
        /\ DOMAIN byName = {} /\ Len(captured) = 0 /\ 1 .. 0 = {}
    BY <2>1
  <2>4. (\A mac : LastHostOf(captured, mac, 0) = None) /\ SpokenIn(captured, 0) = {}
    BY <2>3 DEF LastHostOf, SpokenIn
  <2>5. LeasesInv
    BY <2>2, <2>3, <2>4 DEF LeasesInv
  <2>6. ServersInv
    BY <2>1, <2>3, <2>4 DEF ServersInv
  <2>7. NetbiosInv
    BY <2>3 DEF NetbiosInv
  <2> QED
    BY <2>2, <2>5, <2>6, <2>7
<1>2. ASSUME HostsInv, [Next]_vars, traffic' = "hosts"
      PROVE  (captured \in Seq(Announcements) /\ LeasesInv /\ ServersInv /\ NetbiosInv)'
  <2>1. (HostNamesNext /\ traffic = "hosts") \/ UNCHANGED <<traffic, captured, hostVars>>
    BY <1>2, ByTraffic DEF SessionTraffic
  <2>2. CASE HostNamesNext /\ traffic = "hosts"
    BY <1>2, <2>2, HostsStep DEF HostsInv
  <2>3. CASE UNCHANGED <<traffic, captured, hostVars>>
    <3>1. captured \in Seq(Announcements) /\ LeasesInv /\ ServersInv /\ NetbiosInv
      BY <1>2, <2>3 DEF HostsInv
    <3>2. UNCHANGED <<captured, leases, servers, hostnames, netbios, byName, rogue>>
      BY <2>3 DEF hostVars
    <3> QED
      BY <3>1, <3>2 DEF LeasesInv, ServersInv, NetbiosInv, Knows
  <2> QED
    BY <2>1, <2>2, <2>3
<1> QED
  BY <1>1, <1>2 DEF HostsInv

LEMMA HostsInvSuffices == HostsInv => LeasesAndHostNames
<1> SUFFICES ASSUME LeasesInv, ServersInv, NetbiosInv
             PROVE  /\ \A i \in DOMAIN leases : leases[i].hostname = LastHost(leases[i].mac, leases[i].packet)
                    /\ \A n \in DOMAIN captured : n \in rogue <=> Speaks(n) /\ \E s, t \in Spoken(n) : s # t
                    /\ \A ip \in DOMAIN netbios : \A p \in netbios[ip] : \E i \in DOMAIN captured : Said(captured[i], ip, p[1])
                    /\ \A name \in DOMAIN byName : \A ip \in byName[name] :
                          ip \in DOMAIN netbios /\ \E p \in netbios[ip] : p[1] = name
                    /\ \A i \in DOMAIN captured :
                          captured[i].proto = "nbns" => \A f \in Told(captured[i]) : Knows(f)
  BY DEF HostsInv, LeasesAndHostNames
<1>1. \A mac, n : LastHost(mac, n) = LastHostOf(captured, mac, n)
  BY DEF LastHost, LastHostOf
<1>2. \A n : Speaks(n) <=> SpeaksAs(captured[n])
  BY DEF Speaks, SpeaksAs
<1>3. \A n : Spoken(n) = SpokenIn(captured, n)
  BY <1>2 DEF Spoken, SpokenIn
<1> QED
  BY <1>1, <1>2, <1>3 DEF LeasesInv, ServersInv, NetbiosInv

\* A lease shows the name its own client gave last; a reply is marked for a second server
\* exactly if two identifiers were seen by then; no NetBIOS name is tied to an address, nor
\* an address to a name, unless one message said so; and what the name records of a message
\* said is known from then on, also if it ends in an error half way (dhcp.js:65, 188-228,
\* nbns.js:166-176, 303-307).
THEOREM HostsAreWhatTheySaid == Spec => []LeasesAndHostNames
<1> QED
  BY HostsInvInductive, HostsInvSuffices, PTL DEF Spec

-----------------------------------------------------------------------------
(* Handshakes: challenges, banners and names *)

\* Segment c brings a challenge that is read, or the banner of one end of a stream.
GivesChallenge(c) == /\ c.proto = "smb" /\ c.command = "setup" /\ c.whole /\ c.ntlm = 2 /\ c.text # ""
                     /\ c.dialect = 1 => c.dir = 0
ChallengesIn(cap, n, stream) == {i \in 1 .. n : GivesChallenge(cap[i]) /\ cap[i].stream = stream}
LastChallenge(cap, n, stream) == IF ChallengesIn(cap, n, stream) = {} THEN None
                                 ELSE cap[Latest(ChallengesIn(cap, n, stream))].text

GivesBanner(b, stream, dir) == b.proto = "ssh" /\ b.stream = stream /\ b.dir = dir /\ b.banner # ""
BannersIn(cap, n, stream, dir) == {i \in 1 .. n : GivesBanner(cap[i], stream, dir)}
LastBanner(cap, n, stream, dir) == IF BannersIn(cap, n, stream, dir) = {} THEN None
                                   ELSE cap[Latest(BannersIn(cap, n, stream, dir))].banner

\* The messages a segment holds, and the names its clients ask for.
MessagesIn(s) == UNION {{r.messages[k] : k \in DOMAIN r.messages} : r \in {s.records[k] : k \in DOMAIN s.records}}
NamesIn(s) == {m.text : m \in {n \in MessagesIn(s) : n.is = "client"}}

\* The name a packet gives its stream: that of the last of its hellos that has one.
NameGiven(s) == SniBefore(AllMessages(s), Len(AllMessages(s)))
GivesName(s, stream) == s.proto = "tls" /\ s.stream = stream /\ NameGiven(s) # None
NamingsIn(cap, n, stream) == {i \in 1 .. n : GivesName(cap[i], stream)}
LastNameOf(cap, n, stream) == IF NamingsIn(cap, n, stream) = {} THEN None
                              ELSE NameGiven(cap[Latest(NamingsIn(cap, n, stream))])

\* The challenge a stream is in, and those the responses were put together with.
ChallengesInv ==
    /\ \A stream : ChallengeOf(stream) = LastChallenge(captured, Len(captured), stream)
    /\ \E S : hashes \in Seq(S)
    /\ \A n \in DOMAIN hashes :
          LET h == hashes[n]
          IN /\ h.packet \in DOMAIN captured
             /\ h.challenge = IF captured[h.packet].bytes < 24 THEN None
                              ELSE LastChallenge(captured, h.packet - 1, h.stream)

\* The software at each end, and that of the key exchanges.
SoftwareOf(stream, dir) == IF <<stream, dir>> \in DOMAIN software THEN software[<<stream, dir>>] ELSE None
SoftwareInv ==
    /\ \A stream, dir : SoftwareOf(stream, dir) = LastBanner(captured, Len(captured), stream, dir)
    /\ \E S : exchanges \in Seq(S)
    /\ \A n \in DOMAIN exchanges :
          LET x == exchanges[n]
          IN x.packet \in DOMAIN captured /\ x.software = LastBanner(captured, x.packet, captured[x.packet].stream, x.dir)

\* The names of hellos and streams.
HelloOf(cap) == {h \in [packet : DOMAIN cap, sni : STRING \cup {None}] : h.sni # None => h.sni \in NamesIn(cap[h.packet])}
SniOf(stream) == IF stream \in DOMAIN sni THEN sni[stream] ELSE None
NamesInv ==
    /\ hellos \in Seq(HelloOf(captured))
    /\ \A stream : SniOf(stream) = LastNameOf(captured, Len(captured), stream)
    /\ \A st \in DOMAIN sni : st \in HandshakeStreams /\ sni[st] # None

HandshakesInv ==
    traffic = "handshakes" => captured \in Seq(HandshakeSegments) /\ ChallengesInv /\ SoftwareInv /\ NamesInv

\* The greatest of some numbers up to n is one of them, and the next number is greater.
LEMMA LatestOfSome ==
    ASSUME NEW n \in Nat, NEW A \in SUBSET (1 .. n)
    PROVE  /\ A # {} => Latest(A) \in A
           /\ Latest(A \cup {n + 1}) = n + 1
<1>1. ASSUME A # {} PROVE Latest(A) \in A
  <2>1. \E i \in A : \A j \in A : j <= i
    BY <1>1, MaxOfSome
  <2> QED
    BY <2>1 DEF Latest
<1>2. \A j \in A \cup {n + 1} : j <= n + 1
  OBVIOUS
<1>3. \A i \in A \cup {n + 1} : (\A j \in A \cup {n + 1} : j <= i) => i = n + 1
  OBVIOUS
<1>4. Latest(A \cup {n + 1}) = n + 1
  BY <1>2, <1>3 DEF Latest
<1> QED
  BY <1>1, <1>4

\* What the first n segments said last is not changed by those that follow.
LEMMA LastSaidStays ==
    ASSUME NEW n \in Nat, NEW cap, NEW new, \A i \in 1 .. n : new[i] = cap[i], NEW stream, NEW dir
    PROVE  /\ LastChallenge(new, n, stream) = LastChallenge(cap, n, stream)
           /\ LastBanner(new, n, stream, dir) = LastBanner(cap, n, stream, dir)
<1>1. ASSUME NEW A \in SUBSET (1 .. n), A # {} PROVE new[Latest(A)] = cap[Latest(A)]
  BY <1>1, LatestOfSome
<1>2. LastChallenge(new, n, stream) = LastChallenge(cap, n, stream)
  <2>1. ChallengesIn(new, n, stream) = ChallengesIn(cap, n, stream)
    BY DEF ChallengesIn
  <2>2. ChallengesIn(cap, n, stream) \in SUBSET (1 .. n)
    BY DEF ChallengesIn
  <2> QED
    BY <1>1, <2>1, <2>2 DEF LastChallenge
<1>3. LastBanner(new, n, stream, dir) = LastBanner(cap, n, stream, dir)
  <2>1. BannersIn(new, n, stream, dir) = BannersIn(cap, n, stream, dir)
    BY DEF BannersIn
  <2>2. BannersIn(cap, n, stream, dir) \in SUBSET (1 .. n)
    BY DEF BannersIn
  <2> QED
    BY <1>1, <2>1, <2>2 DEF LastBanner
<1> QED
  BY <1>2, <1>3

LEMMA LastNameStays ==
    ASSUME NEW n \in Nat, NEW cap, NEW new, \A i \in 1 .. n : new[i] = cap[i], NEW stream
    PROVE  LastNameOf(new, n, stream) = LastNameOf(cap, n, stream)
<1>1. ASSUME NEW A \in SUBSET (1 .. n), A # {} PROVE new[Latest(A)] = cap[Latest(A)]
  BY <1>1, LatestOfSome
<1>2. NamingsIn(new, n, stream) = NamingsIn(cap, n, stream)
  BY DEF NamingsIn
<1>3. NamingsIn(cap, n, stream) \in SUBSET (1 .. n)
  BY DEF NamingsIn
<1> QED
  BY <1>1, <1>2, <1>3 DEF LastNameOf

\* The next segment may bring another challenge or banner.
LEMMA LastSaidNext ==
    ASSUME NEW N \in Nat, NEW cap, NEW stream, NEW dir
    PROVE  /\ LastChallenge(cap, N + 1, stream) =
                 IF GivesChallenge(cap[N + 1]) /\ cap[N + 1].stream = stream THEN cap[N + 1].text
                 ELSE LastChallenge(cap, N, stream)
           /\ LastBanner(cap, N + 1, stream, dir) =
                 IF GivesBanner(cap[N + 1], stream, dir) THEN cap[N + 1].banner ELSE LastBanner(cap, N, stream, dir)
           /\ LastNameOf(cap, N + 1, stream) =
                 IF GivesName(cap[N + 1], stream) THEN NameGiven(cap[N + 1]) ELSE LastNameOf(cap, N, stream)
<1>1. 1 .. N + 1 = (1 .. N) \cup {N + 1}
  OBVIOUS
<1>2. LastChallenge(cap, N + 1, stream) =
         IF GivesChallenge(cap[N + 1]) /\ cap[N + 1].stream = stream THEN cap[N + 1].text
         ELSE LastChallenge(cap, N, stream)
  <2>1. ChallengesIn(cap, N, stream) \in SUBSET (1 .. N)
    BY DEF ChallengesIn
  <2>2. ChallengesIn(cap, N + 1, stream) =
           IF GivesChallenge(cap[N + 1]) /\ cap[N + 1].stream = stream THEN ChallengesIn(cap, N, stream) \cup {N + 1}
           ELSE ChallengesIn(cap, N, stream)
    BY <1>1 DEF ChallengesIn
  <2>3. Latest(ChallengesIn(cap, N, stream) \cup {N + 1}) = N + 1
    BY <2>1, LatestOfSome
  <2> QED
    BY <2>2, <2>3 DEF LastChallenge
<1>3. LastBanner(cap, N + 1, stream, dir) =
         IF GivesBanner(cap[N + 1], stream, dir) THEN cap[N + 1].banner ELSE LastBanner(cap, N, stream, dir)
  <2>1. BannersIn(cap, N, stream, dir) \in SUBSET (1 .. N)
    BY DEF BannersIn
  <2>2. BannersIn(cap, N + 1, stream, dir) =
           IF GivesBanner(cap[N + 1], stream, dir) THEN BannersIn(cap, N, stream, dir) \cup {N + 1} ELSE BannersIn(cap, N, stream, dir)
    BY <1>1 DEF BannersIn
  <2>3. Latest(BannersIn(cap, N, stream, dir) \cup {N + 1}) = N + 1
    BY <2>1, LatestOfSome
  <2> QED
    BY <2>2, <2>3 DEF LastBanner
<1>4. LastNameOf(cap, N + 1, stream) =
         IF GivesName(cap[N + 1], stream) THEN NameGiven(cap[N + 1]) ELSE LastNameOf(cap, N, stream)
  <2>1. NamingsIn(cap, N, stream) \in SUBSET (1 .. N)
    BY DEF NamingsIn
  <2>2. NamingsIn(cap, N + 1, stream) =
           IF GivesName(cap[N + 1], stream) THEN NamingsIn(cap, N, stream) \cup {N + 1} ELSE NamingsIn(cap, N, stream)
    BY <1>1 DEF NamingsIn
  <2>3. Latest(NamingsIn(cap, N, stream) \cup {N + 1}) = N + 1
    BY <2>1, LatestOfSome
  <2> QED
    BY <2>2, <2>3 DEF LastNameOf
<1> QED
  BY <1>2, <1>3, <1>4

\* What a segment does: give its stream a challenge, or its end of it a banner; and put a
\* response or a key exchange together with what its own stream was last given.
Challenging(s) ==
    /\ \A stream : ChallengeOf(stream)' = IF GivesChallenge(s) /\ s.stream = stream THEN s.text ELSE ChallengeOf(stream)
    /\ \/ hashes' = hashes
       \/ \E h : /\ hashes' = Append(hashes, h) /\ h.packet = Number /\ h.stream = s.stream
                 /\ h.challenge = IF s.bytes < 24 THEN None ELSE ChallengeOf(s.stream)
Introducing(s) ==
    /\ \A stream, dir : SoftwareOf(stream, dir)' =
          IF GivesBanner(s, stream, dir) THEN s.banner ELSE SoftwareOf(stream, dir)
    /\ \/ exchanges' = exchanges
       \/ \E x : /\ exchanges' = Append(exchanges, x) /\ x.packet = Number /\ x.dir = s.dir
                 /\ x.software = SoftwareOf(s.stream, s.dir)'

LEMMA ChallengesStep ==
    ASSUME captured \in Seq(HandshakeSegments), ChallengesInv, NEW s \in HandshakeSegments,
           captured' = Append(captured, s), Challenging(s)
    PROVE  ChallengesInv'
<1> DEFINE N == Len(captured)
<1>1. /\ N \in Nat /\ DOMAIN captured = 1 .. N /\ Len(captured') = N + 1 /\ DOMAIN captured' = 1 .. N + 1
      /\ \A i \in 1 .. N : captured'[i] = captured[i]
      /\ captured'[N + 1] = s /\ Number = N + 1
  BY MessageTaken DEF Number
<1>2. /\ \A stream : ChallengeOf(stream) = LastChallenge(captured, N, stream)
      /\ \E S : hashes \in Seq(S)
      /\ \A n \in DOMAIN hashes :
            /\ hashes[n].packet \in 1 .. N
            /\ hashes[n].challenge = IF captured[hashes[n].packet].bytes < 24 THEN None
                                     ELSE LastChallenge(captured, hashes[n].packet - 1, hashes[n].stream)
  BY <1>1 DEF ChallengesInv
<1> HIDE DEF N
<1>3. ASSUME NEW n \in 0 .. N, NEW stream
      PROVE  LastChallenge(captured', n, stream) = LastChallenge(captured, n, stream)
  <2>1. n \in Nat /\ \A i \in 1 .. n : captured'[i] = captured[i]
    BY <1>1
  <2> QED
    BY ONLY <2>1, LastSaidStays
<1>4. ASSUME NEW stream PROVE ChallengeOf(stream)' = LastChallenge(captured', N + 1, stream)
  <2>1. LastChallenge(captured', N + 1, stream) =
           IF GivesChallenge(captured'[N + 1]) /\ captured'[N + 1].stream = stream THEN captured'[N + 1].text
           ELSE LastChallenge(captured', N, stream)
    BY ONLY <1>1, LastSaidNext
  <2>2. N \in 0 .. N
    BY <1>1
  <2>3. LastChallenge(captured', N, stream) = ChallengeOf(stream)
    BY <1>2, <1>3, <2>2
  <2>4. ChallengeOf(stream)' = IF GivesChallenge(s) /\ s.stream = stream THEN s.text ELSE ChallengeOf(stream)
    BY DEF Challenging
  <2> QED
    BY <1>1, <2>1, <2>3, <2>4
<1>5. ASSUME NEW n \in DOMAIN hashes
      PROVE  /\ hashes[n].packet \in 1 .. N + 1
             /\ hashes[n].challenge = IF captured'[hashes[n].packet].bytes < 24 THEN None
                                      ELSE LastChallenge(captured', hashes[n].packet - 1, hashes[n].stream)
  <2>1. hashes[n].packet - 1 \in 0 .. N /\ hashes[n].packet \in 1 .. N /\ hashes[n].packet \in 1 .. N + 1
    BY <1>1, <1>2
  <2>2. captured'[hashes[n].packet] = captured[hashes[n].packet]
    BY <1>1, <2>1
  <2> QED
    BY <1>2, <1>3, <2>1, <2>2
<1>6. (\E S : hashes' \in Seq(S))
      /\ \A n \in DOMAIN hashes' :
            /\ hashes'[n].packet \in 1 .. N + 1
            /\ hashes'[n].challenge = IF captured'[hashes'[n].packet].bytes < 24 THEN None
                                      ELSE LastChallenge(captured', hashes'[n].packet - 1, hashes'[n].stream)
  <2>1. CASE hashes' = hashes
    BY <1>2, <1>5, <2>1
  <2>2. CASE hashes' # hashes
    <3>1. PICK h : /\ hashes' = Append(hashes, h) /\ h.packet = N + 1 /\ h.stream = s.stream
                   /\ h.challenge = IF s.bytes < 24 THEN None ELSE ChallengeOf(s.stream)
      BY <1>1, <2>2 DEF Challenging
    <3>2. PICK S : hashes \in Seq(S)
      BY <1>2
    <3>3. hashes' \in Seq(S \cup {h})
      <4>1. hashes \in Seq(S \cup {h}) /\ h \in S \cup {h}
        BY <3>2
      <4> QED
        BY <3>1, <4>1, Enqueued
    <3>4. \A k \in DOMAIN hashes' : hashes'[k] = h \/ \E j \in DOMAIN hashes : hashes'[k] = hashes[j]
      BY <3>1, <3>2, AppendElements
    <3>5. (N + 1) - 1 = N /\ N \in 0 .. N /\ N + 1 \in 1 .. N + 1
      BY <1>1
    <3>6. /\ h.packet \in 1 .. N + 1
          /\ h.challenge = IF captured'[h.packet].bytes < 24 THEN None
                           ELSE LastChallenge(captured', h.packet - 1, h.stream)
      BY <1>1, <1>2, <1>3, <3>1, <3>5
    <3> QED
      BY <1>5, <3>3, <3>4, <3>6
  <2> QED
    BY <2>1, <2>2
<1> QED
  BY <1>1, <1>4, <1>6 DEF ChallengesInv

LEMMA SoftwareStep ==
    ASSUME captured \in Seq(HandshakeSegments), SoftwareInv, NEW s \in HandshakeSegments,
           captured' = Append(captured, s), Introducing(s)
    PROVE  SoftwareInv'
<1> DEFINE N == Len(captured)
<1>1. /\ N \in Nat /\ DOMAIN captured = 1 .. N /\ Len(captured') = N + 1 /\ DOMAIN captured' = 1 .. N + 1
      /\ \A i \in 1 .. N : captured'[i] = captured[i]
      /\ captured'[N + 1] = s /\ Number = N + 1
  BY MessageTaken DEF Number
<1>2. /\ \A stream, dir : SoftwareOf(stream, dir) = LastBanner(captured, N, stream, dir)
      /\ \E S : exchanges \in Seq(S)
      /\ \A n \in DOMAIN exchanges :
            /\ exchanges[n].packet \in 1 .. N
            /\ exchanges[n].software = LastBanner(captured, exchanges[n].packet, captured[exchanges[n].packet].stream,
                                                  exchanges[n].dir)
  BY <1>1 DEF SoftwareInv
<1> HIDE DEF N
<1>3. ASSUME NEW n \in 0 .. N, NEW stream, NEW dir
      PROVE  LastBanner(captured', n, stream, dir) = LastBanner(captured, n, stream, dir)
  <2>1. n \in Nat /\ \A i \in 1 .. n : captured'[i] = captured[i]
    BY <1>1
  <2> QED
    BY ONLY <2>1, LastSaidStays
<1>4. ASSUME NEW stream, NEW dir PROVE SoftwareOf(stream, dir)' = LastBanner(captured', N + 1, stream, dir)
  <2>1. LastBanner(captured', N + 1, stream, dir) =
           IF GivesBanner(captured'[N + 1], stream, dir) THEN captured'[N + 1].banner ELSE LastBanner(captured', N, stream, dir)
    BY ONLY <1>1, LastSaidNext
  <2>2. N \in 0 .. N
    BY <1>1
  <2>3. LastBanner(captured', N, stream, dir) = SoftwareOf(stream, dir)
    BY <1>2, <1>3, <2>2
  <2>4. SoftwareOf(stream, dir)' =
           IF GivesBanner(s, stream, dir) THEN s.banner ELSE SoftwareOf(stream, dir)
    BY DEF Introducing
  <2> QED
    BY <1>1, <2>1, <2>3, <2>4
<1>5. ASSUME NEW n \in DOMAIN exchanges
      PROVE  /\ exchanges[n].packet \in 1 .. N + 1
             /\ exchanges[n].software = LastBanner(captured', exchanges[n].packet, captured'[exchanges[n].packet].stream,
                                                   exchanges[n].dir)
  <2>1. exchanges[n].packet \in 0 .. N /\ exchanges[n].packet \in 1 .. N /\ exchanges[n].packet \in 1 .. N + 1
    BY <1>1, <1>2
  <2>2. captured'[exchanges[n].packet] = captured[exchanges[n].packet]
    BY <1>1, <2>1
  <2> QED
    BY <1>2, <1>3, <2>1, <2>2
<1>6. (\E S : exchanges' \in Seq(S))
      /\ \A n \in DOMAIN exchanges' :
            /\ exchanges'[n].packet \in 1 .. N + 1
            /\ exchanges'[n].software = LastBanner(captured', exchanges'[n].packet,
                                                   captured'[exchanges'[n].packet].stream, exchanges'[n].dir)
  <2>1. CASE exchanges' = exchanges
    BY <1>2, <1>5, <2>1
  <2>2. CASE exchanges' # exchanges
    <3>1. PICK x : /\ exchanges' = Append(exchanges, x) /\ x.packet = N + 1 /\ x.dir = s.dir
                   /\ x.software = SoftwareOf(s.stream, s.dir)'
      BY <1>1, <2>2 DEF Introducing
    <3>2. PICK S : exchanges \in Seq(S)
      BY <1>2
    <3>3. exchanges' \in Seq(S \cup {x})
      <4>1. exchanges \in Seq(S \cup {x}) /\ x \in S \cup {x}
        BY <3>2
      <4> QED
        BY <3>1, <4>1, Enqueued
    <3>4. \A k \in DOMAIN exchanges' : exchanges'[k] = x \/ \E j \in DOMAIN exchanges : exchanges'[k] = exchanges[j]
      BY <3>1, <3>2, AppendElements
    <3>5. N + 1 \in 1 .. N + 1
      BY <1>1
    <3>6. /\ x.packet \in 1 .. N + 1
          /\ x.software = LastBanner(captured', x.packet, captured'[x.packet].stream, x.dir)
      BY <1>1, <1>4, <3>1, <3>5
    <3> QED
      BY <1>5, <3>3, <3>4, <3>6
  <2> QED
    BY <2>1, <2>2
<1> QED
  BY <1>1, <1>4, <1>6 DEF SoftwareInv

\* What is read of a record, or of the records of a segment, is of that record or segment.
LEMMA PartsAreOfTheWhole ==
    /\ \A r \in TlsRecord : MessagesRead(r) \in Seq({r.messages[k] : k \in DOMAIN r.messages})
    /\ \A s \in Tls : RecordsRead(s) \in Seq({s.records[k] : k \in DOMAIN s.records})
<1>1. ASSUME NEW r \in TlsRecord PROVE MessagesRead(r) \in Seq({r.messages[k] : k \in DOMAIN r.messages})
  <2> DEFINE q == r.messages
             T == {q[k] : k \in DOMAIN q}
             ends == {i \in DOMAIN q : q[i].is = "empty" \/ q[i].fits # "all"}
             n == IF ends = {} THEN Len(q) ELSE CHOOSE i \in ends : \A j \in ends : i <= j
  <2>1. q \in Seq(HandshakeMessage)
    BY DEF TlsRecord
  <2>2. Len(q) \in Nat /\ ends \in SUBSET (1 .. Len(q)) /\ Len(q) \in 0 .. Len(q)
    BY <2>1
  <2>3. q \in Seq(T)
    BY <2>1, OwnElements
  <2>4. MessagesRead(r) = IF r.is = "handshake" THEN SubSeq(q, 1, n) ELSE <<>>
    BY DEF MessagesRead
  <2> HIDE DEF q, T, ends
  <2>5. n \in 0 .. Len(q)
    BY <2>2, LeastOfSome
  <2> HIDE DEF n
  <2>6. SubSeq(q, 1, n) \in Seq(T)
    BY ONLY <2>3, <2>5, FirstElements
  <2>7. <<>> \in Seq(T)
    BY Nothing
  <2>8. MessagesRead(r) \in Seq(T)
    BY <2>4, <2>6, <2>7
  <2> QED
    BY <2>8 DEF T, q
<1>2. ASSUME NEW s \in Tls PROVE RecordsRead(s) \in Seq({s.records[k] : k \in DOMAIN s.records})
  <2> DEFINE q == s.records
             T == {q[k] : k \in DOMAIN q}
             ends == {i \in DOMAIN q : q[i].is = "unknown" \/ ~q[i].whole}
             first == CHOOSE i \in ends : \A j \in ends : i <= j
             n == IF ends = {} THEN Len(q) ELSE IF q[first].is = "unknown" THEN first - 1 ELSE first
  <2>1. q \in Seq(TlsRecord)
    BY DEF Tls
  <2>2. Len(q) \in Nat /\ ends \in SUBSET (1 .. Len(q)) /\ Len(q) \in 0 .. Len(q)
    BY <2>1
  <2>3. q \in Seq(T)
    BY <2>1, OwnElements
  <2>4. RecordsRead(s) = SubSeq(q, 1, n)
    BY DEF RecordsRead
  <2> HIDE DEF q, T, ends
  <2>5. ends # {} => first \in 0 .. Len(q) /\ first - 1 \in 0 .. Len(q)
    BY <2>2, LeastOfSome
  <2> HIDE DEF first
  <2>6. n \in 0 .. Len(q)
    BY <2>2, <2>5
  <2> HIDE DEF n
  <2>7. SubSeq(q, 1, n) \in Seq(T)
    BY ONLY <2>3, <2>6, FirstElements
  <2> QED
    BY <2>4, <2>7 DEF T, q
<1> QED
  BY <1>1, <1>2

LEMMA MessagesAreSent ==
    ASSUME NEW s \in Tls
    PROVE  AllMessages(s) \in Seq(MessagesIn(s))
<1> DEFINE rs == RecordsRead(s)
           N == Len(rs)
           T == MessagesIn(s)
           step == [p \in Nat \X Seq(T) |-> IF p[1] \in 1 .. N THEN p[2] \o MessagesRead(rs[p[1]]) ELSE p[2]]
           Recurs(g) == g = [n \in 0 .. N |-> IF n = 0 THEN <<>> ELSE g[n - 1] \o MessagesRead(rs[n])]
           g == CHOOSE h : Recurs(h)
<1>1. rs \in Seq({s.records[k] : k \in DOMAIN s.records})
  BY PartsAreOfTheWhole
<1>2. N \in Nat
  BY <1>1
<1>3. ASSUME NEW i \in 1 .. N PROVE MessagesRead(rs[i]) \in Seq(T)
  <2>1. PICK k \in DOMAIN s.records : rs[i] = s.records[k]
    BY <1>1
  <2>2. s.records[k] \in TlsRecord
    BY DEF Tls
  <2>3. MessagesRead(rs[i]) \in Seq({rs[i].messages[j] : j \in DOMAIN rs[i].messages})
    BY <2>1, <2>2, PartsAreOfTheWhole
  <2>4. {rs[i].messages[j] : j \in DOMAIN rs[i].messages} \subseteq T
    BY <2>1 DEF MessagesIn
  <2> HIDE DEF T
  <2> QED
    BY <2>3, <2>4
<1>4. AllMessages(s) = g[N]
  BY DEF AllMessages
<1> HIDE DEF rs, N, T
<1>5. step \in [Nat \X Seq(T) -> Seq(T)]
  BY <1>3, Joined
<1>6. ASSUME NEW i \in 1 .. N, NEW q \in Seq(T) PROVE step[<<i, q>>] = q \o MessagesRead(rs[i])
  <2>1. <<i, q>> \in Nat \X Seq(T)
    BY <1>2
  <2> QED
    BY <2>1
<1> HIDE DEF step
<1>7. PICK f \in [0 .. N -> Seq(T)] : f[0] = <<>> /\ \A i \in 1 .. N : f[i] = step[<<i, f[i - 1]>>]
  <2>1. FunctionUpTo(N, Seq(T), <<>>, step)
    BY <1>2, <1>5, Nothing, Recursion
  <2> QED
    BY <2>1 DEF FunctionUpTo
<1>8. ASSUME NEW i \in 1 .. N PROVE f[i] = f[i - 1] \o MessagesRead(rs[i])
  <2>1. i - 1 \in 0 .. N
    BY <1>2
  <2>2. f[i - 1] \in Seq(T)
    BY <2>1
  <2> QED
    BY <1>6, <1>7, <2>2
<1>9. Recurs(f)
  <2>1. ASSUME NEW i \in 0 .. N PROVE f[i] = IF i = 0 THEN <<>> ELSE f[i - 1] \o MessagesRead(rs[i])
    <3>1. i = 0 \/ i \in 1 .. N
      BY <1>2
    <3> QED
      BY <1>7, <1>8, <3>1
  <2> QED
    BY <2>1
<1>10. Recurs(g)
  <2> HIDE DEF Recurs
  <2> QED
    BY <1>9
<1> HIDE DEF g
<1>11. ASSUME NEW i \in 1 .. N PROVE g[i] = g[i - 1] \o MessagesRead(rs[i])
  <2>1. i \in 0 .. N /\ i # 0
    BY <1>2
  <2> QED
    BY <1>10, <2>1
<1> DEFINE S == {n \in Nat : n \in 0 .. N => g[n] \in Seq(T)}
<1>12. 0 \in S
  <2>1. g[0] = <<>>
    BY <1>2, <1>10
  <2> QED
    BY <2>1, Nothing
<1>13. ASSUME NEW n \in Nat, n \in S PROVE n + 1 \in S
  <2>1. CASE n + 1 \in 1 .. N
    <3>1. n \in 0 .. N /\ (n + 1) - 1 = n
      BY <1>2, <2>1
    <3>2. g[n + 1] = g[n] \o MessagesRead(rs[n + 1])
      BY <1>11, <2>1, <3>1
    <3>3. g[n] \in Seq(T) /\ MessagesRead(rs[n + 1]) \in Seq(T)
      BY <1>3, <1>13, <2>1, <3>1
    <3>4. g[n + 1] \in Seq(T)
      BY <3>2, <3>3, Joined
    <3> QED
      BY <3>4
  <2>2. CASE n + 1 \notin 1 .. N
    BY <1>2, <2>2
  <2> QED
    BY <2>1, <2>2
<1> HIDE DEF S
<1>14. N \in S
  BY <1>2, <1>12, <1>13, NatSet
<1> USE DEF S
<1>15. N \in 0 .. N
  BY <1>2
<1> QED
  BY <1>4, <1>14, <1>15 DEF T

\* The name a packet's hellos go by is one that a client of that packet asked for.
LEMMA NameIsAsked ==
    ASSUME NEW T, NEW ms \in Seq(T), NEW n \in 0 .. Len(ms)
    PROVE  SniBefore(ms, n) \in {m.text : m \in {x \in T : x.is = "client"}} \cup {None}
<1> DEFINE named == {i \in 1 .. n : ms[i].is = "client" /\ ms[i].fits \in {"all", "most"} /\ ms[i].text # ""}
           last == CHOOSE i \in named : \A j \in named : j <= i
<1>1. /\ n \in Nat /\ named \in SUBSET (1 .. n)
      /\ \A i \in named : ms[i] \in T /\ ms[i].is = "client"
  <2>1. Len(ms) \in Nat /\ ms \in [1 .. Len(ms) -> T]
    OBVIOUS
  <2>2. n \in Nat /\ \A i \in 1 .. n : i \in 1 .. Len(ms)
    BY <2>1
  <2>3. \A i \in 1 .. n : ms[i] \in T
    BY <2>1, <2>2
  <2> QED
    BY <2>2, <2>3
<1>2. SniBefore(ms, n) = IF named = {} THEN None ELSE ms[last].text
  BY DEF SniBefore
<1> HIDE DEF named
<1>3. named # {} => last \in named
  <2>1. named # {} => \E i \in named : \A j \in named : j <= i
    BY ONLY <1>1, MaxOfSome
  <2> QED
    BY <2>1
<1> HIDE DEF last
<1> QED
  BY <1>1, <1>2, <1>3

\* So is the name of every hello of it.
LEMMA HellosAreSent ==
    ASSUME NEW s, NEW T, NEW ms \in Seq(T), NEW H, hellos \in Seq(H), finishClientHello(s, ms),
           NEW lent, lent = {m.text : m \in {x \in T : x.is = "client"}} \cup {None},
           \A x \in lent : [packet |-> Number, sni |-> x] \in H
    PROVE  hellos' \in Seq(H)
<1> DEFINE N == Len(ms)
           next(i, q) == IF ms[i].is = "client" /\ ms[i].fits # "no"
                         THEN Append(q, [packet |-> Number, sni |-> SniBefore(ms, i)]) ELSE q
           step == [p \in Nat \X Seq(H) |-> IF p[1] \in 1 .. N THEN next(p[1], p[2]) ELSE p[2]]
           Recurs(g) == g = [n \in 0 .. N |-> IF n = 0 THEN <<>> ELSE IF ms[n].is = "client" /\ ms[n].fits # "no"
                         THEN Append(g[n - 1], [packet |-> Number, sni |-> SniBefore(ms, n)]) ELSE g[n - 1]]
           g == CHOOSE h : Recurs(h)
<1>1. N \in Nat
  OBVIOUS
<1>2. hellos' = hellos \o g[N]
  BY DEF finishClientHello
<1>3. ASSUME NEW i \in 1 .. N PROVE [packet |-> Number, sni |-> SniBefore(ms, i)] \in H
  <2>1. i \in 0 .. Len(ms)
    BY <1>1
  <2>2. SniBefore(ms, i) \in lent
    BY ONLY <2>1, ms \in Seq(T), lent = {m.text : m \in {x \in T : x.is = "client"}} \cup {None}, NameIsAsked
  <2> QED
    BY <2>2
<1> HIDE DEF N
<1>4. ASSUME NEW i \in 1 .. N, NEW q \in Seq(H) PROVE next(i, q) \in Seq(H)
  <2> DEFINE e == [packet |-> Number, sni |-> SniBefore(ms, i)]
  <2>1. e \in H
    BY <1>3
  <2> HIDE DEF e
  <2>2. Append(q, e) \in Seq(H)
    BY ONLY <1>4, <2>1, Enqueued
  <2> QED
    BY <2>2 DEF e
<1> HIDE DEF next
<1>5. step \in [Nat \X Seq(H) -> Seq(H)]
  BY <1>4
<1>6. ASSUME NEW i \in 1 .. N, NEW q \in Seq(H) PROVE step[<<i, q>>] = next(i, q)
  <2>1. <<i, q>> \in Nat \X Seq(H)
    BY <1>1
  <2> QED
    BY <2>1
<1> HIDE DEF step
<1>7. PICK f \in [0 .. N -> Seq(H)] : f[0] = <<>> /\ \A i \in 1 .. N : f[i] = step[<<i, f[i - 1]>>]
  <2>1. FunctionUpTo(N, Seq(H), <<>>, step)
    BY <1>1, <1>5, Nothing, Recursion
  <2> QED
    BY <2>1 DEF FunctionUpTo
<1>8. ASSUME NEW i \in 1 .. N PROVE f[i] = next(i, f[i - 1])
  <2>1. i - 1 \in 0 .. N
    BY <1>1
  <2>2. f[i - 1] \in Seq(H)
    BY <2>1
  <2> QED
    BY <1>6, <1>7, <2>2
<1>9. Recurs(f)
  <2>1. ASSUME NEW i \in 0 .. N
        PROVE f[i] = IF i = 0 THEN <<>> ELSE IF ms[i].is = "client" /\ ms[i].fits # "no"
                     THEN Append(f[i - 1], [packet |-> Number, sni |-> SniBefore(ms, i)]) ELSE f[i - 1]
    <3>1. i = 0 \/ i \in 1 .. N
      BY <1>1
    <3> QED
      BY <1>7, <1>8, <3>1 DEF next
  <2> QED
    BY <2>1
<1>10. Recurs(g)
  <2> HIDE DEF Recurs
  <2> QED
    BY <1>9
<1> HIDE DEF g
<1>11. ASSUME NEW i \in 1 .. N PROVE g[i] = next(i, g[i - 1])
  <2>1. i \in 0 .. N /\ i # 0
    BY <1>1
  <2> QED
    BY <1>10, <2>1 DEF next
<1> DEFINE S == {n \in Nat : n \in 0 .. N => g[n] \in Seq(H)}
<1>12. 0 \in S
  <2>1. g[0] = <<>>
    BY <1>1, <1>10
  <2> QED
    BY <2>1, Nothing
<1>13. ASSUME NEW n \in Nat, n \in S PROVE n + 1 \in S
  <2>1. CASE n + 1 \in 1 .. N
    <3>1. n \in 0 .. N /\ (n + 1) - 1 = n
      BY <1>1, <2>1
    <3>2. g[n + 1] = next(n + 1, g[n])
      BY <1>11, <2>1, <3>1
    <3>3. g[n + 1] \in Seq(H)
      BY <1>4, <1>13, <2>1, <3>1, <3>2
    <3> QED
      BY <3>3
  <2>2. CASE n + 1 \notin 1 .. N
    BY <1>1, <2>2
  <2> QED
    BY <2>1, <2>2
<1> HIDE DEF S
<1>14. N \in S
  BY <1>1, <1>12, <1>13, NatSet
<1> USE DEF S
<1>15. g[N] \in Seq(H)
  BY <1>1, <1>14
<1> QED
  BY <1>2, <1>15, Joined

LEMMA MessagesAreTyped ==
    ASSUME NEW s \in Tls
    PROVE  MessagesIn(s) \subseteq HandshakeMessage
<1>1. s.records \in Seq(TlsRecord)
  BY DEF Tls
<1>2. \A r \in TlsRecord : r.messages \in Seq(HandshakeMessage)
  BY DEF TlsRecord
<1>3. \A k \in DOMAIN s.records : s.records[k] \in TlsRecord
  BY <1>1
<1>4. \A r \in {s.records[k] : k \in DOMAIN s.records} : r.messages \in Seq(HandshakeMessage)
  BY <1>2, <1>3
<1> QED
  BY <1>4 DEF MessagesIn

\* What a segment does to the names: those of a TLS one come from its clients.
Naming(s) == (s \in Tls /\ TlsDissect(s)) \/ (s.proto # "tls" /\ UNCHANGED <<hellos, sni>>)

LEMMA NamesStep ==
    ASSUME captured \in Seq(HandshakeSegments), NamesInv, NEW s \in HandshakeSegments,
           captured' = Append(captured, s), Naming(s)
    PROVE  NamesInv'
<1> DEFINE N == Len(captured)
           H == HelloOf(captured')
           lent == NamesIn(s) \cup {None}
<1>1. /\ N \in Nat /\ DOMAIN captured = 1 .. N /\ DOMAIN captured' = 1 .. N + 1
      /\ \A i \in 1 .. N : captured'[i] = captured[i]
      /\ captured'[N + 1] = s /\ Number = N + 1
  BY MessageTaken DEF Number
<1>2. N + 1 \in 1 .. N + 1 /\ \A i \in 1 .. N : i \in 1 .. N + 1
  BY <1>1
<1>3. hellos \in Seq(HelloOf(captured))
  BY DEF NamesInv
<1>4. /\ \A stream : SniOf(stream) = LastNameOf(captured, N, stream)
      /\ \A st \in DOMAIN sni : st \in HandshakeStreams /\ sni[st] # None
  BY DEF NamesInv
<1> HIDE DEF N
<1>5. HelloOf(captured) \subseteq H
  <2> SUFFICES ASSUME NEW h \in HelloOf(captured) PROVE h \in H
    OBVIOUS
  <2>1. h \in [packet : 1 .. N, sni : STRING \cup {None}] /\ (h.sni # None => h.sni \in NamesIn(captured[h.packet]))
    BY <1>1 DEF HelloOf
  <2>2. h \in [packet : 1 .. N + 1, sni : STRING \cup {None}] /\ h.packet \in 1 .. N
    BY <1>2, <2>1
  <2>3. captured'[h.packet] = captured[h.packet]
    BY <1>1, <2>2
  <2> QED
    BY <1>1, <2>1, <2>2, <2>3 DEF HelloOf
<1>6. hellos \in Seq(H)
  <2> DEFINE K == HelloOf(captured)
  <2> HIDE DEF H, K
  <2> QED
    BY <1>3, <1>5 DEF K
<1>7. \A stream : LastNameOf(captured', N + 1, stream) =
                     IF GivesName(s, stream) THEN NameGiven(s) ELSE SniOf(stream)
  <2> SUFFICES ASSUME NEW stream
               PROVE  LastNameOf(captured', N + 1, stream) = IF GivesName(s, stream) THEN NameGiven(s) ELSE SniOf(stream)
    OBVIOUS
  <2>1. N \in Nat /\ \A i \in 1 .. N : captured'[i] = captured[i]
    BY <1>1
  <2>2. LastNameOf(captured', N, stream) = LastNameOf(captured, N, stream)
    BY ONLY <2>1, LastNameStays
  <2>3. LastNameOf(captured', N + 1, stream) =
           IF GivesName(captured'[N + 1], stream) THEN NameGiven(captured'[N + 1]) ELSE LastNameOf(captured', N, stream)
    BY ONLY <2>1, LastSaidNext
  <2> QED
    BY <1>1, <1>4, <2>2, <2>3
<1>8. CASE s.proto # "tls" /\ UNCHANGED <<hellos, sni>>
  <2>1. \A stream : SniOf(stream)' = SniOf(stream) /\ ~GivesName(s, stream)
    BY <1>8 DEF SniOf, GivesName
  <2>2. \A stream : SniOf(stream)' = LastNameOf(captured', N + 1, stream)
    BY <1>7, <2>1
  <2>3. Len(captured') = N + 1
    BY <1>1
  <2> QED
    BY <1>4, <1>6, <1>8, <2>2, <2>3 DEF NamesInv
<1>9. CASE s \in Tls /\ TlsDissect(s)
  <2> DEFINE T == MessagesIn(s)
             ms == AllMessages(s)
  <2>1. ms \in Seq(T)
    BY <1>9, MessagesAreSent
  <2>2. /\ s.proto = "tls" /\ finishClientHello(s, ms)
        /\ sni' = NameStream(s, NameGiven(s))
    BY <1>9 DEF TlsDissect, NameGiven
  <2>3. lent = {m.text : m \in {x \in T : x.is = "client"}} \cup {None}
    BY DEF NamesIn
  <2>4. NamesIn(s) \subseteq STRING
    <3>2. MessagesIn(s) \subseteq HandshakeMessage
      BY <1>9, MessagesAreTyped
    <3>3. \A m \in HandshakeMessage : m.text \in STRING
      BY DEF HandshakeMessage
    <3> QED
      BY <3>2, <3>3 DEF NamesIn
  <2>5. ASSUME NEW x \in lent PROVE [packet |-> Number, sni |-> x] \in H
    <3>1. x \in STRING \cup {None} /\ (x # None => x \in NamesIn(captured'[N + 1]))
      BY <1>1, <2>4
    <3> QED
      BY <1>1, <1>2, <3>1 DEF HelloOf
  <2> HIDE DEF lent, T, ms, H
  <2>6. hellos' \in Seq(H)
    BY ONLY <1>6, <2>1, <2>2, <2>3, <2>5, HellosAreSent
  <2>7. \A stream : SniOf(stream)' = IF GivesName(s, stream) THEN NameGiven(s) ELSE SniOf(stream)
    BY <2>2 DEF NameStream, Put, SniOf, GivesName
  <2>8. \A stream : SniOf(stream)' = LastNameOf(captured', N + 1, stream)
    BY <1>7, <2>7
  <2>9. \A st \in DOMAIN sni' : st \in HandshakeStreams /\ sni'[st] # None
    <3>1. s.stream \in HandshakeStreams
      BY <1>9 DEF Tls
    <3> QED
      BY <1>4, <2>2, <3>1 DEF NameStream, Put
  <2>10. Len(captured') = N + 1
    BY <1>1
  <2> QED
    BY <2>6, <2>8, <2>9, <2>10 DEF NamesInv, H
<1> QED
  BY <1>8, <1>9 DEF Naming

\* An SMB segment changes the challenge of its own stream only, and puts a response
\* together with the challenge its own stream is in.
LEMMA SmbChallenges ==
    ASSUME NEW s \in HandshakeSegments, SmbDissect(s)
    PROVE  Challenging(s)
<1> DEFINE gives == GivesChallenge(s)
<1>1. s \in Smb /\ s.proto = "smb"
  BY HandshakesAssumption DEF SmbDissect, Ssh, Tls
<1>2. s.dialect \in {1, 2} /\ s.dir \in {0, 1} /\ s.bytes \in Nat /\ s.ntlm \in 0 .. 3
  BY <1>1 DEF Smb
<1>3. \A stream : UNCHANGED challenges => ChallengeOf(stream)' = ChallengeOf(stream)
  BY DEF ChallengeOf
<1>4. CASE UNCHANGED <<challenges, hashes>> /\ ~gives
  BY <1>3, <1>4 DEF Challenging
<1>5. CASE handleSecurityBlob(s) /\ (gives <=> s.ntlm = 2 /\ s.text # "")
  <2>1. ASSUME NEW stream
        PROVE  ChallengeOf(stream)' = IF gives /\ s.stream = stream THEN s.text ELSE ChallengeOf(stream)
    <3>1. CASE gives
      <4>1. challenges' = Put(challenges, s.stream, s.text)
        BY <1>5, <3>1 DEF handleSecurityBlob
      <4> QED
        BY <3>1, <4>1 DEF Put, ChallengeOf
    <3>2. CASE ~gives
      BY <1>3, <1>5, <3>2 DEF handleSecurityBlob
    <3> QED
      BY <3>1, <3>2
  <2>2. \/ hashes' = hashes
        \/ \E h : /\ hashes' = Append(hashes, h) /\ h.packet = Number /\ h.stream = s.stream
                  /\ h.challenge = IF s.bytes < 24 THEN None ELSE ChallengeOf(s.stream)
    <3>1. CASE s.ntlm = 3
      <4> DEFINE c == ChallengeOf(s.stream)
                 h == buildSecret(s, c)
      <4>1. hashes' = Append(hashes, h)
        BY <1>5, <3>1 DEF handleSecurityBlob
      <4>2. h.packet = Number /\ h.stream = s.stream
        BY DEF buildSecret
      <4>3. h.challenge = IF Format(s.bytes, c) = "hex" THEN None ELSE c
        BY DEF buildSecret
      <4> HIDE DEF c, h
      <4>4. h.challenge = IF s.bytes < 24 THEN None ELSE c
        BY <1>2, <4>3 DEF Format
      <4> QED
        BY <4>1, <4>2, <4>4 DEF c
    <3>2. CASE s.ntlm # 3
      BY <1>5, <3>2 DEF handleSecurityBlob
    <3> QED
      BY <3>1, <3>2
  <2> QED
    BY <2>1, <2>2 DEF Challenging
<1>6. CASE s.dialect = 2
  <2>1. dissectSmb2(s)
    BY <1>6 DEF SmbDissect
  <2>2. CASE ~s.whole
    BY <1>4, <2>1, <2>2 DEF dissectSmb2, smbVars, GivesChallenge
  <2>3. CASE s.whole /\ s.command = "setup"
    BY <1>5, <1>6, <1>1, <2>1, <2>3 DEF dissectSmb2, GivesChallenge
  <2>4. CASE s.whole /\ s.command # "setup"
    BY <1>4, <2>1, <2>4 DEF dissectSmb2, smbVars, GivesChallenge
  <2> QED
    BY <2>2, <2>3, <2>4
<1>7. CASE s.dialect = 1
  <2>1. dissectSmb1(s)
    BY <1>7 DEF SmbDissect
  <2>2. CASE ~s.whole \/ s.dir = 1
    <3>1. UNCHANGED smbVars
      BY <2>1, <2>2 DEF dissectSmb1
    <3>2. ~gives
      <4>1. CASE ~s.whole
        BY <4>1 DEF GivesChallenge
      <4>2. CASE s.dir = 1
        BY <1>7, <4>2 DEF GivesChallenge
      <4> QED
        BY <2>2, <4>1, <4>2
    <3> QED
      BY <1>4, <3>1, <3>2 DEF smbVars
  <2>3. CASE s.whole /\ s.dir = 0 /\ s.command = "setup"
    BY <1>5, <1>7, <1>1, <2>1, <2>3 DEF dissectSmb1, GivesChallenge
  <2>4. CASE s.whole /\ s.dir = 0 /\ s.command # "setup"
    BY <1>4, <2>1, <2>4 DEF dissectSmb1, smbVars, GivesChallenge
  <2> QED
    BY <1>2, <2>2, <2>3, <2>4
<1> QED
  BY <1>2, <1>6, <1>7

\* An SSH segment changes the software of its own end only, and shows a key exchange with
\* what that end has by then.
LEMMA SshIntroduces ==
    ASSUME NEW s \in HandshakeSegments, SshDissect(s)
    PROVE  Introducing(s)
<1>1. s.proto = "ssh" /\ software' = Banners(s) /\ parseKexinit(s)
  BY DEF SshDissect
<1>2. ASSUME NEW stream, NEW dir
      PROVE  SoftwareOf(stream, dir)' = IF GivesBanner(s, stream, dir) THEN s.banner ELSE SoftwareOf(stream, dir)
  <2>1. CASE s.banner = ""
    BY <1>1, <2>1 DEF Banners, SoftwareOf, GivesBanner
  <2>2. CASE s.banner # ""
    <3>1. software' = Put(software, <<s.stream, s.dir>>, s.banner)
      BY <1>1, <2>2 DEF Banners, End
    <3>2. GivesBanner(s, stream, dir) <=> <<stream, dir>> = <<s.stream, s.dir>>
      BY <1>1, <2>2 DEF GivesBanner
    <3> QED
      BY <3>1, <3>2 DEF Put, SoftwareOf
  <2> QED
    BY <2>1, <2>2
<1>3. \/ exchanges' = exchanges
      \/ \E x : /\ exchanges' = Append(exchanges, x) /\ x.packet = Number /\ x.dir = s.dir
                /\ x.software = SoftwareOf(s.stream, s.dir)'
  BY <1>1 DEF parseKexinit, SoftwareOf, End
<1> QED
  BY <1>2, <1>3 DEF Introducing

LEMMA HandshakesStep ==
    ASSUME captured \in Seq(HandshakeSegments), ChallengesInv, SoftwareInv, NamesInv, HandshakesNext
    PROVE  captured' \in Seq(HandshakeSegments) /\ ChallengesInv' /\ SoftwareInv' /\ NamesInv'
<1>1. PICK s \in HandshakeSegments : (SmbDissect(s) \/ SshDissect(s) \/ TlsDissect(s)) /\ captured' = Append(captured, s)
  BY DEF HandshakesNext, Receive
<1>2. captured' \in Seq(HandshakeSegments)
  BY <1>1, Enqueued
<1>3. UNCHANGED <<challenges, hashes>> /\ s.proto # "smb" => Challenging(s)
  <2>1. \A stream : UNCHANGED challenges => ChallengeOf(stream)' = ChallengeOf(stream)
    BY DEF ChallengeOf
  <2> QED
    BY <2>1 DEF Challenging, GivesChallenge
<1>4. UNCHANGED <<software, exchanges>> /\ s.proto # "ssh" => Introducing(s)
  <2>1. \A stream, dir : UNCHANGED software => SoftwareOf(stream, dir)' = SoftwareOf(stream, dir)
    BY DEF SoftwareOf
  <2> QED
    BY <2>1 DEF Introducing, GivesBanner
<1>5. Challenging(s) /\ Introducing(s) /\ Naming(s)
  <2>1. CASE SmbDissect(s)
    <3>1. s.proto = "smb" /\ UNCHANGED <<sshVars, tlsVars>>
      BY <2>1 DEF SmbDissect
    <3> QED
      BY <1>4, <2>1, <3>1, SmbChallenges DEF sshVars, tlsVars, Naming
  <2>2. CASE SshDissect(s)
    <3>1. s.proto = "ssh" /\ UNCHANGED <<smbVars, tlsVars>>
      BY <2>2 DEF SshDissect
    <3> QED
      BY <1>3, <2>2, <3>1, SshIntroduces DEF smbVars, tlsVars, Naming
  <2>3. CASE TlsDissect(s)
    <3>1. s.proto = "tls" /\ UNCHANGED <<smbVars, sshVars>>
      BY <2>3 DEF TlsDissect
    <3>2. s \in Tls
      BY <3>1, HandshakesAssumption DEF Smb, Ssh
    <3> QED
      BY <1>3, <1>4, <2>3, <3>1, <3>2 DEF smbVars, sshVars, Naming
  <2> QED
    BY <1>1, <2>1, <2>2, <2>3
<1> QED
  BY <1>1, <1>2, <1>5, ChallengesStep, SoftwareStep, NamesStep

LEMMA HandshakesInvInductive ==
    /\ Init => HandshakesInv
    /\ HandshakesInv /\ [Next]_vars => HandshakesInv'
<1>1. Init => HandshakesInv
  <2> SUFFICES ASSUME Init
               PROVE  captured \in Seq(HandshakeSegments) /\ ChallengesInv /\ SoftwareInv /\ NamesInv
    BY DEF HandshakesInv
  <2>1. captured = <<>> /\ challenges = <<>> /\ hashes = <<>> /\ software = <<>> /\ exchanges = <<>>
        /\ hellos = <<>> /\ sni = <<>>
    BY DEF Init, CaptureInit, HandshakesInit
  <2>2. captured \in Seq(HandshakeSegments) /\ hashes \in Seq({}) /\ exchanges \in Seq({})
        /\ hellos \in Seq(HelloOf(captured))
    BY <2>1, Nothing
  <2>3. /\ DOMAIN captured = {} /\ DOMAIN challenges = {} /\ DOMAIN hashes = {} /\ DOMAIN software = {}
        /\ DOMAIN exchanges = {} /\ DOMAIN sni = {} /\ Len(captured) = 0 /\ 1 .. 0 = {}
    BY <2>1
  <2>4. ASSUME NEW stream PROVE ChallengeOf(stream) = LastChallenge(captured, Len(captured), stream)
    BY <2>3 DEF ChallengeOf, LastChallenge, ChallengesIn
  <2>5. ASSUME NEW stream, NEW dir
        PROVE  SoftwareOf(stream, dir) = LastBanner(captured, Len(captured), stream, dir)
    BY <2>3 DEF SoftwareOf, LastBanner, BannersIn
  <2>6. ChallengesInv
    BY <2>2, <2>3, <2>4 DEF ChallengesInv
  <2>7. SoftwareInv
    BY <2>2, <2>3, <2>5 DEF SoftwareInv
  <2>8. NamesInv
    <3>1. \A stream : SniOf(stream) = None /\ LastNameOf(captured, Len(captured), stream) = None
      BY <2>3 DEF SniOf, LastNameOf, NamingsIn
    <3> QED
      BY <2>2, <2>3, <3>1 DEF NamesInv
  <2> QED
    BY <2>2, <2>6, <2>7, <2>8
<1>2. ASSUME HandshakesInv, [Next]_vars, traffic' = "handshakes"
      PROVE  (captured \in Seq(HandshakeSegments) /\ ChallengesInv /\ SoftwareInv /\ NamesInv)'
  <2>1. (HandshakesNext /\ traffic = "handshakes") \/ UNCHANGED <<traffic, captured, handshakeVars>>
    BY <1>2, ByTraffic DEF SessionTraffic
  <2>2. CASE HandshakesNext /\ traffic = "handshakes"
    BY <1>2, <2>2, HandshakesStep DEF HandshakesInv
  <2>3. CASE UNCHANGED <<traffic, captured, handshakeVars>>
    <3>1. captured \in Seq(HandshakeSegments) /\ ChallengesInv /\ SoftwareInv /\ NamesInv
      BY <1>2, <2>3 DEF HandshakesInv
    <3>2. UNCHANGED <<captured, challenges, hashes, software, exchanges, hellos, sni>>
      BY <2>3 DEF handshakeVars, smbVars, sshVars, tlsVars
    <3>3. ChallengesInv'
      BY <3>1, <3>2 DEF ChallengesInv, ChallengeOf
    <3>4. SoftwareInv'
      BY <3>1, <3>2 DEF SoftwareInv, SoftwareOf
    <3>5. NamesInv'
      BY <3>1, <3>2 DEF NamesInv, SniOf
    <3> QED
      BY <3>1, <3>2, <3>3, <3>4, <3>5
  <2> QED
    BY <2>1, <2>2, <2>3
<1> QED
  BY <1>1, <1>2 DEF HandshakesInv

LEMMA HandshakesInvSuffices == HandshakesInv => HandshakesStayApart
<1> SUFFICES ASSUME traffic = "handshakes", captured \in Seq(HandshakeSegments), ChallengesInv, SoftwareInv, NamesInv
             PROVE  HandshakesStayApart
  BY DEF HandshakesInv, HandshakesStayApart
<1>1. ASSUME NEW n \in DOMAIN hashes
      PROVE  IF Challenged(hashes[n]) = {} \/ captured[hashes[n].packet].bytes < 24
             THEN hashes[n].challenge = None
             ELSE hashes[n].challenge = captured[Latest(Challenged(hashes[n]))].text
  <2> DEFINE h == hashes[n]
             given == ChallengesIn(captured, h.packet - 1, h.stream)
  <2>1. Challenged(h) = given
    BY DEF Challenged, ChallengesIn, GivesChallenge
  <2>2. h.challenge = IF captured[h.packet].bytes < 24 THEN None ELSE LastChallenge(captured, h.packet - 1, h.stream)
    BY DEF ChallengesInv
  <2>3. LastChallenge(captured, h.packet - 1, h.stream) = IF given = {} THEN None ELSE captured[Latest(given)].text
    BY DEF LastChallenge
  <2> HIDE DEF h, given
  <2>4. IF Challenged(h) = {} \/ captured[h.packet].bytes < 24
        THEN h.challenge = None ELSE h.challenge = captured[Latest(Challenged(h))].text
    BY <2>1, <2>2, <2>3
  <2> QED
    BY <2>4 DEF h
<1>2. ASSUME NEW n \in DOMAIN exchanges
      PROVE  exchanges[n].software = IF Bannered(exchanges[n]) = {} THEN None
                                     ELSE captured[Latest(Bannered(exchanges[n]))].banner
  <2> DEFINE x == exchanges[n]
             given == BannersIn(captured, x.packet, captured[x.packet].stream, x.dir)
  <2>1. Bannered(x) = given
    BY DEF Bannered, BannersIn, GivesBanner
  <2>2. x.software = LastBanner(captured, x.packet, captured[x.packet].stream, x.dir)
    BY DEF SoftwareInv
  <2>3. LastBanner(captured, x.packet, captured[x.packet].stream, x.dir)
           = IF given = {} THEN None ELSE captured[Latest(given)].banner
    BY DEF LastBanner
  <2> HIDE DEF given
  <2> QED
    BY <2>1, <2>2, <2>3
<1>3. \A i : NamesAsked(i) = NamesIn(captured[i])
  BY DEF NamesAsked, NamesIn, MessagesIn
<1>4. ASSUME NEW n \in DOMAIN hellos, hellos[n].sni # None
      PROVE  hellos[n].sni \in NamesAsked(hellos[n].packet)
  <2> DEFINE K == HelloOf(captured)
  <2>1. \A h \in K : h.sni # None => h.sni \in NamesIn(captured[h.packet])
    BY DEF HelloOf
  <2>2. hellos \in Seq(K)
    BY DEF NamesInv
  <2> HIDE DEF K
  <2>3. hellos[n] \in K
    BY <2>2
  <2> QED
    BY <1>3, <1>4, <2>1, <2>3
<1>5. ASSUME NEW i \in DOMAIN captured, captured[i].proto = "tls"
      PROVE  /\ NameGiven(captured[i]) # None <=> HellosWithName(i) # {}
             /\ HellosWithName(i) # {} => NameGiven(captured[i]) = LastName(i)
  <2> DEFINE s == captured[i]
             ms == AllMessages(s)
             named == {k \in 1 .. Len(ms) : ms[k].is = "client" /\ ms[k].fits \in {"all", "most"} /\ ms[k].text # ""}
  <2>1. s \in HandshakeSegments
    OBVIOUS
  <2>2. s \in Tls
    BY <1>5, <2>1, HandshakesAssumption DEF Smb, Ssh
  <2>3. ms \in Seq(MessagesIn(s)) /\ MessagesIn(s) \subseteq HandshakeMessage
    BY <2>2, MessagesAreSent, MessagesAreTyped
  <2>4. Len(ms) \in Nat /\ DOMAIN ms = 1 .. Len(ms) /\ \A k \in 1 .. Len(ms) : ms[k].text \in STRING
    <3>1. \A m \in HandshakeMessage : m.text \in STRING
      BY DEF HandshakeMessage
    <3> HIDE DEF s, ms
    <3> QED
      BY <2>3, <3>1
  <2>5. HellosWithName(i) = named
    BY <2>4 DEF HellosWithName
  <2>6. NameGiven(s) = IF named = {} THEN None ELSE ms[Latest(named)].text
    BY DEF NameGiven, SniBefore, Latest
  <2>7. LastName(i) = ms[Latest(named)].text
    BY <2>5 DEF LastName
  <2>8. named \in SUBSET (1 .. Len(ms))
    OBVIOUS
  <2> HIDE DEF s, ms, named
  <2>9. named # {} => ms[Latest(named)].text # None
    <3>1. named # {} => Latest(named) \in 1 .. Len(ms)
      BY <2>4, <2>8, LatestOfSome
    <3> QED
      BY <2>4, <3>1, CaptureAssumption
  <2>10. (NameGiven(s) # None <=> HellosWithName(i) # {}) /\ (HellosWithName(i) # {} => NameGiven(s) = LastName(i))
    BY <2>5, <2>6, <2>7, <2>9
  <2> QED
    BY <2>10 DEF s
<1>6. Len(captured) \in Nat /\ DOMAIN captured = 1 .. Len(captured)
  OBVIOUS
<1>7. ASSUME NEW st PROVE NamingPackets(st) = NamingsIn(captured, Len(captured), st)
  BY <1>5, <1>6 DEF NamingPackets, NamingsIn, GivesName
<1>8. ASSUME NEW st
      PROVE  /\ st \in DOMAIN sni <=> NamingPackets(st) # {}
             /\ st \in DOMAIN sni => st \in HandshakeStreams /\ sni[st] = LastName(Latest(NamingPackets(st)))
  <2> DEFINE given == NamingPackets(st)
             at == Latest(given)
  <2>1. SniOf(st) = IF given = {} THEN None ELSE NameGiven(captured[at])
    BY <1>7 DEF NamesInv, LastNameOf
  <2>2. given \in SUBSET (1 .. Len(captured))
    BY <1>6 DEF NamingPackets
  <2>3. given # {} => at \in given
    BY <1>6, <2>2, LatestOfSome
  <2>4. \A i \in given : i \in DOMAIN captured /\ captured[i].proto = "tls" /\ HellosWithName(i) # {}
    BY DEF NamingPackets
  <2> HIDE DEF given, at
  <2>5. given # {} => NameGiven(captured[at]) # None /\ NameGiven(captured[at]) = LastName(at)
    BY <1>5, <2>3, <2>4
  <2>6. st \in DOMAIN sni => st \in HandshakeStreams /\ sni[st] # None
    BY DEF NamesInv
  <2>7. /\ st \in DOMAIN sni <=> given # {}
        /\ st \in DOMAIN sni => st \in HandshakeStreams /\ sni[st] = LastName(at)
    BY <2>1, <2>5, <2>6 DEF SniOf
  <2> QED
    BY <2>7 DEF given, at
<1>9. DOMAIN sni = {st \in HandshakeStreams : NamingPackets(st) # {}}
  BY <1>8
<1> QED
  BY <1>1, <1>2, <1>4, <1>8, <1>9 DEF HandshakesStayApart

\* An NTLM response is shown with the last challenge of its own stream, a key exchange
\* with the last banner of its own end of its own stream, a hello with a name asked for in
\* its packet, and a connection with the last name that was asked for on it, whatever the
\* other connections said in between (smb.js:142-169, ssh.js:43-116, tls.js:167, 233-258).
THEOREM HandshakesAreKeptApart == Spec => []HandshakesStayApart
<1> QED
  BY HandshakesInvInductive, HandshakesInvSuffices, PTL DEF Spec

-----------------------------------------------------------------------------
(* SMTP: mails and their envelopes *)

\* Whether what follows the first n segments of a capture is a body for the client of
\* stream x.
NextMode(e, x, mode) == IF ~(e.stream = x /\ e.dir = 0) THEN mode
                        ELSE IF mode = "body" THEN IF e.dot THEN "commands" ELSE "body"
                        ELSE IF e.verb = "DATA" THEN "body" ELSE "commands"
ModeAt(cap, n, x) ==
    LET mode[i \in 0 .. n] ==
            IF i = 0 THEN "commands"
            ELSE IF ~(cap[i].stream = x /\ cap[i].dir = 0) THEN mode[i - 1]
            ELSE IF mode[i - 1] = "body" THEN IF cap[i].dot THEN "commands" ELSE "body"
            ELSE IF cap[i].verb = "DATA" THEN "body" ELSE "commands"
    IN mode[n]
Modes(g, cap, n, x) == g[0] = "commands" /\ \A i \in 1 .. n : g[i] = NextMode(cap[i], x, g[i - 1])

LEMMA ModeIsLast ==
    ASSUME NEW cap, NEW x, NEW N \in Nat
    PROVE  \E g : Modes(g, cap, N, x) /\ ModeAt(cap, N, x) = g[N]
<1> DEFINE T == {"body", "commands"}
           step == [p \in Nat \X T |-> NextMode(cap[p[1]], x, p[2])]
           Recurs(g) == g = [i \in 0 .. N |-> IF i = 0 THEN "commands"
                                ELSE IF ~(cap[i].stream = x /\ cap[i].dir = 0) THEN g[i - 1]
                                ELSE IF g[i - 1] = "body" THEN IF cap[i].dot THEN "commands" ELSE "body"
                                ELSE IF cap[i].verb = "DATA" THEN "body" ELSE "commands"]
           g == CHOOSE h : Recurs(h)
<1>1. ModeAt(cap, N, x) = g[N]
  BY DEF ModeAt
<1>2. step \in [Nat \X T -> T]
  BY DEF NextMode
<1>3. ASSUME NEW i \in 1 .. N, NEW q \in T PROVE step[<<i, q>>] = NextMode(cap[i], x, q)
  <2>1. <<i, q>> \in Nat \X T
    OBVIOUS
  <2> QED
    BY <2>1
<1>4. "commands" \in T
  OBVIOUS
<1> HIDE DEF step, T
<1>5. PICK f \in [0 .. N -> T] : f[0] = "commands" /\ \A i \in 1 .. N : f[i] = step[<<i, f[i - 1]>>]
  <2>1. FunctionUpTo(N, T, "commands", step)
    BY <1>2, <1>4, Recursion
  <2> QED
    BY <2>1 DEF FunctionUpTo
<1>6. ASSUME NEW i \in 1 .. N PROVE f[i] = NextMode(cap[i], x, f[i - 1])
  <2>1. i - 1 \in 0 .. N
    OBVIOUS
  <2>2. f[i - 1] \in T
    BY <2>1
  <2> QED
    BY <1>3, <1>5, <2>2
<1>7. Recurs(f)
  <2>1. ASSUME NEW i \in 0 .. N
        PROVE f[i] = IF i = 0 THEN "commands"
                     ELSE IF ~(cap[i].stream = x /\ cap[i].dir = 0) THEN f[i - 1]
                     ELSE IF f[i - 1] = "body" THEN IF cap[i].dot THEN "commands" ELSE "body"
                     ELSE IF cap[i].verb = "DATA" THEN "body" ELSE "commands"
    <3>1. i = 0 \/ i \in 1 .. N
      OBVIOUS
    <3> QED
      BY <1>5, <1>6, <3>1 DEF NextMode
  <2> QED
    BY <2>1
<1>8. Recurs(g)
  <2> HIDE DEF Recurs
  <2> QED
    BY <1>7
<1> HIDE DEF g
<1>9. g[0] = "commands"
  BY <1>8
<1>10. ASSUME NEW i \in 1 .. N PROVE g[i] = NextMode(cap[i], x, g[i - 1])
  <2>1. i \in 0 .. N /\ i # 0
    OBVIOUS
  <2> QED
    BY <1>8, <2>1 DEF NextMode
<1> QED
  BY <1>1, <1>9, <1>10 DEF Modes

\* It depends on nothing else.
LEMMA SameModes ==
    ASSUME NEW N \in Nat, NEW cap, NEW new, \A i \in 1 .. N : new[i] = cap[i], NEW x,
           NEW g, Modes(g, cap, N, x), NEW h, Modes(h, new, N, x)
    PROVE  h[N] = g[N]
<1> DEFINE S == {n \in Nat : n <= N => h[n] = g[n]}
<1>1. 0 \in S
  BY DEF Modes
<1>2. ASSUME NEW n \in Nat, n \in S PROVE n + 1 \in S
  <2>1. CASE n + 1 <= N
    <3>1. n + 1 \in 1 .. N /\ (n + 1) - 1 = n /\ n <= N
      BY <2>1
    <3>2. h[n] = g[n] /\ new[n + 1] = cap[n + 1]
      BY <1>2, <3>1
    <3>3. h[n + 1] = NextMode(new[n + 1], x, h[n]) /\ g[n + 1] = NextMode(cap[n + 1], x, g[n])
      BY <3>1 DEF Modes
    <3> QED
      BY <3>2, <3>3
  <2>2. CASE ~(n + 1 <= N)
    BY <2>2
  <2> QED
    BY <2>1, <2>2
<1> HIDE DEF S
<1>3. N \in S
  BY <1>1, <1>2, NatSet
<1> QED
  BY <1>3 DEF S

\* Two captures have the same first n segments.
Agree(new, cap, n) == \A i \in 1 .. n : new[i] = cap[i]

LEMMA ModeStays ==
    ASSUME NEW n \in Nat, NEW cap, NEW new, Agree(new, cap, n), NEW x
    PROVE  ModeAt(new, n, x) = ModeAt(cap, n, x)
<1>1. PICK g : Modes(g, cap, n, x) /\ ModeAt(cap, n, x) = g[n]
  BY ModeIsLast
<1>2. PICK h : Modes(h, new, n, x) /\ ModeAt(new, n, x) = h[n]
  BY ModeIsLast
<1>3. h[n] = g[n]
  BY <1>1, <1>2, SameModes DEF Agree
<1> QED
  BY <1>1, <1>2, <1>3

LEMMA ModeNext ==
    ASSUME NEW N \in Nat, NEW cap, NEW x
    PROVE  /\ ModeAt(cap, N + 1, x) = NextMode(cap[N + 1], x, ModeAt(cap, N, x))
           /\ ModeAt(cap, N, x) \in {"body", "commands"}
           /\ ModeAt(cap, 0, x) = "commands"
<1>1. PICK g : Modes(g, cap, N + 1, x) /\ ModeAt(cap, N + 1, x) = g[N + 1]
  BY ModeIsLast
<1>2. PICK h : Modes(h, cap, N, x) /\ ModeAt(cap, N, x) = h[N]
  BY ModeIsLast
<1>3. N + 1 \in 1 .. N + 1 /\ (N + 1) - 1 = N /\ \A i \in 1 .. N : i \in 1 .. N + 1
  OBVIOUS
<1>4. Modes(g, cap, N, x) /\ g[N + 1] = NextMode(cap[N + 1], x, g[N])
  BY <1>1, <1>3 DEF Modes
<1>5. g[N] = h[N]
  BY <1>2, <1>4, SameModes
<1>6. ModeAt(cap, 0, x) = "commands"
  BY ModeIsLast DEF Modes
<1> DEFINE S == {n \in Nat : n <= N => h[n] \in {"body", "commands"}}
<1>7. 0 \in S
  BY <1>2 DEF Modes
<1>8. ASSUME NEW n \in Nat, n \in S PROVE n + 1 \in S
  <2>1. CASE n + 1 <= N
    <3>1. n + 1 \in 1 .. N /\ (n + 1) - 1 = n /\ n <= N
      BY <2>1
    <3>2. h[n + 1] = NextMode(cap[n + 1], x, h[n]) /\ h[n] \in {"body", "commands"}
      BY <1>2, <1>8, <3>1 DEF Modes
    <3> QED
      BY <3>2 DEF NextMode
  <2>2. CASE ~(n + 1 <= N)
    BY <2>2
  <2> QED
    BY <2>1, <2>2
<1> HIDE DEF S
<1>9. N \in S
  BY <1>7, <1>8, NatSet
<1>10. h[N] \in {"body", "commands"}
  BY <1>9 DEF S
<1> QED
  BY <1>1, <1>2, <1>4, <1>5, <1>6, <1>10

\* What the client of stream x said in the first n segments of a capture: its commands,
\* the last sender, and the recipients since; and in the body that is under way, or that
\* was the last thing it said, the last header of a name.
FromClient(cap, n, x) == {i \in 1 .. n : cap[i].stream = x /\ cap[i].dir = 0}
Commands(cap, n, x) == {i \in FromClient(cap, n, x) : ModeAt(cap, i - 1, x) = "commands"}
Mails(cap, n, x) == {i \in Commands(cap, n, x) : cap[i].verb = "MAIL" /\ cap[i].args # <<>>}
Sender(cap, n, x) == IF Mails(cap, n, x) = {} THEN <<>> ELSE Arg(cap[LastIn(Mails(cap, n, x))], 1)
GivenSince(cap, n, x) ==
    {i \in Commands(cap, n, x) : cap[i].verb = "RCPT" /\ cap[i].args # <<>> /\ \A j \in Mails(cap, n, x) : j < i}
Recipients(cap, n, x) == {Arg(cap[i], 1) : i \in GivenSince(cap, n, x)}
NoLogin(cap, n, x) == \A i \in Commands(cap, n, x) : cap[i].verb \notin {"AUTH LOGIN", "AUTH PLAIN"}
Body(cap, n, x) == {i \in FromClient(cap, n, x) : \A j \in Commands(cap, n, x) : j < i}
WithHeader(cap, n, x, name) == {i \in Body(cap, n, x) : HeaderLines(cap[i], name) # {}}
HeaderSaid(cap, n, x, name) == IF WithHeader(cap, n, x, name) = {} THEN <<>>
                               ELSE BodyHeader(cap[LastIn(WithHeader(cap, n, x, name))], name, <<>>)

\* The envelope of a stream that has seen no login, and those of the mails listed.
StreamHas(p, cap, n, x) ==
    /\ p.authState = "none"
    /\ p.inData <=> ModeAt(cap, n, x) = "body"
    /\ p.from = Sender(cap, n, x)
    /\ Recipients(cap, n, x) \subseteq {p.to[k] : k \in DOMAIN p.to}
    /\ p.hdrFrom = IF ModeAt(cap, n, x) = "body" THEN HeaderSaid(cap, n, x, "From:") ELSE <<>>
    /\ p.hdrTo = IF ModeAt(cap, n, x) = "body" THEN HeaderSaid(cap, n, x, "To:") ELSE <<>>
Envelope(m, cap, n, x) ==
    /\ cap[n].stream = x /\ cap[n].dir = 0 /\ cap[n].dot /\ ModeAt(cap, n - 1, x) = "body"
    /\ m.from = IF HeaderSaid(cap, n, x, "From:") # <<>> THEN HeaderSaid(cap, n, x, "From:") ELSE Sender(cap, n, x)
    /\ IF HeaderSaid(cap, n, x, "To:") # <<>> THEN m.to = <<HeaderSaid(cap, n, x, "To:")>>
       ELSE Recipients(cap, n, x) \subseteq {m.to[k] : k \in DOMAIN m.to}
MailHas(m, cap) == NoLogin(cap, m.packet, m.stream) => Envelope(m, cap, m.packet, m.stream)


StreamsInv ==
    /\ DOMAIN per = SessionStreams
    /\ \A x \in OnlyOf("smtp", "smtp") :
          /\ DOMAIN per[x] = DOMAIN NewStream
          /\ \E S : per[x].to \in Seq(S)
          /\ NoLogin(captured, Len(captured), x) => StreamHas(per[x], captured, Len(captured), x)
MailsInv ==
    /\ \E S : messages \in Seq(S)
    /\ \A n \in DOMAIN messages : messages[n].packet \in DOMAIN captured /\ MailHas(messages[n], captured)
SmtpInv == traffic = "smtp" => captured \in Seq(Segments["smtp"]) /\ StreamsInv /\ MailsInv

\* What was said is not changed by the segments that follow.
LEMMA EnvelopeStays ==
    ASSUME NEW n \in Nat, NEW cap, NEW new, Agree(new, cap, n), NEW x
    PROVE  /\ Sender(new, n, x) = Sender(cap, n, x)
           /\ Recipients(new, n, x) = Recipients(cap, n, x)
           /\ NoLogin(new, n, x) <=> NoLogin(cap, n, x)
<1>1. FromClient(new, n, x) = FromClient(cap, n, x)
  BY DEF FromClient, Agree
<1>2. FromClient(cap, n, x) \in SUBSET (1 .. n)
  BY DEF FromClient
<1>3. ASSUME NEW i \in FromClient(cap, n, x)
      PROVE  new[i] = cap[i] /\ (ModeAt(new, i - 1, x) = ModeAt(cap, i - 1, x))
  <2>1. i \in 1 .. n
    BY <1>2
  <2>2. i - 1 \in Nat /\ Agree(new, cap, i - 1)
    BY <2>1 DEF Agree
  <2>3. ModeAt(new, i - 1, x) = ModeAt(cap, i - 1, x)
    BY ONLY <2>2, ModeStays
  <2> QED
    BY <2>1, <2>3 DEF Agree
<1>4. Commands(new, n, x) = Commands(cap, n, x) /\ Commands(cap, n, x) \subseteq FromClient(cap, n, x)
  BY <1>1, <1>3 DEF Commands
<1>5. Mails(new, n, x) = Mails(cap, n, x) /\ Mails(cap, n, x) \subseteq FromClient(cap, n, x)
  BY <1>3, <1>4 DEF Mails
<1>6. Sender(new, n, x) = Sender(cap, n, x)
  <2> DEFINE A == Mails(cap, n, x)
  <2>1. A \in SUBSET (1 .. n)
    BY <1>2, <1>5
  <2> HIDE DEF A
  <2>2. A # {} => LastIn(A) \in A
    BY <2>1, MaxOfSome DEF LastIn
  <2>3. A # {} => new[LastIn(A)] = cap[LastIn(A)]
    BY <2>1, <2>2 DEF Agree
  <2> QED
    BY <1>5, <2>3 DEF Sender, A
<1>7. GivenSince(new, n, x) = GivenSince(cap, n, x) /\ GivenSince(cap, n, x) \subseteq FromClient(cap, n, x)
  BY <1>3, <1>4, <1>5 DEF GivenSince
<1>8. Recipients(new, n, x) = Recipients(cap, n, x)
  BY <1>3, <1>7 DEF Recipients
<1>9. NoLogin(new, n, x) <=> NoLogin(cap, n, x)
  BY <1>3, <1>4 DEF NoLogin
<1> QED
  BY <1>6, <1>8, <1>9

LEMMA HeaderStays ==
    ASSUME NEW n \in Nat, NEW cap, NEW new, Agree(new, cap, n), NEW x, NEW name
    PROVE  HeaderSaid(new, n, x, name) = HeaderSaid(cap, n, x, name)
<1>1. FromClient(new, n, x) = FromClient(cap, n, x)
  BY DEF FromClient, Agree
<1>2. FromClient(cap, n, x) \in SUBSET (1 .. n)
  BY DEF FromClient
<1>3. ASSUME NEW i \in FromClient(cap, n, x)
      PROVE  new[i] = cap[i] /\ (ModeAt(new, i - 1, x) = ModeAt(cap, i - 1, x))
  <2>1. i \in 1 .. n
    BY <1>2
  <2>2. i - 1 \in Nat /\ Agree(new, cap, i - 1)
    BY <2>1 DEF Agree
  <2>3. ModeAt(new, i - 1, x) = ModeAt(cap, i - 1, x)
    BY ONLY <2>2, ModeStays
  <2> QED
    BY <2>1, <2>3 DEF Agree
<1>4. Commands(new, n, x) = Commands(cap, n, x)
  BY <1>1, <1>3 DEF Commands
<1>5. Body(new, n, x) = Body(cap, n, x) /\ Body(cap, n, x) \subseteq FromClient(cap, n, x)
  BY <1>1, <1>4 DEF Body
<1> DEFINE A == WithHeader(cap, n, x, name)
<1>6. WithHeader(new, n, x, name) = A /\ A \subseteq FromClient(cap, n, x)
  BY <1>3, <1>5 DEF WithHeader
<1>7. A \in SUBSET (1 .. n)
  BY <1>2, <1>6
<1> HIDE DEF A
<1>8. A # {} => LastIn(A) \in A
  BY <1>7, MaxOfSome DEF LastIn
<1>9. A # {} => new[LastIn(A)] = cap[LastIn(A)]
  BY <1>7, <1>8 DEF Agree
<1> QED
  BY <1>6, <1>9 DEF HeaderSaid, A

LEMMA StreamStays ==
    ASSUME NEW n \in Nat, NEW cap, NEW new, Agree(new, cap, n), NEW x, NEW p
    PROVE  StreamHas(p, new, n, x) <=> StreamHas(p, cap, n, x)
<1>1. ModeAt(new, n, x) = ModeAt(cap, n, x)
  BY ModeStays
<1>2. Sender(new, n, x) = Sender(cap, n, x)
  BY EnvelopeStays
<1>3. Recipients(new, n, x) = Recipients(cap, n, x)
  BY EnvelopeStays
<1>4. HeaderSaid(new, n, x, "From:") = HeaderSaid(cap, n, x, "From:")
  BY HeaderStays
<1>5. HeaderSaid(new, n, x, "To:") = HeaderSaid(cap, n, x, "To:")
  BY HeaderStays
<1> QED
  BY ONLY <1>1, <1>2, <1>3, <1>4, <1>5 DEF StreamHas

\* Segment e is from the client of stream x, and, after the first N, not in a body.
Says(e, x) == e.stream = x /\ e.dir = 0
Orders(e, cap, N, x) == Says(e, x) /\ ModeAt(cap, N, x) = "commands"

\* What the next segment, e, makes of what was said.
NextSender(e, cap, N, x) ==
    IF Orders(e, cap, N, x) /\ e.verb = "MAIL" /\ e.args # <<>> THEN Arg(e, 1) ELSE Sender(cap, N, x)
NextRecipients(e, cap, N, x) ==
    IF Orders(e, cap, N, x) /\ e.verb = "MAIL" /\ e.args # <<>> THEN {}
    ELSE IF Orders(e, cap, N, x) /\ e.verb = "RCPT" /\ e.args # <<>> THEN Recipients(cap, N, x) \cup {Arg(e, 1)}
         ELSE Recipients(cap, N, x)
StillNoLogin(e, cap, N, x) ==
    NoLogin(cap, N, x) /\ (Orders(e, cap, N, x) => e.verb \notin {"AUTH LOGIN", "AUTH PLAIN"})
NextHeader(e, cap, N, x, name) ==
    IF Orders(e, cap, N, x) THEN <<>>
    ELSE IF Says(e, x) THEN BodyHeader(e, name, HeaderSaid(cap, N, x, name)) ELSE HeaderSaid(cap, N, x, name)

LEMMA EnvelopeNext ==
    ASSUME NEW N \in Nat, NEW cap, NEW x, NEW e, cap[N + 1] = e
    PROVE  /\ Sender(cap, N + 1, x) = NextSender(e, cap, N, x)
           /\ Recipients(cap, N + 1, x) = NextRecipients(e, cap, N, x)
           /\ NoLogin(cap, N + 1, x) <=> StillNoLogin(e, cap, N, x)
<1>1. 1 .. N + 1 = (1 .. N) \cup {N + 1} /\ (N + 1) - 1 = N
  OBVIOUS
<1>2. FromClient(cap, N + 1, x) = IF Says(e, x) THEN FromClient(cap, N, x) \cup {N + 1} ELSE FromClient(cap, N, x)
  BY <1>1 DEF FromClient, Says
<1>3. Commands(cap, N + 1, x) = IF Orders(e, cap, N, x) THEN Commands(cap, N, x) \cup {N + 1} ELSE Commands(cap, N, x)
  BY <1>1, <1>2 DEF Commands, Orders
<1>4. Mails(cap, N + 1, x) = IF Orders(e, cap, N, x) /\ e.verb = "MAIL" /\ e.args # <<>> THEN Mails(cap, N, x) \cup {N + 1} ELSE Mails(cap, N, x)
  BY <1>3 DEF Mails
<1>5. Mails(cap, N, x) \in SUBSET (1 .. N) /\ GivenSince(cap, N, x) \in SUBSET (1 .. N)
  BY DEF Mails, GivenSince, Commands, FromClient
<1>6. Sender(cap, N + 1, x) = IF Orders(e, cap, N, x) /\ e.verb = "MAIL" /\ e.args # <<>> THEN Arg(e, 1) ELSE Sender(cap, N, x)
  <2> DEFINE A == Mails(cap, N, x)
  <2>1. A \in SUBSET (1 .. N)
    BY <1>5
  <2> HIDE DEF A
  <2>2. LastIn(A \cup {N + 1}) = N + 1 /\ A \cup {N + 1} # {}
    BY <2>1, LastOfMore
  <2> QED
    BY <1>4, <2>2 DEF Sender, A
<1>7. GivenSince(cap, N + 1, x) =
         IF Orders(e, cap, N, x) /\ e.verb = "MAIL" /\ e.args # <<>> THEN {}
         ELSE IF Orders(e, cap, N, x) /\ e.verb = "RCPT" /\ e.args # <<>> THEN GivenSince(cap, N, x) \cup {N + 1} ELSE GivenSince(cap, N, x)
  <2>1. CASE Orders(e, cap, N, x) /\ e.verb = "MAIL" /\ e.args # <<>>
    <3>1. ASSUME NEW i \in Commands(cap, N + 1, x), cap[i].verb = "RCPT", cap[i].args # <<>>, \A j \in Mails(cap, N + 1, x) : j < i PROVE FALSE
      <4>1. i \in 1 .. N + 1
        BY DEF Commands, FromClient
      <4>2. N + 1 < i
        BY <1>4, <2>1, <3>1
      <4> QED
        BY <4>1, <4>2
    <3> QED
      BY <2>1, <3>1 DEF GivenSince
  <2>2. CASE ~(Orders(e, cap, N, x) /\ e.verb = "MAIL" /\ e.args # <<>>)
    <3>1. Mails(cap, N + 1, x) = Mails(cap, N, x)
      BY <1>4, <2>2
    <3>2. \A j \in Mails(cap, N, x) : j < N + 1
      BY <1>5
    <3> QED
      BY <1>3, <2>2, <3>1, <3>2 DEF GivenSince
  <2> QED
    BY <2>1, <2>2
<1>8. Recipients(cap, N + 1, x) =
         IF Orders(e, cap, N, x) /\ e.verb = "MAIL" /\ e.args # <<>> THEN {}
         ELSE IF Orders(e, cap, N, x) /\ e.verb = "RCPT" /\ e.args # <<>> THEN Recipients(cap, N, x) \cup {Arg(e, 1)} ELSE Recipients(cap, N, x)
  BY <1>7 DEF Recipients
<1>9. NoLogin(cap, N + 1, x) <=>
         NoLogin(cap, N, x) /\ (Orders(e, cap, N, x) => e.verb \notin {"AUTH LOGIN", "AUTH PLAIN"})
  BY <1>3 DEF NoLogin
<1> QED
  BY <1>6, <1>8, <1>9 DEF NextSender, NextRecipients, StillNoLogin

\* It is the next segment of a body, or ends what is a body.
LEMMA HeaderNext ==
    ASSUME NEW N \in Nat, NEW cap, NEW x, NEW e, cap[N + 1] = e, NEW name
    PROVE  HeaderSaid(cap, N + 1, x, name) = NextHeader(e, cap, N, x, name)
<1>1. 1 .. N + 1 = (1 .. N) \cup {N + 1} /\ (N + 1) - 1 = N
  OBVIOUS
<1>2. FromClient(cap, N + 1, x) = IF Says(e, x) THEN FromClient(cap, N, x) \cup {N + 1} ELSE FromClient(cap, N, x)
  BY <1>1 DEF FromClient, Says
<1>3. Commands(cap, N + 1, x) = IF Orders(e, cap, N, x) THEN Commands(cap, N, x) \cup {N + 1} ELSE Commands(cap, N, x)
  BY <1>1, <1>2 DEF Commands, Orders
<1> DEFINE A == WithHeader(cap, N, x, name)
           B == WithHeader(cap, N + 1, x, name)
<1>4. Body(cap, N + 1, x) = IF Orders(e, cap, N, x) THEN {}
                            ELSE IF Says(e, x) THEN Body(cap, N, x) \cup {N + 1} ELSE Body(cap, N, x)
  <2>1. FromClient(cap, N, x) \in SUBSET (1 .. N) /\ Commands(cap, N, x) \in SUBSET (1 .. N)
    BY DEF Commands, FromClient
  <2>2. CASE Orders(e, cap, N, x)
    <3>1. FromClient(cap, N + 1, x) \in SUBSET (1 .. N + 1) /\ N + 1 \in Commands(cap, N + 1, x)
      BY <1>3, <2>2 DEF FromClient
    <3>2. \A i \in 1 .. N + 1 : ~(N + 1 < i)
      OBVIOUS
    <3> QED
      BY <2>2, <3>1, <3>2 DEF Body
  <2>3. CASE ~Orders(e, cap, N, x)
    <3>1. Commands(cap, N + 1, x) = Commands(cap, N, x)
      BY <1>3, <2>3
    <3>2. \A j \in Commands(cap, N, x) : j < N + 1
      BY <2>1
    <3> QED
      BY <1>2, <2>3, <3>1, <3>2 DEF Body
  <2> QED
    BY <2>2, <2>3
<1>5. A \in SUBSET (1 .. N)
  BY DEF WithHeader, Body, FromClient
<1>6. B = IF Orders(e, cap, N, x) THEN {}
          ELSE IF Says(e, x) /\ HeaderLines(e, name) # {} THEN A \cup {N + 1} ELSE A
  BY <1>4 DEF WithHeader
<1> HIDE DEF A, B
<1>7. LastIn(A \cup {N + 1}) = N + 1 /\ A \cup {N + 1} # {}
  BY <1>5, LastOfMore
<1>8. HeaderSaid(cap, N + 1, x, name) = IF B = {} THEN <<>> ELSE BodyHeader(cap[LastIn(B)], name, <<>>)
  BY DEF HeaderSaid, B
<1>9. HeaderSaid(cap, N, x, name) = IF A = {} THEN <<>> ELSE BodyHeader(cap[LastIn(A)], name, <<>>)
  BY DEF HeaderSaid, A
<1>10. \A old : BodyHeader(e, name, old) = IF HeaderLines(e, name) = {} THEN old ELSE BodyHeader(e, name, <<>>)
  BY DEF BodyHeader
<1>11. CASE Orders(e, cap, N, x) \/ ~Says(e, x) \/ HeaderLines(e, name) = {}
  BY <1>6, <1>8, <1>9, <1>10, <1>11 DEF NextHeader
<1>12. CASE ~Orders(e, cap, N, x) /\ Says(e, x) /\ HeaderLines(e, name) # {}
  BY <1>6, <1>7, <1>8, <1>10, <1>12 DEF NextHeader
<1> QED
  BY <1>11, <1>12

\* How a segment of a client changes the state p of its stream to q, where no login is
\* under way.
Turns(s, p, q) ==
    /\ q.authState = "none"
    /\ q.from = IF ~p.inData /\ s.verb = "MAIL" /\ s.args # <<>> THEN Arg(s, 1) ELSE p.from
    /\ q.to = IF ~p.inData /\ s.verb = "RCPT" /\ s.args # <<>> THEN Append(p.to, Arg(s, 1)) ELSE p.to
    /\ q.inData <=> IF p.inData THEN ~s.dot ELSE s.verb = "DATA"
    /\ q.hdrFrom = IF ~p.inData THEN p.hdrFrom ELSE IF s.dot THEN <<>> ELSE BodyHeader(s, "From:", p.hdrFrom)
    /\ q.hdrTo = IF ~p.inData THEN p.hdrTo ELSE IF s.dot THEN <<>> ELSE BodyHeader(s, "To:", p.hdrTo)

LEMMA ClientTurns ==
    ASSUME NEW s \in Segment, SmtpParse(s), s.dir = 0, DOMAIN per = SessionStreams,
           NEW p, p = per[s.stream], DOMAIN p = DOMAIN NewStream, NEW S, p.to \in Seq(S),
           NEW q, q = per'[s.stream]
    PROVE  /\ DOMAIN q = DOMAIN NewStream
           /\ \E T : q.to \in Seq(T)
           /\ p.authState = "none" /\ (p.inData \/ s.verb \notin {"AUTH LOGIN", "AUTH PLAIN"}) => Turns(s, p, q)
<1> DEFINE Good == /\ DOMAIN q = DOMAIN NewStream
                   /\ \E T : q.to \in Seq(T)
           Turned == p.authState = "none" /\ (p.inData \/ s.verb \notin {"AUTH LOGIN", "AUTH PLAIN"}) => Turns(s, p, q)
<1> SUFFICES Good /\ Turned
  OBVIOUS
<1>1. s.stream \in SessionStreams
  BY DEF Segment
<1>2. ASSUME NEW new, Becomes(s, new) PROVE q = new
  BY <1>1, <1>2 DEF Becomes, StreamState
<1>3. UNCHANGED per => q = p
  OBVIOUS
<1>4. {"from", "to", "hdrFrom", "hdrTo", "inData", "authState", "user"} \subseteq DOMAIN p
  BY DEF NewStream
<1>5. p.to \in Seq(S \cup {Arg(s, 1)}) /\ Append(p.to, Arg(s, 1)) \in Seq(S \cup {Arg(s, 1)})
  <2> DEFINE t == p.to
             a == Arg(s, 1)
             T == S \cup {a}
  <2>1. t \in Seq(T) /\ a \in T
    OBVIOUS
  <2> HIDE DEF t, a, T
  <2>2. Append(t, a) \in Seq(T)
    BY ONLY <2>1, Enqueued
  <2> QED
    BY <2>1, <2>2 DEF t, a, T
<1>6. ASSUME DOMAIN q = DOMAIN p, q.to = p.to \/ q.to = Append(p.to, Arg(s, 1)) PROVE Good
  BY <1>5, <1>6
<1> HIDE DEF Good, Turned
<1>0. IF p.inData THEN smtpBody(s)
      ELSE IF p.authState # "none" THEN smtpAuthContinue(s)
      ELSE IF s.verb \in {"AUTH PLAIN", "AUTH LOGIN"} THEN smtpAuthStart(s) ELSE smtpCommand(s)
  <2>1. s.dir # 1
    OBVIOUS
  <2> QED
    BY <2>1 DEF SmtpParse
<1>7. CASE p.inData
  <2>1. smtpBody(s)
    BY <1>0, <1>7
  <2> DEFINE from == BodyHeader(s, "From:", p.hdrFrom)
             to == BodyHeader(s, "To:", p.hdrTo)
  <2>2. CASE s.dot
    <3>1. q = [p EXCEPT !.inData = FALSE, !.hdrFrom = <<>>, !.hdrTo = <<>>]
      BY <1>2, <2>1, <2>2 DEF smtpBody
    <3>9. DOMAIN q = DOMAIN p /\ (q.to = p.to \/ q.to = Append(p.to, Arg(s, 1)))
      BY <1>4, <3>1
    <3>2. q.inData = FALSE /\ q.hdrFrom = <<>> /\ q.hdrTo = <<>> /\ q.from = p.from /\ q.to = p.to /\ q.authState = p.authState
      BY <1>4, <3>1
    <3>10. Turned
      BY <1>7, <2>2, <3>2 DEF Turned, Turns
    <3> QED
      BY <1>6, <3>9, <3>10
  <2>3. CASE ~s.dot
    <3>1. q = [p EXCEPT !.hdrFrom = from, !.hdrTo = to]
      BY <1>2, <2>1, <2>3 DEF smtpBody, Headers
    <3>9. DOMAIN q = DOMAIN p /\ (q.to = p.to \/ q.to = Append(p.to, Arg(s, 1)))
      BY <1>4, <3>1
    <3>2. /\ q.inData = p.inData /\ q.hdrFrom = from /\ q.hdrTo = to
          /\ q.from = p.from /\ q.to = p.to /\ q.authState = p.authState
      <4> HIDE DEF from, to
      <4> QED
        BY <1>4, <3>1
    <3>10. Turned
      BY <1>7, <2>3, <3>2 DEF Turned, Turns
    <3> QED
      BY <1>6, <3>9, <3>10
  <2> QED
    BY <2>2, <2>3
<1>8. CASE ~p.inData /\ p.authState # "none"
  <2>1. smtpAuthContinue(s)
    BY <1>0, <1>8
  <2>2. DOMAIN q = DOMAIN p /\ q.to = p.to
    <3>1. CASE p.authState = "login-user"
      <4>1. q = [p EXCEPT !.user = Line(s), !.authState = "login-pass"]
        BY <1>2, <2>1, <3>1 DEF smtpAuthContinue
      <4> QED
        BY <1>4, <4>1
    <3>2. CASE p.authState # "login-user"
      <4>1. q = [p EXCEPT !.authState = "none"]
        BY <1>2, <2>1, <3>2 DEF smtpAuthContinue
      <4> QED
        BY <1>4, <4>1
    <3> QED
      BY <3>1, <3>2
  <2> QED
    BY <1>6, <1>8, <2>2 DEF Turned
<1>9. CASE ~p.inData /\ p.authState = "none" /\ s.verb \in {"AUTH PLAIN", "AUTH LOGIN"}
  <2>1. smtpAuthStart(s)
    BY <1>0, <1>9
  <2>2. q = p \/ q = [p EXCEPT !.authState = "plain"] \/ q = [p EXCEPT !.authState = "login-user"]
        \/ q = [p EXCEPT !.user = Arg(s, 1), !.authState = "login-pass"]
    BY <1>2, <1>3, <2>1 DEF smtpAuthStart
  <2>3. DOMAIN q = DOMAIN p /\ q.to = p.to
    BY <1>4, <2>2
  <2> QED
    BY <1>6, <1>9, <2>3 DEF Turned
<1>10. CASE ~p.inData /\ p.authState = "none" /\ s.verb \notin {"AUTH PLAIN", "AUTH LOGIN"}
  <2>1. smtpCommand(s)
    BY <1>0, <1>10
  <2>2. CASE s.verb = "MAIL" /\ s.args # <<>>
    <3>1. q = [p EXCEPT !.from = Arg(s, 1)]
      BY <1>2, <2>1, <2>2 DEF smtpCommand
    <3>9. DOMAIN q = DOMAIN p /\ (q.to = p.to \/ q.to = Append(p.to, Arg(s, 1)))
      BY <1>4, <3>1
    <3>10. Turned
      BY <1>4, <1>10, <2>2, <3>1 DEF Turned, Turns
    <3> QED
      BY <1>6, <3>9, <3>10
  <2>3. CASE s.verb = "RCPT" /\ s.args # <<>>
    <3>1. q = [p EXCEPT !.to = Append(@, Arg(s, 1))]
      BY <1>2, <2>1, <2>3 DEF smtpCommand
    <3>2. DOMAIN q = DOMAIN p /\ q.to = Append(p.to, Arg(s, 1))
      BY <1>4, <3>1
    <3>9. DOMAIN q = DOMAIN p /\ (q.to = p.to \/ q.to = Append(p.to, Arg(s, 1)))
      BY <1>4, <3>1
    <3>10. Turned
      BY <1>4, <1>10, <2>3, <3>1 DEF Turned, Turns
    <3> QED
      BY <1>6, <3>9, <3>10
  <2>4. CASE s.verb = "DATA"
    <3>1. q = [p EXCEPT !.inData = TRUE]
      BY <1>2, <2>1, <2>4 DEF smtpCommand
    <3>9. DOMAIN q = DOMAIN p /\ (q.to = p.to \/ q.to = Append(p.to, Arg(s, 1)))
      BY <1>4, <3>1
    <3>10. Turned
      BY <1>4, <1>10, <2>4, <3>1 DEF Turned, Turns
    <3> QED
      BY <1>6, <3>9, <3>10
  <2>5. CASE s.verb \notin {"MAIL", "RCPT", "DATA"} \/ (s.verb # "DATA" /\ s.args = <<>>)
    <3>1. q = p
      BY <1>3, <2>1, <2>5 DEF smtpCommand
    <3>9. DOMAIN q = DOMAIN p /\ (q.to = p.to \/ q.to = Append(p.to, Arg(s, 1)))
      BY <1>4, <3>1
    <3>10. Turned
      BY <1>4, <1>10, <2>5, <3>1 DEF Turned, Turns
    <3> QED
      BY <1>6, <3>9, <3>10
  <2> QED
    BY <2>2, <2>3, <2>4, <2>5
<1> QED
  BY <1>7, <1>8, <1>9, <1>10

\* What a stream has follows what its client says.
LEMMA StreamTurns ==
    ASSUME NEW N \in Nat, NEW cap, NEW s, cap[N + 1] = s, NEW x, s.stream = x, s.dir = 0,
           NEW p, NEW q, NEW S, p.to \in Seq(S), Turns(s, p, q), StreamHas(p, cap, N, x)
    PROVE  StreamHas(q, cap, N + 1, x)
<1> DEFINE mode == ModeAt(cap, N, x)
           command == mode = "commands"
<1>1. mode \in {"body", "commands"} /\ ModeAt(cap, N + 1, x) = NextMode(s, x, mode)
  BY ModeNext
<1>2. p.inData <=> ~command
  BY <1>1 DEF StreamHas
<1>3. /\ Sender(cap, N + 1, x) = IF command /\ s.verb = "MAIL" /\ s.args # <<>> THEN Arg(s, 1) ELSE Sender(cap, N, x)
      /\ Recipients(cap, N + 1, x) =
            IF command /\ s.verb = "MAIL" /\ s.args # <<>> THEN {}
            ELSE IF command /\ s.verb = "RCPT" /\ s.args # <<>> THEN Recipients(cap, N, x) \cup {Arg(s, 1)} ELSE Recipients(cap, N, x)
      /\ \A name : HeaderSaid(cap, N + 1, x, name) =
                    IF command THEN <<>> ELSE BodyHeader(s, name, HeaderSaid(cap, N, x, name))
  <2>1. Says(s, x) /\ (Orders(s, cap, N, x) <=> command)
    BY DEF Says, Orders
  <2>2. N \in Nat /\ cap[N + 1] = s
    OBVIOUS
  <2>3. Sender(cap, N + 1, x) = NextSender(s, cap, N, x)
    BY ONLY <2>2, EnvelopeNext
  <2>4. Recipients(cap, N + 1, x) = NextRecipients(s, cap, N, x)
    BY ONLY <2>2, EnvelopeNext
  <2>5. ASSUME NEW name PROVE HeaderSaid(cap, N + 1, x, name) = NextHeader(s, cap, N, x, name)
    BY ONLY <2>2, HeaderNext
  <2> QED
    BY <2>1, <2>3, <2>4, <2>5 DEF NextSender, NextRecipients, NextHeader
<1>4. /\ p.from = Sender(cap, N, x) /\ Recipients(cap, N, x) \subseteq {p.to[k] : k \in DOMAIN p.to}
      /\ p.hdrFrom = IF command THEN <<>> ELSE HeaderSaid(cap, N, x, "From:")
      /\ p.hdrTo = IF command THEN <<>> ELSE HeaderSaid(cap, N, x, "To:")
  BY <1>1 DEF StreamHas
<1>5. /\ q.authState = "none"
      /\ q.from = IF command /\ s.verb = "MAIL" /\ s.args # <<>> THEN Arg(s, 1) ELSE p.from
      /\ q.to = IF command /\ s.verb = "RCPT" /\ s.args # <<>> THEN Append(p.to, Arg(s, 1)) ELSE p.to
      /\ q.inData <=> IF command THEN s.verb = "DATA" ELSE ~s.dot
      /\ q.hdrFrom = IF command THEN p.hdrFrom ELSE IF s.dot THEN <<>> ELSE BodyHeader(s, "From:", p.hdrFrom)
      /\ q.hdrTo = IF command THEN p.hdrTo ELSE IF s.dot THEN <<>> ELSE BodyHeader(s, "To:", p.hdrTo)
  BY <1>2 DEF Turns
<1>6. q.inData <=> ModeAt(cap, N + 1, x) = "body"
  BY <1>1, <1>5 DEF NextMode
<1>7. Recipients(cap, N + 1, x) \subseteq {q.to[k] : k \in DOMAIN q.to}
  <2>1. CASE command /\ s.verb = "RCPT" /\ s.args # <<>>
    <3> DEFINE t == p.to
               a == Arg(s, 1)
               u == Append(t, a)
    <3>1. t \in Seq(S) /\ q.to = u
      BY <1>5, <2>1
    <3> HIDE DEF t, a
    <3>2. /\ Len(t) \in Nat /\ DOMAIN t = 1 .. Len(t) /\ DOMAIN u = 1 .. Len(t) + 1
          /\ \A k \in 1 .. Len(t) : u[k] = t[k]
          /\ u[Len(t) + 1] = a
      BY ONLY <3>1, Grown
    <3>3. (\A k \in 1 .. Len(t) : k \in 1 .. Len(t) + 1) /\ Len(t) + 1 \in 1 .. Len(t) + 1
      BY <3>2
    <3> HIDE DEF u
    <3>4. {t[k] : k \in DOMAIN t} \cup {a} \subseteq {u[k] : k \in DOMAIN u}
      BY <3>2, <3>3
    <3>5. Recipients(cap, N + 1, x) = Recipients(cap, N, x) \cup {a}
      BY <1>3, <2>1 DEF a
    <3>6. Recipients(cap, N, x) \subseteq {t[k] : k \in DOMAIN t}
      BY <1>4 DEF t
    <3>7. Recipients(cap, N + 1, x) \subseteq {u[k] : k \in DOMAIN u}
      BY <3>4, <3>5, <3>6
    <3> QED
      BY <3>1, <3>7
  <2>2. CASE ~(command /\ s.verb = "RCPT" /\ s.args # <<>>)
    BY <1>3, <1>4, <1>5, <2>2
  <2> QED
    BY <2>1, <2>2
<1>8. ModeAt(cap, N + 1, x) = "body" <=> IF command THEN s.verb = "DATA" ELSE ~s.dot
  BY <1>1 DEF NextMode
<1> DEFINE Heads(name, new, old) ==
             /\ old = IF command THEN <<>> ELSE HeaderSaid(cap, N, x, name)
             /\ new = IF command THEN old ELSE IF s.dot THEN <<>> ELSE BodyHeader(s, name, old)
<1>9. ASSUME NEW name, NEW new, NEW old, Heads(name, new, old)
      PROVE  new = IF ModeAt(cap, N + 1, x) = "body" THEN HeaderSaid(cap, N + 1, x, name) ELSE <<>>
  <2>1. HeaderSaid(cap, N + 1, x, name) = IF command THEN <<>> ELSE BodyHeader(s, name, HeaderSaid(cap, N, x, name))
    BY <1>3
  <2> QED
    BY <1>8, <1>9, <2>1
<1>10. Heads("From:", q.hdrFrom, p.hdrFrom) /\ Heads("To:", q.hdrTo, p.hdrTo)
  BY <1>4, <1>5
<1>11. /\ q.hdrFrom = IF ModeAt(cap, N + 1, x) = "body" THEN HeaderSaid(cap, N + 1, x, "From:") ELSE <<>>
       /\ q.hdrTo = IF ModeAt(cap, N + 1, x) = "body" THEN HeaderSaid(cap, N + 1, x, "To:") ELSE <<>>
  <2> HIDE DEF Heads
  <2> QED
    BY <1>9, <1>10
<1>12. q.from = Sender(cap, N + 1, x)
  BY <1>3, <1>4, <1>5
<1> QED
  BY <1>5, <1>6, <1>7, <1>11, <1>12 DEF StreamHas

\* What others say does not change it.
LEMMA StreamRests ==
    ASSUME NEW N \in Nat, NEW cap, NEW s, cap[N + 1] = s, NEW x, ~(s.stream = x /\ s.dir = 0), NEW p
    PROVE  /\ NoLogin(cap, N + 1, x) <=> NoLogin(cap, N, x)
           /\ StreamHas(p, cap, N + 1, x) <=> StreamHas(p, cap, N, x)
<1>1. ~Says(s, x) /\ ~Orders(s, cap, N, x) /\ N \in Nat /\ cap[N + 1] = s
  BY DEF Says, Orders
<1>2. N \in Nat /\ cap[N + 1] = s
  OBVIOUS
<1>3. ModeAt(cap, N + 1, x) = ModeAt(cap, N, x)
  <2>1. ModeAt(cap, N + 1, x) = NextMode(s, x, ModeAt(cap, N, x))
    BY ModeNext
  <2> QED
    BY <2>1 DEF NextMode
<1>4. Sender(cap, N + 1, x) = NextSender(s, cap, N, x)
  BY ONLY <1>2, EnvelopeNext
<1>5. Recipients(cap, N + 1, x) = NextRecipients(s, cap, N, x)
  BY ONLY <1>2, EnvelopeNext
<1>6. NoLogin(cap, N + 1, x) <=> StillNoLogin(s, cap, N, x)
  BY ONLY <1>2, EnvelopeNext
<1>7. ASSUME NEW name PROVE HeaderSaid(cap, N + 1, x, name) = NextHeader(s, cap, N, x, name)
  BY ONLY <1>2, HeaderNext
<1>8. Sender(cap, N + 1, x) = Sender(cap, N, x)
  BY ONLY <1>1, <1>4 DEF NextSender
<1>9. Recipients(cap, N + 1, x) = Recipients(cap, N, x)
  BY ONLY <1>1, <1>5 DEF NextRecipients
<1>10. NoLogin(cap, N + 1, x) <=> NoLogin(cap, N, x)
  BY ONLY <1>1, <1>6 DEF StillNoLogin
<1>11. HeaderSaid(cap, N + 1, x, "From:") = HeaderSaid(cap, N, x, "From:")
  BY ONLY <1>1, <1>7 DEF NextHeader
<1>12. HeaderSaid(cap, N + 1, x, "To:") = HeaderSaid(cap, N, x, "To:")
  BY ONLY <1>1, <1>7 DEF NextHeader
<1>13. StreamHas(p, cap, N + 1, x) <=> StreamHas(p, cap, N, x)
  BY ONLY <1>3, <1>8, <1>9, <1>11, <1>12 DEF StreamHas
<1> QED
  BY ONLY <1>10, <1>13

LEMMA StreamsStep ==
    ASSUME captured \in Seq(Segments["smtp"]), StreamsInv, NEW s \in Segments["smtp"],
           \/ SmtpParse(s) \/ PopDissect(s) \/ ImapDissect(s) \/ IrcDissect(s) \/ TelnetDissect(s)
           \/ FtpDissect(s) \/ FtpData(s) \/ HttpDissect(s),
           captured' = Append(captured, s)
    PROVE  StreamsInv'
<1> DEFINE N == Len(captured)
           Ours == OnlyOf("smtp", "smtp")
<1>1. /\ N \in Nat /\ Len(captured') = N + 1
      /\ \A i \in 1 .. N : captured'[i] = captured[i]
      /\ captured'[N + 1] = s
  BY MessageTaken
<1>2. s \in Segment /\ s.stream \in SessionStreams /\ \A x \in Ours : s.stream = x => s.proto = "smtp"
  <2>1. "smtp" \in SessionTraffic
    BY DEF SessionTraffic
  <2> QED
    BY <2>1, OneProtocol DEF Segment
<1>3. DOMAIN per = SessionStreams
  BY DEF StreamsInv
<1>4. DOMAIN per' = SessionStreams /\ \A x \in SessionStreams \ {s.stream} : per'[x] = per[x]
  BY <1>2, <1>3, OwnStreamOnly
<1> DEFINE Good(p, cap, n, x) == /\ DOMAIN p = DOMAIN NewStream
                                 /\ \E S : p.to \in Seq(S)
                                 /\ NoLogin(cap, n, x) => StreamHas(p, cap, n, x)
<1> SUFFICES ASSUME NEW x \in Ours PROVE Good(per'[x], captured', N + 1, x)
  BY <1>1, <1>4 DEF StreamsInv
<1>5. DOMAIN per[x] = DOMAIN NewStream /\ (\E S : per[x].to \in Seq(S))
      /\ (NoLogin(captured, N, x) => StreamHas(per[x], captured, N, x))
  BY DEF StreamsInv
<1> HIDE DEF N
<1>6. /\ NoLogin(captured', N, x) <=> NoLogin(captured, N, x)
      /\ \A p : StreamHas(p, captured', N, x) <=> StreamHas(p, captured, N, x)
  <2>1. N \in Nat /\ Agree(captured', captured, N)
    BY <1>1 DEF Agree
  <2>2. NoLogin(captured', N, x) <=> NoLogin(captured, N, x)
    BY ONLY <2>1, EnvelopeStays
  <2>3. ASSUME NEW p PROVE StreamHas(p, captured', N, x) <=> StreamHas(p, captured, N, x)
    BY ONLY <2>1, StreamStays
  <2> QED
    BY ONLY <2>2, <2>3
<1>7. CASE ~(s.stream = x /\ s.dir = 0)
  <2>1. per'[x] = per[x]
    <3>1. CASE s.stream # x
      BY <1>4, <3>1 DEF OnlyOf
    <3>2. CASE s.stream = x
      <4>1. SmtpParse(s) /\ s.dir = 1
        BY <1>2, <1>7, <3>2 DEF PopDissect, ImapDissect, IrcDissect, TelnetDissect, FtpDissect, FtpData, HttpDissect, Segment
      <4> QED
        BY <4>1 DEF SmtpParse
    <3> QED
      BY <3>1, <3>2
  <2>2. /\ NoLogin(captured', N + 1, x) <=> NoLogin(captured', N, x)
        /\ StreamHas(per[x], captured', N + 1, x) <=> StreamHas(per[x], captured', N, x)
    BY ONLY <1>1, <1>7, StreamRests
  <2> QED
    BY <1>5, <1>6, <2>1, <2>2
<1>8. CASE s.stream = x /\ s.dir = 0
  <2> DEFINE p == per[x]
             q == per'[x]
  <2>1. SmtpParse(s)
    BY <1>2, <1>8 DEF PopDissect, ImapDissect, IrcDissect, TelnetDissect, FtpDissect, FtpData, HttpDissect
  <2>2. PICK S : p.to \in Seq(S)
    BY <1>5
  <2>3. DOMAIN p = DOMAIN NewStream /\ p = per[s.stream] /\ q = per'[s.stream]
    BY <1>5, <1>8
  <2>4. (NoLogin(captured', N, x) => StreamHas(p, captured', N, x))
    BY <1>5, <1>6
  <2> HIDE DEF p, q
  <2>5. /\ DOMAIN q = DOMAIN NewStream
        /\ \E T : q.to \in Seq(T)
        /\ p.authState = "none" /\ (p.inData \/ s.verb \notin {"AUTH LOGIN", "AUTH PLAIN"}) => Turns(s, p, q)
    BY ONLY <1>2, <1>3, <1>8, <2>1, <2>2, <2>3, ClientTurns
  <2>6. ASSUME NoLogin(captured', N + 1, x) PROVE StreamHas(q, captured', N + 1, x)
    <3>1. NoLogin(captured', N + 1, x) <=> StillNoLogin(s, captured', N, x)
      BY ONLY <1>1, EnvelopeNext
    <3>2. StreamHas(p, captured', N, x) /\ (Orders(s, captured', N, x) => s.verb \notin {"AUTH LOGIN", "AUTH PLAIN"})
      BY <2>4, <2>6, <3>1 DEF StillNoLogin
    <3>4. ModeAt(captured', N, x) \in {"body", "commands"}
      BY ONLY <1>1, ModeNext
    <3>5. p.inData \/ s.verb \notin {"AUTH LOGIN", "AUTH PLAIN"}
      BY <1>8, <3>2, <3>4 DEF StreamHas, Orders, Says
    <3>3. Turns(s, p, q)
      BY <2>5, <3>2, <3>5 DEF StreamHas
    <3> QED
      BY ONLY <1>1, <1>8, <2>2, <3>2, <3>3, StreamTurns
  <2>7. Good(q, captured', N + 1, x)
    BY <2>5, <2>6
  <2> QED
    BY <2>7 DEF q
<1> QED
  BY <1>7, <1>8

\* A mail is listed only at the end of a body, with what its stream has by then.
LEMMA MailListed ==
    ASSUME NEW s,
           \/ SmtpParse(s) \/ PopDissect(s) \/ ImapDissect(s) \/ IrcDissect(s) \/ TelnetDissect(s)
           \/ FtpDissect(s) \/ FtpData(s) \/ HttpDissect(s)
    PROVE  \/ messages' = messages
           \/ /\ s.proto = "smtp" /\ s.dir # 1 /\ per[s.stream].inData /\ s.dot
              /\ messages' = Append(messages, SmtpMessage(s))
<1>1. CASE SmtpParse(s)
  <2>1. smtpBody(s) => messages' = messages \/ (s.dot /\ messages' = Append(messages, SmtpMessage(s)))
    BY DEF smtpBody
  <2>2. s.proto = "smtp" /\ (messages' = messages \/ (s.dir # 1 /\ per[s.stream].inData /\ smtpBody(s)))
    BY <1>1 DEF SmtpParse
  <2> QED
    BY <2>1, <2>2
<1>2. CASE PopDissect(s) \/ ImapDissect(s) \/ IrcDissect(s) \/ TelnetDissect(s)
  BY <1>2 DEF PopDissect, ImapDissect, IrcDissect, TelnetDissect
<1>3. CASE FtpDissect(s) \/ FtpData(s) \/ HttpDissect(s)
  BY <1>3 DEF FtpDissect, FtpData, HttpDissect
<1> QED
  BY <1>1, <1>2, <1>3

LEMMA MailsStep ==
    ASSUME captured \in Seq(Segments["smtp"]), StreamsInv, MailsInv, NEW s \in Segments["smtp"],
           \/ SmtpParse(s) \/ PopDissect(s) \/ ImapDissect(s) \/ IrcDissect(s) \/ TelnetDissect(s)
           \/ FtpDissect(s) \/ FtpData(s) \/ HttpDissect(s),
           captured' = Append(captured, s)
    PROVE  MailsInv'
<1> DEFINE N == Len(captured)
<1>1. /\ N \in Nat /\ DOMAIN captured = 1 .. N /\ Len(captured') = N + 1 /\ DOMAIN captured' = 1 .. N + 1
      /\ \A i \in 1 .. N : captured'[i] = captured[i]
      /\ captured'[N + 1] = s /\ Number = N + 1
  BY MessageTaken DEF Number
<1>2. /\ \E S : messages \in Seq(S)
      /\ \A n \in DOMAIN messages : messages[n].packet \in 1 .. N /\ MailHas(messages[n], captured)
  BY <1>1 DEF MailsInv
<1>3. \A x \in OnlyOf("smtp", "smtp") : NoLogin(captured, N, x) => StreamHas(per[x], captured, N, x)
  BY DEF StreamsInv
<1> HIDE DEF N
<1>4. ASSUME NEW n \in 0 .. N, NEW x
      PROVE  /\ Sender(captured', n, x) = Sender(captured, n, x)
             /\ Recipients(captured', n, x) = Recipients(captured, n, x)
             /\ NoLogin(captured', n, x) <=> NoLogin(captured, n, x)
             /\ \A name : HeaderSaid(captured', n, x, name) = HeaderSaid(captured, n, x, name)
             /\ ModeAt(captured', n, x) = ModeAt(captured, n, x)
  <2>1. n \in Nat /\ Agree(captured', captured, n)
    BY <1>1 DEF Agree
  <2>2. Sender(captured', n, x) = Sender(captured, n, x)
    BY ONLY <2>1, EnvelopeStays
  <2>3. Recipients(captured', n, x) = Recipients(captured, n, x)
    BY ONLY <2>1, EnvelopeStays
  <2>4. NoLogin(captured', n, x) <=> NoLogin(captured, n, x)
    BY ONLY <2>1, EnvelopeStays
  <2>5. ASSUME NEW name PROVE HeaderSaid(captured', n, x, name) = HeaderSaid(captured, n, x, name)
    BY ONLY <2>1, HeaderStays
  <2>6. ModeAt(captured', n, x) = ModeAt(captured, n, x)
    BY ONLY <2>1, ModeStays
  <2> QED
    BY <2>2, <2>3, <2>4, <2>5, <2>6
<1>5. ASSUME NEW n \in DOMAIN messages
      PROVE  messages[n].packet \in 1 .. N + 1 /\ MailHas(messages[n], captured')
  <2> DEFINE m == messages[n]
  <2>1. m.packet \in 1 .. N /\ MailHas(m, captured)
    BY <1>2
  <2> HIDE DEF m
  <2>2. /\ m.packet - 1 \in 0 .. N /\ m.packet \in 0 .. N /\ m.packet \in 1 .. N + 1
        /\ captured'[m.packet] = captured[m.packet]
    BY <1>1, <2>1
  <2>3. MailHas(m, captured')
    BY <1>4, <2>1, <2>2 DEF MailHas, Envelope
  <2> QED
    BY <2>2, <2>3 DEF m
<1>6. CASE messages' = messages
  BY <1>1, <1>2, <1>5, <1>6 DEF MailsInv
<1>7. CASE /\ s.proto = "smtp" /\ s.dir # 1 /\ per[s.stream].inData /\ s.dot
           /\ messages' = Append(messages, SmtpMessage(s))
  <2> DEFINE m == SmtpMessage(s)
             x == s.stream
             p == per[x]
             from == BodyHeader(s, "From:", p.hdrFrom)
             to == BodyHeader(s, "To:", p.hdrTo)
  <2>2. x \in OnlyOf("smtp", "smtp")
    <3>1. "smtp" \in SessionTraffic
      BY DEF SessionTraffic
    <3> QED
      BY <1>7, <3>1, OneProtocol
  <2>1. /\ m.packet = N + 1 /\ m.stream = x /\ m.from = IF from # <<>> THEN from ELSE p.from
        /\ m.to = IF to # <<>> THEN <<to>> ELSE p.to
    <3>1. DOMAIN p = DOMAIN NewStream
      BY <2>2 DEF StreamsInv
    <3>2. {"from", "to", "hdrFrom", "hdrTo"} \subseteq DOMAIN p
      BY <3>1 DEF NewStream
    <3> DEFINE q == Headers(s)
    <3>3. q = [p EXCEPT !.hdrFrom = from, !.hdrTo = to]
      BY DEF Headers
    <3>4. q.from = p.from /\ q.to = p.to /\ q.hdrFrom = from /\ q.hdrTo = to
      <4> HIDE DEF p, q, from, to
      <4> QED
        BY <3>2, <3>3
    <3>5. m = [from |-> IF q.hdrFrom # <<>> THEN q.hdrFrom ELSE q.from,
               to |-> IF q.hdrTo # <<>> THEN <<q.hdrTo>> ELSE q.to, packet |-> Number, stream |-> x]
      BY DEF SmtpMessage
    <3> HIDE DEF m, q, p, from, to, x
    <3> QED
      BY <1>1, <3>4, <3>5
  <2>10. s.dir = 0 /\ s.dot /\ p.inData /\ (N + 1) - 1 = N /\ N \in 0 .. N
    <3>1. s \in Segment
      BY SessionsAssumption DEF SessionTraffic
    <3> QED
      BY <1>1, <1>7, <3>1 DEF Segment
  <2> HIDE DEF m
  <2>3. MailHas(m, captured')
    <3> SUFFICES ASSUME NoLogin(captured', N + 1, x) PROVE Envelope(m, captured', N + 1, x)
      BY <2>1 DEF MailHas
    <3> HIDE DEF from, to, p, x
    <3>10. N \in Nat /\ captured'[N + 1] = s
      BY <1>1
    <3>11. Sender(captured', N + 1, x) = NextSender(s, captured', N, x)
      BY ONLY <3>10, EnvelopeNext
    <3>12. Recipients(captured', N + 1, x) = NextRecipients(s, captured', N, x)
      BY ONLY <3>10, EnvelopeNext
    <3>1. NoLogin(captured', N + 1, x) <=> StillNoLogin(s, captured', N, x)
      BY ONLY <3>10, EnvelopeNext
    <3>9. ASSUME NEW name PROVE HeaderSaid(captured', N + 1, x, name) = NextHeader(s, captured', N, x, name)
      BY ONLY <3>10, HeaderNext
    <3>2. StreamHas(p, captured', N, x)
      <4>1. NoLogin(captured, N, x)
        BY <1>4, <2>10, <3>1 DEF StillNoLogin
      <4>2. StreamHas(p, captured, N, x)
        BY <1>3, <2>2, <4>1 DEF p
      <4>3. N \in Nat /\ Agree(captured', captured, N)
        BY <1>1 DEF Agree
      <4> QED
        BY ONLY <4>2, <4>3, StreamStays
    <3>3. Says(s, x) /\ ~Orders(s, captured', N, x) /\ ModeAt(captured', N, x) = "body"
      BY <2>10, <3>2 DEF StreamHas, Says, Orders, x
    <3>4. /\ Sender(captured', N + 1, x) = p.from
          /\ Recipients(captured', N + 1, x) \subseteq {p.to[k] : k \in DOMAIN p.to}
          /\ HeaderSaid(captured', N + 1, x, "From:") = from
          /\ HeaderSaid(captured', N + 1, x, "To:") = to
      BY <3>2, <3>3, <3>9, <3>11, <3>12 DEF StreamHas, NextSender, NextRecipients, NextHeader, from, to
    <3>5. captured'[N + 1].stream = x /\ captured'[N + 1].dir = 0 /\ captured'[N + 1].dot
      BY <1>1, <2>10, <3>3 DEF Says
    <3>6. ModeAt(captured', (N + 1) - 1, x) = "body"
      BY <2>10, <3>3
    <3>7. to # <<>> => m.to = <<to>>
      BY <2>1
    <3>8. to = <<>> => m.to = p.to
      BY <2>1
    <3> QED
      BY <2>1, <3>4, <3>5, <3>6, <3>7, <3>8 DEF Envelope
  <2>4. m.packet \in 1 .. N + 1
    BY <1>1, <2>1
  <2>5. PICK S : messages \in Seq(S)
    BY <1>2
  <2>6. messages' = Append(messages, m)
    BY <1>7 DEF m
  <2>7. messages' \in Seq(S \cup {m})
    <3>1. messages \in Seq(S \cup {m}) /\ m \in S \cup {m}
      BY <2>5
    <3> QED
      BY ONLY <2>6, <3>1, Enqueued
  <2>8. \A k \in DOMAIN messages' : messages'[k] = m \/ \E j \in DOMAIN messages : messages'[k] = messages[j]
    BY ONLY <2>5, <2>6, AppendElements
  <2>9. \A k \in DOMAIN messages' : messages'[k].packet \in 1 .. N + 1 /\ MailHas(messages'[k], captured')
    BY <1>5, <2>3, <2>4, <2>8
  <2> QED
    BY <1>1, <2>7, <2>9 DEF MailsInv
<1> QED
  BY <1>6, <1>7, MailListed

LEMMA SmtpInvInductive ==
    /\ Init => SmtpInv
    /\ SmtpInv /\ [Next]_vars => SmtpInv'
<1>1. Init => SmtpInv
  <2> SUFFICES ASSUME Init PROVE captured \in Seq(Segments["smtp"]) /\ StreamsInv /\ MailsInv
    BY DEF SmtpInv
  <2>1. captured = <<>> /\ messages = <<>> /\ per = [x \in SessionStreams |-> NewStream]
    BY DEF Init, CaptureInit, SessionsInit
  <2>2. captured \in Seq(Segments["smtp"]) /\ messages \in Seq({})
    BY <2>1, Nothing
  <2>3. Len(captured) = 0 /\ 1 .. 0 = {} /\ DOMAIN messages = {}
    BY <2>1
  <2>4. ASSUME NEW x PROVE StreamHas(NewStream, captured, Len(captured), x)
    <3>1. Mails(captured, 0, x) = {} /\ Recipients(captured, 0, x) = {}
      BY <2>3 DEF Mails, Recipients, GivenSince, Commands, FromClient
    <3>2. Sender(captured, 0, x) = <<>> /\ ModeAt(captured, 0, x) = "commands"
      BY <3>1, ModeNext DEF Sender
    <3> QED
      BY <2>3, <3>1, <3>2 DEF StreamHas, NewStream
  <2>5. NewStream.to \in Seq({})
    BY Nothing DEF NewStream
  <2>6. StreamsInv
    BY <2>1, <2>4, <2>5 DEF StreamsInv, OnlyOf
  <2> QED
    BY <2>2, <2>3, <2>6 DEF MailsInv
<1>2. ASSUME SmtpInv, [Next]_vars, traffic' = "smtp"
      PROVE  (captured \in Seq(Segments["smtp"]) /\ StreamsInv /\ MailsInv)'
  <2>1. (SessionsNext /\ traffic = "smtp") \/ UNCHANGED <<traffic, captured, sessionVars>>
    BY <1>2, ByTraffic
  <2>2. CASE SessionsNext /\ traffic = "smtp"
    <3>1. captured \in Seq(Segments["smtp"]) /\ StreamsInv /\ MailsInv
      BY <1>2, <2>2 DEF SmtpInv
    <3>2. PICK s \in Segments["smtp"] :
             /\ \/ SmtpParse(s) \/ PopDissect(s) \/ ImapDissect(s) \/ IrcDissect(s) \/ TelnetDissect(s)
                \/ FtpDissect(s) \/ FtpData(s) \/ HttpDissect(s)
             /\ captured' = Append(captured, s)
      BY <2>2, SegmentTaken DEF SessionTraffic
    <3>3. captured' \in Seq(Segments["smtp"])
      BY <3>1, <3>2, Enqueued
    <3>4. StreamsInv'
      BY <3>1, <3>2, StreamsStep
    <3>5. MailsInv'
      BY <3>1, <3>2, MailsStep
    <3> QED
      BY <3>3, <3>4, <3>5
  <2>3. CASE UNCHANGED <<traffic, captured, sessionVars>>
    <3>1. captured \in Seq(Segments["smtp"]) /\ StreamsInv /\ MailsInv
      BY <1>2, <2>3 DEF SmtpInv
    <3>2. UNCHANGED <<captured, per, messages>>
      BY <2>3 DEF sessionVars
    <3> QED
      BY <3>1, <3>2 DEF StreamsInv, MailsInv
  <2> QED
    BY <2>1, <2>2, <2>3
<1> QED
  BY <1>1, <1>2 DEF SmtpInv

LEMMA SmtpInvSuffices == SmtpInv => MailHasItsEnvelope
<1> SUFFICES ASSUME captured \in Seq(Segments["smtp"]), MailsInv, NEW n \in DOMAIN messages, NEW m, m = messages[n]
             PROVE  LET mine == Before(m.packet + 1, m.stream)
                        commands == {i \in mine : Mode(i, m.stream) = "commands"}
                        body == {i \in mine : \A j \in commands : j < i}
                        mails == {i \in commands : captured[i].verb = "MAIL" /\ captured[i].args # <<>>}
                        since == {i \in commands : /\ captured[i].verb = "RCPT" /\ captured[i].args # <<>>
                                                   /\ \A j \in mails : j < i}
                        from == LastHeader(body, "From:")
                        to == LastHeader(body, "To:")
                    IN (\A i \in commands : captured[i].verb \notin {"AUTH LOGIN", "AUTH PLAIN"}) =>
                         /\ m.packet \in body /\ captured[m.packet].dot
                         /\ m.from = IF from # <<>> THEN from ELSE LastArg(mails)
                         /\ IF to # <<>> THEN m.to = <<to>>
                            ELSE {Arg(captured[i], 1) : i \in since} \subseteq {m.to[k] : k \in DOMAIN m.to}
  BY DEF SmtpInv, MailHasItsEnvelope
<1> DEFINE x == m.stream
           last == m.packet
           mine == Before(last + 1, x)
           commands == {i \in mine : Mode(i, x) = "commands"}
           body == {i \in mine : \A j \in commands : j < i}
           mails == {i \in commands : captured[i].verb = "MAIL" /\ captured[i].args # <<>>}
           since == {i \in commands : /\ captured[i].verb = "RCPT" /\ captured[i].args # <<>>
                                      /\ \A j \in mails : j < i}
           from == LastHeader(body, "From:")
           to == LastHeader(body, "To:")
<1>1. last \in Nat \ {0} /\ MailHas(m, captured)
  <2>1. DOMAIN captured = 1 .. Len(captured) /\ Len(captured) \in Nat
    BY ONLY captured \in Seq(Segments["smtp"])
  <2>2. last \in DOMAIN captured /\ MailHas(m, captured)
    BY DEF MailsInv
  <2>3. last \in Nat \ {0}
    BY ONLY <2>1, <2>2
  <2> QED
    BY ONLY <2>2, <2>3
<1>2. mine = FromClient(captured, last, x)
  <2>1. (last + 1) - 1 = last
    BY <1>1
  <2> QED
    BY <2>1 DEF Before, FromClient
<1>3. \A i : Mode(i, x) = ModeAt(captured, i - 1, x)
  BY DEF Mode, ModeAt
<1>4. commands = Commands(captured, last, x)
  BY <1>2, <1>3 DEF Commands
<1>5. mails = Mails(captured, last, x)
  BY <1>4 DEF Mails
<1>6. since = GivenSince(captured, last, x)
  BY <1>4, <1>5 DEF GivenSince
<1>7. LastArg(mails) = Sender(captured, last, x)
  BY <1>5 DEF LastArg, Sender
<1>8. body = Body(captured, last, x)
  BY <1>2, <1>4 DEF Body
<1>9. {Arg(captured[i], 1) : i \in since} = Recipients(captured, last, x)
  BY <1>6 DEF Recipients
<1>10. \A name : LastHeader(body, name) = HeaderSaid(captured, last, x, name)
  <2> SUFFICES ASSUME NEW name PROVE LastHeader(body, name) = HeaderSaid(captured, last, x, name)
    OBVIOUS
  <2> DEFINE A == WithHeader(captured, last, x, name)
  <2>1. A = {i \in body : HeaderLines(captured[i], name) # {}}
    BY <1>8 DEF WithHeader
  <2>2. A \in SUBSET (1 .. last)
    BY DEF WithHeader, Body, FromClient
  <2> HIDE DEF A, body
  <2>3. A # {} => LastIn(A) \in A
    BY <1>1, <2>2, MaxOfSome DEF LastIn
  <2>4. A # {} => HeaderLines(captured[LastIn(A)], name) # {}
    BY <2>1, <2>3
  <2>5. LastHeader(body, name) =
           IF A = {} THEN <<>>
           ELSE Tail(captured[LastIn(A)].args[LastIn(HeaderLines(captured[LastIn(A)], name))])
    BY <2>1 DEF LastHeader
  <2>6. HeaderSaid(captured, last, x, name) = IF A = {} THEN <<>> ELSE BodyHeader(captured[LastIn(A)], name, <<>>)
    BY DEF HeaderSaid, A
  <2> QED
    BY <2>4, <2>5, <2>6 DEF BodyHeader
<1> SUFFICES ASSUME \A i \in commands : captured[i].verb \notin {"AUTH LOGIN", "AUTH PLAIN"}
             PROVE  /\ last \in body /\ captured[last].dot
                    /\ m.from = IF from # <<>> THEN from ELSE LastArg(mails)
                    /\ IF to # <<>> THEN m.to = <<to>>
                       ELSE {Arg(captured[i], 1) : i \in since} \subseteq {m.to[k] : k \in DOMAIN m.to}
  OBVIOUS
<1>11. NoLogin(captured, last, x)
  BY <1>4 DEF NoLogin
<1>12. Envelope(m, captured, last, x)
  BY <1>1, <1>11 DEF MailHas
<1>13. last \in body
  <2> HIDE DEF last, x, body
  <2>4. last \in 1 .. last
    BY ONLY <1>1
  <2>1. last \in FromClient(captured, last, x) /\ last \notin Commands(captured, last, x)
    <3>1. /\ captured[last].stream = x /\ captured[last].dir = 0
          /\ ModeAt(captured, last - 1, x) # "commands"
      BY <1>12 DEF Envelope
    <3> QED
      BY ONLY <2>4, <3>1 DEF FromClient, Commands
  <2>2. Commands(captured, last, x) \subseteq 1 .. last
    BY DEF Commands, FromClient
  <2>3. \A j \in Commands(captured, last, x) : j < last
    <3>1. last \in Nat
      BY <1>1
    <3>2. \A j \in 1 .. last : j # last => j < last
      BY ONLY <3>1
    <3> QED
      BY ONLY <2>1, <2>2, <3>2
  <2> QED
    BY <1>8, <2>1, <2>3 DEF Body
<1> HIDE DEF mine, commands, body, mails, since, last, x
<1>14. from = HeaderSaid(captured, last, x, "From:") /\ to = HeaderSaid(captured, last, x, "To:")
  BY <1>10
<1> HIDE DEF from, to
<1> QED
  BY <1>7, <1>9, <1>12, <1>13, <1>14 DEF Envelope

\* A mail is listed by a segment of a body, and has the sender and the recipient the headers
\* of that body name last, and else the sender its own client gave last outside a body and at
\* least the recipients given since, however the segments of several clients interleave, a
\* body looks like commands, or one body ends and another begins in between (mail.js:77-88,
\* 129-147).
THEOREM MailsHaveTheirEnvelope == Spec => []MailHasItsEnvelope
<1> QED
  BY SmtpInvInductive, SmtpInvSuffices, PTL DEF Spec
=============================================================================
