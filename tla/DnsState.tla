------------------------------ MODULE DnsState ------------------------------
(***************************************************************************)
(* What is learnt from DNS messages (src/dissectors/app/dns.js): names of  *)
(* addresses and transactions.                                             *)
(*                                                                         *)
(* A message holds cells, which its names are read from: a label, the end  *)
(* of a name, or a pointer to another cell.  Its items are the questions   *)
(* and records that are there, of which the header claims to have `claims`;*)
(* the three record sections are one, as they are when names are learnt.   *)
(* A message without a whole header changes nothing and is left out, and   *)
(* so are names of more than 127 labels, case, EDNS and the anomaly hints. *)
(***************************************************************************)
EXTENDS Capture, FiniteSets

CONSTANTS DnsMessages,
          MaxHops,     \* aliases followed from an address, 16 in the code
          MaxJumps     \* pointers followed in a name, 32 in the code

\* An item has its name at the cell `at`.  A record of type A has the address `addr`, "" where
\* its data are not four or sixteen bytes; a CNAME record has its data's name at the cell
\* `target`, and `last` is the last cell of its data.  `fits`: "all"; "rdata" where its data is
\* cut off, or of another type and unreadable; "no" where its fixed part is cut off.
Cell == [is : {"label", "end", "pointer"}, text : STRING, to : Nat]
Item == [question : BOOLEAN, at : Nat, type : {"A", "CNAME", "other"}, addr : STRING, target : Nat,
         last : Nat, fits : {"all", "rdata", "no"}]
Message == [resp : BOOLEAN, id : Nat, src : STRING, dst : STRING, cells : Seq(Cell),
            items : Seq(Item), claims : Nat]

ASSUME DnsAssumption == DnsMessages \subseteq Message /\ MaxHops \in Nat /\ MaxJumps \in Nat

VARIABLES names,         \* state.dns.names: the names of an address
          answers,       \* state.dns.answers: the addresses of a name
          pending,       \* state.dns.pending: the open transaction of a key
          transactions   \* state.dns.transactions

dnsVars == <<names, answers, pending, transactions>>

DnsInit == names = <<>> /\ answers = <<>> /\ pending = <<>> /\ transactions = <<>>

-----------------------------------------------------------------------------
(* Reading a message *)

\* The labels of the name at a cell, none of whose cells is behind `last`.  A name that runs
\* over it, and a pointer that leads behind it or is followed twice or once too often, is an
\* error: the labels before it stay.
readName(cells, at, last) ==
    LET walk[p \in Nat, seen \in SUBSET (1 .. last)] ==
            IF p \notin 1 .. last THEN [labels |-> <<>>, err |-> TRUE]
            ELSE CASE cells[p].is = "end" -> [labels |-> <<>>, err |-> FALSE]
                   [] cells[p].is = "label" ->
                        LET rest == walk[p + 1, seen] IN [rest EXCEPT !.labels = <<cells[p].text>> \o @]
                   [] OTHER ->
                        LET to == cells[p].to
                        IN IF to \notin 1 .. last \/ to \in seen \/ Cardinality(seen) >= MaxJumps
                           THEN [labels |-> <<>>, err |-> TRUE] ELSE walk[to, seen \cup {to}]
    IN walk[at, {}]

NameOf(m, i) == readName(m.cells, i.at, Len(m.cells))
TargetOf(m, i) == readName(m.cells, i.target, IF i.fits = "all" /\ i.last < Len(m.cells) THEN i.last ELSE Len(m.cells))

\* Whether a question or record is kept, and whether the sections are read on after it.
Keeps(m, i) == ~NameOf(m, i).err /\ i.fits # "no"
ReadsOn(m, i) == Keeps(m, i) /\ i.fits = "all" /\ (i.type = "CNAME" /\ ~i.question => ~TargetOf(m, i).err)

\* Items are read until one is bad, the message ends or all that were claimed are read.
ReadItems(m) ==
    {k \in DOMAIN m.items : /\ k <= m.claims /\ \A j \in 1 .. k - 1 : ReadsOn(m, m.items[j])
                            /\ Keeps(m, m.items[k])}

\* Of a record whose data is cut off no address is taken, but what there is of a name is.
parseDnsMessage(m) ==
    [k \in ReadItems(m) |->
       LET i == m.items[k]
       IN [question |-> i.question, type |-> i.type, name |-> NameOf(m, i).labels,
           addr |-> IF i.fits = "all" THEN i.addr ELSE "",
           target |-> IF i.type = "CNAME" THEN TargetOf(m, i).labels ELSE None]]

-----------------------------------------------------------------------------
(* updateState *)

\* The alias of a name: the owner of the last CNAME record that points to it.
Owners(read, n) == {i \in DOMAIN read : ~read[i].question /\ read[i].type = "CNAME" /\ read[i].target = n}
AliasOf(read, n) == read[CHOOSE i \in Owners(read, n) : \A j \in Owners(read, n) : j <= i].name

\* Faulty variant: the record is followed from its owner to its target.
Forward(read, name) ==
    {name} \cup {read[i].target : i \in {j \in DOMAIN read : read[j].type = "CNAME" /\ read[j].name = name}}

\* The name of an address record and, hop by hop, the aliases of it.
NamesOf(read, name) ==
    LET at[hops \in 0 .. MaxHops] ==
            IF hops = 0 THEN name
            ELSE LET cur == at[hops - 1] IN IF Owners(read, cur) = {} THEN cur ELSE AliasOf(read, cur)
    IN {at[hops] : hops \in 0 .. MaxHops}

Addresses(read) == {r \in {read[i] : i \in DOMAIN read} : ~r.question /\ r.type = "A" /\ r.addr # ""}
At(f, k) == IF k \in DOMAIN f THEN f[k] ELSE {}

Learn(read) ==
    /\ names' = [a \in DOMAIN names \cup {r.addr : r \in Addresses(read)} |->
                   At(names, a) \cup UNION {NamesOf(read, r.name) : r \in {s \in Addresses(read) : s.addr = a}}]
    /\ answers' = [n \in DOMAIN answers \cup {r.name : r \in Addresses(read)} |->
                     At(answers, n) \cup {r.addr : r \in {s \in Addresses(read) : s.name = n}}]

\* Faulty variant: the client is not part of the key.
KeyWithoutClient(m, q) == <<m.id, q, "", IF m.resp THEN m.src ELSE m.dst>>

\* id|name|type|client|server, q the first question or None.
KeyOf(m, q) == <<m.id, q, IF m.resp THEN m.dst ELSE m.src, IF m.resp THEN m.src ELSE m.dst>>
FirstQuestion(read) ==
    LET qs == SelectSeq(read, LAMBDA r : r.question) IN IF qs = <<>> THEN None ELSE <<qs[1].name, qs[1].type>>

Transaction(key, query, response) == [key |-> key, query |-> query, response |-> response]

DnsMessage(m) == \E read \in {parseDnsMessage(m)} : \E key \in {KeyOf(m, FirstQuestion(read))} :
    /\ Learn(read)
    /\ IF ~m.resp
       THEN \* a query that is sent again replaces the open transaction
            /\ transactions' = Append(transactions, Transaction(key, Number, None))
            /\ pending' = Put(pending, key, Len(transactions) + 1)
       ELSE IF key \in DOMAIN pending
            THEN /\ transactions' = [transactions EXCEPT ![pending[key]].response = Number]
                 /\ pending' = [k \in DOMAIN pending \ {key} |-> pending[k]]
            ELSE /\ transactions' = Append(transactions, Transaction(key, None, Number))
                 /\ UNCHANGED pending
    /\ Receive(m)

DnsNext == More("dns") /\ \E m \in DnsMessages : DnsMessage(m)

-----------------------------------------------------------------------------
(* Properties *)

\* A response is shown with the query it answers: the last one before it with the same
\* number, question, client and server, if no other response took that one.  Repeated
\* queries, repeated and late responses and the same number used by two clients do not
\* mix transactions, and no message is in two (dns.js:409-433).
QuestionOf(n) == FirstQuestion(parseDnsMessage(captured[n]))
Parties(n) == IF captured[n].resp THEN <<captured[n].dst, captured[n].src>> ELSE <<captured[n].src, captured[n].dst>>
Same(i, j) == captured[i].id = captured[j].id /\ Parties(i) = Parties(j) /\ QuestionOf(i) = QuestionOf(j)
Answered(r) == {i \in 1 .. r - 1 : /\ ~captured[i].resp /\ captured[r].resp /\ Same(i, r)
                                   /\ \A j \in i + 1 .. r - 1 : ~Same(i, j)}
AnswersItsQuery ==
    traffic = "dns" =>
        /\ \A i \in DOMAIN captured :
              Cardinality({t \in DOMAIN transactions : i \in {transactions[t].query, transactions[t].response}}) = 1
        /\ \A t \in DOMAIN transactions :
              LET x == transactions[t]
              IN x.response # None =>
                    IF Answered(x.response) = {} THEN x.query = None ELSE Answered(x.response) = {x.query}

\* An address is only ever called by names that some one message gives it: the owner of
\* a whole address record or a name that leads to it through that message's own CNAME
\* records, among them the last one, whose target broke off; loops of aliases end, and where
\* every alias is the only one for its target all of them are among its names.  Nothing is
\* learnt from a record whose address is cut off (dns.js:122-125, 392-407).
Reads == {parseDnsMessage(captured[i]) : i \in DOMAIN captured}
LeadsTo(read) == {<<r.name, r.target>> : r \in {s \in {read[i] : i \in DOMAIN read} : ~s.question /\ s.type = "CNAME"}}
Reaching(pairs, n) ==
    LET back[k \in 0 .. Cardinality(pairs)] ==
            IF k = 0 THEN {n}
            ELSE LET reached == back[k - 1] IN reached \cup {p[1] : p \in {q \in pairs : q[2] \in reached}}
    IN back[Cardinality(pairs)]
Unambiguous(pairs) == \A p, q \in pairs : p[2] = q[2] => p = q
HoldsWhole(m, a) == \E k \in DOMAIN m.items :
    k <= m.claims /\ ~m.items[k].question /\ m.items[k].type = "A" /\ m.items[k].addr = a /\ m.items[k].fits = "all"
NamesFollowTheChain ==
    traffic = "dns" =>
        \A a \in DOMAIN names :
            /\ a # "" /\ \E i \in DOMAIN captured : HoldsWhole(captured[i], a)
            /\ names[a] \subseteq UNION {UNION {Reaching(LeadsTo(read), r.name) : r \in {s \in Addresses(read) : s.addr = a}}
                                         : read \in Reads}
            /\ \A read \in Reads : \A r \in Addresses(read) :
                  r.addr = a /\ Unambiguous(LeadsTo(read)) /\ Cardinality(LeadsTo(read)) <= MaxHops
                    => Reaching(LeadsTo(read), r.name) \subseteq names[a]
=============================================================================
