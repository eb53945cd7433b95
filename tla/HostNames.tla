------------------------------ MODULE HostNames ------------------------------
(***************************************************************************)
(* What hosts tell about themselves: DHCP leases, servers and host names   *)
(* (src/dissectors/app/dhcp.js), NetBIOS names and datagrams               *)
(* (src/dissectors/app/nbns.js).                                           *)
(*                                                                         *)
(* A DHCP message has three areas options are read from, a NetBIOS message *)
(* its records.  The text of a layer, the options no state depends on and  *)
(* the question section's contents are left out.                           *)
(***************************************************************************)
EXTENDS Capture, Functions

CONSTANTS Announcements   \* the messages of "hosts" traffic

\* An option: the end mark, the code alone (the area ends behind it), or an option with its
\* value, and `bytes` of it that are there: one that is cut off has the part of it that is.
\* The value of a message type or overload is in the byte behind the length, there or not.
Option == [code : {"pad", "end", "bare", "type", "server", "host", "overload", "other"}, value : STRING, bytes : Nat]
Lease == [proto : {"dhcp"}, op : {1, 2}, whole : BOOLEAN, cookie : BOOLEAN, mac : STRING, yours : STRING,
          src : STRING, options : Seq(Option), file : Seq(Option), sname : Seq(Option)]

\* A record: `fits` as much as is there of it - "no" without its type, "short" without its
\* length, "rdata" without all its data.  `suffix` is "" for a name that is not encoded.
Node == [name : STRING, suffix : STRING, group : BOOLEAN]
NbRecord == [section : {"queries", "answers", "authorities", "additionals"}, type : {"NB", "NBSTAT", "other"},
           name : STRING, suffix : STRING, addrs : Seq(STRING), nodes : Seq(Node),
           fits : {"all", "rdata", "short", "no"}]
NameService == [proto : {"nbns"}, src : STRING, records : Seq(NbRecord)]

\* `direct`: of a type that has a source name; `readable`: both its names are.
Datagram == [proto : {"nbdgm"}, from : STRING, name : STRING, suffix : STRING, direct : BOOLEAN, readable : BOOLEAN]

ASSUME HostNamesAssumption == Announcements \subseteq Lease \cup NameService \cup Datagram

VARIABLES leases, servers, hostnames,  \* state.ext.dhcp
          netbios, byName,             \* state.ext.nbns: names of an address, addresses of a name
          rogue,                       \* the packets tagged dhcp-multiple-servers
          failed                       \* the packets a dissector threw on

hostVars == <<leases, servers, hostnames, netbios, byName, rogue, failed>>

HostNamesInit ==
    /\ leases = <<>> /\ servers = {} /\ hostnames = <<>>
    /\ netbios = <<>> /\ byName = <<>> /\ rogue = {} /\ failed = {}

-----------------------------------------------------------------------------
(* DHCP *)

\* The options of an area up to the end mark or where the next has no length.
parseOptions(area) ==
    LET stops == {i \in DOMAIN area : area[i].code \in {"end", "bare"}}
        n == IF stops = {} THEN Len(area) ELSE (CHOOSE i \in stops : \A j \in stops : i <= j) - 1
    IN SelectSeq(SubSeq(area, 1, n), LAMBDA o : o.code # "pad")

\* The text of an option: a server too short for an address is called by its length, and
\* only a host name can be empty.
renderOption(o) == CASE o.code = "server" /\ o.bytes < 4 -> <<"0 bytes", "1 bytes", "2 bytes", "3 bytes">>[o.bytes + 1]
                     [] o.code = "host" /\ o.bytes = 0 -> ""
                     [] OTHER -> o.value

FirstOption(opts, code) == LET is == {i \in DOMAIN opts : opts[i].code = code}
    IN IF is = {} THEN "" ELSE renderOption(opts[CHOOSE i \in is : \A j \in is : i <= j])

\* The last overload option that is not "none".
Overload(opts) == LET is == {i \in DOMAIN opts : opts[i].code = "overload" /\ opts[i].value \in {"file", "sname", "both"}}
                  IN IF is = {} THEN "none" ELSE opts[CHOOSE i \in is : \A j \in is : j <= i].value

\* All options: those of the file and sname fields are behind the others, and only an
\* overload option that is not in them counts.
AllOptions(m) ==
    LET main == parseOptions(m.options)
        overload == Overload(main)
    IN IF ~m.whole \/ ~m.cookie THEN <<>>
       ELSE main \o (IF overload \in {"file", "both"} THEN parseOptions(m.file) ELSE <<>>)
                 \o (IF overload \in {"sname", "both"} THEN parseOptions(m.sname) ELSE <<>>)

Server(m, opts) == IF FirstOption(opts, "server") # "" THEN FirstOption(opts, "server") ELSE m.src
ServerSpeaks(m, opts) == m.op = 2 /\ FirstOption(opts, "type") \in {"offer", "ack", "nak"}

\* Faulty variant: the host name of another client will do.
AnyHostname(host, mac) == IF host # "" THEN [x \in DOMAIN hostnames \cup {mac} |-> host] ELSE hostnames
RememberedHostnames(host, mac) == IF host # "" THEN Put(hostnames, mac, host) ELSE hostnames

\* A message cut off in its header ends before the state is touched.
DhcpDissect(m) ==
    /\ m.proto = "dhcp"
    /\ \E opts \in {AllOptions(m)} : \E host \in {FirstOption(opts, "host")} : \E server \in {Server(m, opts)} :
         IF ~m.whole THEN UNCHANGED <<leases, servers, hostnames, rogue>>
         ELSE /\ hostnames' = RememberedHostnames(host, m.mac)
              /\ servers' = IF ServerSpeaks(m, opts) /\ server \notin {"", "0.0.0.0"}
                            THEN servers \cup {server} ELSE servers
              /\ rogue' = IF ServerSpeaks(m, opts) /\ \E s, t \in servers' : s # t
                          THEN rogue \cup {Number} ELSE rogue
              /\ leases' = IF FirstOption(opts, "type") \in {"offer", "ack"}
                           THEN Append(leases, [mac |-> m.mac, ip |-> m.yours, server |-> server, packet |-> Number,
                                                hostname |-> IF m.mac \in DOMAIN hostnames' THEN hostnames'[m.mac]
                                                             ELSE None,
                                                tentative |-> FirstOption(opts, "type") = "offer"])
                           ELSE leases
    /\ UNCHANGED <<netbios, byName, failed>>

-----------------------------------------------------------------------------
(* NetBIOS *)

\* Faulty variant: a message with a record that is cut off is dropped.
IntactRecords(m) == IF \E i \in DOMAIN m.records : m.records[i].fits # "all" THEN <<>> ELSE m.records

\* The sections are read until a record is not all there; of it, what is there counts.
ReadRecords(m) ==
    LET bad == {i \in DOMAIN m.records : m.records[i].fits # "all"}
        first == CHOOSE i \in bad : \A j \in bad : i <= j
    IN SubSeq(m.records, 1, IF bad = {} THEN Len(m.records)
                            ELSE IF m.records[first].fits = "no" THEN first - 1 ELSE first)

\* A record cut off before its data has no list of addresses, and walking it throws.
ThrowsAt(r) == r.section \in {"answers", "additionals"} /\ r.type = "NB" /\ r.fits = "short"

Fact(name, suffix, ip) == [name |-> name, suffix |-> suffix, ip |-> ip]
Named(r) == {Fact(r.name, r.suffix, ip) : ip \in Range(r.addrs)}
Listed(r, src) == {Fact(n.name, n.suffix, src) : n \in {x \in Range(r.nodes) : ~x.group}}

\* A name record names its addresses, a node status its sender unless a record threw.
Facts(m) ==
    LET read == Range(ReadRecords(m))
        nb == {r \in read : r.section \in {"answers", "additionals"} /\ r.type = "NB" /\ r.fits # "short"}
        status == {r \in read : r.section = "answers" /\ r.type = "NBSTAT" /\ r.fits # "short"}
    IN (UNION {Named(r) : r \in nb})
       \cup (IF \E r \in read : ThrowsAt(r) THEN {} ELSE UNION {Listed(r, m.src) : r \in status})

\* What is learnt by learn(): no empty name, no name that was not encoded, no 0.0.0.0.
Learnt(facts) == {f \in facts : f.name # "" /\ f.suffix # "" /\ f.ip \notin {"", "0.0.0.0"}}
NamesOfHosts(facts) == [ip \in DOMAIN netbios \cup {f.ip : f \in facts} |->
    (IF ip \in DOMAIN netbios THEN netbios[ip] ELSE {})
    \cup {<<f.name, f.suffix>> : f \in {g \in facts : g.ip = ip}}]
HostsOfNames(facts) == [n \in DOMAIN byName \cup {f.name : f \in facts} |->
    (IF n \in DOMAIN byName THEN byName[n] ELSE {}) \cup {f.ip : f \in {g \in facts : g.name = n}}]

NbnsDissect(m) ==
    /\ m.proto = "nbns"
    /\ \E facts \in {Learnt(Facts(m))} :
         netbios' = NamesOfHosts(facts) /\ byName' = HostsOfNames(facts)
    /\ failed' = IF \E r \in Range(ReadRecords(m)) : ThrowsAt(r) THEN failed \cup {Number} ELSE failed
    /\ UNCHANGED <<leases, servers, hostnames, rogue>>

\* The sender of a datagram is named, but not entered under its name.
NbdgmDissect(m) ==
    /\ m.proto = "nbdgm"
    /\ netbios' = IF m.direct /\ m.readable /\ m.suffix # "" /\ m.from # "0.0.0.0"
                  THEN NamesOfHosts({Fact(m.name, m.suffix, m.from)}) ELSE netbios
    /\ UNCHANGED <<byName, leases, servers, hostnames, rogue, failed>>

HostNamesNext ==
    /\ More("hosts")
    /\ \E m \in Announcements : (DhcpDissect(m) \/ NbnsDissect(m) \/ NbdgmDissect(m)) /\ Receive(m)

-----------------------------------------------------------------------------
(* Properties *)

HostIn(m) == IF m.proto = "dhcp" THEN FirstOption(AllOptions(m), "host") ELSE ""
LastHost(mac, n) ==
    LET said == {i \in 1 .. n : HostIn(captured[i]) # "" /\ captured[i].mac = mac}
    IN IF said = {} THEN None ELSE HostIn(captured[CHOOSE i \in said : \A j \in said : j <= i])

Speaks(i) == captured[i].proto = "dhcp" /\ ServerSpeaks(captured[i], AllOptions(captured[i]))
Spoken(n) == {Server(captured[i], AllOptions(captured[i])) : i \in {j \in 1 .. n : Speaks(j)}} \ {"", "0.0.0.0"}

\* A lease shows the name its own client gave last, in whichever message and option area,
\* and never another client's; a packet is marked for a second server once two servers
\* were seen in replies, not before, an identifier too short for an address being a server
\* of its own (dhcp.js:65, 188-228).  An address has a NetBIOS name only if one message
\* brings both together, a name its addresses likewise: a group of a node status never
\* becomes the name of a host.  And every name a record gave its addresses stays, also that
\* of a message cut off, or thrown on, at a later record (nbns.js:166-176, 303-307).
Said(m, ip, name) ==
    \/ /\ m.proto = "nbns"
       /\ \E r \in Range(m.records) :
             \/ r.type = "NB" /\ r.name = name /\ ip \in Range(r.addrs)
             \/ r.type = "NBSTAT" /\ m.src = ip /\ \E n \in Range(r.nodes) : n.name = name /\ ~n.group
    \/ m.proto = "nbdgm" /\ m.from = ip /\ m.name = name
\* The facts of name records that are read, all records before them being whole.
Told(m) == UNION {Learnt(Named(m.records[k])) : k \in {j \in DOMAIN m.records :
              /\ m.records[j].section \in {"answers", "additionals"} /\ m.records[j].type = "NB"
              /\ m.records[j].fits \in {"all", "rdata"} /\ \A h \in 1 .. j - 1 : m.records[h].fits = "all"}}
Knows(f) == /\ f.ip \in DOMAIN netbios /\ <<f.name, f.suffix>> \in netbios[f.ip]
            /\ f.name \in DOMAIN byName /\ f.ip \in byName[f.name]
LeasesAndHostNames ==
    traffic = "hosts" =>
        /\ \A i \in DOMAIN leases : leases[i].hostname = LastHost(leases[i].mac, leases[i].packet)
        /\ \A n \in DOMAIN captured : n \in rogue <=> Speaks(n) /\ \E s, t \in Spoken(n) : s # t
        /\ \A ip \in DOMAIN netbios : \A p \in netbios[ip] : \E i \in DOMAIN captured : Said(captured[i], ip, p[1])
        /\ \A name \in DOMAIN byName : \A ip \in byName[name] :
              ip \in DOMAIN netbios /\ \E p \in netbios[ip] : p[1] = name
        /\ \A i \in DOMAIN captured : captured[i].proto = "nbns" => \A f \in Told(captured[i]) : Knows(f)
=============================================================================
