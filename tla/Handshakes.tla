----------------------------- MODULE Handshakes -----------------------------
(***************************************************************************)
(* What the first messages of SMB, SSH and TLS connections leave behind    *)
(* (src/dissectors/app/smb.js, ssh.js, tls.js): NTLM challenges and        *)
(* responses, shares and files, software banners, key exchanges, hellos    *)
(* and certificates.                                                       *)
(*                                                                         *)
(* A segment is what is found in it; lists of algorithms, fingerprints and *)
(* certificates are one value each, and dates, versions and the text of    *)
(* the layers are left out.                                                *)
(***************************************************************************)
EXTENDS Capture

CONSTANTS HandshakeSegments, HandshakeStreams

\* `ntlm`: the type of the NTLM message that is found, 0 if none is; `bytes` the length
\* of its response, 0 if it is empty or does not fit; `text` its challenge, or the path or
\* file name, "" if it is not all there.
Smb == [proto : {"smb"}, stream : HandshakeStreams, dir : {0, 1}, dialect : {1, 2}, whole : BOOLEAN,
        command : {"setup", "tree", "create", "other"}, ntlm : 0 .. 3, bytes : Nat, text : STRING, user : STRING]

\* `packet`: what follows the banner, or comes without one; "short" if it is too little,
\* "cut" if it is more than the segment, "few" if a list of a key exchange is missing.
Ssh == [proto : {"ssh"}, stream : HandshakeStreams, dir : {0, 1}, banner : STRING,
        packet : {"short", "cut", "kexinit", "few", "other"}, text : STRING]

\* `fits`: how much of a hello or a list of certificates is there: all, what its state is
\* made of, its beginning, or nothing.
HandshakeMessage == [is : {"client", "server", "certificates", "done", "empty", "other"}, fits : {"all", "most", "head", "no"},
            text : STRING, certs : Seq(STRING)]
TlsRecord == [is : {"handshake", "alert", "cipherspec", "data", "heartbeat", "unknown"}, whole : BOOLEAN,
           messages : Seq(HandshakeMessage)]
Tls == [proto : {"tls"}, stream : HandshakeStreams, dir : {0, 1}, src : STRING, records : Seq(TlsRecord)]

ASSUME HandshakesAssumption == HandshakeSegments \subseteq Smb \cup Ssh \cup Tls

VARIABLES challenges, trees, files, hashes,  \* state.ext.smb, and credentials of kind ntlm
          software, exchanges,               \* state.ext.ssh: per stream and direction, clients and servers
          hellos, certs, suites, sni         \* state.ext.tls, and tlsSni of the streams

smbVars == <<challenges, trees, files, hashes>>
sshVars == <<software, exchanges>>
tlsVars == <<hellos, certs, suites, sni>>
handshakeVars == <<smbVars, sshVars, tlsVars>>

HandshakesInit ==
    /\ challenges = <<>> /\ trees = <<>> /\ files = <<>> /\ hashes = <<>>
    /\ software = <<>> /\ exchanges = <<>>
    /\ hellos = <<>> /\ certs = <<>> /\ suites = <<>> /\ sni = <<>>

-----------------------------------------------------------------------------
(* SMB *)

\* Faulty variant: the challenges of all streams are one.
ChallengeOfAny(stream) ==
    IF DOMAIN challenges = {} THEN None ELSE challenges[CHOOSE x \in DOMAIN challenges : TRUE]
ChallengeOf(stream) == IF stream \in DOMAIN challenges THEN challenges[stream] ELSE None

\* The format follows from the length of the response; without a challenge it is only shown.
Format(bytes, challenge) ==
    CASE bytes > 24 /\ challenge # None -> "netntlmv2"
      [] bytes = 24 /\ challenge # None -> "netntlmv1"
      [] OTHER -> "hex"
buildSecret(s, challenge) ==
    [user |-> s.user, packet |-> Number, stream |-> s.stream, fmt |-> Format(s.bytes, challenge),
     challenge |-> IF Format(s.bytes, challenge) = "hex" THEN None ELSE challenge]

handleSecurityBlob(s) ==
    /\ challenges' = IF s.ntlm = 2 /\ s.text # "" THEN Put(challenges, s.stream, s.text) ELSE challenges
    /\ hashes' = IF s.ntlm = 3 THEN Append(hashes, buildSecret(s, ChallengeOf(s.stream))) ELSE hashes

\* Set.add: the position of a share that is there already stays.
AddTree(s) == trees' = IF s.text # "" /\ \A i \in DOMAIN trees : trees[i] # s.text THEN Append(trees, s.text) ELSE trees

LastTree == IF trees = <<>> THEN None ELSE trees[Len(trees)]

dissectSmb2(s) ==
    IF ~s.whole THEN UNCHANGED smbVars
    ELSE CASE s.command = "tree" /\ s.dir = 0 -> AddTree(s) /\ UNCHANGED <<challenges, files, hashes>>
           [] s.command = "create" /\ s.dir = 0 ->
                /\ files' = IF s.text # "" THEN Append(files, [name |-> s.text, tree |-> LastTree, packet |-> Number])
                            ELSE files
                /\ UNCHANGED <<challenges, trees, hashes>>
           [] s.command = "setup" -> handleSecurityBlob(s) /\ UNCHANGED <<trees, files>>
           [] OTHER -> UNCHANGED smbVars

\* Of SMB1 only what clients send is read, so no challenge of it is ever seen.
dissectSmb1(s) ==
    IF ~s.whole \/ s.dir = 1 THEN UNCHANGED smbVars
    ELSE CASE s.command = "setup" -> handleSecurityBlob(s) /\ UNCHANGED <<trees, files>>
           [] s.command = "tree" -> AddTree(s) /\ UNCHANGED <<challenges, files, hashes>>
           [] OTHER -> UNCHANGED smbVars

SmbDissect(s) ==
    /\ s.proto = "smb"
    /\ IF s.dialect = 2 THEN dissectSmb2(s) ELSE dissectSmb1(s)
    /\ UNCHANGED <<sshVars, tlsVars>>

-----------------------------------------------------------------------------
(* SSH *)

\* Each end of a stream has its own banner; one without a software version is left out.
End(s) == <<s.stream, s.dir>>

\* The banner of a segment is known before a key exchange behind it is read.
Banners(s) == IF s.banner # "" THEN Put(software, End(s), s.banner) ELSE software

parseKexinit(s) ==
    exchanges' = IF s.packet = "kexinit"
                 THEN Append(exchanges, [text |-> s.text, dir |-> s.dir, packet |-> Number,
                                         software |-> IF End(s) \in DOMAIN software' THEN software'[End(s)] ELSE None])
                 ELSE exchanges

SshDissect(s) ==
    /\ s.proto = "ssh"
    /\ software' = Banners(s)
    /\ parseKexinit(s)
    /\ UNCHANGED <<smbVars, tlsVars>>

-----------------------------------------------------------------------------
(* TLS *)

\* The records read: up to an unknown one, or one that goes on in the next segment.
RecordsRead(s) ==
    LET ends == {i \in DOMAIN s.records : s.records[i].is = "unknown" \/ ~s.records[i].whole}
        first == CHOOSE i \in ends : \A j \in ends : i <= j
    IN SubSeq(s.records, 1, IF ends = {} THEN Len(s.records)
                            ELSE IF s.records[first].is = "unknown" THEN first - 1 ELSE first)

\* The handshake messages of a record, up to an empty one that should not be, or one cut off.
MessagesRead(r) ==
    LET ends == {i \in DOMAIN r.messages : r.messages[i].is = "empty" \/ r.messages[i].fits # "all"}
        n == IF ends = {} THEN Len(r.messages) ELSE CHOOSE i \in ends : \A j \in ends : i <= j
    IN IF r.is = "handshake" THEN SubSeq(r.messages, 1, n) ELSE <<>>

AllMessages(s) ==
    LET rs == RecordsRead(s)
        upTo[n \in 0 .. Len(rs)] == IF n = 0 THEN <<>> ELSE upTo[n - 1] \o MessagesRead(rs[n])
    IN upTo[Len(rs)]

\* l.sni before the n-th message: that of the last hello with a name, in this packet.
SniBefore(ms, n) ==
    LET named == {i \in 1 .. n : ms[i].is = "client" /\ ms[i].fits \in {"all", "most"} /\ ms[i].text # ""}
    IN IF named = {} THEN None ELSE ms[CHOOSE i \in named : \A j \in named : j <= i].text

\* A hello of which at least the version is there gets a fingerprint, with the name the
\* layer has by then.
finishClientHello(s, ms) ==
    LET upTo[n \in 0 .. Len(ms)] ==
            IF n = 0 THEN <<>>
            ELSE IF ms[n].is = "client" /\ ms[n].fits # "no"
                 THEN Append(upTo[n - 1], [packet |-> Number, sni |-> SniBefore(ms, n)]) ELSE upTo[n - 1]
    IN hellos' = hellos \o upTo[Len(ms)]

parseServerHello(s, ms) ==
    LET is == {i \in DOMAIN ms : ms[i].is = "server" /\ ms[i].fits \in {"all", "most"}}
    IN suites' = IF is = {} \/ s.src = "" THEN suites
                 ELSE Put(suites, s.src, ms[CHOOSE i \in is : \A j \in is : j <= i].text)

parseCertificate(s, ms) ==
    LET upTo[n \in 0 .. Len(ms)] ==
            IF n = 0 THEN <<>>
            ELSE upTo[n - 1] \o (IF ms[n].is = "certificates" /\ ms[n].fits # "no"
                                 THEN [i \in DOMAIN ms[n].certs |-> [cert |-> ms[n].certs[i], packet |-> Number]]
                                 ELSE <<>>)
    IN certs' = certs \o upTo[Len(ms)]

\* Faulty variant: a stream keeps its first name.
NameOnce(s, name) ==
    IF name # None /\ s.stream \notin DOMAIN sni THEN Put(sni, s.stream, name) ELSE sni
NameStream(s, name) == IF name # None THEN Put(sni, s.stream, name) ELSE sni

TlsDissect(s) ==
    /\ s.proto = "tls"
    /\ \E ms \in {AllMessages(s)} :
         /\ finishClientHello(s, ms) /\ parseServerHello(s, ms) /\ parseCertificate(s, ms)
         /\ sni' = NameStream(s, SniBefore(ms, Len(ms)))
    /\ UNCHANGED <<smbVars, sshVars>>

HandshakesNext ==
    /\ More("handshakes")
    /\ \E s \in HandshakeSegments : (SmbDissect(s) \/ SshDissect(s) \/ TlsDissect(s)) /\ Receive(s)

-----------------------------------------------------------------------------
(* Properties *)

Latest(ns) == CHOOSE i \in ns : \A j \in ns : j <= i

\* What is said of a connection was said on it.  An NTLM response is put together with
\* the last challenge of its own stream, the only one it answers, and with none if that
\* stream had none before it or answers in another dialect (smb.js:142-169, 297).  A key
\* exchange is shown with the software of its own end of its own stream (ssh.js:43, 116).
\* A connection is called by the last name that any hello on it asked for, of those that
\* are read: by none before, and by that name until another hello on the same connection
\* asks for another.  A hello without a name has none unless one of the same packet lends
\* it (tls.js:233, 258, 167).
Challenged(h) == {i \in 1 .. h.packet - 1 :
    LET c == captured[i] IN c.proto = "smb" /\ c.stream = h.stream /\ c.command = "setup" /\ c.whole /\ c.ntlm = 2
                            /\ c.text # "" /\ (c.dialect = 1 => c.dir = 0)}
Bannered(x) == {i \in 1 .. x.packet :
    LET b == captured[i] IN b.proto = "ssh" /\ b.stream = captured[x.packet].stream /\ b.dir = x.dir /\ b.banner # ""}
NamesAsked(i) == {m.text : m \in {n \in UNION {{r.messages[k] : k \in DOMAIN r.messages} : r \in
                      {captured[i].records[k] : k \in DOMAIN captured[i].records}} : n.is = "client"}}
HellosWithName(i) == {k \in DOMAIN AllMessages(captured[i]) :
    LET m == AllMessages(captured[i])[k] IN m.is = "client" /\ m.fits \in {"all", "most"} /\ m.text # ""}
LastName(i) == AllMessages(captured[i])[Latest(HellosWithName(i))].text
NamingPackets(st) == {i \in DOMAIN captured : captured[i].proto = "tls" /\ captured[i].stream = st /\ HellosWithName(i) # {}}
HandshakesStayApart ==
    traffic = "handshakes" =>
        /\ \A n \in DOMAIN hashes :
              LET h == hashes[n]
              IN IF Challenged(h) = {} \/ captured[h.packet].bytes < 24
                 THEN h.challenge = None ELSE h.challenge = captured[Latest(Challenged(h))].text
        /\ \A n \in DOMAIN exchanges :
              exchanges[n].software = IF Bannered(exchanges[n]) = {} THEN None
                                      ELSE captured[Latest(Bannered(exchanges[n]))].banner
        /\ \A n \in DOMAIN hellos : hellos[n].sni # None => hellos[n].sni \in NamesAsked(hellos[n].packet)
        /\ DOMAIN sni = {st \in HandshakeStreams : NamingPackets(st) # {}}
        /\ \A st \in DOMAIN sni : sni[st] = LastName(Latest(NamingPackets(st)))
=============================================================================
