------------------------------ MODULE Sessions ------------------------------
(***************************************************************************)
(* What the dissectors of SMTP, POP3, IMAP, FTP, Telnet, IRC and HTTP      *)
(* remember of a stream (src/dissectors/app/mail.js, ftp.js, telnet.js,    *)
(* http.js): logins, mail envelopes and FTP data channels.                 *)
(*                                                                         *)
(* A segment is the verb and the arguments of its first line, which is all *)
(* that is read of it, that of MAIL and RCPT the address, if one is found  *)
(* in it; in a mail body, whether a line is a dot and the From: and To:    *)
(* lines before it, each with its value; in Telnet, the characters typed,  *)
(* CR among them; in HTTP, the headers and form fields, each with its      *)
(* name, and whether a blank line ends the headers (`dot`).  A decoded     *)
(* base64 argument is the argument.  The label of the stream is left out,  *)
(* and so is state.ext.http, which nothing reads.                          *)
(***************************************************************************)
EXTENDS Capture, FiniteSets

CONSTANTS Segments,        \* the segments of "smtp", "logins" and "ftp" traffic
          SessionStreams

\* `dir` 0 is from the client.  `at` is an endpoint, of a PORT, EPRT, 227 or 229, and of
\* a data stream one that is its own.
Segment == [proto : {"smtp", "pop", "imap", "ftp", "ftpdata", "telnet", "irc", "http"}, stream : SessionStreams,
            dir : {0, 1}, verb : STRING, args : Seq(Seq(STRING)), dot : BOOLEAN, at : STRING]

\* A header or form field has its name and its value: the scheme of an authorization, or the
\* name of a cookie, and what belongs to it, empty if nothing was sent.
Whole(h) == /\ Len(h) >= 2
            /\ h[1] = "authorization" /\ h[2] \in {"bearer", "ntlm"} => Len(h) >= 3
            /\ h[1] = "authorization" /\ h[2] = "basic" => Len(h) >= 4
            /\ h[1] \in {"cookie", "set-cookie"} => Len(h) >= 3

SessionTraffic == {"smtp", "logins", "ftp"}
ASSUME SessionsAssumption ==
    /\ Segments \in [SessionTraffic -> SUBSET Segment]
    \* the ports of a stream decide its protocol, so its state is of one protocol
    /\ \A k \in SessionTraffic : \A s, t \in Segments[k] : s.stream = t.stream => s.proto = t.proto
    /\ \A k \in SessionTraffic : \A s \in Segments[k] :
          s.proto = "http" => \A i \in DOMAIN s.args : Whole(s.args[i])

VARIABLES per,          \* state.ext[proto][stream]
          credentials,  \* state.ext.credentials
          messages,     \* state.ext.smtp.messages
          dataChannels, \* state.ext.ftp.dataChannels
          transfers     \* history: the file each FTP data segment is shown for

sessionVars == <<per, credentials, messages, dataChannels, transfers>>

NewStream == [user |-> <<>>, from |-> <<>>, to |-> <<>>, hdrFrom |-> <<>>, hdrTo |-> <<>>, inData |-> FALSE,
              authState |-> "none", cbuf |-> <<>>, prompt |-> "none", lastFile |-> <<>>]

SessionsInit ==
    /\ per = [s \in SessionStreams |-> NewStream]
    /\ credentials = <<>> /\ messages = <<>> /\ dataChannels = <<>> /\ transfers = <<>>

Arg(s, n) == IF n <= Len(s.args) THEN s.args[n] ELSE <<>>
LastIn(ns) == CHOOSE i \in ns : \A j \in ns : j <= i

\* The first line of a segment, as a token.
Line(s) == <<s.verb>> \o Arg(s, 1)

Credential(s, user, secret) ==
    [proto |-> s.proto, user |-> user, secret |-> secret, packet |-> Number, stream |-> s.stream]
pushCred(s, user, secret) == credentials' = Append(credentials, Credential(s, user, secret))

\* Faulty variant: one state for all streams.
Anywhere(s, new) == [x \in SessionStreams |-> new]
StreamState(s, new) == [per EXCEPT ![s.stream] = new]
Becomes(s, new) == per' = StreamState(s, new)

-----------------------------------------------------------------------------
(* SMTP *)

\* The value of the last header of a name in a body segment, an empty one too; what was
\* read before, if there is none.
HeaderLines(s, name) == {i \in DOMAIN s.args : s.args[i] # <<>> /\ s.args[i][1] = name}
BodyHeader(s, name, old) == IF HeaderLines(s, name) = {} THEN old ELSE Tail(s.args[LastIn(HeaderLines(s, name))])
Headers(s) == [per[s.stream] EXCEPT !.hdrFrom = BodyHeader(s, "From:", @), !.hdrTo = BodyHeader(s, "To:", @)]

\* Headers come before the envelope, which is kept after the message, recipients included.
SmtpMessage(s) ==
    LET p == Headers(s)
    IN [from |-> IF p.hdrFrom # <<>> THEN p.hdrFrom ELSE p.from,
        to |-> IF p.hdrTo # <<>> THEN <<p.hdrTo>> ELSE p.to, packet |-> Number, stream |-> s.stream]

\* Faulty variant: the headers of a body are those of the next.
BodyKeepingHeaders(s) ==
    IF s.dot THEN messages' = Append(messages, SmtpMessage(s)) /\ Becomes(s, [Headers(s) EXCEPT !.inData = FALSE])
    ELSE Becomes(s, Headers(s)) /\ UNCHANGED messages

\* In a body every client segment is body, whatever it looks like.
smtpBody(s) ==
    IF s.dot THEN /\ messages' = Append(messages, SmtpMessage(s))
                  /\ Becomes(s, [per[s.stream] EXCEPT !.inData = FALSE, !.hdrFrom = <<>>, !.hdrTo = <<>>])
    ELSE Becomes(s, Headers(s)) /\ UNCHANGED messages

\* AUTH PLAIN holds user and password, AUTH LOGIN at most the user.
smtpAuthStart(s) ==
    LET p == per[s.stream]
    IN CASE s.verb = "AUTH PLAIN" /\ s.args # <<>> -> pushCred(s, Arg(s, 1), Arg(s, 2)) /\ UNCHANGED per
         [] s.verb = "AUTH PLAIN" /\ s.args = <<>> -> Becomes(s, [p EXCEPT !.authState = "plain"]) /\ UNCHANGED credentials
         [] s.verb = "AUTH LOGIN" /\ s.args # <<>> ->
              Becomes(s, [p EXCEPT !.user = Arg(s, 1), !.authState = "login-pass"]) /\ UNCHANGED credentials
         [] OTHER -> Becomes(s, [p EXCEPT !.authState = "login-user"]) /\ UNCHANGED credentials

\* While a login is under way the next client segment continues it, whatever it looks like.
smtpAuthContinue(s) ==
    LET p == per[s.stream]
    IN CASE p.authState = "login-user" ->
              Becomes(s, [p EXCEPT !.user = Line(s), !.authState = "login-pass"]) /\ UNCHANGED credentials
         [] p.authState = "login-pass" -> pushCred(s, p.user, Line(s)) /\ Becomes(s, [p EXCEPT !.authState = "none"])
         [] OTHER -> pushCred(s, Arg(s, 1), Arg(s, 2)) /\ Becomes(s, [p EXCEPT !.authState = "none"])

\* A MAIL or RCPT in which no address is found changes nothing.
smtpCommand(s) ==
    LET p == per[s.stream]
    IN CASE s.verb = "MAIL" /\ s.args # <<>> -> Becomes(s, [p EXCEPT !.from = Arg(s, 1)])
         [] s.verb = "RCPT" /\ s.args # <<>> -> Becomes(s, [p EXCEPT !.to = Append(@, Arg(s, 1))])
         [] s.verb = "DATA" -> Becomes(s, [p EXCEPT !.inData = TRUE])
         [] OTHER -> UNCHANGED per

SmtpParse(s) ==
    /\ s.proto = "smtp"
    /\ IF s.dir = 1 THEN UNCHANGED <<per, credentials, messages>>
       ELSE IF per[s.stream].inData THEN smtpBody(s) /\ UNCHANGED credentials
       ELSE /\ UNCHANGED messages
            /\ IF per[s.stream].authState # "none" THEN smtpAuthContinue(s)
               ELSE IF s.verb \in {"AUTH PLAIN", "AUTH LOGIN"} THEN smtpAuthStart(s)
               ELSE smtpCommand(s) /\ UNCHANGED credentials
    /\ UNCHANGED <<dataChannels, transfers>>

-----------------------------------------------------------------------------
(* POP3, IMAP, IRC *)

PopDissect(s) ==
    /\ s.proto = "pop"
    /\ IF s.dir = 0 /\ s.verb = "USER"
       THEN Becomes(s, [per[s.stream] EXCEPT !.user = Arg(s, 1)]) /\ UNCHANGED credentials
       ELSE IF s.dir = 0 /\ s.verb = "PASS" THEN pushCred(s, per[s.stream].user, Arg(s, 1)) /\ UNCHANGED per
       ELSE UNCHANGED <<per, credentials>>
    /\ UNCHANGED <<messages, dataChannels, transfers>>

ImapDissect(s) ==
    /\ s.proto = "imap"
    /\ IF s.dir = 0 /\ s.verb = "LOGIN"
       THEN pushCred(s, Arg(s, 1), Arg(s, 2)) /\ Becomes(s, [per[s.stream] EXCEPT !.user = Arg(s, 1)])
       ELSE UNCHANGED <<per, credentials>>
    /\ UNCHANGED <<messages, dataChannels, transfers>>

\* A password is taken from either direction, and has no user.
IrcDissect(s) ==
    /\ s.proto = "irc"
    /\ IF s.verb = "PASS" THEN pushCred(s, <<>>, Arg(s, 1)) ELSE UNCHANGED credentials
    /\ UNCHANGED <<per, messages, dataChannels, transfers>>

-----------------------------------------------------------------------------
(* Telnet *)

\* Client characters are collected to lines; after a prompt a line is a user or a password.
\* The user prompt stays in force, the password prompt does not.
Typed(s) ==
    LET chars == Arg(s, 1)
        Step(p, ch) ==
            IF ch # "CR" THEN [p EXCEPT !.st.cbuf = Append(@, ch)]
            ELSE LET tok == p.st.cbuf
                     q == [p EXCEPT !.st.cbuf = <<>>]
                 IN CASE tok # <<>> /\ p.st.prompt = "login" -> [q EXCEPT !.st.user = tok]
                      [] tok # <<>> /\ p.st.prompt = "password" ->
                           [q EXCEPT !.st.prompt = "none", !.out = Append(@, Credential(s, p.st.user, tok))]
                      [] OTHER -> q
        run[n \in 0 .. Len(chars)] ==
            IF n = 0 THEN [st |-> per[s.stream], out |-> <<>>] ELSE Step(run[n - 1], chars[n])
    IN run[Len(chars)]

TelnetDissect(s) ==
    /\ s.proto = "telnet"
    /\ IF s.dir = 1
       THEN /\ per' = IF s.verb \in {"login", "password"}
                      THEN StreamState(s, [per[s.stream] EXCEPT !.prompt = s.verb]) ELSE per
            /\ UNCHANGED credentials
       ELSE \E after \in {Typed(s)} : Becomes(s, after.st) /\ credentials' = credentials \o after.out
    /\ UNCHANGED <<messages, dataChannels, transfers>>

-----------------------------------------------------------------------------
(* FTP *)

recordChannel(s) == dataChannels' = Append(dataChannels, [at |-> s.at, forStream |-> s.stream])

FtpRequest(s) ==
    LET p == per[s.stream]
    IN CASE s.verb = "USER" -> Becomes(s, [p EXCEPT !.user = Arg(s, 1)]) /\ UNCHANGED <<credentials, dataChannels>>
         [] s.verb = "PASS" -> pushCred(s, p.user, Arg(s, 1)) /\ UNCHANGED <<per, dataChannels>>
         [] s.verb \in {"RETR", "STOR"} -> Becomes(s, [p EXCEPT !.lastFile = Arg(s, 1)]) /\ UNCHANGED <<credentials, dataChannels>>
         [] s.verb \in {"PORT", "EPRT"} -> recordChannel(s) /\ UNCHANGED <<per, credentials>>
         [] OTHER -> UNCHANGED <<per, credentials, dataChannels>>

FtpReply(s) == /\ IF s.verb \in {"227", "229"} THEN recordChannel(s) ELSE UNCHANGED dataChannels
               /\ UNCHANGED <<per, credentials>>

FtpDissect(s) ==
    /\ s.proto = "ftp"
    /\ IF s.dir = 0 THEN FtpRequest(s) ELSE FtpReply(s)
    /\ UNCHANGED <<messages, transfers>>

\* Faulty variant: any channel will do.
SomeChannel(at) == DOMAIN dataChannels
findChannel(at) == {i \in DOMAIN dataChannels : /\ dataChannels[i].at = at
                                               /\ \A j \in 1 .. i - 1 : dataChannels[j].at # at}

\* A segment of a stream one end of which was announced: the first announcement counts,
\* and the file is the one its control stream asked for last.
FtpData(s) ==
    /\ s.proto = "ftpdata"
    /\ transfers' = IF findChannel(s.at) = {} THEN transfers
                    ELSE LET ch == dataChannels[CHOOSE i \in findChannel(s.at) : TRUE]
                         IN Append(transfers, [packet |-> Number, forStream |-> ch.forStream,
                                               file |-> per[ch.forStream].lastFile])
    /\ UNCHANGED <<per, credentials, messages, dataChannels>>

-----------------------------------------------------------------------------
(* HTTP *)

\* Those with v in place k, in their order.
Matching(hs, k, v) ==
    LET upTo[n \in 0 .. Len(hs)] ==
            IF n = 0 THEN <<>> ELSE IF hs[n][k] = v THEN Append(upTo[n - 1], hs[n]) ELSE upTo[n - 1]
    IN upTo[Len(hs)]

\* The headers, or form fields, of a name; of most headers the first counts.
Fields(s, name) == Matching(s.args, 1, name)
Header1(s, name) == LET hs == Fields(s, name) IN IF hs = <<>> THEN <<>> ELSE <<hs[1]>>

Pair(user, secret) == <<user, secret>>

\* Authorization: user and password of Basic, a token without a user of the other two.
AuthPairs(s) ==
    LET hs == Header1(s, "authorization")
    IN IF hs = <<>> \/ hs[1][2] \notin {"basic", "bearer", "ntlm"} THEN <<>>
       ELSE IF hs[1][2] = "basic" THEN <<Pair(<<hs[1][3]>>, <<hs[1][4]>>)>> ELSE <<Pair(<<>>, <<hs[1][3]>>)>>

\* A posted form with a password in it, the first of each field.
FormPairs(s) ==
    LET users == Header1(s, "user")
        passes == Header1(s, "password")
        form == Header1(s, "content-type") = <<>> \/ Header1(s, "content-type")[1][2] = "form"
    IN IF s.verb \notin {"POST", "PUT"} \/ ~s.dot \/ ~form \/ passes = <<>> THEN <<>>
       ELSE <<Pair(IF users = <<>> THEN <<>> ELSE <<users[1][2]>>, <<passes[1][2]>>)>>

\* The cookies of a Cookie header and of all Set-Cookie headers that look like a session.
CookiePairs(s) ==
    LET cs == Matching(Header1(s, "cookie") \o Fields(s, "set-cookie"), 2, "session")
    IN [i \in DOMAIN cs |-> Pair(<<cs[i][2]>>, <<cs[i][3]>>)]

HttpDissect(s) ==
    /\ s.proto = "http"
    /\ \E pairs \in {IF s.verb \in {"GET", "POST", "PUT", "HTTP/1.1"} THEN AuthPairs(s) \o FormPairs(s) \o CookiePairs(s)
                     ELSE <<>>} :
         credentials' = credentials \o [i \in DOMAIN pairs |-> Credential(s, pairs[i][1], pairs[i][2])]
    /\ UNCHANGED <<per, messages, dataChannels, transfers>>

SessionsNext ==
    \E kind \in SessionTraffic :
        More(kind) /\ \E s \in Segments[kind] :
            /\ SmtpParse(s) \/ PopDissect(s) \/ ImapDissect(s) \/ IrcDissect(s) \/ TelnetDissect(s)
               \/ FtpDissect(s) \/ FtpData(s) \/ HttpDissect(s)
            /\ Receive(s)

-----------------------------------------------------------------------------
(* Properties *)

\* The packets before packet n on a stream, from its client.
Before(n, stream) == {i \in 1 .. n - 1 : captured[i].stream = stream /\ captured[i].dir = 0}
LastArg(ns) == IF ns = {} THEN <<>> ELSE Arg(captured[LastIn(ns)], 1)
Words(i) == {Line(captured[i]), Arg(captured[i], 1), Arg(captured[i], 2)}
Holds(s, v) == \E i \in DOMAIN s.args : \E k \in 2 .. Len(s.args[i]) : s.args[i][k] = v

\* What was typed on a stream up to packet n, and its lines as <<begin, end>>.
TypedBy(n, stream) ==
    LET upTo[i \in 0 .. n] == IF i = 0 THEN <<>>
                              ELSE upTo[i - 1] \o (IF captured[i].stream = stream /\ captured[i].dir = 0
                                                   THEN Arg(captured[i], 1) ELSE <<>>)
    IN upTo[n]
LinesOf(chars) ==
    {r \in (DOMAIN chars) \X (DOMAIN chars) :
        /\ r[1] <= r[2] /\ r[2] < Len(chars) /\ chars[r[2] + 1] = "CR"
        /\ r[1] = 1 \/ chars[r[1] - 1] = "CR"
        /\ \A k \in r[1] .. r[2] : chars[k] # "CR"}

\* A credential that is shown was sent, whole, by one client on one stream: the secret in
\* the packet that is named, the user in that packet or before it - the last one a POP or
\* FTP client named, the one of the segment before it in an SMTP dialogue, an earlier line
\* of a Telnet terminal, however the characters were cut into segments.  Sessions whose
\* packets interleave are not mixed (mail.js:103-128, 181-182, 227-230; ftp.js:71-77;
\* telnet.js:100-129, 176-181).  Those of HTTP are values of the message that is named: of its
\* headers, its form fields or its cookies (http.js:158-172, 213-253).
CredentialsAreSent ==
    traffic \in SessionTraffic => \A n \in DOMAIN credentials :
        LET c == credentials[n]
            s == captured[c.packet]
            mine == Before(c.packet, c.stream)
        IN /\ s.stream = c.stream /\ s.proto = c.proto /\ (s.dir = 1 => c.proto \in {"irc", "http"})
           /\ c.proto = "http" => Holds(s, c.secret[1]) /\ \A k \in DOMAIN c.user : Holds(s, c.user[k])
           /\ c.proto \notin {"telnet", "http"} => c.secret \in Words(c.packet)
           /\ c.proto \in {"pop", "ftp"} => c.user = LastArg({i \in mine : captured[i].verb = "USER"})
           /\ c.proto = "imap" => c.user \in Words(c.packet)
           /\ c.proto = "smtp" => c.user \in Words(c.packet) \/ (mine # {} /\ c.user \in Words(LastIn(mine)))
           /\ c.proto = "telnet" =>
                 LET chars == TypedBy(c.packet, c.stream)
                     Text(l) == SubSeq(chars, l[1], l[2])
                 IN \E l \in LinesOf(chars) :
                       /\ Text(l) = c.secret
                       /\ l[2] >= Len(TypedBy(c.packet - 1, c.stream))
                       /\ c.user = <<>> \/ \E u \in LinesOf(chars) : u[2] < l[1] /\ Text(u) = c.user

\* What packet n of a client is: a DATA makes what follows a body, up to and with the
\* segment a dot is in; a DATA in a body is text.
Mode(n, stream) ==
    LET mode[i \in 0 .. n - 1] ==
            IF i = 0 THEN "commands"
            ELSE IF ~(captured[i].stream = stream /\ captured[i].dir = 0) THEN mode[i - 1]
            ELSE IF mode[i - 1] = "body" THEN IF captured[i].dot THEN "commands" ELSE "body"
            ELSE IF captured[i].verb = "DATA" THEN "body" ELSE "commands"
    IN mode[n - 1]

\* The value of the last header of a name in packets ns.
LastHeader(ns, name) ==
    LET with == {i \in ns : HeaderLines(captured[i], name) # {}}
        s == captured[LastIn(with)]
    IN IF with = {} THEN <<>> ELSE Tail(s.args[LastIn(HeaderLines(s, name))])

\* A mail is listed by a segment of a body, the last of it, and has the sender and the
\* recipient the headers of that body name last, in whatever segments of it; without them
\* the sender its own stream gave last outside a body, and at least the recipients given
\* since.  What looks like a command in a body is none, and no header of an earlier body
\* counts (mail.js:77-88, 129-147).  It may have more: the recipients of earlier mails
\* stay.  Logins are left out: while one is under way a command is a password.
MailHasItsEnvelope ==
    traffic = "smtp" => \A n \in DOMAIN messages :
        LET m == messages[n]
            mine == Before(m.packet + 1, m.stream)
            commands == {i \in mine : Mode(i, m.stream) = "commands"}
            body == {i \in mine : \A j \in commands : j < i}
            mails == {i \in commands : captured[i].verb = "MAIL" /\ captured[i].args # <<>>}
            since == {i \in commands : /\ captured[i].verb = "RCPT" /\ captured[i].args # <<>>
                                       /\ \A j \in mails : j < i}
            from == LastHeader(body, "From:")
            to == LastHeader(body, "To:")
        IN (\A i \in commands : captured[i].verb \notin {"AUTH LOGIN", "AUTH PLAIN"}) =>
             /\ m.packet \in body /\ captured[m.packet].dot
             /\ m.from = IF from # <<>> THEN from ELSE LastArg(mails)
             /\ IF to # <<>> THEN m.to = <<to>>
                ELSE {Arg(captured[i], 1) : i \in since} \subseteq {m.to[k] : k \in DOMAIN m.to}

\* A transfer is shown under a session that announced its endpoint, and under the file
\* that session asked for last; of two sessions that announced the same endpoint the
\* first has it (ftp.js:78-85, 104-117, 134-158).
Announces(i, at) == /\ captured[i].proto = "ftp" /\ captured[i].at = at
                    /\ captured[i].verb \in (IF captured[i].dir = 0 THEN {"PORT", "EPRT"} ELSE {"227", "229"})
TransferOfItsSession ==
    traffic = "ftp" =>
        /\ \A n \in DOMAIN transfers :
              LET t == transfers[n]
                  announced == {i \in 1 .. t.packet - 1 : Announces(i, captured[t.packet].at)}
                  first == CHOOSE i \in announced : \A j \in announced : i <= j
              IN /\ announced # {} /\ t.forStream = captured[first].stream
                 /\ t.file = LastArg({i \in Before(t.packet, t.forStream) : captured[i].verb \in {"RETR", "STOR"}})
        /\ \A i \in DOMAIN captured :
              captured[i].proto = "ftpdata" /\ (\E j \in 1 .. i - 1 : Announces(j, captured[i].at))
                => \E n \in DOMAIN transfers : transfers[n].packet = i
=============================================================================
