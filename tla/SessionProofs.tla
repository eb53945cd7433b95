--------------------------- MODULE SessionProofs ---------------------------
(***************************************************************************)
(* The theorem about the credentials of sessions (Sessions): what is shown *)
(* was sent, on one stream, by one client, and belongs together.           *)
(*                                                                         *)
(* The state of a stream is compared with what its client has sent so far: *)
(* the user a POP or FTP client named last, the segment before the next in *)
(* an SMTP dialogue, the line a Telnet user has begun.                     *)
(***************************************************************************)
EXTENDS ProtocolProofs

-----------------------------------------------------------------------------
(* What was typed on a stream *)

TextOf(e, x) == IF e.stream = x /\ e.dir = 0 THEN Arg(e, 1) ELSE <<>>

\* The first n packets of a capture hold segments, and what the client of x sent in them.
HasText(cap, n, x) == \A i \in 1 .. n : TextOf(cap[i], x) \in Seq(STRING)
TypedIn(cap, n, x) ==
    LET upTo[i \in 0 .. n] == IF i = 0 THEN <<>>
                              ELSE upTo[i - 1] \o (IF cap[i].stream = x /\ cap[i].dir = 0
                                                   THEN Arg(cap[i], 1) ELSE <<>>)
    IN upTo[n]
Texts(g, cap, n, x) == g[0] = <<>> /\ \A i \in 1 .. n : g[i] = g[i - 1] \o TextOf(cap[i], x)

\* The text is the last one of those that grow with the packets.
LEMMA TextIsLast ==
    ASSUME NEW cap, NEW x, NEW N \in Nat, HasText(cap, N, x)
    PROVE  \E g : Texts(g, cap, N, x) /\ TypedIn(cap, N, x) = g[N]
<1> DEFINE T == Seq(STRING)
           next(i, q) == q \o TextOf(cap[i], x)
           step == [p \in Nat \X T |-> IF p[1] \in 1 .. N THEN next(p[1], p[2]) ELSE p[2]]
           Recurs(g) == g = [i \in 0 .. N |-> IF i = 0 THEN <<>>
                                ELSE g[i - 1] \o (IF cap[i].stream = x /\ cap[i].dir = 0
                                                  THEN Arg(cap[i], 1) ELSE <<>>)]
           g == CHOOSE h : Recurs(h)
<1>1. TypedIn(cap, N, x) = g[N]
  BY DEF TypedIn
<1>2. ASSUME NEW i \in 1 .. N, NEW q \in T PROVE next(i, q) \in T
  BY Joined DEF HasText
<1> HIDE DEF next
<1>3. step \in [Nat \X T -> T]
  BY <1>2
<1>4. ASSUME NEW i \in 1 .. N, NEW q \in T PROVE step[<<i, q>>] = next(i, q)
  <2>1. <<i, q>> \in Nat \X T
    OBVIOUS
  <2> QED
    BY <2>1
<1>5. <<>> \in T
  BY Nothing
<1> HIDE DEF step, T
<1>6. PICK f \in [0 .. N -> T] : f[0] = <<>> /\ \A i \in 1 .. N : f[i] = step[<<i, f[i - 1]>>]
  <2>1. FunctionUpTo(N, T, <<>>, step)
    BY <1>3, <1>5, Recursion
  <2> QED
    BY <2>1 DEF FunctionUpTo
<1>7. ASSUME NEW i \in 1 .. N PROVE f[i] = next(i, f[i - 1])
  <2>1. i - 1 \in 0 .. N
    OBVIOUS
  <2>2. f[i - 1] \in T
    BY <2>1
  <2> QED
    BY <1>4, <1>6, <2>2
<1>8. Recurs(f)
  <2>1. ASSUME NEW i \in 0 .. N
        PROVE f[i] = IF i = 0 THEN <<>>
                     ELSE f[i - 1] \o (IF cap[i].stream = x /\ cap[i].dir = 0 THEN Arg(cap[i], 1) ELSE <<>>)
    <3>1. i = 0 \/ i \in 1 .. N
      OBVIOUS
    <3> QED
      BY <1>6, <1>7, <3>1 DEF next, TextOf
  <2> QED
    BY <2>1
<1>9. Recurs(g)
  <2> HIDE DEF Recurs
  <2> QED
    BY <1>8
<1> HIDE DEF g
<1>10. g[0] = <<>>
  BY <1>9
<1>11. ASSUME NEW i \in 1 .. N PROVE g[i] = g[i - 1] \o TextOf(cap[i], x)
  <2>1. i \in 0 .. N /\ i # 0
    OBVIOUS
  <2> QED
    BY <1>9, <2>1 DEF TextOf
<1> QED
  BY <1>1, <1>10, <1>11 DEF Texts

\* It depends on nothing else, and is a text.
LEMMA SameTexts ==
    ASSUME NEW N \in Nat, NEW cap, NEW new, \A i \in 1 .. N : new[i] = cap[i], NEW x, HasText(cap, N, x),
           NEW g, Texts(g, cap, N, x), NEW h, Texts(h, new, N, x)
    PROVE  h[N] = g[N] /\ g[N] \in Seq(STRING)
<1> DEFINE S == {n \in Nat : n <= N => h[n] = g[n] /\ g[n] \in Seq(STRING)}
<1>1. 0 \in S
  BY Nothing DEF Texts
<1>2. ASSUME NEW n \in Nat, n \in S PROVE n + 1 \in S
  <2>1. CASE n + 1 <= N
    <3>1. n + 1 \in 1 .. N /\ (n + 1) - 1 = n /\ n <= N
      BY <2>1
    <3>2. h[n] = g[n] /\ g[n] \in Seq(STRING) /\ new[n + 1] = cap[n + 1]
      BY <1>2, <3>1
    <3>3. h[n + 1] = h[n] \o TextOf(new[n + 1], x) /\ g[n + 1] = g[n] \o TextOf(cap[n + 1], x)
      BY <3>1 DEF Texts
    <3>4. TextOf(cap[n + 1], x) \in Seq(STRING)
      BY <3>1 DEF HasText
    <3>5. g[n + 1] \in Seq(STRING)
      BY <3>2, <3>3, <3>4, Joined
    <3>6. h[n + 1] = g[n + 1]
      BY ONLY <3>2, <3>3
    <3> QED
      BY <3>5, <3>6
  <2>2. CASE ~(n + 1 <= N)
    BY <2>2
  <2> QED
    BY <2>1, <2>2
<1> HIDE DEF S
<1>3. N \in S
  BY <1>1, <1>2, NatSet
<1> QED
  BY <1>3 DEF S

LEMMA TextStays ==
    ASSUME NEW n \in Nat, NEW cap, NEW new, \A i \in 1 .. n : new[i] = cap[i], NEW x, HasText(cap, n, x)
    PROVE  TypedIn(new, n, x) = TypedIn(cap, n, x) /\ TypedIn(cap, n, x) \in Seq(STRING)
<1>1. HasText(new, n, x)
  BY DEF HasText
<1>2. PICK g : Texts(g, cap, n, x) /\ TypedIn(cap, n, x) = g[n]
  BY TextIsLast
<1>3. PICK h : Texts(h, new, n, x) /\ TypedIn(new, n, x) = h[n]
  BY <1>1, TextIsLast
<1>4. h[n] = g[n] /\ g[n] \in Seq(STRING)
  BY <1>2, <1>3, SameTexts
<1> QED
  BY <1>2, <1>3, <1>4

\* The next packet adds its text.
LEMMA TextNext ==
    ASSUME NEW N \in Nat, NEW cap, NEW x, HasText(cap, N + 1, x)
    PROVE  /\ TypedIn(cap, N + 1, x) = TypedIn(cap, N, x) \o TextOf(cap[N + 1], x)
           /\ TypedIn(cap, N, x) \in Seq(STRING) /\ TextOf(cap[N + 1], x) \in Seq(STRING)
<1>1. N + 1 \in 1 .. N + 1 /\ (N + 1) - 1 = N /\ \A i \in 1 .. N : i \in 1 .. N + 1
  OBVIOUS
<1>2. HasText(cap, N, x) /\ TextOf(cap[N + 1], x) \in Seq(STRING)
  BY <1>1 DEF HasText
<1>3. PICK g : Texts(g, cap, N + 1, x) /\ TypedIn(cap, N + 1, x) = g[N + 1]
  BY TextIsLast
<1>4. PICK h : Texts(h, cap, N, x) /\ TypedIn(cap, N, x) = h[N]
  BY <1>2, TextIsLast
<1>5. Texts(g, cap, N, x) /\ g[N + 1] = g[N] \o TextOf(cap[N + 1], x)
  BY <1>1, <1>3 DEF Texts
<1>6. g[N] = h[N] /\ h[N] \in Seq(STRING)
  BY <1>2, <1>4, <1>5, SameTexts
<1> QED
  BY <1>2, <1>3, <1>4, <1>5, <1>6

\* Nothing is typed before the first packet.
LEMMA TextOfNone == ASSUME NEW cap, NEW x PROVE TypedIn(cap, 0, x) = <<>>
<1>1. HasText(cap, 0, x)
  BY DEF HasText
<1>2. PICK g : Texts(g, cap, 0, x) /\ TypedIn(cap, 0, x) = g[0]
  BY <1>1, TextIsLast
<1> QED
  BY <1>2 DEF Texts

-----------------------------------------------------------------------------
(* The lines of a text *)

\* A part of a sequence, element by element.
LEMMA Cut ==
    ASSUME NEW S, NEW s \in Seq(S), NEW i \in Nat \ {0}, NEW j \in Nat, i <= j + 1, j <= Len(s)
    PROVE  SubSeq(s, i, j) = [k \in 1 .. (j - i) + 1 |-> s[(i + k) - 1]]
<1> DEFINE n == (j - i) + 1
           t == SubSeq(s, i, j)
<1>1. n \in Nat /\ Len(s) \in Nat
  OBVIOUS
<1>2. t \in Seq(S) /\ Len(t) = n
  BY <1>1
<1>3. \A k \in 1 .. n : t[k] = s[(i + k) - 1]
  BY <1>1
<1> HIDE DEF t, n
<1>4. t = [k \in 1 .. n |-> t[k]]
  BY <1>2
<1>5. t = [k \in 1 .. n |-> s[(i + k) - 1]]
  BY <1>3, <1>4
<1> QED
  BY <1>5 DEF t, n

\* The parts of a sequence are parts of what it grows to.
LEMMA CutStays ==
    ASSUME NEW S, NEW s \in Seq(S), NEW t \in Seq(S), Len(s) <= Len(t), \A k \in 1 .. Len(s) : t[k] = s[k],
           NEW i \in Nat \ {0}, NEW j \in Nat, i <= j + 1, j <= Len(s)
    PROVE  SubSeq(t, i, j) = SubSeq(s, i, j)
<1>1. Len(s) \in Nat /\ Len(t) \in Nat /\ j <= Len(t)
  OBVIOUS
<1>2. SubSeq(s, i, j) = [k \in 1 .. (j - i) + 1 |-> s[(i + k) - 1]]
  BY ONLY Cut, s \in Seq(S), i \in Nat \ {0}, j \in Nat, i <= j + 1, j <= Len(s)
<1>3. SubSeq(t, i, j) = [k \in 1 .. (j - i) + 1 |-> t[(i + k) - 1]]
  BY ONLY Cut, t \in Seq(S), i \in Nat \ {0}, j \in Nat, i <= j + 1, <1>1
<1>4. \A k \in 1 .. (j - i) + 1 : (i + k) - 1 \in 1 .. Len(s)
  BY <1>1
<1>5. \A k \in 1 .. (j - i) + 1 : t[(i + k) - 1] = s[(i + k) - 1]
  BY <1>4
<1> QED
  BY <1>2, <1>3, <1>5

\* One element more, and none.
LEMMA CutGrows ==
    ASSUME NEW S, NEW s \in Seq(S), NEW i \in Nat \ {0}, NEW j \in Nat, i <= j + 1, j + 1 <= Len(s)
    PROVE  /\ SubSeq(s, i, j + 1) = Append(SubSeq(s, i, j), s[j + 1])
           /\ SubSeq(s, j + 2, j + 1) = <<>>
           /\ SubSeq(s, i, j) \in Seq(S) /\ Len(SubSeq(s, i, j)) = (j - i) + 1
<1> DEFINE n == (j - i) + 1
           t == SubSeq(s, i, j)
           u == SubSeq(s, i, j + 1)
           e == s[j + 1]
<1>1. n \in Nat /\ Len(s) \in Nat /\ j <= Len(s) /\ ((j + 1) - i) + 1 = n + 1 /\ (i + (n + 1)) - 1 = j + 1
  OBVIOUS
<1>2. t \in Seq(S) /\ Len(t) = n
  BY <1>1
<1>3. t = [k \in 1 .. n |-> s[(i + k) - 1]]
  BY <1>1, Cut
<1>4. u = [k \in 1 .. n + 1 |-> s[(i + k) - 1]]
  <2>1. j + 1 \in Nat /\ i <= (j + 1) + 1
    OBVIOUS
  <2>2. u = [k \in 1 .. ((j + 1) - i) + 1 |-> s[(i + k) - 1]]
    BY <2>1, Cut
  <2> QED
    BY <1>1, <2>2
<1>5. SubSeq(s, j + 2, j + 1) = <<>>
  OBVIOUS
<1> HIDE DEF t, u, e
<1>6. Append(t, e) = [k \in 1 .. n + 1 |-> IF k <= n THEN t[k] ELSE e]
  BY <1>2, Appended
<1>7. \A k \in 1 .. n + 1 : s[(i + k) - 1] = IF k <= n THEN t[k] ELSE e
  <2> SUFFICES ASSUME NEW k \in 1 .. n + 1 PROVE s[(i + k) - 1] = IF k <= n THEN t[k] ELSE e
    OBVIOUS
  <2>1. CASE k <= n
    BY <1>1, <1>3, <2>1
  <2>2. CASE ~(k <= n)
    <3>1. k = n + 1
      BY <1>1, <2>2
    <3> QED
      BY <1>1, <2>2, <3>1 DEF e
  <2> QED
    BY <2>1, <2>2
<1>8. u = Append(t, e)
  BY <1>4, <1>6, <1>7
<1> QED
  BY <1>2, <1>5, <1>8 DEF t, u, e, n

\* A line that was ended stays a line when more is typed.
LEMMA LinesStay ==
    ASSUME NEW a \in Seq(STRING), NEW b \in Seq(STRING), Len(a) <= Len(b),
           \A k \in 1 .. Len(a) : b[k] = a[k], NEW r \in LinesOf(a)
    PROVE  /\ r \in LinesOf(b) /\ SubSeq(b, r[1], r[2]) = SubSeq(a, r[1], r[2])
           /\ r[1] \in Nat \ {0} /\ r[2] \in Nat /\ r[1] <= r[2] /\ r[2] < Len(a)
<1>1. Len(a) \in Nat /\ Len(b) \in Nat /\ DOMAIN a = 1 .. Len(a) /\ DOMAIN b = 1 .. Len(b)
  OBVIOUS
<1>2. /\ r = <<r[1], r[2]>> /\ r[1] \in 1 .. Len(a) /\ r[2] \in 1 .. Len(a)
      /\ r[1] <= r[2] /\ r[2] < Len(a) /\ a[r[2] + 1] = "CR"
      /\ r[1] = 1 \/ a[r[1] - 1] = "CR"
      /\ \A k \in r[1] .. r[2] : a[k] # "CR"
  BY <1>1 DEF LinesOf
<1> DEFINE i == r[1]
           j == r[2]
<1>3. SubSeq(b, i, j) = SubSeq(a, i, j)
  <2>1. i \in Nat \ {0} /\ j \in Nat /\ i <= j + 1 /\ j <= Len(a)
    BY <1>1, <1>2
  <2> HIDE DEF i, j
  <2> QED
    BY <2>1, CutStays
<1>4. r \in LinesOf(b)
  <2>1. i \in 1 .. Len(b) /\ j \in 1 .. Len(b) /\ j < Len(b) /\ j + 1 \in 1 .. Len(a)
    BY <1>1, <1>2
  <2>2. i = 1 \/ i - 1 \in 1 .. Len(a)
    BY <1>1, <1>2
  <2>3. \A k \in i .. j : k \in 1 .. Len(a)
    BY <1>1, <1>2
  <2>4. r \in (DOMAIN b) \X (DOMAIN b)
    BY <1>1, <1>2, <2>1
  <2> QED
    BY <1>2, <2>1, <2>2, <2>3, <2>4 DEF LinesOf
<1> QED
  BY <1>1, <1>2, <1>3, <1>4

-----------------------------------------------------------------------------
(* Telnet: the line that was begun, and the user *)

StreamRec == [user : Seq(STRING), from : Seq(STRING), to : Seq(Seq(STRING)),
              hdrFrom : Seq(STRING), hdrTo : Seq(STRING), inData : BOOLEAN,
              authState : {"none", "plain", "login-user", "login-pass"}, cbuf : Seq(STRING),
              prompt : {"none", "login", "password"}, lastFile : Seq(STRING)]

\* Of the first m characters of text T the last line was begun and is not ended, and the
\* user is a line before it.
HasBegun(p, T, m) == \E b \in 0 .. m : /\ b = 0 \/ T[b] = "CR"
                                       /\ \A k \in b + 1 .. m : T[k] # "CR"
                                       /\ p.cbuf = SubSeq(T, b + 1, m)
HasUser(p, T, m) == p.user = <<>> \/ \E u \in LinesOf(T) : u[2] < m /\ SubSeq(T, u[1], u[2]) = p.user

\* Text T has the secret in a line that ends behind its first m characters, and the user in
\* a line before it.
IsTyped(user, secret, T, m) ==
    \E l \in LinesOf(T) :
        /\ SubSeq(T, l[1], l[2]) = secret /\ l[2] >= m
        /\ user = <<>> \/ \E u \in LinesOf(T) : u[2] < l[1] /\ SubSeq(T, u[1], u[2]) = user

\* A character that is not the end of a line is added to it.
LEMMA MoreOfALine ==
    ASSUME NEW T \in Seq(STRING), NEW m \in Nat, m + 1 <= Len(T), NEW p, HasBegun(p, T, m),
           T[m + 1] # "CR", NEW q, q.cbuf = Append(p.cbuf, T[m + 1])
    PROVE  HasBegun(q, T, m + 1)
<1>1. PICK b \in 0 .. m : /\ b = 0 \/ T[b] = "CR"
                          /\ \A k \in b + 1 .. m : T[k] # "CR"
                          /\ p.cbuf = SubSeq(T, b + 1, m)
  BY DEF HasBegun
<1>2. b + 1 \in Nat \ {0} /\ b + 1 <= m + 1
  OBVIOUS
<1>3. SubSeq(T, b + 1, m + 1) = Append(SubSeq(T, b + 1, m), T[m + 1])
  BY <1>2, CutGrows
<1>4. b \in 0 .. m + 1 /\ \A k \in b + 1 .. m + 1 : k \in b + 1 .. m \/ k = m + 1
  OBVIOUS
<1> QED
  BY <1>1, <1>3, <1>4 DEF HasBegun

\* The end of a line that is not empty makes a line of what was begun, after the user.
LEMMA LineEnds ==
    ASSUME NEW T \in Seq(STRING), NEW m \in Nat, m + 1 <= Len(T), NEW p, HasBegun(p, T, m),
           T[m + 1] = "CR"
    PROVE  /\ \A q : q.cbuf = <<>> => HasBegun(q, T, m + 1)
           /\ p.cbuf # <<>> => \E l \in LinesOf(T) :
                 /\ SubSeq(T, l[1], l[2]) = p.cbuf /\ l[2] = m
                 /\ \A u \in LinesOf(T) : u[2] < m => u[2] < l[1]
<1>1. PICK b \in 0 .. m : /\ b = 0 \/ T[b] = "CR"
                          /\ \A k \in b + 1 .. m : T[k] # "CR"
                          /\ p.cbuf = SubSeq(T, b + 1, m)
  BY DEF HasBegun
<1>2. b + 1 \in Nat \ {0} /\ b + 1 <= m + 1 /\ Len(T) \in Nat /\ DOMAIN T = 1 .. Len(T)
  OBVIOUS
<1>3. SubSeq(T, m + 2, m + 1) = <<>> /\ Len(SubSeq(T, b + 1, m)) = (m - (b + 1)) + 1
  BY <1>2, CutGrows
<1>4. ASSUME NEW q, q.cbuf = <<>> PROVE HasBegun(q, T, m + 1)
  <2>1. m + 1 \in 0 .. m + 1 /\ (m + 1) + 1 = m + 2 /\ (m + 2) .. (m + 1) = {}
    OBVIOUS
  <2> QED
    BY <1>3, <1>4, <2>1 DEF HasBegun
<1>5. ASSUME p.cbuf # <<>>
      PROVE  \E l \in LinesOf(T) : /\ SubSeq(T, l[1], l[2]) = p.cbuf /\ l[2] = m
                                   /\ \A u \in LinesOf(T) : u[2] < m => u[2] < l[1]
  <2> DEFINE l == <<b + 1, m>>
  <2>1. b < m
    <3>1. CASE b = m
      <4>1. SubSeq(T, b + 1, m) = <<>>
        BY <1>2, <3>1
      <4> QED
        BY <1>1, <1>5, <4>1
    <3> QED
      BY <3>1
  <2>2. l[1] = b + 1 /\ l[2] = m /\ l \in (DOMAIN T) \X (DOMAIN T)
    BY <1>2, <2>1
  <2>3. (b + 1) - 1 = b /\ b + 1 <= m /\ m < Len(T) /\ (b + 1 = 1 <=> b = 0)
    BY <1>2, <2>1
  <2> HIDE DEF l
  <2>4. l \in LinesOf(T)
    BY <1>1, <2>2, <2>3 DEF LinesOf
  <2>5. ASSUME NEW u \in LinesOf(T), u[2] < m PROVE u[2] < b + 1
    <3>1. u[2] \in 1 .. Len(T) /\ T[u[2] + 1] = "CR"
      BY <1>2 DEF LinesOf
    <3>2. u[2] + 1 \notin b + 1 .. m
      BY <1>1, <3>1
    <3> QED
      BY <1>2, <2>5, <3>1, <3>2
  <2> QED
    BY <1>1, <2>2, <2>4, <2>5
<1> QED
  BY <1>4, <1>5

Protos == {"smtp", "pop", "ftp", "ftpdata", "imap", "telnet", "irc", "http"}
CredentialRec == [proto : Protos, user : Seq(STRING), secret : Seq(STRING), packet : Nat, stream : SessionStreams]

LEMMA CredentialType ==
    ASSUME NEW s \in Segment, captured \in Seq(Segment), NEW user \in Seq(STRING), NEW secret \in Seq(STRING)
    PROVE  /\ Credential(s, user, secret) \in CredentialRec
           /\ Credential(s, user, secret).packet = Len(captured) + 1
           /\ Credential(s, user, secret).stream = s.stream /\ Credential(s, user, secret).proto = s.proto
           /\ Credential(s, user, secret).user = user /\ Credential(s, user, secret).secret = secret
<1>1. s.proto \in Protos /\ s.stream \in SessionStreams /\ Number \in Nat /\ Number = Len(captured) + 1
  BY DEF Segment, Protos, Number
<1> QED
  BY <1>1 DEF Credential, CredentialRec

\* One character typed in segment s: what it makes of the stream's state and of the
\* credentials found in the segment.
Typing == [st : StreamRec, out : Seq(CredentialRec)]
Key(s, p, ch) ==
    IF ch # "CR" THEN [p EXCEPT !.st.cbuf = Append(@, ch)]
    ELSE LET tok == p.st.cbuf
             q == [p EXCEPT !.st.cbuf = <<>>]
         IN CASE tok # <<>> /\ p.st.prompt = "login" -> [q EXCEPT !.st.user = tok]
              [] tok # <<>> /\ p.st.prompt = "password" ->
                   [q EXCEPT !.st.prompt = "none", !.out = Append(@, Credential(s, p.st.user, tok))]
              [] OTHER -> q

LEMMA KeyPressed ==
    ASSUME NEW s \in Segment, captured \in Seq(Segment), NEW p \in Typing, NEW ch \in STRING,
           NEW q, q = Key(s, p, ch)
    PROVE  /\ q \in Typing
           /\ ch # "CR" => q.st.cbuf = Append(p.st.cbuf, ch) /\ q.st.user = p.st.user /\ q.out = p.out
           /\ ch = "CR" => /\ q.st.cbuf = <<>>
                           /\ \/ q.st.user = p.st.user /\ q.out = p.out
                              \/ p.st.cbuf # <<>> /\ q.st.user = p.st.cbuf /\ q.out = p.out
                              \/ /\ p.st.cbuf # <<>> /\ q.st.user = p.st.user
                                 /\ q.out = Append(p.out, Credential(s, p.st.user, p.st.cbuf))
<1> DEFINE st == p.st
           out == p.out
           tok == st.cbuf
           c == Credential(s, st.user, tok)
           empty == [st EXCEPT !.cbuf = <<>>]
<1>1. st \in StreamRec /\ out \in Seq(CredentialRec) /\ p = [st |-> st, out |-> out]
  BY DEF Typing
<1>2. tok \in Seq(STRING) /\ st.user \in Seq(STRING)
  BY <1>1 DEF StreamRec
<1>3. c \in CredentialRec
  BY <1>2, CredentialType
<1>4. \A r \in StreamRec : \A o \in Seq(CredentialRec) :
         [st |-> r, out |-> o] \in Typing /\ [st |-> r, out |-> o].st = r /\ [st |-> r, out |-> o].out = o
  BY DEF Typing
<1>5. empty \in StreamRec /\ empty.cbuf = <<>> /\ empty.user = st.user
  <2>1. <<>> \in Seq(STRING)
    BY Nothing
  <2> QED
    BY <1>1, <2>1 DEF StreamRec
<1>6. ASSUME ch # "CR" PROVE q \in Typing /\ q.st.cbuf = Append(tok, ch) /\ q.st.user = st.user /\ q.out = out
  <2> DEFINE r == [st EXCEPT !.cbuf = Append(tok, ch)]
  <2>1. q = [st |-> r, out |-> out]
    BY <1>1, <1>6 DEF Key
  <2>2. Append(tok, ch) \in Seq(STRING)
    BY <1>2, Enqueued
  <2>3. r \in StreamRec /\ r.cbuf = Append(tok, ch) /\ r.user = st.user
    BY <1>1, <2>2 DEF StreamRec
  <2> HIDE DEF r, st, out
  <2> QED
    BY <1>1, <1>4, <2>1, <2>3
<1>7. CASE ch = "CR" /\ tok # <<>> /\ st.prompt = "login"
  <2> DEFINE r == [empty EXCEPT !.user = tok]
  <2>1. q = [st |-> r, out |-> out]
    BY <1>1, <1>7 DEF Key
  <2>2. r \in StreamRec /\ r.cbuf = <<>> /\ r.user = tok
    <3> HIDE DEF empty, tok
    <3> QED
      BY <1>2, <1>5 DEF StreamRec
  <2> HIDE DEF r, tok, out
  <2>3. q \in Typing /\ q.st = r /\ q.out = out
    BY <1>1, <1>4, <2>1, <2>2
  <2> QED
    BY <1>7, <2>2, <2>3 DEF tok, out
<1>8. CASE ch = "CR" /\ tok # <<>> /\ st.prompt = "password"
  <2> DEFINE r == [empty EXCEPT !.prompt = "none"]
             o == Append(out, c)
  <2>1. q = [st |-> r, out |-> o]
    BY <1>1, <1>8 DEF Key
  <2>2. r \in StreamRec /\ r.cbuf = <<>> /\ r.user = st.user
    <3> HIDE DEF empty
    <3> QED
      BY <1>5 DEF StreamRec
  <2>3. o \in Seq(CredentialRec)
    <3> HIDE DEF c
    <3> QED
      BY <1>1, <1>3, Enqueued
  <2> HIDE DEF r, tok, o, c
  <2>4. q \in Typing /\ q.st = r /\ q.out = o
    BY <1>1, <1>4, <2>1, <2>2, <2>3
  <2> QED
    BY <1>8, <2>2, <2>4 DEF tok, o, c
<1>9. CASE ch = "CR" /\ ~(tok # <<>> /\ st.prompt \in {"login", "password"})
  <2>1. q = [st |-> empty, out |-> out]
    BY <1>1, <1>9 DEF Key
  <2> HIDE DEF empty
  <2> QED
    BY <1>1, <1>4, <1>5, <1>9, <2>1
<1> QED
  BY <1>6, <1>7, <1>8, <1>9

\* Typing a text is pressing its keys in turn.
Keys(g, s) == /\ g[0] = [st |-> per[s.stream], out |-> <<>>]
              /\ \A i \in 1 .. Len(Arg(s, 1)) : g[i] = Key(s, g[i - 1], Arg(s, 1)[i])

LEMMA TypedIsLast ==
    ASSUME NEW s \in Segment, captured \in Seq(Segment), per[s.stream] \in StreamRec
    PROVE  \E g : Keys(g, s) /\ Typed(s) = g[Len(Arg(s, 1))]
<1> DEFINE chars == Arg(s, 1)
           N == Len(chars)
           first == [st |-> per[s.stream], out |-> <<>>]
           next(i, p) == Key(s, p, chars[i])
           step == [p \in Nat \X Typing |-> IF p[1] \in 1 .. N THEN next(p[1], p[2]) ELSE p[2]]
           Recurs(g) == g = [n \in 0 .. N |-> IF n = 0 THEN first ELSE next(n, g[n - 1])]
           g == CHOOSE h : Recurs(h)
<1>1. Typed(s) = g[N]
  BY DEF Typed, Key
<1>2. chars \in Seq(STRING) /\ N \in Nat
  BY ArgIsText
<1>3. first \in Typing
  BY Nothing DEF Typing
<1> HIDE DEF chars, first
<1>4. ASSUME NEW i \in 1 .. N, NEW p \in Typing PROVE next(i, p) \in Typing
  <2>1. chars[i] \in STRING
    BY <1>2
  <2>2. \A q : q = Key(s, p, chars[i]) => q \in Typing
    BY ONLY captured \in Seq(Segment), s \in Segment, <1>4, <2>1, KeyPressed
  <2> QED
    BY <2>2
<1> HIDE DEF N, next
<1>5. step \in [Nat \X Typing -> Typing]
  BY <1>4
<1>6. ASSUME NEW i \in 1 .. N, NEW p \in Typing PROVE step[<<i, p>>] = next(i, p)
  <2>1. <<i, p>> \in Nat \X Typing
    BY <1>2
  <2> QED
    BY <2>1
<1> HIDE DEF step
<1>7. PICK f \in [0 .. N -> Typing] : f[0] = first /\ \A i \in 1 .. N : f[i] = step[<<i, f[i - 1]>>]
  <2>1. FunctionUpTo(N, Typing, first, step)
    BY <1>2, <1>3, <1>5, Recursion
  <2> QED
    BY <2>1 DEF FunctionUpTo
<1>8. ASSUME NEW i \in 1 .. N PROVE f[i] = next(i, f[i - 1])
  <2>1. i - 1 \in 0 .. N
    BY <1>2
  <2>2. f[i - 1] \in Typing
    BY <2>1
  <2> QED
    BY <1>6, <1>7, <2>2
<1>9. Recurs(f)
  <2>1. ASSUME NEW i \in 0 .. N PROVE f[i] = IF i = 0 THEN first ELSE next(i, f[i - 1])
    <3>1. i = 0 \/ i \in 1 .. N
      BY <1>2
    <3> QED
      BY <1>7, <1>8, <3>1
  <2> QED
    BY <2>1
<1>10. Recurs(g)
  <2> HIDE DEF Recurs
  <2> QED
    BY <1>9
<1> HIDE DEF g
<1>11. g[0] = first
  BY <1>2, <1>10
<1>12. ASSUME NEW i \in 1 .. N PROVE g[i] = next(i, g[i - 1])
  <2>1. i \in 0 .. N /\ i # 0
    BY <1>2
  <2> QED
    BY <1>10, <2>1
<1> QED
  BY <1>1, <1>11, <1>12 DEF Keys, chars, N, first, next

\* All of a sequence of credentials were found in segment s, typed in text T after its first m.
AllTyped(s, out, T, m) ==
    \A i \in DOMAIN out : /\ out[i].packet = Len(captured) + 1 /\ out[i].stream = s.stream
                          /\ out[i].proto = s.proto /\ IsTyped(out[i].user, out[i].secret, T, m)

\* The next key keeps the line begun, the user and the credentials what was typed.
LEMMA KeyKeeps ==
    ASSUME NEW s \in Segment, captured \in Seq(Segment), NEW T \in Seq(STRING), NEW m \in Nat, m + 1 <= Len(T),
           NEW k \in Nat, k <= m, NEW p \in Typing, NEW q, q = Key(s, p, T[m + 1]),
           HasBegun(p.st, T, m), HasUser(p.st, T, m), AllTyped(s, p.out, T, k)
    PROVE  q \in Typing /\ HasBegun(q.st, T, m + 1) /\ HasUser(q.st, T, m + 1) /\ AllTyped(s, q.out, T, k)
<1> DEFINE ch == T[m + 1]
           tok == p.st.cbuf
           user == p.st.user
           c == Credential(s, user, tok)
<1>1. ch \in STRING
  <2>1. m + 1 \in 1 .. Len(T)
    OBVIOUS
  <2> QED
    BY <2>1
<1>2. /\ q \in Typing
      /\ ch # "CR" => q.st.cbuf = Append(tok, ch) /\ q.st.user = user /\ q.out = p.out
      /\ ch = "CR" => /\ q.st.cbuf = <<>>
                      /\ \/ q.st.user = user /\ q.out = p.out
                         \/ tok # <<>> /\ q.st.user = tok /\ q.out = p.out
                         \/ tok # <<>> /\ q.st.user = user /\ q.out = Append(p.out, c)
  <2>1. q = Key(s, p, ch)
    OBVIOUS
  <2> HIDE DEF ch
  <2> QED
    BY ONLY captured \in Seq(Segment), s \in Segment, p \in Typing, <1>1, <2>1, KeyPressed
<1>3. \A r : r.user = user => HasUser(r, T, m + 1)
  <2>1. \A u \in LinesOf(T) : u[2] < m => u[2] < m + 1
    <3>1. \A u \in LinesOf(T) : u[2] \in Nat
      BY DEF LinesOf
    <3> QED
      BY <3>1
  <2> QED
    BY <2>1 DEF HasUser
<1>4. CASE ch # "CR"
  <2>1. \A r : r.cbuf = Append(tok, ch) => HasBegun(r, T, m + 1)
    BY <1>4, MoreOfALine
  <2> QED
    BY <1>2, <1>3, <1>4, <2>1
<1>5. CASE ch = "CR"
  <2>1. /\ \A r : r.cbuf = <<>> => HasBegun(r, T, m + 1)
        /\ tok # <<>> => \E l \in LinesOf(T) :
              /\ SubSeq(T, l[1], l[2]) = tok /\ l[2] = m
              /\ \A u \in LinesOf(T) : u[2] < m => u[2] < l[1]
    <3> DEFINE st == p.st
    <3>1. /\ T \in Seq(STRING) /\ m \in Nat /\ m + 1 <= Len(T) /\ HasBegun(st, T, m) /\ T[m + 1] = "CR"
          /\ st.cbuf = tok
      BY <1>5
    <3> HIDE DEF st, tok
    <3>2. /\ \A r : r.cbuf = <<>> => HasBegun(r, T, m + 1)
          /\ st.cbuf # <<>> => \E l \in LinesOf(T) :
                /\ SubSeq(T, l[1], l[2]) = st.cbuf /\ l[2] = m
                /\ \A u \in LinesOf(T) : u[2] < m => u[2] < l[1]
      BY ONLY <3>1, LineEnds
    <3> QED
      BY <3>1, <3>2
  <2>2. q \in Typing /\ q.st.cbuf = <<>> /\ HasBegun(q.st, T, m + 1)
    BY <1>2, <1>5, <2>1
  <2>3. CASE q.st.user = user /\ q.out = p.out
    BY <1>3, <2>2, <2>3
  <2>4. CASE tok # <<>> /\ q.st.user = tok /\ q.out = p.out
    <3>1. m < m + 1
      OBVIOUS
    <3>2. HasUser(q.st, T, m + 1)
      BY <2>1, <2>4, <3>1 DEF HasUser
    <3> QED
      BY <2>2, <2>4, <3>2
  <2>5. CASE tok # <<>> /\ q.st.user = user /\ q.out = Append(p.out, c)
    <3>1. IsTyped(user, tok, T, k)
      BY <2>1, <2>5 DEF IsTyped, HasUser
    <3>2. user \in Seq(STRING) /\ tok \in Seq(STRING) /\ p.out \in Seq(CredentialRec)
      BY DEF Typing, StreamRec
    <3>3. /\ c.packet = Len(captured) + 1 /\ c.stream = s.stream /\ c.proto = s.proto
          /\ c.user = user /\ c.secret = tok
      BY <3>2, CredentialType
    <3> HIDE DEF c, user, tok
    <3>4. \A i \in DOMAIN Append(p.out, c) : Append(p.out, c)[i] = c \/ \E j \in DOMAIN p.out : Append(p.out, c)[i] = p.out[j]
      BY ONLY <3>2, AppendElements
    <3>5. \A out : out = Append(p.out, c) => AllTyped(s, out, T, k)
      BY <3>1, <3>3, <3>4 DEF AllTyped
    <3>6. HasUser(q.st, T, m + 1)
      BY <1>3, <2>5
    <3> QED
      BY <2>2, <2>5, <3>5, <3>6
  <2> QED
    BY <1>2, <1>5, <2>3, <2>4, <2>5
<1> QED
  BY <1>4, <1>5

\* The keys of a segment are the text after what was typed before.
LEMMA KeysTyped ==
    ASSUME NEW s \in Segment, captured \in Seq(Segment), per[s.stream] \in StreamRec,
           NEW A \in Seq(STRING), HasBegun(per[s.stream], A, Len(A)), HasUser(per[s.stream], A, Len(A)),
           NEW T, T = A \o Arg(s, 1)
    PROVE  /\ Typed(s) \in Typing
           /\ HasBegun(Typed(s).st, T, Len(T)) /\ HasUser(Typed(s).st, T, Len(T))
           /\ AllTyped(s, Typed(s).out, T, Len(A))
<1> DEFINE chars == Arg(s, 1)
           N == Len(chars)
           m == Len(A)
           p == per[s.stream]
<1>1. chars \in Seq(STRING)
  BY ArgIsText
<1>2. /\ N \in Nat /\ m \in Nat /\ T \in Seq(STRING) /\ Len(T) = m + N
      /\ \A i \in 1 .. m : T[i] = A[i]
      /\ \A i \in 1 .. N : T[m + i] = chars[i]
  <2>1. T = A \o chars
    OBVIOUS
  <2> HIDE DEF chars
  <2>2. T \in Seq(STRING)
    BY ONLY A \in Seq(STRING), <1>1, <2>1, Joined
  <2>3. /\ Len(chars) \in Nat /\ Len(A) \in Nat /\ Len(T) = Len(A) + Len(chars)
        /\ \A i \in 1 .. Len(A) : T[i] = A[i]
        /\ \A i \in 1 .. Len(chars) : T[Len(A) + i] = chars[i]
    BY ONLY A \in Seq(STRING), <1>1, <2>1
  <2> QED
    BY <2>2, <2>3
<1>3. PICK g : Keys(g, s) /\ Typed(s) = g[N]
  BY TypedIsLast
<1>4. HasBegun(p, T, m)
  <2>1. PICK b \in 0 .. m : /\ b = 0 \/ A[b] = "CR"
                            /\ \A k \in b + 1 .. m : A[k] # "CR"
                            /\ p.cbuf = SubSeq(A, b + 1, m)
    BY DEF HasBegun
  <2>2. b + 1 \in Nat \ {0} /\ b + 1 <= m + 1 /\ m <= Len(A) /\ Len(A) <= Len(T) /\ (\A k \in 1 .. Len(A) : T[k] = A[k])
    BY <1>2
  <2>3. SubSeq(T, b + 1, m) = SubSeq(A, b + 1, m)
    <3> HIDE DEF m
    <3> QED
      BY ONLY A \in Seq(STRING), <1>2, <2>2, CutStays
  <2>4. (b = 0 \/ b \in 1 .. m) /\ \A k \in b + 1 .. m : k \in 1 .. m
    BY <1>2
  <2>5. /\ b = 0 \/ T[b] = "CR"
        /\ \A k \in b + 1 .. m : T[k] # "CR"
    BY <1>2, <2>1, <2>4
  <2> QED
    BY <2>1, <2>3, <2>5 DEF HasBegun
<1>5. HasUser(p, T, m)
  <2>1. CASE p.user = <<>>
    BY <2>1 DEF HasUser
  <2>2. CASE p.user # <<>>
    <3>1. PICK u \in LinesOf(A) : u[2] < m /\ SubSeq(A, u[1], u[2]) = p.user
      BY <2>2 DEF HasUser
    <3>2. Len(A) <= Len(T) /\ (\A k \in 1 .. Len(A) : T[k] = A[k])
      BY <1>2
    <3>3. u \in LinesOf(T) /\ SubSeq(T, u[1], u[2]) = SubSeq(A, u[1], u[2])
      BY ONLY A \in Seq(STRING), <1>2, <3>1, <3>2, LinesStay
    <3> QED
      BY <3>1, <3>3 DEF HasUser
  <2> QED
    BY <2>1, <2>2
<1> DEFINE Good(i) == /\ g[i] \in Typing
                      /\ HasBegun(g[i].st, T, m + i) /\ HasUser(g[i].st, T, m + i)
                      /\ AllTyped(s, g[i].out, T, m)
           S == {i \in Nat : i <= N => Good(i)}
<1>6. g[0] = [st |-> p, out |-> <<>>] /\ \A i \in 1 .. N : g[i] = Key(s, g[i - 1], chars[i])
  BY <1>3 DEF Keys
<1> HIDE DEF chars, m, N, p
<1>7. 0 \in S
  <2>1. g[0] \in Typing
    BY <1>6, Nothing DEF Typing, p
  <2>2. AllTyped(s, g[0].out, T, m)
    <3>1. g[0].out = <<>>
      BY <1>6
    <3> QED
      BY <3>1 DEF AllTyped
  <2>3. g[0].st = p /\ m + 0 = m
    BY <1>2, <1>6
  <2> QED
    BY <1>4, <1>5, <2>1, <2>2, <2>3
<1>8. ASSUME NEW i \in Nat, i \in S PROVE i + 1 \in S
  <2>1. CASE i + 1 <= N
    <3> DEFINE k == m + i
               y == g[i]
               q == g[i + 1]
    <3>1. i + 1 \in 1 .. N /\ (i + 1) - 1 = i /\ i <= N /\ k \in Nat /\ k + 1 <= Len(T) /\ m <= k
          /\ k + 1 = m + (i + 1)
      BY <1>2, <2>1
    <3>2. Good(i)
      BY <1>8, <3>1
    <3>3. q = Key(s, y, chars[i + 1])
      BY <1>6, <3>1
    <3>4. T[k + 1] = chars[i + 1]
      BY <1>2, <3>1
    <3>5. q = Key(s, y, T[k + 1])
      BY <3>3, <3>4
    <3>6. y \in Typing /\ HasBegun(y.st, T, k) /\ HasUser(y.st, T, k) /\ AllTyped(s, y.out, T, m)
      BY <3>2
    <3> HIDE DEF k, y, q
    <3>7. q \in Typing /\ HasBegun(q.st, T, k + 1) /\ HasUser(q.st, T, k + 1) /\ AllTyped(s, q.out, T, m)
      BY ONLY s \in Segment, captured \in Seq(Segment), <1>2, <3>1, <3>5, <3>6, KeyKeeps
    <3>8. Good(i + 1)
      BY <3>1, <3>7 DEF q
    <3> QED
      BY <3>8
  <2>2. CASE ~(i + 1 <= N)
    BY <2>2
  <2> QED
    BY <2>1, <2>2
<1> HIDE DEF S
<1>9. N \in S
  BY <1>2, <1>7, <1>8, NatSet
<1>10. Good(N)
  BY <1>2, <1>9 DEF S
<1> HIDE DEF Good
<1> QED
  BY <1>2, <1>3, <1>10 DEF Good, m

-----------------------------------------------------------------------------
(* HTTP: what is read of headers and form fields *)

\* Those that match are some of the headers, with the value in the place.
LEMMA MatchingAreSome ==
    ASSUME NEW H, NEW hs \in Seq(H), NEW k, NEW v
    PROVE  Matching(hs, k, v) \in Seq({h \in H : h[k] = v /\ \E i \in DOMAIN hs : hs[i] = h})
<1> DEFINE N == Len(hs)
           R == {h \in H : h[k] = v /\ \E i \in DOMAIN hs : hs[i] = h}
           T == Seq(R)
           next(n, q) == IF hs[n][k] = v THEN Append(q, hs[n]) ELSE q
           step == [p \in Nat \X T |-> IF p[1] \in 1 .. N THEN next(p[1], p[2]) ELSE p[2]]
           Recurs(g) == g = [n \in 0 .. N |-> IF n = 0 THEN <<>> ELSE next(n, g[n - 1])]
           g == CHOOSE h : Recurs(h)
<1>1. Matching(hs, k, v) = g[N]
  BY DEF Matching
<1>2. N \in Nat /\ DOMAIN hs = 1 .. N /\ \A n \in 1 .. N : hs[n] \in H
  OBVIOUS
<1>3. ASSUME NEW n \in 1 .. N, NEW q \in T PROVE next(n, q) \in T
  <2>1. CASE hs[n][k] = v
    <3>1. hs[n] \in R
      BY <1>2, <2>1
    <3> DEFINE e == hs[n]
    <3> HIDE DEF e, R
    <3>2. Append(q, e) \in Seq(R)
      BY ONLY <1>3, <3>1, Enqueued DEF e
    <3> QED
      BY <2>1, <3>2 DEF e
  <2>2. CASE hs[n][k] # v
    BY <2>2
  <2> QED
    BY <2>1, <2>2
<1>4. <<>> \in T
  BY Nothing
<1> HIDE DEF next, N, T
<1>5. step \in [Nat \X T -> T]
  BY <1>3
<1>6. ASSUME NEW n \in 1 .. N, NEW q \in T PROVE step[<<n, q>>] = next(n, q)
  <2>1. <<n, q>> \in Nat \X T
    BY <1>2
  <2> QED
    BY <2>1
<1> HIDE DEF step
<1>7. PICK f \in [0 .. N -> T] : f[0] = <<>> /\ \A i \in 1 .. N : f[i] = step[<<i, f[i - 1]>>]
  <2>1. FunctionUpTo(N, T, <<>>, step)
    BY <1>2, <1>4, <1>5, Recursion
  <2> QED
    BY <2>1 DEF FunctionUpTo
<1>8. ASSUME NEW i \in 1 .. N PROVE f[i] = next(i, f[i - 1]) /\ f[i] \in T
  <2>1. i - 1 \in 0 .. N /\ i \in 0 .. N
    BY <1>2
  <2>2. f[i - 1] \in T
    BY <2>1
  <2> QED
    BY <1>6, <1>7, <2>1, <2>2
<1>9. Recurs(f)
  <2>1. ASSUME NEW i \in 0 .. N PROVE f[i] = IF i = 0 THEN <<>> ELSE next(i, f[i - 1])
    <3>1. i = 0 \/ i \in 1 .. N
      BY <1>2
    <3> QED
      BY <1>7, <1>8, <3>1
  <2> QED
    BY <2>1
<1>10. Recurs(g)
  <2> HIDE DEF Recurs
  <2> QED
    BY <1>9
<1> HIDE DEF g
<1> DEFINE S == {n \in Nat : n <= N => g[n] \in T}
<1>11. 0 \in S
  <2>1. g[0] = <<>>
    BY <1>2, <1>10
  <2> QED
    BY <1>4, <2>1
<1>12. ASSUME NEW n \in Nat, n \in S PROVE n + 1 \in S
  <2>1. CASE n + 1 <= N
    <3>1. n + 1 \in 1 .. N /\ n + 1 \in 0 .. N /\ n + 1 # 0 /\ (n + 1) - 1 = n /\ n <= N
      BY <1>2, <2>1
    <3>2. g[n + 1] = next(n + 1, g[(n + 1) - 1])
      BY <1>10, <3>1
    <3>3. g[n] \in T
      BY <1>12, <3>1
    <3>4. next(n + 1, g[n]) \in T
      BY <1>3, <3>1, <3>3
    <3>5. g[n + 1] \in T
      BY <3>1, <3>2, <3>4
    <3> QED
      BY <3>5
  <2>2. CASE ~(n + 1 <= N)
    BY <2>2
  <2> QED
    BY <2>1, <2>2
<1> HIDE DEF S
<1>13. N \in S
  BY <1>2, <1>11, <1>12, NatSet
<1> QED
  BY <1>1, <1>2, <1>13 DEF S, T

\* The headers of a request, and those of a name.
HeadersOf(s) == {h \in Seq(STRING) : \E i \in DOMAIN s.args : s.args[i] = h}
HeadersCalled(s, name) == {h \in HeadersOf(s) : h[1] = name}

\* What a header holds behind its name is held by the request.
LEMMA HeaderHolds ==
    ASSUME NEW s, \A i \in DOMAIN s.args : Whole(s.args[i]), NEW h \in HeadersOf(s)
    PROVE  Whole(h) /\ Len(h) \in Nat /\ \A k \in 2 .. Len(h) : h[k] \in STRING /\ Holds(s, h[k])
<1>1. PICK i \in DOMAIN s.args : s.args[i] = h
  BY DEF HeadersOf
<1>2. h \in Seq(STRING)
  BY DEF HeadersOf
<1>3. \A k \in 2 .. Len(h) : k \in 1 .. Len(h)
  OBVIOUS
<1> QED
  BY <1>1, <1>2, <1>3 DEF Holds

LEMMA FieldsAreHeaders ==
    ASSUME NEW s \in Segment, NEW name
    PROVE  /\ Fields(s, name) \in Seq(HeadersCalled(s, name))
           /\ Header1(s, name) \in Seq(HeadersCalled(s, name))
           /\ Header1(s, name) # <<>> => Header1(s, name)[1] \in HeadersCalled(s, name)
<1> DEFINE A == s.args
           R == {h \in Seq(STRING) : h[1] = name /\ \E i \in DOMAIN A : A[i] = h}
           F == Fields(s, name)
           H == HeadersCalled(s, name)
<1>1. R = H
  BY DEF HeadersCalled, HeadersOf
<1>2. F \in Seq(H)
  <2>1. A \in Seq(Seq(STRING))
    BY DEF Segment
  <2>2. F = Matching(A, 1, name)
    BY DEF Fields
  <2> HIDE DEF A, F
  <2>3. Matching(A, 1, name) \in Seq(R)
    BY ONLY <2>1, MatchingAreSome
  <2> HIDE DEF R, H
  <2> QED
    BY <1>1, <2>2, <2>3
<1>3. Header1(s, name) = IF F = <<>> THEN <<>> ELSE <<F[1]>>
  BY DEF Header1
<1> HIDE DEF F, H, R, A
<1>4. CASE F = <<>>
  BY <1>2, <1>3, <1>4 DEF F, H
<1>5. CASE F # <<>>
  <2>1. F[1] \in H
    BY <1>2, <1>5
  <2> DEFINE e == F[1]
  <2>2. Header1(s, name) = <<e>> /\ e \in H
    BY <1>3, <1>5, <2>1
  <2> HIDE DEF e
  <2>3. <<e>> \in Seq(H) /\ <<e>>[1] = e
    BY <2>2
  <2> QED
    BY <1>2, <2>2, <2>3 DEF F, H
<1> QED
  BY <1>4, <1>5

\* A sequence of one.
LEMMA Single == ASSUME NEW S, NEW e \in S, NEW t, t = <<e>> PROVE t \in Seq(S) /\ DOMAIN t = {1} /\ t[1] = e
<1>1. t \in Seq(S) /\ Len(t) = 1 /\ t[1] = e
  OBVIOUS
<1>2. DOMAIN t = 1 .. Len(t)
  BY <1>1
<1> QED
  BY <1>1, <1>2

\* A pair of user and secret that the request holds.
PairRead(s) == {p \in Seq(STRING) \X Seq(STRING) : Holds(s, p[2][1]) /\ \A k \in DOMAIN p[1] : Holds(s, p[1][k])}

LEMMA PairOf ==
    ASSUME NEW s, NEW v \in STRING, Holds(s, v)
    PROVE  /\ Pair(<<>>, <<v>>) \in PairRead(s)
           /\ \A u \in STRING : Holds(s, u) => Pair(<<u>>, <<v>>) \in PairRead(s)
<1>1. <<v>> \in Seq(STRING) /\ <<v>>[1] = v /\ <<>> \in Seq(STRING) /\ DOMAIN <<>> = {}
  <2>1. <<v>> \in Seq(STRING) /\ <<v>>[1] = v
    BY ONLY v \in STRING, Single
  <2>2. DOMAIN <<>> = {}
    <3>1. <<>> \in Seq({}) /\ Len(<<>>) = 0
      BY Nothing
    <3>2. ASSUME NEW t \in Seq({}), Len(t) = 0 PROVE DOMAIN t = {}
      BY <3>2
    <3> QED
      BY <3>1, <3>2
  <2> QED
    BY <2>1, <2>2, Nothing
<1>2. Pair(<<>>, <<v>>) \in PairRead(s)
  <2> DEFINE p == Pair(<<>>, <<v>>)
  <2>1. p \in Seq(STRING) \X Seq(STRING) /\ p[1] = <<>> /\ p[2] = <<v>>
    BY <1>1 DEF Pair
  <2> HIDE DEF p
  <2>2. p \in PairRead(s)
    BY <1>1, <2>1 DEF PairRead
  <2> QED
    BY <2>2 DEF p
<1>3. ASSUME NEW u \in STRING, Holds(s, u) PROVE Pair(<<u>>, <<v>>) \in PairRead(s)
  <2> DEFINE p == Pair(<<u>>, <<v>>)
  <2>1. <<u>> \in Seq(STRING) /\ DOMAIN <<u>> = {1} /\ <<u>>[1] = u
    BY ONLY u \in STRING, Single
  <2>2. p \in Seq(STRING) \X Seq(STRING) /\ p[1] = <<u>> /\ p[2] = <<v>>
    BY <1>1, <2>1 DEF Pair
  <2> HIDE DEF p
  <2>3. p \in PairRead(s)
    BY <1>1, <1>3, <2>1, <2>2 DEF PairRead
  <2> QED
    BY <2>3 DEF p
<1> QED
  BY <1>2, <1>3

LEMMA AuthIsRead ==
    ASSUME NEW s \in Segment, \A i \in DOMAIN s.args : Whole(s.args[i])
    PROVE  AuthPairs(s) \in Seq(PairRead(s))
<1> DEFINE hs == Header1(s, "authorization")
           h == hs[1]
<1>1. CASE hs = <<>> \/ h[2] \notin {"basic", "bearer", "ntlm"}
  BY <1>1, Nothing DEF AuthPairs
<1>2. CASE hs # <<>> /\ h[2] \in {"basic", "bearer", "ntlm"}
  <2>1. h \in HeadersOf(s) /\ h[1] = "authorization"
    BY <1>2, FieldsAreHeaders DEF HeadersCalled
  <2>2. AuthPairs(s) = IF h[2] = "basic" THEN <<Pair(<<h[3]>>, <<h[4]>>)>> ELSE <<Pair(<<>>, <<h[3]>>)>>
    BY <1>2 DEF AuthPairs
  <2> HIDE DEF h
  <2>3. Whole(h) /\ Len(h) \in Nat /\ \A k \in 2 .. Len(h) : h[k] \in STRING /\ Holds(s, h[k])
    BY <2>1, HeaderHolds
  <2>4. h[3] \in STRING /\ Holds(s, h[3])
    BY <1>2, <2>1, <2>3 DEF Whole
  <2>5. CASE h[2] = "basic"
    <3>1. h[4] \in STRING /\ Holds(s, h[4])
      BY <2>1, <2>3, <2>5 DEF Whole
    <3>2. Pair(<<h[3]>>, <<h[4]>>) \in PairRead(s)
      BY <2>4, <3>1, PairOf
    <3>3. AuthPairs(s) = <<Pair(<<h[3]>>, <<h[4]>>)>>
      BY <2>2, <2>5
    <3> QED
      BY ONLY <3>2, <3>3, Single
  <2>6. CASE h[2] # "basic"
    <3>1. Pair(<<>>, <<h[3]>>) \in PairRead(s)
      BY <2>4, PairOf
    <3>2. AuthPairs(s) = <<Pair(<<>>, <<h[3]>>)>>
      BY <2>2, <2>6
    <3> QED
      BY ONLY <3>1, <3>2, Single
  <2> QED
    BY <2>5, <2>6
<1> QED
  BY <1>1, <1>2

LEMMA FormIsRead ==
    ASSUME NEW s \in Segment, \A i \in DOMAIN s.args : Whole(s.args[i])
    PROVE  FormPairs(s) \in Seq(PairRead(s))
<1> DEFINE users == Header1(s, "user")
           passes == Header1(s, "password")
           pair == Pair(IF users = <<>> THEN <<>> ELSE <<users[1][2]>>, <<passes[1][2]>>)
<1>1. FormPairs(s) = <<>> \/ (passes # <<>> /\ FormPairs(s) = <<pair>>)
  BY DEF FormPairs
<1>2. ASSUME NEW name, Header1(s, name) # <<>>
      PROVE  Header1(s, name)[1][2] \in STRING /\ Holds(s, Header1(s, name)[1][2])
  <2> DEFINE h == Header1(s, name)[1]
  <2>1. h \in HeadersOf(s)
    BY <1>2, FieldsAreHeaders DEF HeadersCalled
  <2> HIDE DEF h
  <2>2. Whole(h) /\ Len(h) \in Nat /\ \A k \in 2 .. Len(h) : h[k] \in STRING /\ Holds(s, h[k])
    BY <2>1, HeaderHolds
  <2>3. h[2] \in STRING /\ Holds(s, h[2])
    BY <2>2 DEF Whole
  <2> QED
    BY <2>3 DEF h
<1>3. CASE passes # <<>>
  <2>1. passes[1][2] \in STRING /\ Holds(s, passes[1][2])
    BY <1>2, <1>3
  <2>2. users # <<>> => users[1][2] \in STRING /\ Holds(s, users[1][2])
    BY <1>2
  <2>3. pair \in PairRead(s)
    BY <2>1, <2>2, PairOf
  <2> HIDE DEF pair
  <2>4. CASE FormPairs(s) = <<pair>>
    BY ONLY <2>3, <2>4, Single
  <2> QED
    BY <1>1, <2>4, Nothing
<1>4. CASE passes = <<>>
  BY <1>1, <1>4, Nothing
<1> QED
  BY <1>3, <1>4

LEMMA CookiesAreRead ==
    ASSUME NEW s \in Segment, \A i \in DOMAIN s.args : Whole(s.args[i])
    PROVE  CookiePairs(s) \in Seq(PairRead(s))
<1> DEFINE C == {h \in HeadersOf(s) : h[1] \in {"cookie", "set-cookie"}}
           hs == Header1(s, "cookie") \o Fields(s, "set-cookie")
           R == {h \in C : h[2] = "session" /\ \E i \in DOMAIN hs : hs[i] = h}
           cs == Matching(hs, 2, "session")
           pairs == [i \in DOMAIN cs |-> Pair(<<cs[i][2]>>, <<cs[i][3]>>)]
<1>1. hs \in Seq(C)
  <2> DEFINE a == Header1(s, "cookie")
             b == Fields(s, "set-cookie")
  <2>1. a \in Seq(HeadersCalled(s, "cookie")) /\ b \in Seq(HeadersCalled(s, "set-cookie"))
    BY FieldsAreHeaders
  <2>2. HeadersCalled(s, "cookie") \subseteq C /\ HeadersCalled(s, "set-cookie") \subseteq C
    BY DEF HeadersCalled
  <2> HIDE DEF a, b, C
  <2>3. a \in Seq(C) /\ b \in Seq(C)
    BY <2>1, <2>2
  <2>4. a \o b \in Seq(C)
    BY ONLY <2>3, Joined
  <2> QED
    BY <2>4 DEF a, b
<1>2. cs \in Seq(R)
  <2> HIDE DEF hs, C
  <2> QED
    BY ONLY <1>1, MatchingAreSome
<1>3. CookiePairs(s) = pairs
  BY DEF CookiePairs
<1>4. ASSUME NEW h \in R PROVE Pair(<<h[2]>>, <<h[3]>>) \in PairRead(s)
  <2>1. h \in HeadersOf(s) /\ h[1] \in {"cookie", "set-cookie"}
    OBVIOUS
  <2>2. Whole(h) /\ Len(h) \in Nat /\ \A k \in 2 .. Len(h) : h[k] \in STRING /\ Holds(s, h[k])
    BY <2>1, HeaderHolds
  <2>3. /\ h[2] \in STRING /\ Holds(s, h[2])
        /\ h[3] \in STRING /\ Holds(s, h[3])
    BY <2>1, <2>2 DEF Whole
  <2> QED
    BY <2>3, PairOf
<1> HIDE DEF R, cs
<1>5. Len(cs) \in Nat /\ DOMAIN cs = 1 .. Len(cs) /\ \A i \in DOMAIN cs : cs[i] \in R
  BY <1>2
<1>6. pairs \in [1 .. Len(cs) -> PairRead(s)]
  BY <1>4, <1>5
<1> HIDE DEF pairs
<1>7. pairs \in Seq(PairRead(s))
  BY <1>5, <1>6
<1> QED
  BY <1>3, <1>7

-----------------------------------------------------------------------------
(* What a client has said *)

\* The user it named last, and what its last segment says.
Namings(cap, n, x) == {i \in FromClient(cap, n, x) : cap[i].verb = "USER"}
UserNamed(cap, n, x) == IF Namings(cap, n, x) = {} THEN <<>> ELSE Arg(cap[LastIn(Namings(cap, n, x))], 1)
WordsOf(e) == {Line(e), Arg(e, 1), Arg(e, 2)}
JustSaid(v, cap, n, x) == FromClient(cap, n, x) # {} /\ v \in WordsOf(cap[LastIn(FromClient(cap, n, x))])

\* What the state of a stream remembers of it.
Remembers(p, proto, cap, n, x) ==
    /\ proto \in {"pop", "ftp"} => p.user = UserNamed(cap, n, x)
    /\ proto = "smtp" => /\ p.authState = "login-pass" => JustSaid(p.user, cap, n, x)
                         /\ p.inData => p.authState = "none"
    /\ proto = "telnet" => /\ HasBegun(p, TypedIn(cap, n, x), Len(TypedIn(cap, n, x)))
                           /\ HasUser(p, TypedIn(cap, n, x), Len(TypedIn(cap, n, x)))

\* A credential was sent in packet e, the user in it or before it.
SentAs(c, e, cap) ==
    /\ e.stream = c.stream /\ e.proto = c.proto /\ (e.dir = 1 => c.proto \in {"irc", "http"})
    /\ c.proto = "http" => Holds(e, c.secret[1]) /\ \A k \in DOMAIN c.user : Holds(e, c.user[k])
    /\ c.proto \notin {"telnet", "http"} => c.secret \in WordsOf(e)
    /\ c.proto \in {"pop", "ftp"} => c.user = UserNamed(cap, c.packet - 1, c.stream)
    /\ c.proto = "imap" => c.user \in WordsOf(e)
    /\ c.proto = "smtp" => c.user \in WordsOf(e) \/ JustSaid(c.user, cap, c.packet - 1, c.stream)
    /\ c.proto = "telnet" => IsTyped(c.user, c.secret, TypedIn(cap, c.packet, c.stream),
                                     Len(TypedIn(cap, c.packet - 1, c.stream)))
WasSent(c, cap, N) == c.packet \in 1 .. N /\ SentAs(c, cap[c.packet], cap)
AllSent(creds, cap, N) == creds \in Seq(CredentialRec) /\ \A n \in DOMAIN creds : WasSent(creds[n], cap, N)

\* It is not changed by the segments that follow.
LEMMA SaidStays ==
    ASSUME NEW n \in Nat, NEW cap, NEW new, \A i \in 1 .. n : new[i] = cap[i], NEW x
    PROVE  /\ UserNamed(new, n, x) = UserNamed(cap, n, x)
           /\ \A v : JustSaid(v, new, n, x) <=> JustSaid(v, cap, n, x)
<1>1. FromClient(new, n, x) = FromClient(cap, n, x)
  BY DEF FromClient
<1>2. FromClient(cap, n, x) \in SUBSET (1 .. n)
  BY DEF FromClient
<1>3. Namings(new, n, x) = Namings(cap, n, x) /\ Namings(cap, n, x) \in SUBSET (1 .. n)
  BY <1>1, <1>2 DEF Namings
<1>4. ASSUME NEW A \in SUBSET (1 .. n), A # {} PROVE new[LastIn(A)] = cap[LastIn(A)]
  <2>1. \E i \in A : \A j \in A : j <= i
    BY <1>4, MaxOfSome
  <2>2. LastIn(A) \in A
    BY <2>1 DEF LastIn
  <2> QED
    BY <2>2
<1>5. UserNamed(new, n, x) = UserNamed(cap, n, x)
  BY <1>3, <1>4 DEF UserNamed
<1>6. \A v : JustSaid(v, new, n, x) <=> JustSaid(v, cap, n, x)
  BY <1>1, <1>2, <1>4 DEF JustSaid
<1> QED
  BY <1>5, <1>6

\* The next segment: what its client says by it, and no other client.
LEMMA SaidNext ==
    ASSUME NEW N \in Nat, NEW cap, NEW x, NEW e, cap[N + 1] = e
    PROVE  /\ UserNamed(cap, N + 1, x) = IF Says(e, x) /\ e.verb = "USER" THEN Arg(e, 1) ELSE UserNamed(cap, N, x)
           /\ \A v : JustSaid(v, cap, N + 1, x) <=> IF Says(e, x) THEN v \in WordsOf(e) ELSE JustSaid(v, cap, N, x)
<1> DEFINE F == FromClient(cap, N, x)
           U == Namings(cap, N, x)
<1>1. 1 .. N + 1 = (1 .. N) \cup {N + 1}
  OBVIOUS
<1>2. FromClient(cap, N + 1, x) = IF Says(e, x) THEN F \cup {N + 1} ELSE F
  BY <1>1 DEF FromClient, Says
<1>3. Namings(cap, N + 1, x) = IF Says(e, x) /\ e.verb = "USER" THEN U \cup {N + 1} ELSE U
  BY <1>2 DEF Namings
<1>4. F \in SUBSET (1 .. N) /\ U \in SUBSET (1 .. N)
  BY DEF Namings, FromClient
<1> HIDE DEF F, U
<1>5. \A A \in SUBSET (1 .. N) : LastIn(A \cup {N + 1}) = N + 1 /\ A \cup {N + 1} # {}
  BY LastOfMore
<1>6. UserNamed(cap, N + 1, x) = IF Says(e, x) /\ e.verb = "USER" THEN Arg(e, 1) ELSE UserNamed(cap, N, x)
  BY <1>3, <1>4, <1>5 DEF UserNamed, U
<1>7. ASSUME NEW v
      PROVE  JustSaid(v, cap, N + 1, x) <=> IF Says(e, x) THEN v \in WordsOf(e) ELSE JustSaid(v, cap, N, x)
  BY <1>2, <1>4, <1>5 DEF JustSaid, F
<1> QED
  BY <1>6, <1>7

\* What was typed, the same.
LEMMA TypedStays ==
    ASSUME NEW N \in Nat, NEW cap, NEW new, \A i \in 1 .. N : cap[i] \in Segment /\ new[i] = cap[i],
           NEW n \in 0 .. N, NEW x
    PROVE  TypedIn(new, n, x) = TypedIn(cap, n, x) /\ TypedIn(cap, n, x) \in Seq(STRING)
<1>1. n \in Nat /\ \A i \in 1 .. n : i \in 1 .. N /\ new[i] = cap[i]
  OBVIOUS
<1>2. HasText(cap, n, x)
  <2>1. \A i \in 1 .. n : Arg(cap[i], 1) \in Seq(STRING)
    BY <1>1, ArgIsText
  <2> QED
    BY <2>1, Nothing DEF HasText, TextOf
<1> QED
  BY ONLY <1>1, <1>2, TextStays

\* So a credential that was sent stays one, and the stream of another segment remembers
\* what it did.
LEMMA SentStays ==
    ASSUME NEW N \in Nat, NEW cap, NEW new, \A i \in 1 .. N : cap[i] \in Segment /\ new[i] = cap[i],
           NEW creds, AllSent(creds, cap, N)
    PROVE  AllSent(creds, new, N + 1)
<1> SUFFICES ASSUME NEW k \in DOMAIN creds PROVE WasSent(creds[k], new, N + 1)
  BY DEF AllSent
<1> DEFINE c == creds[k]
           n == c.packet
<1>1. n \in 1 .. N /\ SentAs(c, cap[n], cap)
  BY DEF AllSent, WasSent
<1> HIDE DEF c, n
<1>2. n \in 0 .. N /\ n - 1 \in 0 .. N /\ n - 1 \in Nat /\ n \in 1 .. N + 1 /\ \A i \in 1 .. n - 1 : new[i] = cap[i]
  BY <1>1
<1>3. ASSUME NEW x PROVE TypedIn(new, n, x) = TypedIn(cap, n, x) /\ TypedIn(new, n - 1, x) = TypedIn(cap, n - 1, x)
  BY <1>2, TypedStays
<1>4. ASSUME NEW x PROVE /\ UserNamed(new, n - 1, x) = UserNamed(cap, n - 1, x)
                         /\ \A v : JustSaid(v, new, n - 1, x) <=> JustSaid(v, cap, n - 1, x)
  BY ONLY <1>2, SaidStays
<1>5. new[n] = cap[n]
  BY <1>1
<1>6. SentAs(c, new[n], new)
  BY <1>1, <1>3, <1>4, <1>5 DEF SentAs, n
<1> QED
  BY <1>2, <1>6 DEF WasSent, c, n

LEMMA RestRemembered ==
    ASSUME NEW N \in Nat, NEW cap, NEW new, \A i \in 1 .. N : cap[i] \in Segment /\ new[i] = cap[i],
           NEW e \in Segment, new[N + 1] = e, NEW x, ~Says(e, x), NEW p, NEW proto
    PROVE  Remembers(p, proto, new, N + 1, x) <=> Remembers(p, proto, cap, N, x)
<1>1. N \in 0 .. N /\ (N + 1) - 1 = N /\ \A i \in 1 .. N : new[i] = cap[i]
  OBVIOUS
<1>2. UserNamed(new, N, x) = UserNamed(cap, N, x) /\ \A v : JustSaid(v, new, N, x) <=> JustSaid(v, cap, N, x)
  BY ONLY N \in Nat, <1>1, SaidStays
<1>3. /\ UserNamed(new, N + 1, x) = IF Says(e, x) /\ e.verb = "USER" THEN Arg(e, 1) ELSE UserNamed(new, N, x)
      /\ \A v : JustSaid(v, new, N + 1, x) <=> IF Says(e, x) THEN v \in WordsOf(e) ELSE JustSaid(v, new, N, x)
  BY ONLY N \in Nat, new[N + 1] = e, SaidNext
<1>4. TypedIn(new, N, x) = TypedIn(cap, N, x) /\ TypedIn(cap, N, x) \in Seq(STRING)
  <2>1. N \in Nat /\ (\A i \in 1 .. N : cap[i] \in Segment /\ new[i] = cap[i]) /\ N \in 0 .. N
    OBVIOUS
  <2>2. \A n \in 0 .. N : TypedIn(new, n, x) = TypedIn(cap, n, x)
    BY ONLY <2>1, TypedStays
  <2>3. \A n \in 0 .. N : TypedIn(cap, n, x) \in Seq(STRING)
    BY ONLY <2>1, TypedStays
  <2> QED
    BY <2>1, <2>2, <2>3
<1>5. TypedIn(new, N + 1, x) = TypedIn(new, N, x)
  <2>1. HasText(new, N + 1, x)
    <3>1. \A i \in 1 .. N + 1 : i \in 1 .. N \/ i = N + 1
      OBVIOUS
    <3>2. \A i \in 1 .. N + 1 : new[i] \in Segment
      BY <3>1
    <3>3. \A i \in 1 .. N + 1 : Arg(new[i], 1) \in Seq(STRING)
      BY <3>2, ArgIsText
    <3> QED
      BY <3>3, Nothing DEF HasText, TextOf
  <2>2. TypedIn(new, N + 1, x) = TypedIn(new, N, x) \o TextOf(e, x)
    BY ONLY N \in Nat, new[N + 1] = e, <2>1, TextNext
  <2>3. TextOf(e, x) = <<>>
    BY DEF TextOf, Says
  <2> DEFINE T == TypedIn(new, N, x)
  <2>4. T \in Seq(STRING) /\ TypedIn(new, N + 1, x) = T \o <<>>
    BY <1>4, <2>2, <2>3
  <2> HIDE DEF T
  <2>5. T \o <<>> = T
    BY <2>4
  <2> QED
    BY <2>4, <2>5 DEF T
<1> QED
  BY <1>2, <1>3, <1>4, <1>5 DEF Remembers

\* One credential more, and several.
LEMMA OneMoreSent ==
    ASSUME NEW creds, NEW cap, NEW N, AllSent(creds, cap, N), NEW c \in CredentialRec, WasSent(c, cap, N),
           NEW more, more = Append(creds, c)
    PROVE  AllSent(more, cap, N)
<1>1. creds \in Seq(CredentialRec) /\ \A n \in DOMAIN creds : WasSent(creds[n], cap, N)
  BY DEF AllSent
<1>2. more \in Seq(CredentialRec)
  BY ONLY <1>1, c \in CredentialRec, more = Append(creds, c), Enqueued
<1>3. \A k \in DOMAIN more : more[k] = c \/ \E j \in DOMAIN creds : more[k] = creds[j]
  BY ONLY <1>1, more = Append(creds, c), AppendElements
<1>4. \A k \in DOMAIN more : WasSent(more[k], cap, N)
  BY ONLY <1>1, <1>3, WasSent(c, cap, N)
<1> QED
  BY <1>2, <1>4 DEF AllSent

LEMMA MoreSent ==
    ASSUME NEW creds, NEW cap, NEW N, AllSent(creds, cap, N), NEW out, AllSent(out, cap, N),
           NEW more, more = creds \o out
    PROVE  AllSent(more, cap, N)
<1>1. /\ creds \in Seq(CredentialRec) /\ \A n \in DOMAIN creds : WasSent(creds[n], cap, N)
      /\ out \in Seq(CredentialRec) /\ \A n \in DOMAIN out : WasSent(out[n], cap, N)
  BY DEF AllSent
<1>2. more \in Seq(CredentialRec)
  BY ONLY <1>1, more = creds \o out, Joined
<1>3. /\ Len(creds) \in Nat /\ Len(out) \in Nat /\ DOMAIN creds = 1 .. Len(creds) /\ DOMAIN out = 1 .. Len(out)
      /\ DOMAIN more = 1 .. Len(creds) + Len(out)
      /\ \A k \in 1 .. Len(creds) : more[k] = creds[k]
      /\ \A k \in 1 .. Len(out) : more[Len(creds) + k] = out[k]
  BY ONLY <1>1, more = creds \o out
<1>4. ASSUME NEW k \in DOMAIN more PROVE WasSent(more[k], cap, N)
  <2>1. CASE k \in 1 .. Len(creds)
    BY <1>1, <1>3, <2>1
  <2>2. CASE k \notin 1 .. Len(creds)
    <3> DEFINE j == k - Len(creds)
    <3>1. j \in 1 .. Len(out) /\ k = Len(creds) + j
      BY <1>3, <2>2
    <3> HIDE DEF j
    <3>2. more[k] = out[j]
      BY <1>3, <3>1
    <3> QED
      BY <1>1, <1>3, <3>1, <3>2
  <2> QED
    BY <2>1, <2>2
<1> QED
  BY <1>2, <1>4 DEF AllSent

\* A segment is dissected: s is the next one after the N of cap, p the state of its stream.
Begins(s, new, N) ==
    /\ s \in Segment /\ captured \in Seq(Segment) /\ N = Len(captured) /\ N \in Nat
    /\ new[N + 1] = s /\ \A i \in 1 .. N : captured[i] \in Segment /\ new[i] = captured[i]
    /\ DOMAIN per = SessionStreams /\ \A x \in SessionStreams : per[x] \in StreamRec
    /\ Remembers(per[s.stream], s.proto, new, N, s.stream)
    /\ AllSent(credentials, new, N + 1)
Ends(s, new, N) ==
    /\ per'[s.stream] \in StreamRec
    /\ Remembers(per'[s.stream], s.proto, new, N + 1, s.stream)
    /\ AllSent(credentials', new, N + 1)

\* What the segment gives, and how a state or a credential follows from it.
LEMMA OwnState ==
    ASSUME NEW s, NEW new, NEW N, Begins(s, new, N), NEW q, Becomes(s, q)
    PROVE  per'[s.stream] = q
<1>1. s.stream \in SessionStreams /\ DOMAIN per = SessionStreams
  BY DEF Begins, Segment
<1> QED
  BY <1>1 DEF Becomes, StreamState

LEMMA Pushed ==
    ASSUME NEW s, NEW new, NEW N, Begins(s, new, N), NEW user \in Seq(STRING), NEW secret \in Seq(STRING),
           pushCred(s, user, secret),
           \A c : c.packet = N + 1 /\ c.stream = s.stream /\ c.proto = s.proto /\ c.user = user /\ c.secret = secret
                     => SentAs(c, s, new)
    PROVE  AllSent(credentials', new, N + 1)
<1> DEFINE c == Credential(s, user, secret)
<1>1. /\ s \in Segment /\ captured \in Seq(Segment) /\ N = Len(captured) /\ N \in Nat
      /\ new[N + 1] = s /\ AllSent(credentials, new, N + 1)
  BY DEF Begins
<1>2. /\ c \in CredentialRec /\ c.packet = N + 1 /\ c.stream = s.stream /\ c.proto = s.proto
      /\ c.user = user /\ c.secret = secret
  BY <1>1, CredentialType
<1>3. credentials' = Append(credentials, c)
  BY DEF pushCred
<1> HIDE DEF c
<1>4. WasSent(c, new, N + 1)
  <2>1. N + 1 \in 1 .. N + 1
    BY <1>1
  <2> QED
    BY <1>1, <1>2, <2>1 DEF WasSent
<1> QED
  BY ONLY <1>1, <1>2, <1>3, <1>4, OneMoreSent

\* What client and segment say, in the terms of the two lemmas above.
LEMMA SegmentSays ==
    ASSUME NEW s, NEW new, NEW N, Begins(s, new, N)
    PROVE  /\ s \in Segment /\ N \in Nat /\ (N + 1) - 1 = N /\ s.dir \in {0, 1} /\ s.stream \in SessionStreams
           /\ UserNamed(new, N + 1, s.stream) =
                 IF s.dir = 0 /\ s.verb = "USER" THEN Arg(s, 1) ELSE UserNamed(new, N, s.stream)
           /\ \A v : JustSaid(v, new, N + 1, s.stream) <=>
                        IF s.dir = 0 THEN v \in WordsOf(s) ELSE JustSaid(v, new, N, s.stream)
           /\ per[s.stream] \in StreamRec /\ AllSent(credentials, new, N + 1)
           /\ Arg(s, 1) \in Seq(STRING) /\ Arg(s, 2) \in Seq(STRING) /\ Line(s) \in Seq(STRING)
<1>1. s \in Segment /\ N \in Nat /\ new[N + 1] = s /\ AllSent(credentials, new, N + 1)
  BY DEF Begins
<1>2. s.dir \in {0, 1} /\ s.stream \in SessionStreams /\ s.verb \in STRING
  BY <1>1 DEF Segment
<1>3. per[s.stream] \in StreamRec
  BY <1>2 DEF Begins
<1>4. Says(s, s.stream) <=> s.dir = 0
  BY DEF Says
<1>5. /\ UserNamed(new, N + 1, s.stream) =
            IF Says(s, s.stream) /\ s.verb = "USER" THEN Arg(s, 1) ELSE UserNamed(new, N, s.stream)
      /\ \A v : JustSaid(v, new, N + 1, s.stream) <=>
                   IF Says(s, s.stream) THEN v \in WordsOf(s) ELSE JustSaid(v, new, N, s.stream)
  BY ONLY <1>1, SaidNext
<1>6. Arg(s, 1) \in Seq(STRING) /\ Arg(s, 2) \in Seq(STRING)
  BY <1>1, ArgIsText
<1>7. Line(s) \in Seq(STRING)
  <2> DEFINE a == Arg(s, 1)
             v == <<s.verb>>
  <2>1. \A w \in STRING : \A t : t = <<w>> => t \in Seq(STRING)
    BY Single
  <2>2. v \in Seq(STRING) /\ a \in Seq(STRING)
    BY <1>2, <1>6, <2>1
  <2>3. Line(s) = v \o a
    BY DEF Line
  <2> HIDE DEF a, v
  <2> QED
    BY <2>2, <2>3, Joined
<1>8. (N + 1) - 1 = N
  BY <1>1
<1> QED
  BY <1>1, <1>2, <1>3, <1>4, <1>5, <1>6, <1>7, <1>8

-----------------------------------------------------------------------------
(* The segments of the protocols *)

LEMMA PopSays ==
    ASSUME NEW s, NEW new, NEW N, Begins(s, new, N), PopDissect(s)
    PROVE  Ends(s, new, N)
<1> DEFINE p == per[s.stream]
<1>1. /\ (N + 1) - 1 = N /\ s.dir \in {0, 1} /\ p \in StreamRec
      /\ UserNamed(new, N + 1, s.stream) =
            IF s.dir = 0 /\ s.verb = "USER" THEN Arg(s, 1) ELSE UserNamed(new, N, s.stream)
      /\ Arg(s, 1) \in Seq(STRING) /\ AllSent(credentials, new, N + 1)
  BY SegmentSays
<1>2. s.proto = "pop" /\ p.user = UserNamed(new, N, s.stream)
  BY DEF PopDissect, Begins, Remembers
<1>3. p.user \in Seq(STRING)
  BY <1>1 DEF StreamRec
<1>4. ASSUME NEW q, q.user = UserNamed(new, N + 1, s.stream) PROVE Remembers(q, s.proto, new, N + 1, s.stream)
  BY <1>2, <1>4 DEF Remembers
<1>5. CASE s.dir = 0 /\ s.verb = "USER"
  <2> DEFINE q == [p EXCEPT !.user = Arg(s, 1)]
  <2>1. Becomes(s, q) /\ credentials' = credentials
    BY <1>5 DEF PopDissect
  <2>2. q \in StreamRec /\ q.user = Arg(s, 1)
    <3> HIDE DEF p
    <3> QED
      BY <1>1 DEF StreamRec
  <2> HIDE DEF q
  <2>3. per'[s.stream] = q
    BY <2>1, OwnState
  <2> QED
    BY <1>1, <1>4, <1>5, <2>1, <2>2, <2>3 DEF Ends
<1>6. CASE s.dir = 0 /\ s.verb = "PASS"
  <2>1. pushCred(s, p.user, Arg(s, 1)) /\ per' = per
    BY <1>6 DEF PopDissect
  <2>2. ASSUME NEW c, c.packet = N + 1 /\ c.stream = s.stream /\ c.proto = s.proto /\ c.user = p.user
                      /\ c.secret = Arg(s, 1)
        PROVE  SentAs(c, s, new)
    <3> HIDE DEF p
    <3> QED
      BY <1>1, <1>2, <1>6, <2>2 DEF SentAs, WordsOf
  <2>3. AllSent(credentials', new, N + 1)
    BY <1>1, <1>3, <2>1, <2>2, Pushed
  <2> QED
    BY <1>1, <1>2, <1>4, <1>6, <2>1, <2>3 DEF Ends
<1>7. CASE ~(s.dir = 0 /\ s.verb \in {"USER", "PASS"})
  <2>1. per' = per /\ credentials' = credentials
    BY <1>7 DEF PopDissect
  <2> QED
    BY <1>1, <1>2, <1>4, <1>7, <2>1 DEF Ends
<1> QED
  BY <1>5, <1>6, <1>7

LEMMA FtpSays ==
    ASSUME NEW s, NEW new, NEW N, Begins(s, new, N), FtpDissect(s)
    PROVE  Ends(s, new, N)
<1> DEFINE p == per[s.stream]
<1>1. /\ (N + 1) - 1 = N /\ s.dir \in {0, 1} /\ p \in StreamRec
      /\ UserNamed(new, N + 1, s.stream) =
            IF s.dir = 0 /\ s.verb = "USER" THEN Arg(s, 1) ELSE UserNamed(new, N, s.stream)
      /\ Arg(s, 1) \in Seq(STRING) /\ AllSent(credentials, new, N + 1)
  BY SegmentSays
<1>2. s.proto = "ftp" /\ p.user = UserNamed(new, N, s.stream)
  BY DEF FtpDissect, Begins, Remembers
<1>3. p.user \in Seq(STRING)
  BY <1>1 DEF StreamRec
<1>4. ASSUME NEW q, q.user = UserNamed(new, N + 1, s.stream) PROVE Remembers(q, s.proto, new, N + 1, s.stream)
  BY <1>2, <1>4 DEF Remembers
<1>5. CASE s.dir = 0 /\ s.verb = "USER"
  <2> DEFINE q == [p EXCEPT !.user = Arg(s, 1)]
  <2>1. Becomes(s, q) /\ credentials' = credentials
    BY <1>5 DEF FtpDissect, FtpRequest
  <2>2. q \in StreamRec /\ q.user = Arg(s, 1)
    <3> HIDE DEF p
    <3> QED
      BY <1>1 DEF StreamRec
  <2> HIDE DEF q
  <2>3. per'[s.stream] = q
    BY <2>1, OwnState
  <2> QED
    BY <1>1, <1>4, <1>5, <2>1, <2>2, <2>3 DEF Ends
<1>6. CASE s.dir = 0 /\ s.verb = "PASS"
  <2>1. pushCred(s, p.user, Arg(s, 1)) /\ per' = per
    BY <1>6 DEF FtpDissect, FtpRequest
  <2>2. ASSUME NEW c, c.packet = N + 1 /\ c.stream = s.stream /\ c.proto = s.proto /\ c.user = p.user
                      /\ c.secret = Arg(s, 1)
        PROVE  SentAs(c, s, new)
    <3> HIDE DEF p
    <3> QED
      BY <1>1, <1>2, <1>6, <2>2 DEF SentAs, WordsOf
  <2>3. AllSent(credentials', new, N + 1)
    BY <1>1, <1>3, <2>1, <2>2, Pushed
  <2> QED
    BY <1>1, <1>2, <1>4, <1>6, <2>1, <2>3 DEF Ends
<1>7. CASE s.dir = 0 /\ s.verb \in {"RETR", "STOR"}
  <2> DEFINE q == [p EXCEPT !.lastFile = Arg(s, 1)]
  <2>1. Becomes(s, q) /\ credentials' = credentials
    BY <1>7 DEF FtpDissect, FtpRequest
  <2>2. q \in StreamRec /\ q.user = p.user
    <3> HIDE DEF p
    <3> QED
      BY <1>1 DEF StreamRec
  <2> HIDE DEF q
  <2>3. per'[s.stream] = q
    BY <2>1, OwnState
  <2> QED
    BY <1>1, <1>2, <1>4, <1>7, <2>1, <2>2, <2>3 DEF Ends
<1>8. CASE ~(s.dir = 0 /\ s.verb \in {"USER", "PASS", "RETR", "STOR"})
  <2>1. per' = per /\ credentials' = credentials
    <3>1. CASE s.dir # 0
      BY <3>1 DEF FtpDissect, FtpReply
    <3>2. CASE s.dir = 0 /\ s.verb \in {"PORT", "EPRT"}
      BY <1>8, <3>2 DEF FtpDissect, FtpRequest
    <3>3. CASE s.dir = 0 /\ s.verb \notin {"PORT", "EPRT"}
      BY <1>8, <3>3 DEF FtpDissect, FtpRequest
    <3> QED
      BY <3>1, <3>2, <3>3
  <2> QED
    BY <1>1, <1>2, <1>4, <1>8, <2>1 DEF Ends
<1> QED
  BY <1>5, <1>6, <1>7, <1>8

LEMMA ImapSays ==
    ASSUME NEW s, NEW new, NEW N, Begins(s, new, N), ImapDissect(s)
    PROVE  Ends(s, new, N)
<1> DEFINE p == per[s.stream]
<1>1. /\ s.dir \in {0, 1} /\ p \in StreamRec /\ AllSent(credentials, new, N + 1)
      /\ Arg(s, 1) \in Seq(STRING) /\ Arg(s, 2) \in Seq(STRING)
  BY SegmentSays
<1>2. s.proto = "imap" /\ \A q : Remembers(q, s.proto, new, N + 1, s.stream)
  BY DEF ImapDissect, Remembers
<1>3. CASE s.dir = 0 /\ s.verb = "LOGIN"
  <2> DEFINE q == [p EXCEPT !.user = Arg(s, 1)]
  <2>1. Becomes(s, q) /\ pushCred(s, Arg(s, 1), Arg(s, 2))
    BY <1>3 DEF ImapDissect
  <2>2. q \in StreamRec
    <3> HIDE DEF p
    <3> QED
      BY <1>1 DEF StreamRec
  <2> HIDE DEF q
  <2>3. per'[s.stream] = q
    BY <2>1, OwnState
  <2>4. ASSUME NEW c, c.packet = N + 1 /\ c.stream = s.stream /\ c.proto = s.proto /\ c.user = Arg(s, 1)
                      /\ c.secret = Arg(s, 2)
        PROVE  SentAs(c, s, new)
    BY <1>2, <1>3, <2>4 DEF SentAs, WordsOf
  <2>5. AllSent(credentials', new, N + 1)
    BY <1>1, <2>1, <2>4, Pushed
  <2> QED
    BY <1>2, <2>2, <2>3, <2>5 DEF Ends
<1>4. CASE ~(s.dir = 0 /\ s.verb = "LOGIN")
  <2>1. per' = per /\ credentials' = credentials
    BY <1>4 DEF ImapDissect
  <2> QED
    BY <1>1, <1>2, <2>1 DEF Ends
<1> QED
  BY <1>3, <1>4

LEMMA IrcSays ==
    ASSUME NEW s, NEW new, NEW N, Begins(s, new, N), IrcDissect(s)
    PROVE  Ends(s, new, N)
<1>1. /\ s.dir \in {0, 1} /\ per[s.stream] \in StreamRec /\ AllSent(credentials, new, N + 1)
      /\ Arg(s, 1) \in Seq(STRING) /\ <<>> \in Seq(STRING)
  BY SegmentSays, Nothing
<1>2. s.proto = "irc" /\ per' = per /\ \A q : Remembers(q, s.proto, new, N + 1, s.stream)
  BY DEF IrcDissect, Remembers
<1>3. CASE s.verb = "PASS"
  <2>1. pushCred(s, <<>>, Arg(s, 1))
    BY <1>3 DEF IrcDissect
  <2>2. ASSUME NEW c, c.packet = N + 1 /\ c.stream = s.stream /\ c.proto = s.proto /\ c.user = <<>>
                      /\ c.secret = Arg(s, 1)
        PROVE  SentAs(c, s, new)
    BY <1>2, <2>2 DEF SentAs, WordsOf
  <2>3. AllSent(credentials', new, N + 1)
    BY <1>1, <2>1, <2>2, Pushed
  <2> QED
    BY <1>1, <1>2, <2>3 DEF Ends
<1>4. CASE s.verb # "PASS"
  <2>1. credentials' = credentials
    BY <1>4 DEF IrcDissect
  <2> QED
    BY <1>1, <1>2, <2>1 DEF Ends
<1> QED
  BY <1>3, <1>4

\* The value of a header is text.
LEMMA HeadersAreText ==
    ASSUME NEW s \in Segment, NEW name, NEW old \in Seq(STRING)
    PROVE  BodyHeader(s, name, old) \in Seq(STRING)
<1> DEFINE A == HeaderLines(s, name)
<1>1. s.args \in Seq(Seq(STRING))
  BY DEF Segment
<1>2. /\ A \in SUBSET (1 .. Len(s.args)) /\ Len(s.args) \in Nat /\ DOMAIN s.args = 1 .. Len(s.args)
      /\ \A i \in A : s.args[i] \in Seq(STRING) /\ s.args[i] # <<>>
  BY <1>1 DEF HeaderLines
<1> HIDE DEF A
<1>3. ASSUME A # {} PROVE Tail(s.args[LastIn(A)]) \in Seq(STRING)
  <2>1. LastIn(A) \in A
    BY <1>2, <1>3, MaxOfSome DEF LastIn
  <2> DEFINE line == s.args[LastIn(A)]
  <2>2. line \in Seq(STRING) /\ line # <<>>
    BY <1>2, <2>1
  <2> HIDE DEF line
  <2>3. Tail(line) \in Seq(STRING)
    BY ONLY <2>2
  <2> QED
    BY <2>3 DEF line
<1> QED
  BY <1>3 DEF BodyHeader, A

LEMMA SmtpSays ==
    ASSUME NEW s, NEW new, NEW N, Begins(s, new, N), SmtpParse(s)
    PROVE  Ends(s, new, N)
<1> DEFINE p == per[s.stream]
<1>1. /\ N \in Nat /\ (N + 1) - 1 = N /\ s.dir \in {0, 1} /\ p \in StreamRec /\ AllSent(credentials, new, N + 1)
      /\ \A v : JustSaid(v, new, N + 1, s.stream) <=>
                   IF s.dir = 0 THEN v \in WordsOf(s) ELSE JustSaid(v, new, N, s.stream)
      /\ Arg(s, 1) \in Seq(STRING) /\ Arg(s, 2) \in Seq(STRING) /\ Line(s) \in Seq(STRING)
  BY SegmentSays
<1>2. /\ s.proto = "smtp"
      /\ p.authState = "login-pass" => JustSaid(p.user, new, N, s.stream)
      /\ p.inData => p.authState = "none"
  BY DEF SmtpParse, Begins, Remembers
<1>3. /\ p.user \in Seq(STRING) /\ p.to \in Seq(Seq(STRING)) /\ p.hdrFrom \in Seq(STRING) /\ p.hdrTo \in Seq(STRING)
      /\ p.authState \in {"none", "plain", "login-user", "login-pass"}
  BY <1>1 DEF StreamRec
<1>4. ASSUME NEW q \in StreamRec, q.inData => q.authState = "none",
             q.authState = "login-pass" => s.dir = 0 /\ q.user \in WordsOf(s),
             per' = per \/ Becomes(s, q), per' = per => q = p, AllSent(credentials', new, N + 1)
      PROVE  Ends(s, new, N)
  <2>1. per'[s.stream] = q
    BY <1>4, OwnState
  <2>2. q.authState = "login-pass" => JustSaid(q.user, new, N + 1, s.stream)
    BY <1>1, <1>4
  <2>3. Remembers(q, s.proto, new, N + 1, s.stream)
    BY <1>2, <1>4, <2>2 DEF Remembers
  <2> QED
    BY <1>4, <2>1, <2>3 DEF Ends
<1>5. ASSUME s.dir = 0, NEW user \in Seq(STRING), NEW secret \in Seq(STRING), pushCred(s, user, secret),
             user \in WordsOf(s) \/ JustSaid(user, new, N, s.stream), secret \in WordsOf(s)
      PROVE  AllSent(credentials', new, N + 1)
  <2>1. ASSUME NEW c, c.packet = N + 1 /\ c.stream = s.stream /\ c.proto = s.proto /\ c.user = user /\ c.secret = secret
        PROVE  SentAs(c, s, new)
    <3> HIDE DEF p
    <3> QED
      BY <1>1, <1>2, <1>5, <2>1 DEF SentAs
  <2> QED
    BY <1>5, <2>1, Pushed
<1>6. Line(s) \in WordsOf(s) /\ Arg(s, 1) \in WordsOf(s) /\ Arg(s, 2) \in WordsOf(s)
  BY DEF WordsOf
<1>7. CASE s.dir = 1
  <2>1. per' = per /\ credentials' = credentials
    BY <1>7 DEF SmtpParse
  <2>2. Remembers(p, s.proto, new, N + 1, s.stream)
    BY <1>1, <1>2, <1>7 DEF Remembers
  <2> QED
    BY <1>1, <2>1, <2>2 DEF Ends
<1>8. CASE s.dir = 0 /\ p.inData
  <2>1. smtpBody(s) /\ credentials' = credentials
    BY <1>8 DEF SmtpParse
  <2> DEFINE from == BodyHeader(s, "From:", p.hdrFrom)
             to == BodyHeader(s, "To:", p.hdrTo)
             q == IF s.dot THEN [p EXCEPT !.inData = FALSE, !.hdrFrom = <<>>, !.hdrTo = <<>>]
                  ELSE [p EXCEPT !.hdrFrom = from, !.hdrTo = to]
  <2>2. Becomes(s, q)
    BY <2>1 DEF smtpBody, Headers
  <2>3. from \in Seq(STRING) /\ to \in Seq(STRING) /\ <<>> \in Seq(STRING)
    <3>1. s \in Segment
      BY DEF Begins
    <3> QED
      BY <1>3, <3>1, HeadersAreText, Nothing
  <2>4. q \in StreamRec /\ q.authState = p.authState
    <3> HIDE DEF p, from, to
    <3> QED
      BY <1>1, <2>3 DEF StreamRec
  <2>5. p.authState = "none"
    BY <1>2, <1>8
  <2> HIDE DEF q
  <2>6. per' = per => q = p
    <3>1. per'[s.stream] = q
      BY <2>2, OwnState
    <3> QED
      BY <3>1
  <2> QED
    BY <1>1, <1>4, <2>1, <2>2, <2>4, <2>5, <2>6
<1>9. ASSUME NEW q \in StreamRec, Becomes(s, q) PROVE per' = per => q = p
  <2>1. per'[s.stream] = q
    BY <1>9, OwnState
  <2> QED
    BY <2>1
<1>10. CASE s.dir = 0 /\ ~p.inData /\ p.authState # "none"
  <2>1. smtpAuthContinue(s)
    BY <1>10 DEF SmtpParse
  <2>2. CASE p.authState = "login-user"
    <3> DEFINE q == [p EXCEPT !.user = Line(s), !.authState = "login-pass"]
    <3>1. Becomes(s, q) /\ credentials' = credentials
      BY <2>1, <2>2 DEF smtpAuthContinue
    <3>2. q \in StreamRec /\ q.user = Line(s) /\ q.inData = p.inData
      <4> HIDE DEF p
      <4> QED
        BY <1>1 DEF StreamRec
    <3> HIDE DEF q
    <3> QED
      BY <1>1, <1>4, <1>6, <1>9, <1>10, <3>1, <3>2
  <2> DEFINE q == [p EXCEPT !.authState = "none"]
  <2>3. q \in StreamRec /\ q.authState = "none"
    <3> HIDE DEF p
    <3> QED
      BY <1>1 DEF StreamRec
  <2>4. CASE p.authState = "login-pass"
    <3>1. Becomes(s, q) /\ pushCred(s, p.user, Line(s))
      BY <2>1, <2>4 DEF smtpAuthContinue
    <3> HIDE DEF q
    <3>2. AllSent(credentials', new, N + 1)
      BY <1>1, <1>2, <1>3, <1>5, <1>6, <1>10, <2>4, <3>1
    <3> QED
      BY <1>4, <1>9, <2>3, <3>1, <3>2
  <2>5. CASE p.authState = "plain"
    <3>1. Becomes(s, q) /\ pushCred(s, Arg(s, 1), Arg(s, 2))
      BY <2>1, <2>5 DEF smtpAuthContinue
    <3> HIDE DEF q
    <3>2. AllSent(credentials', new, N + 1)
      BY <1>1, <1>5, <1>6, <1>10, <3>1
    <3> QED
      BY <1>4, <1>9, <2>3, <3>1, <3>2
  <2> QED
    BY <1>3, <1>10, <2>2, <2>4, <2>5
<1>11. CASE s.dir = 0 /\ ~p.inData /\ p.authState = "none" /\ s.verb \in {"AUTH PLAIN", "AUTH LOGIN"}
  <2>1. smtpAuthStart(s)
    <3>1. s.dir # 1
      <4>1. s.dir = 0
        BY ONLY <1>11
      <4> QED
        BY ONLY <4>1
    <3>2. ~per[s.stream].inData /\ ~(per[s.stream].authState # "none")
      BY <1>11, Zenon
    <3> QED
      BY <1>11, <3>1, <3>2 DEF SmtpParse
  <2>2. CASE s.verb = "AUTH PLAIN" /\ s.args # <<>>
    <3>1. per' = per /\ pushCred(s, Arg(s, 1), Arg(s, 2))
      BY <2>1, <2>2 DEF smtpAuthStart
    <3>2. AllSent(credentials', new, N + 1)
      BY <1>1, <1>5, <1>6, <1>11, <3>1
    <3> QED
      BY <1>1, <1>4, <1>11, <3>1, <3>2
  <2>3. CASE s.verb = "AUTH PLAIN" /\ s.args = <<>>
    <3> DEFINE q == [p EXCEPT !.authState = "plain"]
    <3>1. Becomes(s, q) /\ credentials' = credentials
      BY <2>1, <2>3 DEF smtpAuthStart
    <3>2. q \in StreamRec /\ q.authState = "plain" /\ q.inData = p.inData
      <4> HIDE DEF p
      <4> QED
        BY <1>1 DEF StreamRec
    <3> HIDE DEF q
    <3> QED
      BY <1>1, <1>4, <1>9, <1>11, <3>1, <3>2
  <2>4. CASE s.verb = "AUTH LOGIN" /\ s.args # <<>>
    <3> DEFINE q == [p EXCEPT !.user = Arg(s, 1), !.authState = "login-pass"]
    <3>1. Becomes(s, q) /\ credentials' = credentials
      BY <2>1, <2>4 DEF smtpAuthStart
    <3>2. q \in StreamRec /\ q.user = Arg(s, 1) /\ q.inData = p.inData
      <4> HIDE DEF p
      <4> QED
        BY <1>1 DEF StreamRec
    <3> HIDE DEF q
    <3> QED
      BY <1>1, <1>4, <1>6, <1>9, <1>11, <3>1, <3>2
  <2>5. CASE s.verb = "AUTH LOGIN" /\ s.args = <<>>
    <3> DEFINE q == [p EXCEPT !.authState = "login-user"]
    <3>1. Becomes(s, q) /\ credentials' = credentials
      BY <2>1, <2>5 DEF smtpAuthStart
    <3>2. q \in StreamRec /\ q.authState = "login-user" /\ q.inData = p.inData
      <4> HIDE DEF p
      <4> QED
        BY <1>1 DEF StreamRec
    <3> HIDE DEF q
    <3> QED
      BY <1>1, <1>4, <1>9, <1>11, <3>1, <3>2
  <2> QED
    BY <1>11, <2>2, <2>3, <2>4, <2>5
<1>12. CASE s.dir = 0 /\ ~p.inData /\ p.authState = "none" /\ s.verb \notin {"AUTH PLAIN", "AUTH LOGIN"}
  <2>1. smtpCommand(s) /\ credentials' = credentials
    <3>1. s.dir # 1
      <4>1. s.dir = 0
        BY ONLY <1>12
      <4> QED
        BY ONLY <4>1
    <3>2. ~per[s.stream].inData /\ ~(per[s.stream].authState # "none")
      BY <1>12, Zenon
    <3> QED
      BY <1>12, <3>1, <3>2 DEF SmtpParse
  <2>2. ASSUME NEW q, q \in StreamRec /\ q.authState = "none" /\ Becomes(s, q) PROVE Ends(s, new, N)
    BY <1>1, <1>4, <1>9, <2>1, <2>2
  <2>3. CASE s.verb = "MAIL" /\ s.args # <<>>
    <3> DEFINE q == [p EXCEPT !.from = Arg(s, 1)]
    <3>1. Becomes(s, q)
      BY <2>1, <2>3 DEF smtpCommand
    <3>2. q \in StreamRec /\ q.authState = p.authState
      <4> HIDE DEF p
      <4> QED
        BY <1>1 DEF StreamRec
    <3> HIDE DEF q
    <3> QED
      BY <1>12, <2>2, <3>1, <3>2
  <2>4. CASE s.verb = "RCPT" /\ s.args # <<>>
    <3> DEFINE to == Append(p.to, Arg(s, 1))
               q == [p EXCEPT !.to = to]
    <3>1. Becomes(s, q)
      BY <2>1, <2>4 DEF smtpCommand
    <3>2. to \in Seq(Seq(STRING))
      BY <1>1, <1>3, Enqueued
    <3>3. q \in StreamRec /\ q.authState = p.authState
      <4> HIDE DEF p, to
      <4> QED
        BY <1>1, <3>2 DEF StreamRec
    <3> HIDE DEF q
    <3> QED
      BY <1>12, <2>2, <3>1, <3>3
  <2>5. CASE s.verb = "DATA"
    <3> DEFINE q == [p EXCEPT !.inData = TRUE]
    <3>1. Becomes(s, q)
      BY <2>1, <2>5 DEF smtpCommand
    <3>2. q \in StreamRec /\ q.authState = p.authState
      <4> HIDE DEF p
      <4> QED
        BY <1>1 DEF StreamRec
    <3> HIDE DEF q
    <3> QED
      BY <1>12, <2>2, <3>1, <3>2
  <2>6. CASE s.verb \notin {"MAIL", "RCPT", "DATA"} \/ (s.verb # "DATA" /\ s.args = <<>>)
    <3>1. per' = per
      BY <2>1, <2>6 DEF smtpCommand
    <3> QED
      BY <1>1, <1>4, <1>12, <2>1, <3>1
  <2> QED
    BY <2>3, <2>4, <2>5, <2>6
<1> QED
  BY <1>1, <1>7, <1>8, <1>10, <1>11, <1>12

\* What was typed up to the segment, and by it.
LEMMA SegmentTypes ==
    ASSUME NEW s, NEW new, NEW N, Begins(s, new, N)
    PROVE  /\ TypedIn(new, N, s.stream) \in Seq(STRING)
           /\ TypedIn(new, N + 1, s.stream) = TypedIn(new, N, s.stream) \o TextOf(s, s.stream)
<1>1. /\ s \in Segment /\ N \in Nat /\ new[N + 1] = s
      /\ \A i \in 1 .. N : new[i] \in Segment
  BY DEF Begins
<1>2. HasText(new, N + 1, s.stream)
  <2>1. \A i \in 1 .. N + 1 : i \in 1 .. N \/ i = N + 1
    BY <1>1
  <2>2. \A i \in 1 .. N + 1 : new[i] \in Segment
    BY <1>1, <2>1
  <2>3. \A i \in 1 .. N + 1 : Arg(new[i], 1) \in Seq(STRING)
    BY <2>2, ArgIsText
  <2> QED
    BY <2>3, Nothing DEF HasText, TextOf
<1>3. ASSUME NEW x, HasText(new, N + 1, x)
      PROVE  TypedIn(new, N + 1, x) = TypedIn(new, N, x) \o TextOf(new[N + 1], x) /\ TypedIn(new, N, x) \in Seq(STRING)
  BY ONLY <1>1, <1>3, TextNext
<1> QED
  BY <1>1, <1>2, <1>3

LEMMA TelnetSays ==
    ASSUME NEW s, NEW new, NEW N, Begins(s, new, N), TelnetDissect(s)
    PROVE  Ends(s, new, N)
<1> DEFINE p == per[s.stream]
           x == s.stream
           A == TypedIn(new, N, x)
           T == TypedIn(new, N + 1, x)
<1>1. /\ s \in Segment /\ N \in Nat /\ (N + 1) - 1 = N /\ s.dir \in {0, 1} /\ p \in StreamRec
      /\ AllSent(credentials, new, N + 1)
  BY SegmentSays
<1>2. s.proto = "telnet" /\ HasBegun(p, A, Len(A)) /\ HasUser(p, A, Len(A))
  BY DEF TelnetDissect, Begins, Remembers
<1>3. A \in Seq(STRING) /\ T = A \o TextOf(s, x)
  BY SegmentTypes
<1>4. captured \in Seq(Segment) /\ N = Len(captured) /\ x \in SessionStreams
  BY DEF Begins, Segment
<1>5. CASE s.dir = 1
  <2>1. TextOf(s, x) = <<>>
    BY <1>5 DEF TextOf
  <2>2. T = A
    <3> HIDE DEF A, T
    <3> QED
      BY <1>3, <2>1
  <2> DEFINE q == per'[s.stream]
  <2>3. q \in StreamRec /\ q.cbuf = p.cbuf /\ q.user = p.user /\ credentials' = credentials
    <3>1. CASE s.verb \in {"login", "password"}
      <4> DEFINE r == [p EXCEPT !.prompt = s.verb]
      <4>1. Becomes(s, r) /\ credentials' = credentials
        BY <1>5, <3>1 DEF TelnetDissect, Becomes
      <4>2. r \in StreamRec /\ r.cbuf = p.cbuf /\ r.user = p.user
        <5> HIDE DEF p
        <5> QED
          BY <1>1, <3>1 DEF StreamRec
      <4> HIDE DEF r
      <4> QED
        BY <4>1, <4>2, OwnState
    <3>2. CASE s.verb \notin {"login", "password"}
      <4>1. per' = per /\ credentials' = credentials
        BY <1>5, <3>2 DEF TelnetDissect
      <4> QED
        BY <1>1, <4>1
    <3> QED
      BY <3>1, <3>2
  <2> HIDE DEF q, p, A, T
  <2>4. HasBegun(q, T, Len(T)) /\ HasUser(q, T, Len(T))
    BY <1>2, <2>2, <2>3 DEF HasBegun, HasUser
  <2>5. Remembers(q, s.proto, new, N + 1, s.stream)
    BY <1>2, <2>4 DEF Remembers, T
  <2> QED
    BY <1>1, <2>3, <2>5 DEF Ends, q
<1>6. CASE s.dir = 0
  <2> DEFINE after == Typed(s)
             out == after.out
  <2>1. Becomes(s, after.st) /\ credentials' = credentials \o out
    BY <1>6 DEF TelnetDissect
  <2>2. T = A \o Arg(s, 1)
    BY <1>3, <1>6 DEF TextOf
  <2>3. /\ after \in Typing /\ HasBegun(after.st, T, Len(T)) /\ HasUser(after.st, T, Len(T))
        /\ AllTyped(s, out, T, Len(A))
    <3> HIDE DEF A, T
    <3> QED
      BY ONLY <1>1, <1>2, <1>3, <1>4, <2>2, KeysTyped DEF p
  <2> HIDE DEF after, out, p
  <2>4. out \in Seq(CredentialRec) /\ after.st \in StreamRec
    BY <2>3 DEF Typing, out
  <2>5. ASSUME NEW i \in DOMAIN out PROVE WasSent(out[i], new, N + 1)
    <3> DEFINE c == out[i]
    <3>1. c.packet = N + 1 /\ c.stream = x /\ c.proto = s.proto /\ IsTyped(c.user, c.secret, T, Len(A))
      BY <1>4, <2>3 DEF AllTyped
    <3> HIDE DEF c
    <3>2. SentAs(c, s, new)
      BY <1>1, <1>2, <1>6, <3>1 DEF SentAs
    <3>3. new[N + 1] = s /\ N + 1 \in 1 .. N + 1
      BY <1>1 DEF Begins
    <3>4. WasSent(c, new, N + 1)
      BY <3>1, <3>2, <3>3 DEF WasSent
    <3> QED
      BY <3>4 DEF c
  <2>6. AllSent(out, new, N + 1)
    BY <2>4, <2>5 DEF AllSent
  <2>7. AllSent(credentials', new, N + 1)
    BY ONLY <1>1, <2>1, <2>6, MoreSent
  <2>8. Remembers(after.st, s.proto, new, N + 1, s.stream)
    BY <1>2, <2>3 DEF Remembers
  <2>9. per'[s.stream] = after.st
    BY <2>1, OwnState
  <2> QED
    BY <2>4, <2>7, <2>8, <2>9 DEF Ends
<1> QED
  BY <1>1, <1>5, <1>6

LEMMA HttpSays ==
    ASSUME NEW s, NEW new, NEW N, Begins(s, new, N), \A i \in DOMAIN s.args : Whole(s.args[i]), HttpDissect(s)
    PROVE  Ends(s, new, N)
<1> DEFINE R == PairRead(s)
<1>1. /\ s \in Segment /\ N \in Nat /\ per[s.stream] \in StreamRec /\ AllSent(credentials, new, N + 1)
      /\ captured \in Seq(Segment) /\ N = Len(captured) /\ new[N + 1] = s /\ N + 1 \in 1 .. N + 1
  <2>1. s \in Segment /\ N \in Nat /\ per[s.stream] \in StreamRec /\ AllSent(credentials, new, N + 1)
    BY SegmentSays
  <2> QED
    BY <2>1 DEF Begins
<1>2. s.proto = "http" /\ per' = per /\ \A q : Remembers(q, s.proto, new, N + 1, s.stream)
  BY DEF HttpDissect, Remembers
<1>3. PICK pairs \in Seq(R) : credentials' = credentials \o [i \in DOMAIN pairs |-> Credential(s, pairs[i][1], pairs[i][2])]
  <2> DEFINE a == AuthPairs(s)
             f == FormPairs(s)
             k == CookiePairs(s)
  <2>1. a \in Seq(R) /\ f \in Seq(R) /\ k \in Seq(R)
    BY <1>1, AuthIsRead, FormIsRead, CookiesAreRead
  <2> HIDE DEF R
  <2>2. a \o f \o k \in Seq(R) /\ <<>> \in Seq(R)
    <3> HIDE DEF a, f, k
    <3>1. a \o f \in Seq(R)
      BY <2>1, Joined
    <3>2. (a \o f) \o k \in Seq(R)
      BY <2>1, <3>1, Joined
    <3> QED
      BY <3>2, Nothing
  <2> QED
    BY <2>2 DEF HttpDissect
<1> DEFINE out == [i \in DOMAIN pairs |-> Credential(s, pairs[i][1], pairs[i][2])]
<1>4. Len(pairs) \in Nat /\ DOMAIN pairs = 1 .. Len(pairs) /\ \A i \in DOMAIN pairs : pairs[i] \in R
  OBVIOUS
<1>5. ASSUME NEW i \in DOMAIN pairs
      PROVE  out[i] \in CredentialRec /\ WasSent(out[i], new, N + 1)
  <2> DEFINE user == pairs[i][1]
             secret == pairs[i][2]
             c == Credential(s, user, secret)
  <2>1. user \in Seq(STRING) /\ secret \in Seq(STRING) /\ Holds(s, secret[1]) /\ \A k \in DOMAIN user : Holds(s, user[k])
    BY <1>4 DEF PairRead
  <2> HIDE DEF user, secret
  <2>2. /\ c \in CredentialRec /\ c.packet = N + 1 /\ c.stream = s.stream /\ c.proto = s.proto
        /\ c.user = user /\ c.secret = secret
    BY <1>1, <2>1, CredentialType
  <2>3. out[i] = c
    BY DEF user, secret
  <2> HIDE DEF c, out
  <2>4. SentAs(c, s, new)
    BY <1>2, <2>1, <2>2 DEF SentAs
  <2>5. WasSent(c, new, N + 1)
    BY <1>1, <2>2, <2>4 DEF WasSent
  <2> QED
    BY <2>2, <2>3, <2>5
<1>6. DOMAIN out = DOMAIN pairs
  OBVIOUS
<1>7. credentials' = credentials \o out
  BY <1>3
<1>8. out \in [1 .. Len(pairs) -> CredentialRec]
  BY <1>4, <1>5
<1> HIDE DEF out
<1>9. AllSent(out, new, N + 1)
  <2>1. out \in Seq(CredentialRec)
    BY <1>4, <1>8
  <2> QED
    BY <1>5, <1>6, <2>1 DEF AllSent
<1>10. AllSent(credentials', new, N + 1)
  BY ONLY <1>1, <1>7, <1>9, MoreSent
<1> QED
  BY <1>1, <1>2, <1>10 DEF Ends

\* Every segment ends as it should.
LEMMA SegmentEnds ==
    ASSUME NEW s, NEW new, NEW N, Begins(s, new, N),
           s.proto = "http" => \A i \in DOMAIN s.args : Whole(s.args[i]),
           \/ SmtpParse(s) \/ PopDissect(s) \/ ImapDissect(s) \/ IrcDissect(s) \/ TelnetDissect(s)
           \/ FtpDissect(s) \/ FtpData(s) \/ HttpDissect(s)
    PROVE  Ends(s, new, N)
<1>1. CASE SmtpParse(s)
  BY <1>1, SmtpSays
<1>2. CASE PopDissect(s)
  BY <1>2, PopSays
<1>3. CASE ImapDissect(s)
  BY <1>3, ImapSays
<1>4. CASE IrcDissect(s)
  BY <1>4, IrcSays
<1>5. CASE TelnetDissect(s)
  BY <1>5, TelnetSays
<1>6. CASE FtpDissect(s)
  BY <1>6, FtpSays
<1>7. CASE FtpData(s)
  <2>1. s.proto = "ftpdata" /\ per' = per /\ credentials' = credentials
    BY <1>7 DEF FtpData
  <2>2. per[s.stream] \in StreamRec /\ AllSent(credentials, new, N + 1)
    BY SegmentSays
  <2>3. \A q : Remembers(q, s.proto, new, N + 1, s.stream)
    BY <2>1 DEF Remembers
  <2> QED
    BY <2>1, <2>2, <2>3 DEF Ends
<1>8. CASE HttpDissect(s)
  <2>1. s.proto = "http"
    BY <1>8 DEF HttpDissect
  <2> QED
    BY <1>8, <2>1, HttpSays
<1> QED
  BY <1>1, <1>2, <1>3, <1>4, <1>5, <1>6, <1>7, <1>8

-----------------------------------------------------------------------------
(* The invariant *)

LEMMA RememberedStays ==
    ASSUME NEW N \in Nat, NEW cap, NEW new, \A i \in 1 .. N : cap[i] \in Segment /\ new[i] = cap[i],
           NEW x, NEW p, NEW proto
    PROVE  Remembers(p, proto, new, N, x) <=> Remembers(p, proto, cap, N, x)
<1>1. /\ N \in Nat /\ N \in 0 .. N /\ (\A i \in 1 .. N : new[i] = cap[i])
      /\ \A i \in 1 .. N : cap[i] \in Segment /\ new[i] = cap[i]
  OBVIOUS
<1>2. UserNamed(new, N, x) = UserNamed(cap, N, x) /\ \A v : JustSaid(v, new, N, x) <=> JustSaid(v, cap, N, x)
  BY ONLY <1>1, SaidStays
<1>3. \A n \in 0 .. N : TypedIn(new, n, x) = TypedIn(cap, n, x)
  BY ONLY <1>1, TypedStays
<1>4. TypedIn(new, N, x) = TypedIn(cap, N, x)
  BY <1>1, <1>3
<1> QED
  BY <1>2, <1>4 DEF Remembers

SentTypes ==
    /\ captured \in Seq(Segments[traffic])
    /\ DOMAIN per = SessionStreams /\ \A x \in SessionStreams : per[x] \in StreamRec
StreamsRemember ==
    \A x \in SessionStreams : \A proto :
        x \in OnlyOf(traffic, proto) => Remembers(per[x], proto, captured, Len(captured), x)
SentInv == traffic \in SessionTraffic =>
               SentTypes /\ StreamsRemember /\ AllSent(credentials, captured, Len(captured))

LEMMA SentStep ==
    ASSUME NEW kind \in SessionTraffic, traffic = kind, traffic' = kind, SentTypes, StreamsRemember,
           AllSent(credentials, captured, Len(captured)), NEW s \in Segments[kind],
           \/ SmtpParse(s) \/ PopDissect(s) \/ ImapDissect(s) \/ IrcDissect(s) \/ TelnetDissect(s)
           \/ FtpDissect(s) \/ FtpData(s) \/ HttpDissect(s),
           captured' = Append(captured, s)
    PROVE  SentTypes' /\ StreamsRemember' /\ AllSent(credentials', captured', Len(captured'))
<1> DEFINE N == Len(captured)
<1>1. captured \in Seq(Segments[kind]) /\ Segments[kind] \subseteq Segment
  BY SessionsAssumption DEF SentTypes
<1>2. /\ N \in Nat /\ DOMAIN captured = 1 .. N /\ Len(captured') = N + 1
      /\ captured' \in Seq(Segments[kind])
      /\ \A i \in 1 .. N : captured'[i] = captured[i]
      /\ captured'[N + 1] = s
  BY <1>1, MessageTaken
<1>3. s \in Segment /\ s.stream \in SessionStreams /\ s.stream \in OnlyOf(kind, s.proto)
      /\ \A proto : s.stream \in OnlyOf(kind, proto) => s.proto = proto
  BY OneProtocol DEF Segment
<1>4. captured \in Seq(Segment) /\ \A i \in 1 .. N : captured[i] \in Segment
  BY <1>1, <1>2
<1>5. DOMAIN per = SessionStreams /\ \A x \in SessionStreams : per[x] \in StreamRec
  BY DEF SentTypes
<1>6. \A x \in SessionStreams : \A proto : x \in OnlyOf(kind, proto) => Remembers(per[x], proto, captured, N, x)
  BY DEF StreamsRemember
<1>7. DOMAIN per' = SessionStreams /\ \A x \in SessionStreams \ {s.stream} : per'[x] = per[x]
  BY <1>3, <1>5, OwnStreamOnly
<1> HIDE DEF N
<1>8. \A i \in 1 .. N : captured[i] \in Segment /\ captured'[i] = captured[i]
  BY <1>2, <1>4
<1>9. Begins(s, captured', N)
  <2>1. Remembers(per[s.stream], s.proto, captured, N, s.stream)
    BY <1>3, <1>6
  <2>2. \A p : Remembers(p, s.proto, captured', N, s.stream) <=> Remembers(p, s.proto, captured, N, s.stream)
    BY ONLY <1>2, <1>8, RememberedStays
  <2>3. AllSent(credentials, captured', N + 1)
    <3>1. AllSent(credentials, captured, N)
      BY DEF N
    <3> QED
      BY ONLY <1>2, <1>8, <3>1, SentStays
  <2>4. N = Len(captured)
    BY DEF N
  <2> QED
    BY <1>2, <1>3, <1>4, <1>5, <1>8, <2>1, <2>2, <2>3, <2>4 DEF Begins
<1>10. s.proto = "http" => \A i \in DOMAIN s.args : Whole(s.args[i])
  BY SessionsAssumption
<1>11. Ends(s, captured', N)
  <2>1. ASSUME NEW new, Begins(s, new, N) PROVE Ends(s, new, N)
    BY <1>10, <2>1, SegmentEnds
  <2> QED
    BY <1>9, <2>1
<1>12. SentTypes'
  <2>1. \A x \in SessionStreams : per'[x] \in StreamRec
    BY <1>5, <1>7, <1>11 DEF Ends
  <2> QED
    BY <1>2, <1>7, <2>1 DEF SentTypes
<1>13. ASSUME NEW x \in SessionStreams, NEW proto, x \in OnlyOf(kind, proto)
       PROVE  Remembers(per'[x], proto, captured', N + 1, x)
  <2>1. CASE x = s.stream
    BY <1>3, <1>11, <1>13, <2>1 DEF Ends
  <2>2. CASE x # s.stream
    <3>1. per'[x] = per[x] /\ Remembers(per[x], proto, captured, N, x) /\ ~Says(s, x)
      BY <1>6, <1>7, <1>13, <2>2 DEF Says
    <3>2. \A p : Remembers(p, proto, captured', N + 1, x) <=> Remembers(p, proto, captured, N, x)
      BY ONLY <1>2, <1>3, <1>8, <3>1, RestRemembered
    <3> QED
      BY <3>1, <3>2
  <2> QED
    BY <2>1, <2>2
<1>14. StreamsRemember'
  BY <1>2, <1>13 DEF StreamsRemember
<1>15. AllSent(credentials', captured', N + 1)
  BY <1>11 DEF Ends
<1> QED
  BY <1>2, <1>12, <1>14, <1>15

LEMMA SentInvInductive ==
    /\ Init => SentInv
    /\ SentInv /\ [Next]_vars => SentInv'
<1>1. Init => SentInv
  <2> SUFFICES ASSUME Init PROVE SentTypes /\ StreamsRemember /\ AllSent(credentials, captured, Len(captured))
    BY DEF SentInv
  <2>1. captured = <<>> /\ credentials = <<>> /\ per = [x \in SessionStreams |-> NewStream]
    BY DEF Init, CaptureInit, SessionsInit
  <2>2. NewStream \in StreamRec
    <3>1. <<>> \in Seq(STRING) /\ <<>> \in Seq(Seq(STRING))
      BY Nothing
    <3> QED
      BY <3>1 DEF NewStream, StreamRec
  <2>3. SentTypes
    BY <2>1, <2>2, Nothing DEF SentTypes
  <2>4. Len(captured) = 0 /\ DOMAIN credentials = {} /\ credentials \in Seq(CredentialRec) /\ 1 .. 0 = {}
    BY <2>1, Nothing
  <2>5. AllSent(credentials, captured, Len(captured))
    BY <2>4 DEF AllSent
  <2>6. ASSUME NEW x PROVE UserNamed(captured, 0, x) = <<>> /\ TypedIn(captured, 0, x) = <<>>
    <3>1. Namings(captured, 0, x) = {}
      BY <2>4 DEF Namings, FromClient
    <3> QED
      BY <3>1, TextOfNone DEF UserNamed
  <2>7. ASSUME NEW x, NEW proto PROVE Remembers(NewStream, proto, captured, 0, x)
    <3> DEFINE T == TypedIn(captured, 0, x)
    <3>1. T = <<>> /\ T \in Seq(STRING) /\ Len(T) = 0
      <4>1. T = <<>>
        BY <2>6
      <4> HIDE DEF T
      <4>2. T \in Seq(STRING)
        BY ONLY <4>1, Nothing
      <4> QED
        BY ONLY <4>1, <4>2
    <3>2. /\ NewStream.user = <<>> /\ NewStream.authState = "none" /\ NewStream.inData = FALSE
          /\ NewStream.cbuf = <<>>
      BY DEF NewStream
    <3> HIDE DEF T
    <3>3. 0 \in 0 .. 0 /\ 0 + 1 .. 0 = {} /\ SubSeq(T, 0 + 1, 0) = <<>>
      BY <3>1
    <3>4. HasBegun(NewStream, T, Len(T)) /\ HasUser(NewStream, T, Len(T))
      BY <3>1, <3>2, <3>3 DEF HasBegun, HasUser
    <3> QED
      BY <2>6, <3>2, <3>4 DEF Remembers, T
  <2>8. StreamsRemember
    BY <2>1, <2>4, <2>7 DEF StreamsRemember
  <2> QED
    BY <2>3, <2>5, <2>8
<1>2. ASSUME SentInv, [Next]_vars, traffic' \in SessionTraffic
      PROVE  (SentTypes /\ StreamsRemember /\ AllSent(credentials, captured, Len(captured)))'
  <2>1. (SessionsNext /\ traffic \in SessionTraffic /\ traffic' = traffic) \/ UNCHANGED <<traffic, captured, sessionVars>>
    BY <1>2, ByTraffic DEF SessionTraffic
  <2>2. CASE SessionsNext /\ traffic \in SessionTraffic /\ traffic' = traffic
    <3>1. SentTypes /\ StreamsRemember /\ AllSent(credentials, captured, Len(captured))
      BY <1>2, <2>2 DEF SentInv
    <3>2. PICK s \in Segments[traffic] :
             /\ \/ SmtpParse(s) \/ PopDissect(s) \/ ImapDissect(s) \/ IrcDissect(s) \/ TelnetDissect(s)
                \/ FtpDissect(s) \/ FtpData(s) \/ HttpDissect(s)
             /\ captured' = Append(captured, s)
      BY <2>2, SegmentTaken
    <3>3. SentTypes' /\ StreamsRemember' /\ AllSent(credentials', captured', Len(captured'))
      BY <2>2, <3>1, <3>2, SentStep
    <3> QED
      BY <3>3
  <2>3. CASE UNCHANGED <<traffic, captured, sessionVars>>
    <3>1. SentTypes /\ StreamsRemember /\ AllSent(credentials, captured, Len(captured))
      BY <1>2, <2>3 DEF SentInv
    <3>2. UNCHANGED <<traffic, captured, per, credentials>>
      BY <2>3 DEF sessionVars
    <3> QED
      BY <3>1, <3>2 DEF SentTypes, StreamsRemember
  <2> QED
    BY <2>1, <2>2, <2>3
<1> QED
  BY <1>1, <1>2 DEF SentInv

LEMMA SentInvSuffices == SentInv => CredentialsAreSent
<1> SUFFICES ASSUME SentInv, traffic \in SessionTraffic, NEW n \in DOMAIN credentials
             PROVE  LET c == credentials[n]
                        s == captured[c.packet]
                        mine == Before(c.packet, c.stream)
                    IN /\ s.stream = c.stream /\ s.proto = c.proto /\ (s.dir = 1 => c.proto \in {"irc", "http"})
                       /\ c.proto = "http" => Holds(s, c.secret[1]) /\ \A k \in DOMAIN c.user : Holds(s, c.user[k])
                       /\ c.proto \notin {"telnet", "http"} => c.secret \in Words(c.packet)
                       /\ c.proto \in {"pop", "ftp"} => c.user = LastArg({i \in mine : captured[i].verb = "USER"})
                       /\ c.proto = "imap" => c.user \in Words(c.packet)
                       /\ c.proto = "smtp" => c.user \in Words(c.packet) \/ (mine # {} /\ c.user \in Words(LastIn(mine)))
                       /\ c.proto = "telnet" =>
                             LET chars == TypedBy(c.packet, c.stream)
                                 Text(l) == SubSeq(chars, l[1], l[2])
                             IN \E l \in LinesOf(chars) :
                                   /\ Text(l) = c.secret
                                   /\ l[2] >= Len(TypedBy(c.packet - 1, c.stream))
                                   /\ c.user = <<>> \/ \E u \in LinesOf(chars) : u[2] < l[1] /\ Text(u) = c.user
  BY DEF CredentialsAreSent
<1> DEFINE c == credentials[n]
           s == captured[c.packet]
           mine == Before(c.packet, c.stream)
<1>1. SentAs(c, s, captured)
  BY DEF SentInv, AllSent, WasSent
<1> HIDE DEF c
<1>2. \A i : Words(i) = WordsOf(captured[i])
  BY DEF Words, WordsOf
<1>3. \A k, x : TypedBy(k, x) = TypedIn(captured, k, x)
  BY DEF TypedBy, TypedIn
<1>4. mine = FromClient(captured, c.packet - 1, c.stream)
  BY DEF Before, FromClient
<1>5. LastArg({i \in mine : captured[i].verb = "USER"}) = UserNamed(captured, c.packet - 1, c.stream)
  BY <1>4 DEF LastArg, UserNamed, Namings
<1>6. ASSUME c.proto = "smtp"
      PROVE  c.user \in Words(c.packet) \/ (mine # {} /\ c.user \in Words(LastIn(mine)))
  BY <1>1, <1>2, <1>4, <1>6 DEF SentAs, JustSaid
<1>7. ASSUME c.proto = "telnet"
      PROVE  LET chars == TypedBy(c.packet, c.stream)
                 Text(l) == SubSeq(chars, l[1], l[2])
             IN \E l \in LinesOf(chars) :
                   /\ Text(l) = c.secret
                   /\ l[2] >= Len(TypedBy(c.packet - 1, c.stream))
                   /\ c.user = <<>> \/ \E u \in LinesOf(chars) : u[2] < l[1] /\ Text(u) = c.user
  BY <1>1, <1>3, <1>7 DEF SentAs, IsTyped
<1> HIDE DEF mine
<1>8. /\ s.stream = c.stream /\ s.proto = c.proto /\ (s.dir = 1 => c.proto \in {"irc", "http"})
      /\ c.proto = "http" => Holds(s, c.secret[1]) /\ \A k \in DOMAIN c.user : Holds(s, c.user[k])
      /\ c.proto \notin {"telnet", "http"} => c.secret \in Words(c.packet)
      /\ c.proto \in {"pop", "ftp"} => c.user = LastArg({i \in mine : captured[i].verb = "USER"})
      /\ c.proto = "imap" => c.user \in Words(c.packet)
  BY <1>1, <1>2, <1>5 DEF SentAs
<1> QED
  BY <1>6, <1>7, <1>8 DEF c, mine

\* A credential that is shown was sent, whole, on one stream: its secret in the packet that
\* is named, its user in that packet or before it, by the same client - the name given last
\* in POP and FTP, the segment before in an SMTP dialogue, an earlier line of a Telnet
\* terminal - for any segments of any number of streams, in any order (mail.js:103-128,
\* 181-182, 227-230; ftp.js:71-77; telnet.js:100-129, 176-181; http.js:122-180).
THEOREM CredentialsWereSent == Spec => []CredentialsAreSent
<1> QED
  BY SentInvInductive, SentInvSuffices, PTL DEF Spec
=============================================================================
