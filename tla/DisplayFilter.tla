---------------------------- MODULE DisplayFilter ----------------------------
(***************************************************************************)
(* The display filter, src/analysis/filter.js: tokenizer, recursive-descent *)
(* parser and evaluator, while a user types into the filter box.            *)
(*                                                                          *)
(* A text is a sequence of units: a blank, a symbol, a quote or a whole     *)
(* word; a position counts units.  A predicate is the set of packets it     *)
(* holds for.  What a word is as a value (a number, an address, ...) is the *)
(* constant Literal; what fields there are, the constant Catalog.           *)
(***************************************************************************)
EXTENDS Naturals, FiniteSets, SequencesExt

CONSTANTS Packets,    \* the packets of the capture
          Layers,     \* packet -> layer -> attribute -> set of values
          Catalog,    \* name -> field or protocol of the filter language
          Literal,    \* word -> what makeLiteral makes of it
          Keyboards,  \* what is typed: tokens, bound on their number, with or without blanks
          Strays,     \* units that are not the spelling of a token
          Canon,      \* word -> the address it spells
          Inside,     \* pairs of texts of which the second contains the first
          NaN         \* what is not a number

Blank == "_"
Quotes == {"'", "\""}
Symbols == {"(", ")", "{", "}", "&", "|", "=", "!", "<", ">"}
Brackets == {"(", ")", "{", "}"}
Bad == {"#", ","}      \* characters of no token
IsWordUnit(u) == u \notin {Blank, "\\"} \cup Quotes \cup Symbols \cup Bad

Value(type, str, num) == [type |-> type, str |-> str, num |-> num]

VARIABLES text,      \* what is in the box
          verdict,   \* compileFilter of it
          intended,  \* history: the tokens typed, with where each begins
          keyboard   \* the one in use; if `tight`, with blanks only where they are needed

vars == <<text, verdict, intended, keyboard>>

-----------------------------------------------------------------------------
(* tokenize *)

Tok(type, value, pos) == [type |-> type, value |-> value, pos |-> pos]
Lexed(ts, i) == [ok |-> TRUE, toks |-> ts, next |-> i]
Fault(pos) == [ok |-> FALSE, pos |-> pos]

At(s, i) == IF i <= Len(s) THEN s[i] ELSE "end"

\* Where the run of word characters that begins at i ends.
WordEnd(s, i) == CHOOSE j \in i .. Len(s) + 1 :
                    /\ \A k \in i .. j - 1 : IsWordUnit(s[k])
                    /\ j > Len(s) \/ ~IsWordUnit(s[j])

\* Faulty variant: a backslash is a character like any other.
ClosesAtFirst(s, q, i) == IF \E j \in i .. Len(s) : s[j] = q
                          THEN CHOOSE j \in i .. Len(s) : s[j] = q /\ \A k \in i .. j - 1 : s[k] # q
                          ELSE 0

\* Where a string opened before i closes, or 0; a backslash takes the next unit along.
Closes(s, q, i) ==
    LET c[j \in i .. Len(s) + 1] == CASE j > Len(s) -> 0
                                      [] j <= Len(s) /\ s[j] = q -> j
                                      [] j < Len(s) /\ s[j] = "\\" -> c[j + 2]
                                      [] OTHER -> c[j + 1]
    IN c[i]

\* A word run together from several is a word nobody knows.
WordOf(s, i, j) == IF j = i + 1 THEN s[i] ELSE "joined"

\* One token at i, or a fault.
LexOne(s, i) ==
    LET u == s[i]
        then(v) == At(s, i + 1) = v
        two(v) == IF then(v) THEN 2 ELSE 1
    IN CASE u \in Brackets -> Lexed(<<Tok(u, u, i)>>, i + 1)
         [] u \in Quotes ->
              LET e == Closes(s, u, i + 1)
              IN IF e = 0 THEN Fault(i) ELSE Lexed(<<Tok("string", WordOf(s, i + 1, e), i)>>, e + 1)
         [] u = "&" -> IF then("&") THEN Lexed(<<Tok("and", u, i)>>, i + 2) ELSE Fault(i)
         [] u = "|" -> IF then("|") THEN Lexed(<<Tok("or", u, i)>>, i + 2) ELSE Fault(i)
         [] u = "=" -> Lexed(<<Tok("op", "==", i)>>, i + two("="))
         [] u \in {"<", ">"} -> Lexed(<<Tok("op", IF then("=") THEN u \o "=" ELSE u, i)>>, i + two("="))
         [] u = "!" -> Lexed(<<IF then("=") THEN Tok("op", "!=", i) ELSE Tok("not", u, i)>>, i + two("="))
         [] IsWordUnit(u) -> Lexed(<<Tok("word", WordOf(s, i, WordEnd(s, i)), i)>>, WordEnd(s, i))
         [] OTHER -> Fault(i)

tokenize(s) ==
    LET lex[i \in 1 .. Len(s) + 1] ==
          IF i > Len(s) THEN Lexed(<<Tok("eof", "", i)>>, i)
          ELSE IF s[i] = Blank THEN lex[i + 1]
          ELSE LET t == LexOne(s, i)
                   rest == lex[t.next]
               IN IF t.ok /\ rest.ok THEN Lexed(t.toks \o rest.toks, rest.next) ELSE IF t.ok THEN rest ELSE t
    IN lex[1]

-----------------------------------------------------------------------------
(* Values: makeLiteral, eqOne, relOne, compareOne *)

Falsy == {"false", "0", "no", ""}
toBool(v) == IF v.type = "str" THEN v.str \notin Falsy ELSE v.num # 0

\* Two spellings of an address have one canonical form.
Canonical(w) == IF w \in DOMAIN Canon THEN Canon[w] ELSE w
addrEq(a, b) == Canonical(a) = Canonical(b)

\* A quoted word is text, though a comparison still takes a number out of it; a
\* word is what it looks like, and "bad" if that has a component out of range.
Plain(w) == [type |-> "str", value |-> Value("str", w, NaN), num |-> NaN, block |-> {}]
makeLiteral(tok) ==
    IF tok.value \notin DOMAIN Literal THEN Plain(tok.value)
    ELSE LET lit == Literal[tok.value]
         IN IF tok.type = "word" THEN lit
            ELSE [Plain(tok.value) EXCEPT !.num = IF lit.type = "number" THEN lit.num ELSE NaN]

IsBad(tok) == tok.type = "word" /\ tok.value \in DOMAIN Literal /\ Literal[tok.value].type = "bad"

eqOne(v, lit, entry) ==
    IF lit.type = "cidr" THEN entry.type = "addr" /\ Canonical(v.str) \in lit.block
    ELSE IF "bool" \in {entry.type, lit.type} THEN toBool(v) = toBool(lit.value)
    ELSE IF entry.type = "addr" THEN addrEq(v.str, lit.value.str)
    ELSE IF (entry.type = "num" \/ lit.type = "number") /\ v.num # NaN /\ lit.num # NaN THEN v.num = lit.num
    ELSE v.str = lit.value.str

relOne(op, v, lit) ==
    /\ v.num # NaN /\ lit.num # NaN
    /\ CASE op = "<" -> v.num < lit.num
         [] op = "<=" -> v.num <= lit.num
         [] op = ">" -> v.num > lit.num
         [] op = ">=" -> v.num >= lit.num
         [] OTHER -> FALSE

\* `in` has any number of literals, every other operator one.
compareOne(op, v, lits, entry) ==
    \E l \in lits : CASE op \in {"in", "=="} -> eqOne(v, l, entry)
                       [] op = "!=" -> ~eqOne(v, l, entry)
                       [] op = "contains" -> v.str = l.value.str \/ <<l.value.str, v.str>> \in Inside
                       [] OTHER -> relOne(op, v, l)

-----------------------------------------------------------------------------
(* The catalog: what a name is, and the values a packet has for it *)

\* Of two layers that serve a field the first present does.
LayerOf(e, p) == SelectSeq(e.layers, LAMBDA l : l \in DOMAIN Layers[p])

\* `flag` fields are false where the layer is missing; all others have no value.
Values(e, p) ==
    IF LayerOf(e, p) = <<>> THEN IF e.kind = "flag" THEN {Value("bool", "false", 0)} ELSE {}
    ELSE LET l == Layers[p][Head(LayerOf(e, p))]
         IN UNION {l[a] : a \in e.attrs \cap DOMAIN l}

existFn(e) ==
    {p \in Packets : IF e.type = "bool" THEN \E v \in Values(e, p) : toBool(v)
                     ELSE \E v \in Values(e, p) : e.kind = "multi" \/ v.str # ""}

Present(e) == {p \in Packets : LayerOf(e, p) # <<>>}

Exists(e) == IF e.kind = "proto" THEN Present(e) ELSE existFn(e)

\* Faulty variant: `!=` is the complement of `==`.
evalCmpNegated(e, op, lits) ==
    IF op = "!=" THEN {p \in Packets : \A v \in Values(e, p) : compareOne(op, v, lits, e)}
    ELSE {p \in Packets : \E v \in Values(e, p) : compareOne(op, v, lits, e)}

\* Any value that compares is enough.
evalCmp(e, op, lits) == {p \in Packets : \E v \in Values(e, p) : compareOne(op, v, lits, e)}

-----------------------------------------------------------------------------
(* Parser *)

Parsed(set, next) == [ok |-> TRUE, set |-> set, next |-> next]

CmpWords == [contains |-> "contains", eq |-> "==", ne |-> "!=", gt |-> ">", ge |-> ">=", lt |-> "<", le |-> "<="]
IsOr(t) == t.type = "or" \/ (t.type = "word" /\ t.value \in {"or", "OR"})
IsAnd(t) == t.type = "and" \/ (t.type = "word" /\ t.value \in {"and", "AND"})
IsNot(t) == t.type = "not" \/ (t.type = "word" /\ t.value \in {"not", "NOT"})

\* `constructor` is found in CMP_WORDS too, by inheritance: an operator nothing satisfies.
peekOp(t) ==
    CASE t.type = "op" -> t.value
      [] t.type = "word" /\ t.value \in {"in", "constructor"} -> t.value
      [] t.type = "word" /\ t.value \in DOMAIN CmpWords -> CmpWords[t.value]
      [] OTHER -> "none"

IsValue(t) == t.type \in {"word", "string"}

Read(lits, next) == [ok |-> TRUE, lits |-> lits, next |-> next]

\* What follows is one function of the nonterminal and the position, `P`.
ParseSet(P, ts, i) ==
    CASE ts[i].type = "}" -> Read({}, i + 1)
      [] ts[i].type # "}" /\ (~IsValue(ts[i]) \/ IsBad(ts[i])) -> Fault(ts[i].pos)
      [] OTHER -> LET r == P["set", i + 1] IN IF r.ok THEN Read({makeLiteral(ts[i])} \cup r.lits, r.next) ELSE r

\* Faulty variant: the operator is reported, not what stands where its value should.
MarksTheOperator(P, ts, i) ==
    LET op == peekOp(ts[i - 1])
    IN CASE op = "in" /\ ts[i].type = "{" -> P["set", i + 1]
         [] op # "in" /\ IsValue(ts[i]) /\ ~IsBad(ts[i]) -> Read({makeLiteral(ts[i])}, i + 1)
         [] OTHER -> Fault(ts[i - 1].pos)

\* The operator is the token before.
ParseValue(P, ts, i) ==
    LET op == peekOp(ts[i - 1])
    IN CASE op = "in" /\ ts[i].type = "{" -> P["set", i + 1]
         [] op # "in" /\ IsValue(ts[i]) /\ ~IsBad(ts[i]) -> Read({makeLiteral(ts[i])}, i + 1)
         [] OTHER -> Fault(ts[i].pos)

\* A name, alone or compared.
ParsePrimary(P, ts, i) ==
    LET t == ts[i]
        op == peekOp(ts[i + 1])
        v == P["value", i + 2]
    IN IF t.value \notin DOMAIN Catalog \/ (op # "none" /\ Catalog[t.value].kind = "proto") THEN Fault(t.pos)
       ELSE IF op = "none" THEN Parsed(Exists(Catalog[t.value]), i + 1)
       ELSE IF v.ok THEN Parsed(evalCmp(Catalog[t.value], op, v.lits), v.next) ELSE v

ParseCmp(P, ts, i) ==
    CASE ts[i].type = "(" ->
           LET e == P["or", i + 1]
           IN IF ~e.ok THEN e
              ELSE IF ts[e.next].type = ")" THEN Parsed(e.set, e.next + 1) ELSE Fault(ts[e.next].pos)
      [] ts[i].type = "word" /\ ~IsAnd(ts[i]) /\ ~IsOr(ts[i]) -> ParsePrimary(P, ts, i)
      [] OTHER -> Fault(ts[i].pos)

ParseNot(P, ts, i) ==
    IF ~IsNot(ts[i]) THEN ParseCmp(P, ts, i)
    ELSE LET e == P["not", i + 1] IN IF e.ok THEN Parsed(Packets \ e.set, e.next) ELSE e

\* Faulty variant: a conjunction goes on with a whole disjunction.
ParseAndLoose(P, ts, i) ==
    LET l == P["not", i] IN
    IF l.ok /\ IsAnd(ts[l.next])
    THEN LET r == P["or", l.next + 1] IN IF r.ok THEN Parsed(l.set \cap r.set, r.next) ELSE r
    ELSE l

\* The loop over the operands is a recursion to the right: the same set, the same error.
ParseAnd(P, ts, i) ==
    LET l == P["not", i] IN
    IF l.ok /\ IsAnd(ts[l.next])
    THEN LET r == P["and", l.next + 1] IN IF r.ok THEN Parsed(l.set \cap r.set, r.next) ELSE r
    ELSE l

ParseOr(P, ts, i) ==
    LET l == P["and", i] IN
    IF l.ok /\ IsOr(ts[l.next])
    THEN LET r == P["or", l.next + 1] IN IF r.ok THEN Parsed(l.set \cup r.set, r.next) ELSE r
    ELSE l

ParseAll(P, ts) ==
    IF ts[1].type = "eof" THEN Parsed(Packets, 1)
    ELSE LET e == P["or", 1] IN IF e.ok /\ ts[e.next].type # "eof" THEN Fault(ts[e.next].pos) ELSE e

parse(ts) ==
    LET P[nt \in {"all", "or", "and", "not", "value", "set"}, i \in DOMAIN ts] ==
          CASE nt = "all" -> ParseAll(P, ts)
            [] nt = "or" -> ParseOr(P, ts, i)
            [] nt = "and" -> ParseAnd(P, ts, i)
            [] nt = "not" -> ParseNot(P, ts, i)
            [] nt = "value" -> ParseValue(P, ts, i)
            [] nt = "set" -> ParseSet(P, ts, i)
    IN P["all", 1]

compileFilter(s) == IF tokenize(s).ok THEN parse(tokenize(s).toks) ELSE tokenize(s)

-----------------------------------------------------------------------------
(* Typing *)

Init == text = <<>> /\ verdict = compileFilter(<<>>) /\ intended = <<>> /\ keyboard \in Keyboards

\* How a token is spelled.
Spelling(t) ==
    CASE t.type \in {"and", "or"} -> <<t.value, t.value>>
      [] t.type = "string" -> IF t.value = "joined" THEN <<"'", "\\", "'", "'">> ELSE <<"'", t.value, "'">>
      [] t.type = "op" -> CASE t.value = "==" -> <<"=", "=">> [] t.value = "!=" -> <<"!", "=">>
                            [] t.value = "<=" -> <<"<", "=">> [] t.value = ">=" -> <<">", "=">>
                            [] OTHER -> <<t.value>>
      [] OTHER -> <<t.value>>

\* Two tokens that read as something else when nothing is between them.
MustPart(a, b) ==
    \/ a.type = "word" /\ b.type = "word"
    \/ a.value \in {"!", "<", ">"} /\ b.value = "=="

Gap(t) == IF text = <<>> \/ (keyboard.tight /\ (intended = <<>> \/ ~MustPart(Last(intended), t))) THEN <<>> ELSE <<Blank>>

\* The user goes on only from a text that is, or may still become, a filter.
MayGoOn ==
    /\ Len(intended) < keyboard.max
    /\ ~verdict.ok => verdict.pos > Len(text)

TypeToken(t) ==
    /\ text' = text \o Gap(t) \o Spelling(t)
    /\ verdict' = compileFilter(text')
    /\ intended' = Append(intended, Tok(t.type, t.value, Len(text \o Gap(t)) + 1))
    /\ UNCHANGED keyboard

\* A character that is no token, or only half of one; the history stops here.
TypeStray(u) ==
    /\ text' = Append(text, u)
    /\ verdict' = compileFilter(text')
    /\ UNCHANGED <<intended, keyboard>>

Next == MayGoOn /\ ((\E t \in keyboard.tokens : TypeToken(t)) \/ (\E u \in Strays : TypeStray(u)))

Spec == Init /\ [][Next]_vars

-----------------------------------------------------------------------------
(* Properties *)

\* What the tokenizer reads is what was typed, each token where it was typed, with
\* and without blanks; only a stray character stops it, and there (filter.js:33-67).
ReadsWhatWasTyped ==
    LET r == tokenize(text)
    IN IF r.ok THEN r.toks = Append(intended, Tok("eof", "", Len(text) + 1))
       ELSE /\ r.pos = Len(text) /\ Last(text) \in Strays
            /\ intended # <<>> => r.pos = Last(intended).pos + Len(Spelling(Last(intended)))

\* A name and what follows it: nothing, an operator and a value, or `in` and a set.
Cmp(f, s) ==
    LET op == peekOp(s[1])
        given == IF op = "in" THEN SubSeq(s, 3, Len(s) - 1) ELSE Tail(s)
    IN IF s = <<>> THEN {Exists(f)}
       ELSE IF /\ f.kind # "proto" /\ op # "none"
               /\ \A i \in DOMAIN given : IsValue(given[i]) /\ ~IsBad(given[i])
               /\ IF op = "in" THEN Len(s) > 2 /\ s[2].type = "{" /\ Last(s).type = "}" ELSE Len(given) = 1
            THEN {evalCmp(f, op, {makeLiteral(given[i]) : i \in DOMAIN given})}
            ELSE {}

\* The grammar of filter.js:10-15, as the set of packet sets a sequence of tokens can
\* mean: empty for what is no filter, and of one element if the grammar is unambiguous.
Means(s) ==
    LET mean[nt \in {"or", "and", "not", "cmp"}, i \in 1 .. Len(s) + 1, j \in 0 .. Len(s)] ==
          CASE nt = "or" ->
                 mean["and", i, j]
                 \cup UNION {{a \cup b : a \in mean["or", i, k - 1], b \in mean["and", k + 1, j]} : k \in {k \in i .. j : IsOr(s[k])}}
            [] nt = "and" ->
                 mean["not", i, j]
                 \cup UNION {{a \cap b : a \in mean["and", i, k - 1], b \in mean["not", k + 1, j]} : k \in {k \in i .. j : IsAnd(s[k])}}
            [] nt = "not" ->
                 mean["cmp", i, j] \cup (IF i <= j /\ IsNot(s[i]) THEN {Packets \ a : a \in mean["not", i + 1, j]} ELSE {})
            [] nt = "cmp" ->
                 IF i > j THEN {}
                 ELSE IF s[i].type = "(" THEN IF s[j].type = ")" THEN mean["or", i + 1, j - 1] ELSE {}
                 ELSE IF s[i].type = "word" /\ s[i].value \in DOMAIN Catalog THEN Cmp(Catalog[s[i].value], SubSeq(s, i + 1, j))
                 ELSE {}
    IN mean["or", 1, Len(s)]

\* The parser accepts just the filters of the grammar, and holds for the packets the
\* grammar says, whatever the nesting and the precedence (filter.js:404-534).
ParsesTheGrammar ==
    tokenize(text).ok =>
        Means(intended) = IF verdict.ok /\ intended # <<>> THEN {verdict.set} ELSE {}

\* The position of an error is where the text stops being the beginning of a filter:
\* what comes before can be completed, what includes it cannot (filter.js:22, 404-517).
\* Only a protocol that is compared is marked itself, not its operator (filter.js:477).
Name == Tok("word", CHOOSE n \in DOMAIN Catalog : Catalog[n].kind = "proto", 0)
Parentheses(s) == [i \in 1 .. Cardinality({j \in DOMAIN s : s[j].type = "("}) |-> Tok(")", ")", 0)]
Endings(s) == {m \o SubSeq(Parentheses(s), 1, k) :
                 m \in {<<>>, <<Name>>, <<Tok("}", "}", 0)>>, <<Tok("{", "{", 0), Tok("}", "}", 0)>>},
                 k \in 0 .. Len(Parentheses(s))}
Beginning(s) == \E e \in Endings(s) : Means(s \o e) # {}
ComparedProtocol(i) ==
    /\ intended[i].type = "word" /\ intended[i].value \in DOMAIN Catalog /\ Catalog[intended[i].value].kind = "proto"
    /\ i < Len(intended) /\ peekOp(intended[i + 1]) # "none"
ErrorsAreMarked ==
    tokenize(text).ok /\ ~verdict.ok =>
        LET k == Cardinality({i \in DOMAIN intended : intended[i].pos < verdict.pos})
        IN \E beginnings \in {{i \in 0 .. Len(intended) : Beginning(SubSeq(intended, 1, i))}} :
              /\ k \in beginnings
              /\ k < Len(intended) /\ k + 1 \in beginnings => ComparedProtocol(k + 1) /\ k + 2 \notin beginnings

\* Among the comparisons of one field: a packet without the field satisfies none, `!=` is
\* the opposite of `==` on a packet with one value and not on one with two, `in` is the
\* union of `==`, and a number is never two of <, == and > a value, unless that is true or
\* false: `==` then asks for a truth value, `<` and `>` for 1 or 0 (filter.js:189-217, 526-533).
Operators == {"==", "!=", "<", ">", ">=", "contains", "constructor"}
Compared(f, op, given) == evalCmp(Catalog[f], op, {makeLiteral(g) : g \in given})
ComparisonsAgree ==
    verdict.ok /\ Len(intended) >= 3 /\ intended[1].value \in DOMAIN Catalog /\ peekOp(intended[2]) # "none" =>
        LET f == intended[1].value
            given == {intended[i] : i \in IF intended[2].value = "in" /\ intended[3].type = "{"
                                           THEN {j \in 4 .. Len(intended) : \A k \in 4 .. j : IsValue(intended[k])} ELSE {3}}
        IN \E by \in {[op \in Operators, g \in given |-> Compared(f, op, {g})]} :
              /\ Compared(f, "in", given) = UNION {by["==", g] : g \in given}
              /\ \A p \in Packets, g \in given :
                    CASE Cardinality(Values(Catalog[f], p)) = 0 -> \A op \in Operators : p \notin by[op, g]
                      [] Cardinality(Values(Catalog[f], p)) = 1 ->
                           /\ p \in by["!=", g] <=> p \notin by["==", g]
                           /\ p \notin by["<", g] \cap by[">=", g]
                           /\ Catalog[f].type = "num" /\ makeLiteral(g).type # "bool"
                              => p \notin by["==", g] \cap (by["<", g] \cup by[">", g])
                      [] OTHER -> p \in by["!=", g] \cup by["==", g]
=============================================================================
