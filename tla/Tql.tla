-------------------------------- MODULE Tql ---------------------------------
(***************************************************************************)
(* From text to statements: the lexer, the recursive-descent parser and    *)
(* ParseBatch of internal/tql, and the texts that client.Client sends.     *)
(*                                                                         *)
(* A text is a sequence of symbols.  A symbol is one character, except     *)
(* that a run of letters is one word (case does not matter to keywords), a *)
(* JSON object is the symbol "{}" and "{" the start of a broken one; "?"   *)
(* is a character that TQL has no use for outside quotes.                  *)
(***************************************************************************)
EXTENDS Naturals, Sequences, FiniteSets, SequencesExt

CONSTANTS
    Words,         \* runs of letters: verbs, keywords and names
    Times,         \* the quoted texts that parse as a time
    Statements,    \* the statements that are written out
    ClientKeys,    \* the keys that clients pass
    Typed          \* the symbols that a slip of the keyboard adds

Digits == {"0", "1"}
Newline == "\n"
Quote == "\""
Backslash == "\\"

IdentStart == Words \cup {"_"}
IdentCont == IdentStart \cup Digits \cup {"."}

Token(kind, txt) == [kind |-> kind, text |-> txt]
EOF == Token("eof", <<>>)
-----------------------------------------------------------------------------
(* lexer.go *)

(* The length of the longest prefix of s, from i on, within S. *)
RunOf(s, i, S) ==
    Cardinality({j \in i .. Len(s) : \A k \in i .. j : s[k] \in S})

(* Where a number that starts at i ends: a fraction needs a digit. *)
NumberEnd(s, i) ==
    LET whole == i + (IF s[i] = "-" THEN 1 ELSE 0)
        dot   == whole + RunOf(s, whole, Digits)
        frac  == RunOf(s, dot + 1, Digits)
    IN  IF dot <= Len(s) /\ s[dot] = "." /\ frac > 0 THEN dot + frac
        ELSE dot - 1

(* The first quote from i on that no backslash escapes, or 0. *)
RECURSIVE StringEnd(_, _)
StringEnd(s, i) ==
    IF i > Len(s) THEN 0
    ELSE IF s[i] = Backslash THEN StringEnd(s, i + 2)
    ELSE IF s[i] = Quote THEN i
    ELSE StringEnd(s, i + 1)

Escapes == {<<Quote, Quote>>, <<Backslash, Backslash>>, <<"n", Newline>>}

(* json.Unmarshal of a string's inside: the value, in a singleton, or none *)
(* if an escape is unknown.                                                *)
RECURSIVE Unescape(_)
Unescape(s) ==
    IF s = <<>> THEN {<<>>}
    ELSE IF s[1] # Backslash
    THEN {<<s[1]>> \o r : r \in Unescape(Tail(s))}
    ELSE {<<e[2]>> \o r : e \in {x \in Escapes : Len(s) > 1 /\ x[1] = s[2]},
                          r \in Unescape(SubSeq(s, 3, Len(s)))}

Singles == {"/", "[", "]", ",", "=", "<", ">", "-"}
Doubles == {<<"!", "=">>, <<"<", "=">>, <<">", "=">>, <<"-", ">">>}

(* The tokens of s from i on, in a singleton, or none if the lexer fails. *)
RECURSIVE Lex(_, _)
Lex(s, i) ==
    LET c == s[i]
        two == SubSeq(s, i, i + 1)
        Then(kind, txt, end) == {<<Token(kind, txt)>> \o r : r \in Lex(s, end + 1)}
    IN  IF i > Len(s) THEN {<<EOF>>}
        ELSE IF c \in {" ", Newline} THEN Lex(s, i + 1)
        ELSE IF c = Quote
        THEN LET end == StringEnd(s, i + 1)
             IN  IF end = 0 THEN {}
                 ELSE UNION {Then("string", v, end) :
                                 v \in Unescape(SubSeq(s, i + 1, end - 1))}
        ELSE IF c = "{}" THEN Then("json", <<c>>, i)
        ELSE IF i < Len(s) /\ two \in Doubles THEN Then(two[1] \o two[2], <<>>, i + 1)
        ELSE IF c \in Digits \/ (c = "-" /\ i < Len(s) /\ s[i + 1] \in Digits)
        THEN Then("number", SubSeq(s, i, NumberEnd(s, i)), NumberEnd(s, i))
        ELSE IF c \in Singles THEN Then(c, <<>>, i)
        ELSE IF c \in IdentStart
        THEN LET end == i + RunOf(s, i, IdentCont) - 1
             IN  Then("ident", SubSeq(s, i, end), end)
        ELSE {}

Tokenize(s) == Lex(s, 1)
-----------------------------------------------------------------------------
(* parser.go.  A parser is the tokens that are left and the statement so   *)
(* far; after an error it is Failed, which every step leaves alone.        *)

(* One shape for all statements: a clause that is absent or that the verb  *)
(* does not have is empty.                                                 *)
Blank ==
    [verb |-> "", from |-> <<>>, edges |-> <<>>, to |-> <<>>, value |-> <<>>,
     near |-> <<>>, where |-> <<>>, direction |-> "OUT", times |-> <<>>,
     order |-> <<>>, desc |-> FALSE, limit |-> 0, offset |-> 0]

Failed == [ok |-> FALSE, toks |-> <<EOF>>, stmt |-> Blank]

Peek(p) == p.toks[1]

Advance(p) == IF Len(p.toks) > 1 THEN [p EXCEPT !.toks = Tail(@)] ELSE p

AtKeyword(p, kw) == Peek(p) = Token("ident", <<kw>>)

ExpectKeyword(p, kw) == IF AtKeyword(p, kw) THEN Advance(p) ELSE Failed

Expect(p, kind) == IF Peek(p).kind = kind THEN Advance(p) ELSE Failed

(* Expect a token of that kind and keep its text as a clause. *)
Keep(p, kind, clause) ==
    IF Peek(p).kind = kind
    THEN [Advance(p) EXCEPT !.stmt[clause] = Append(@, Peek(p).text)]
    ELSE Failed

(* Mutant: input after the statement is ignored. *)
ExpectNothing(p) == p

ExpectEnd(p) == IF Peek(p) = EOF THEN p ELSE Failed

(* Mutant: a bare number is no key. *)
ParsePathOfWords(p, clause) ==
    LET q == Expect(Keep(p, "ident", clause), "/")
    IN  IF Peek(q).kind \in {"ident", "string"}
        THEN Keep(q, Peek(q).kind, clause) ELSE Failed

(* Collection, slash and key; a key is a word, a number or a string. *)
ParsePath(p, clause) ==
    LET q == Expect(Keep(p, "ident", clause), "/")
    IN  IF Peek(q).kind \in {"ident", "number", "string"}
        THEN Keep(q, Peek(q).kind, clause) ELSE Failed

ParseTime(p) ==
    IF Peek(p).text \in Times THEN Keep(p, "string", "times") ELSE Failed

ParseAsOf(p) ==
    IF AtKeyword(p, "AS")
    THEN ParseTime(ExpectKeyword(Advance(p), "OF")) ELSE p

(* strconv.Atoi, for a text of digits. *)
Atoi(txt) == FoldLeft(LAMBDA n, d : 10 * n + (IF d = "1" THEN 1 ELSE 0), 0, txt)

(* LIMIT n or OFFSET n: a number without a fraction, and not below zero. *)
ParseCount(p, kw, clause) ==
    LET n == Peek(Advance(p))
    IN  IF ~AtKeyword(p, kw) THEN p
        ELSE IF n.kind = "number" /\ \E S \in {Digits, {"-", "0"}} : ToSet(n.text) \subseteq S
        THEN [Advance(Advance(p)) EXCEPT !.stmt[clause] = Atoi(n.text)]
        ELSE Failed

ParsePage(p) == ParseCount(ParseCount(p, "LIMIT", "limit"), "OFFSET", "offset")

ParseOrder(p) ==
    LET q == Keep(ExpectKeyword(Advance(p), "BY"), "ident", "order")
    IN  IF ~AtKeyword(p, "ORDER") THEN p
        ELSE IF AtKeyword(q, "DESC") THEN [Advance(q) EXCEPT !.stmt.desc = TRUE]
        ELSE IF AtKeyword(q, "ASC") THEN Advance(q)
        ELSE q

CmpSymbols == {"=", "!=", "<", "<=", ">", ">="}
CmpWords == {"IN", "CONTAINS"}
Literals == {"true", "false", "null"}

Scalar(tok) == [kind |-> tok.kind, text |-> tok.text, elems |-> <<>>]
Array(elems) == [kind |-> "array", text |-> <<>>, elems |-> elems]

(* A value and the parser after it. *)
RECURSIVE ParseValue(_), ParseElements(_, _)
ParseValue(p) ==
    LET t == Peek(p)
    IN  IF \/ t.kind \in {"number", "string"}
           \/ t.kind = "ident" /\ \E w \in Literals : t.text = <<w>>
        THEN [p |-> Advance(p), v |-> Scalar(t)]
        ELSE IF t.kind = "[" /\ Peek(Advance(p)).kind = "]"
        THEN [p |-> Advance(Advance(p)), v |-> Array(<<>>)]
        ELSE IF t.kind = "[" THEN ParseElements(Advance(p), <<>>)
        ELSE [p |-> Failed, v |-> Array(<<>>)]
ParseElements(p, before) ==
    LET r == ParseValue(p)
        elems == Append(before, r.v)
    IN  IF Peek(r.p).kind = "," THEN ParseElements(Advance(r.p), elems)
        ELSE [p |-> Expect(r.p, "]"), v |-> Array(elems)]

(* Comparisons joined by AND. *)
RECURSIVE ParseExpr(_)
ParseExpr(p) ==
    LET op == Peek(Advance(p))
        r == ParseValue(Advance(Advance(p)))
        term == [field |-> Peek(p).text, op |-> op, value |-> r.v]
        q == [r.p EXCEPT !.stmt.where = Append(@, term)]
    IN  IF \/ Peek(p).kind # "ident"
           \/ op.kind \notin CmpSymbols /\ \A w \in CmpWords : op # Token("ident", <<w>>)
           \/ ~r.p.ok
        THEN Failed
        ELSE IF AtKeyword(q, "AND") THEN ParseExpr(Advance(q)) ELSE q

ParseWhere(p) == IF AtKeyword(p, "WHERE") THEN ParseExpr(Advance(p)) ELSE p

(* -<edge-type>-> *)
ParseEdge(p) == Expect(Keep(Expect(p, "-"), "ident", "edges"), "->")

RECURSIVE ParseEdgeTypes(_)
ParseEdgeTypes(p) ==
    LET q == Keep(p, "ident", "edges")
    IN  IF Peek(q).kind = "," THEN ParseEdgeTypes(Advance(q)) ELSE Expect(q, "]")

(* The optional -<type>-> or -[<type>,...]-> of RELATED. *)
ParseRelatedEdgeClause(p) ==
    IF Peek(p).kind # "-" THEN p
    ELSE IF Peek(Advance(p)).kind = "["
    THEN Expect(ParseEdgeTypes(Advance(Advance(p))), "->")
    ELSE ParseEdge(p)

ParseDirection(p) ==
    LET d == Peek(Advance(p))
    IN  IF ~AtKeyword(p, "DIRECTION") THEN p
        ELSE IF \E w \in {"OUT", "IN", "BOTH"} : d = Token("ident", <<w>>)
        THEN [Advance(Advance(p)) EXCEPT !.stmt.direction = d.text[1]]
        ELSE Failed

(* The clauses of each verb, in their order. *)
ParseGet(p) == ParseAsOf(ParsePath(p, "from"))

ParseFind(p) ==
    ParsePage(ParseOrder(ParseAsOf(ParseWhere(Keep(p, "ident", "from")))))

ParsePut(p) ==
    LET q == Keep(ParsePath(p, "from"), "json", "value")
    IN  IF AtKeyword(q, "AT") THEN ParseTime(Advance(q)) ELSE q

ParseDelete(p) == ParsePath(p, "from")

ParseHistory(p) ==
    LET q == ParsePath(p, "from")
    IN  IF AtKeyword(q, "BETWEEN")
        THEN ParseTime(ExpectKeyword(ParseTime(Advance(q)), "AND")) ELSE q

ParseUnrelate(p) == ParsePath(ParseEdge(ParsePath(p, "from")), "to")

ParseRelate(p) ==
    LET q == ParseUnrelate(p)
    IN  IF Peek(q).kind = "json" THEN Keep(q, "json", "value") ELSE q

ParseRelated(p) ==
    ParsePage(ParseAsOf(ParseDirection(ParseRelatedEdgeClause(
        ParsePath(p, "from")))))

ParseSearch(p) ==
    ParsePage(ParseWhere(Keep(
        ExpectKeyword(Keep(p, "ident", "from"), "NEAR"), "string", "near")))

ParsePurge(p) == ParseTime(ExpectKeyword(Keep(p, "ident", "from"), "BEFORE"))

ParseVerb(verb, p) ==
    CASE verb = "GET"       -> ParseGet(p)
      [] verb = "FIND"      -> ParseFind(p)
      [] verb = "PUT"       -> ParsePut(p)
      [] verb = "DELETE"    -> ParseDelete(p)
      [] verb = "HISTORY"   -> ParseHistory(p)
      [] verb = "RELATE"    -> ParseRelate(p)
      [] verb = "UNRELATE"  -> ParseUnrelate(p)
      [] verb = "RELATED"   -> ParseRelated(p)
      [] verb = "SEARCH"    -> ParseSearch(p)
      [] verb = "PURGE"     -> ParsePurge(p)
      [] verb = "EDGETYPES" -> p
      [] OTHER              -> Failed

Parse(line) ==
    IF Tokenize(line) = {} THEN Failed
    ELSE LET toks == CHOOSE t \in Tokenize(line) : TRUE
             verb == IF toks[1].kind = "ident" /\ Len(toks[1].text) = 1
                     THEN toks[1].text[1] ELSE ""
         IN  ExpectEnd(ParseVerb(verb, [ok |-> TRUE, toks |-> Tail(toks),
                                        stmt |-> [Blank EXCEPT !.verb = verb]]))

(* strings.Split at newlines, and the lines that are not blank. *)
Lines(txt) ==
    LET cut == {0, Len(txt) + 1} \cup {i \in DOMAIN txt : txt[i] = Newline}
        from == SetToSortSeq(cut, <)
        line(n) == SubSeq(txt, from[n] + 1, from[n + 1] - 1)
    IN  SelectSeq([n \in 1 .. Len(from) - 1 |-> line(n)],
                  LAMBDA l : ToSet(l) \ {" "} # {})

(* Mutant: a line that does not parse is passed over. *)
ParseBatchLeniently(txt) ==
    LET stmts == [n \in DOMAIN Lines(txt) |-> Parse(Lines(txt)[n])]
        good == SelectSeq(stmts, LAMBDA p : p.ok)
    IN  [ok |-> TRUE, stmts |-> [n \in DOMAIN good |-> good[n].stmt]]

(* The statements of a text, or an error if any line has one. *)
ParseBatch(txt) ==
    LET parsed == [n \in DOMAIN Lines(txt) |-> Parse(Lines(txt)[n])]
    IN  IF \A n \in DOMAIN parsed : parsed[n].ok
        THEN [ok |-> TRUE, stmts |-> [n \in DOMAIN parsed |-> parsed[n].stmt]]
        ELSE [ok |-> FALSE, stmts |-> <<>>]
-----------------------------------------------------------------------------
(* client.go *)

(* json.Marshal of a string. *)
Marshal(s) ==
    LET esc(c) == IF \E e \in Escapes : e[2] = c
                  THEN <<Backslash, (CHOOSE e \in Escapes : e[2] = c)[1]>>
                  ELSE <<c>>
    IN  <<Quote>> \o FlattenSeq([i \in DOMAIN s |-> esc(s[i])]) \o <<Quote>>

(* Mutant: a hyphen needs no quotes. *)
QuoteUnlessHyphen(key) ==
    IF ToSet(key) \subseteq IdentCont \cup {"-"} THEN key ELSE Marshal(key)

QuoteKeyIfNeeded(key) ==
    IF ToSet(key) \subseteq IdentCont THEN key ELSE Marshal(key)

(* What Get, Delete, History and Put send for a key. *)
DocumentText(verb, key) ==
    <<verb, " ", "c", "/">> \o QuoteKeyIfNeeded(key)
        \o IF verb = "PUT" THEN <<" ", "{}">> ELSE <<>>

(* What Search sends for a query, without WHERE and LIMIT. *)
SearchText(query) == <<"SEARCH", " ", "c", " ", "NEAR", " ">> \o Marshal(query)

ClientVerbs == {"GET", "DELETE", "HISTORY", "PUT", "SEARCH"}

ClientText(verb, key) ==
    IF verb = "SEARCH" THEN SearchText(key) ELSE DocumentText(verb, key)

(* The statement that is meant. *)
ClientStatement(verb, key) ==
    IF verb = "SEARCH"
    THEN [Blank EXCEPT !.verb = verb, !.from = <<<<"c">>>>, !.near = <<key>>]
    ELSE [Blank EXCEPT !.verb = verb, !.from = <<<<"c">>, key>>,
                       !.value = IF verb = "PUT" THEN <<<<"{}">>>> ELSE <<>>]
-----------------------------------------------------------------------------
(* The grammar that the README gives, as the token sequences in which a    *)
(* statement may be written.                                               *)

Concat(parts) == FoldLeft(LAMBDA A, B : {a \o b : a \in A, b \in B}, {<<>>}, parts)

Word(w) == {<<Token("ident", <<w>>)>>}
Mark(kind) == {<<Token(kind, <<>>)>>}
Of(kind, txt) == {<<Token(kind, txt)>>}

IsIdent(k) == k # <<>> /\ k[1] \in IdentStart /\ ToSet(k) \subseteq IdentCont
IsNumber(k) ==
    LET u == IF k # <<>> /\ k[1] = "-" THEN Tail(k) ELSE k
    IN  /\ u # <<>>
        /\ \/ ToSet(u) \subseteq Digits
           \/ \E i \in 2 .. Len(u) - 1 :
                  /\ u[i] = "."
                  /\ \A j \in DOMAIN u : j # i => u[j] \in Digits

KeyText(k) == Of("string", k)
              \cup (IF IsIdent(k) THEN Of("ident", k) ELSE {})
              \cup (IF IsNumber(k) THEN Of("number", k) ELSE {})

PathText(path) == Concat(<<Of("ident", path[1]), Mark("/"), KeyText(path[2])>>)

TimeText(s, i) == Of("string", s.times[i])
OptTime(s, words) == IF s.times = <<>> THEN {<<>>}
                     ELSE Concat([i \in DOMAIN words |-> Word(words[i])]
                                 \o <<TimeText(s, 1)>>)

Numerals == UNION {[1 .. n -> Digits] : n \in 1 .. 3}
            \cup {<<"-", "0">>, <<"-", "0", "0">>}

CountText(n, kw) ==
    Concat(<<Word(kw), {<<Token("number", t)>> : t \in {u \in Numerals : Atoi(u) = n}}>>)
    \cup IF n = 0 THEN {<<>>} ELSE {}

RECURSIVE ValueText(_)
ValueText(v) ==
    IF v.kind # "array" THEN Of(v.kind, v.text)
    ELSE Concat(<<Mark("[")>>
                \o [i \in DOMAIN v.elems |->
                       Concat((IF i = 1 THEN <<>> ELSE <<Mark(",")>>)
                              \o <<ValueText(v.elems[i])>>)]
                \o <<Mark("]")>>)

WhereText(where) ==
    Concat([i \in DOMAIN where |->
               Concat(<<Word(IF i = 1 THEN "WHERE" ELSE "AND"),
                        Of("ident", where[i].field), {<<where[i].op>>},
                        ValueText(where[i].value)>>)])

OrderText(s) ==
    IF s.order = <<>> THEN {<<>>}
    ELSE Concat(<<Word("ORDER"), Word("BY"), Of("ident", s.order[1]),
                  IF s.desc THEN Word("DESC") ELSE Word("ASC") \cup {<<>>}>>)

Types(edges) ==
    Concat([i \in DOMAIN edges |->
               Concat((IF i = 1 THEN <<>> ELSE <<Mark(",")>>)
                      \o <<Of("ident", edges[i])>>)])

EdgeText(edges) == Concat(<<Mark("-"), Types(edges), Mark("->")>>)

EdgeClause(edges) ==
    IF edges = <<>> THEN {<<>>}
    ELSE Concat(<<Mark("-"), Mark("["), Types(edges), Mark("]"), Mark("->")>>)
         \cup IF Len(edges) = 1 THEN EdgeText(edges) ELSE {}

DirectionText(d) ==
    Concat(<<Word("DIRECTION"), Word(d)>>) \cup IF d = "OUT" THEN {<<>>} ELSE {}

JsonText(value) == IF value = <<>> THEN {<<>>} ELSE Of("json", value[1])

Grammar(s) ==
    Concat(<<Word(s.verb)>> \o
        CASE s.verb = "GET" -> <<PathText(s.from), OptTime(s, <<"AS", "OF">>)>>
          [] s.verb = "FIND" ->
                <<Of("ident", s.from[1]), WhereText(s.where),
                  OptTime(s, <<"AS", "OF">>), OrderText(s),
                  CountText(s.limit, "LIMIT"), CountText(s.offset, "OFFSET")>>
          [] s.verb = "PUT" ->
                <<PathText(s.from), JsonText(s.value), OptTime(s, <<"AT">>)>>
          [] s.verb = "DELETE" -> <<PathText(s.from)>>
          [] s.verb = "HISTORY" ->
                <<PathText(s.from), OptTime(s, <<"BETWEEN">>),
                  IF s.times = <<>> THEN {<<>>}
                  ELSE Concat(<<Word("AND"), TimeText(s, 2)>>)>>
          [] s.verb \in {"RELATE", "UNRELATE"} ->
                <<PathText(s.from), EdgeText(s.edges), PathText(s.to),
                  JsonText(s.value)>>
          [] s.verb = "RELATED" ->
                <<PathText(s.from), EdgeClause(s.edges),
                  DirectionText(s.direction), OptTime(s, <<"AS", "OF">>),
                  CountText(s.limit, "LIMIT"), CountText(s.offset, "OFFSET")>>
          [] s.verb = "EDGETYPES" -> <<>>
          [] s.verb = "SEARCH" ->
                <<Of("ident", s.from[1]), Word("NEAR"), Of("string", s.near[1]),
                  WhereText(s.where),
                  CountText(s.limit, "LIMIT"), CountText(s.offset, "OFFSET")>>
          [] s.verb = "PURGE" ->
                <<Of("ident", s.from[1]), Word("BEFORE"), TimeText(s, 1)>>)

(* A token as it is written. *)
Spelling(tok) ==
    IF tok.kind = "string" THEN Marshal(tok.text)
    ELSE IF tok.text # <<>> THEN tok.text
    ELSE CASE tok.kind = "->" -> <<"-", ">">>
           [] tok.kind = "!=" -> <<"!", "=">>
           [] tok.kind = "<=" -> <<"<", "=">>
           [] tok.kind = ">=" -> <<">", "=">>
           [] OTHER -> <<tok.kind>>

Written(toks) ==
    FlattenSeq([i \in DOMAIN toks |->
                   (IF i = 1 THEN <<>> ELSE <<" ">>) \o Spelling(toks[i])])
-----------------------------------------------------------------------------
VARIABLES
    text,    \* what is sent
    meant,   \* history: the statement it was written for
    origin   \* history: "writer", "client", or the kind of slip made in it

tqlVars == <<text, meant, origin>>

(* A writer uses no more digits than a number needs. *)
Plain(tok) == tok.kind = "number" => Len(tok.text) = 1 \/ "." \in ToSet(tok.text)

Init ==
    \/ /\ meant \in Statements
       /\ \E toks \in Grammar(meant) :
              /\ \A i \in DOMAIN toks : Plain(toks[i])
              /\ text = Written(toks)
       /\ origin = "writer"
    \/ \E verb \in ClientVerbs, key \in ClientKeys :
           /\ text = ClientText(verb, key)
           /\ meant = ClientStatement(verb, key)
           /\ origin = "client"

(* The slips: a symbol too many, too few, two in the wrong order, a line   *)
(* broken.                                                                 *)
Slip(kind) ==
    /\ origin = "writer"
    /\ origin' = kind
    /\ UNCHANGED meant

Insert ==
    /\ Slip("typo")
    /\ \E i \in 1 .. Len(text) + 1, c \in Typed : text' = InsertAt(text, i, c)

Drop ==
    /\ Slip("typo")
    /\ \E i \in DOMAIN text : text' = RemoveAt(text, i)

Transpose ==
    /\ Slip("typo")
    /\ \E i \in 1 .. Len(text) - 1 :
           text' = [text EXCEPT ![i] = text[i + 1], ![i + 1] = text[i]]

BreakLine ==
    /\ Slip("break")
    /\ \E i \in 1 .. Len(text) + 1 : text' = InsertAt(text, i, Newline)

Next == Insert \/ Drop \/ Transpose \/ BreakLine

Spec == Init /\ [][Next]_tqlVars
-----------------------------------------------------------------------------
(* Every statement, in every way the README's grammar lets it be written,  *)
(* parses to itself, names that are also keywords included.                *)
GrammarParses ==
    origin = "writer" => ParseBatch(text) = [ok |-> TRUE, stmts |-> <<meant>>]

(* The parser reads all of what it accepts: after any slip the text is     *)
(* refused, or its tokens are a way to write the statements returned.      *)
NothingIgnored ==
    LET b == ParseBatch(text)
    IN  b.ok => /\ Len(b.stmts) = Len(Lines(text))
                /\ \A n \in DOMAIN b.stmts :
                       \A toks \in Tokenize(Lines(text)[n]) :
                           Front(toks) \in Grammar(b.stmts[n])

(* A statement broken over two lines is not half a statement and some      *)
(* other: nothing of the batch runs, unless the break was at its end.      *)
BrokenLineRunsNothing ==
    origin = "break" =>
        ParseBatch(text) \in {[ok |-> FALSE, stmts |-> <<>>],
                              [ok |-> TRUE, stmts |-> <<meant>>]}

(* A key passed to the client reaches the server as that key: none is      *)
(* taken for another one, and every key arrives except those that consist  *)
(* of what bare words may hold and are not a word or a number themselves   *)
(* ("1a", "1.", ".a", the empty key), for which the call fails.            *)
ClientKeysArrive ==
    origin = "client" =>
        LET b == ParseBatch(text)
            key == IF meant.verb = "SEARCH" THEN meant.near[1] ELSE meant.from[2]
        IN  /\ b.ok => b.stmts = <<meant>>
            /\ \/ meant.verb = "SEARCH"
               \/ IsIdent(key)
               \/ IsNumber(key)
               \/ ~(ToSet(key) \subseteq IdentCont)
               => b.ok
=============================================================================
