-------------------------------- MODULE MCTql -------------------------------
(***************************************************************************)
(* Tql for TLC: every verb with every clause, alone and in pairs, names    *)
(* that are also keywords, and keys of up to three symbols of every kind.  *)
(***************************************************************************)
EXTENDS Tql

AllWords ==
    {"GET", "FIND", "PUT", "DELETE", "HISTORY", "RELATE", "UNRELATE",
     "RELATED", "EDGETYPES", "SEARCH", "PURGE", "AS", "OF", "AT", "BETWEEN",
     "AND", "WHERE", "ORDER", "BY", "ASC", "DESC", "LIMIT", "OFFSET",
     "DIRECTION", "OUT", "IN", "BOTH", "NEAR", "BEFORE", "CONTAINS", "true",
     "false", "null", "c", "n"}

T1 == <<"0">>
T2 == <<"1">>
AllTimes == {T1, T2}

Path == <<<<"c">>, <<"1">>>>
Str(x) == [kind |-> "string", text |-> <<x>>, elems |-> <<>>]
Num == [kind |-> "number", text |-> <<"1", ".", "0">>, elems |-> <<>>]
Nil == [kind |-> "ident", text |-> <<"null">>, elems |-> <<>>]
Term(op, v) == [field |-> <<"n">>, op |-> op, value |-> v]
Eq == Term(Token("=", <<>>), Num)

Wheres ==
    {<<Eq>>,
     <<Term(Token("<=", <<>>), Str("AND")), Term(Token("!=", <<>>), Nil)>>,
     <<Term(Token("ident", <<"IN">>), Array(<<Num, Array(<<>>), Str("c")>>))>>}

S(verb) == [Blank EXCEPT !.verb = verb, !.from = Path]
Over(verb, c) == [Blank EXCEPT !.verb = verb, !.from = <<<<c>>>>]

(* The optional clauses of FIND, RELATED and SEARCH. *)
With(s, w, t, o, d, l, off) ==
    [s EXCEPT !.where = w, !.times = t, !.order = o, !.desc = d, !.limit = l,
              !.offset = off]

Finds ==
    {With(Over("FIND", "c"), w, t, o[1], o[2], l, 0) :
        w \in {<<>>, <<Eq>>}, t \in {<<>>, <<T1>>},
        o \in {<<<<>>, FALSE>>, <<<<<<"DESC">>>>, FALSE>>, <<<<<<"n">>>>, TRUE>>},
        l \in {0, 1}}
    \cup {With(Over("FIND", "WHERE"), w, <<>>, <<>>, FALSE, 0, 1) : w \in Wheres}

Relateds ==
    {[S("RELATED") EXCEPT !.edges = e, !.direction = d, !.times = t, !.offset = 1] :
        e \in {<<>>, <<<<"n">>>>, <<<<"n">>, <<"IN">>>>}, d \in {"OUT", "IN"},
        t \in {<<>>, <<T1>>}}

Searches ==
    {With([Over("SEARCH", "NEAR") EXCEPT !.near = <<<<"c">>>>], w, <<>>, <<>>,
          FALSE, l, 0) : w \in {<<>>} \cup Wheres, l \in {0, 1}}

Edge(verb, key) ==
    [Blank EXCEPT !.verb = verb, !.from = Path, !.edges = <<<<"n">>>>,
                  !.to = <<<<"c">>, key>>]

AllStatements ==
    {S("GET"), [S("GET") EXCEPT !.times = <<T1>>], S("DELETE"), S("HISTORY"),
     [S("HISTORY") EXCEPT !.times = <<T1, T2>>],
     [S("PUT") EXCEPT !.value = <<<<"{}">>>>],
     [S("PUT") EXCEPT !.value = <<<<"{}">>>>, !.times = <<T2>>],
     Edge("RELATE", <<"c">>), Edge("UNRELATE", <<"-">>),
     [Edge("RELATE", <<"1">>) EXCEPT !.value = <<<<"{}">>>>],
     [Over("PURGE", "c") EXCEPT !.times = <<T1>>], [Blank EXCEPT !.verb = "EDGETYPES"]}
    \cup Finds \cup Relateds \cup Searches

KeySymbols == {"c", "n", "1", ".", "_", "-", " ", "/", ">", Quote, Backslash,
               Newline, "{", "?", "AS"}

AllKeys == UNION {[1 .. n -> KeySymbols] : n \in 0 .. 3}

TypedSymbols == {"1", ".", "-", ">", "<", "=", "/", "[", "]", ",", " ", Quote,
                 Backslash, "?", "{", "{}", "c", "GET", "AS", "LIMIT", "IN"}
=============================================================================
