-------------------------------- MODULE Find --------------------------------
(***************************************************************************)
(* FIND ... WHERE ... ORDER BY ... LIMIT ... OFFSET over one collection,   *)
(* which internal/tql evaluates twice: FIND compiles to SQL over live      *)
(* (compile.go), FIND ... AS OF filters and sorts replayed versions in Go  *)
(* (match.go).  EventStore says that the two start from the same           *)
(* documents; this module is about what they make of them.                 *)
(*                                                                         *)
(* A document is what the queried field path holds in it.  Strings are     *)
(* numbered in byte order, numbers are integers, an array is the set of    *)
(* its (scalar) elements.                                                  *)
(***************************************************************************)
EXTENDS Integers, Sequences, FiniteSets, SequencesExt

Missing == [t |-> "missing"]
Null == [t |-> "null"]
Bool(b) == [t |-> "bool", n |-> b]
Num(i) == [t |-> "num", n |-> i]
Str(i) == [t |-> "str", n |-> i]
Arr(S) == [t |-> "arr", elems |-> S]

CONSTANTS
    NumKeys,      \* keys are numbered in their string order
    FieldValues,  \* what a document may hold at the field, Missing included
    Operands,     \* right-hand sides of a comparison
    Exact,        \* integers beyond it are rounded as float64 (2^53)
    ArrayRank,    \* where the text of an array stands among the strings
    NoDoc         \* a key without a live document

Keys == 1 .. NumKeys

(* JSON values: numbers as far as Float says how they are rounded, and no  *)
(* string that spells out an array.                                        *)
Scalar ==
    {Null} \cup [t : {"bool"}, n : {0, 1}]
           \cup [t : {"num"}, n : -Exact .. 2 * Exact]
           \cup [t : {"str"}, n : Nat \ {ArrayRank}]

Json == Scalar \cup [t : {"arr"}, elems : SUBSET Scalar]

ASSUME FindAssumption ==
    /\ NumKeys \in Nat
    /\ Exact \in Nat \ {0}
    /\ Exact % 4 = 0
    /\ FieldValues \subseteq Json \cup {Missing}
    /\ Operands \subseteq Json
    /\ NoDoc \notin FieldValues

VARIABLE docs   \* the collection

Init == docs = [k \in Keys |-> NoDoc]

Put(k, v) == docs' = [docs EXCEPT ![k] = v]

Delete(k) == docs' = [docs EXCEPT ![k] = NoDoc]

Next ==
    \/ \E k \in Keys, v \in FieldValues : Put(k, v)
    \/ \E k \in Keys : Delete(k)

Spec == Init /\ [][Next]_docs

Present == {k \in Keys : docs[k] # NoDoc}

CmpOp == {"=", "!=", "<", "<=", ">", ">=", "IN", "CONTAINS"}

(* Round to nearest even; up to twice Exact, every other integer is kept. *)
Float(i) ==
    IF i <= Exact \/ i % 2 = 0 THEN i
    ELSE IF i % 4 = 1 THEN i - 1 ELSE i + 1
-----------------------------------------------------------------------------
(* compile.go *)

(* What json_extract yields: its storage class (0 is NULL, 1 a number, 2   *)
(* text) and its place within the class.  A boolean is 0 or 1, an array    *)
(* its JSON text.                                                          *)
JsonExtract(v) ==
    IF v.t \in {"missing", "null"} THEN <<0, 0>>
    ELSE IF v.t \in {"num", "bool"} THEN <<1, v.n>>
    ELSE IF v.t = "str" THEN <<2, v.n>>
    ELSE <<2, ArrayRank>>

(* The bound parameter: a parsed number is a float64, a boolean 0 or 1. *)
SqlValue(o) == JsonExtract(IF o.t = "num" THEN Num(Float(o.n)) ELSE o)

(* SQL comparisons that are true; one with NULL never is. *)
SqlEq(a, b) == a[1] # 0 /\ a = b
SqlLess(a, b) ==
    /\ a[1] # 0
    /\ b[1] # 0
    /\ a[1] < b[1] \/ (a[1] = b[1] /\ a[2] < b[2])

(* The rows of json_each: an array's elements, or the scalar itself. *)
JsonEach(v) ==
    IF v.t = "missing" THEN {} ELSE IF v.t = "arr" THEN v.elems ELSE {v}

(* IN takes a list, and no other operator can bind one. *)
Compiles(op, o) == op = "IN" <=> o.t = "arr"

CompileTerm(v, op, o) ==
    LET a == JsonExtract(v)
        b == SqlValue(o)
    IN  \/ op = "=" /\ IF o = Null THEN a[1] = 0 ELSE SqlEq(a, b)
        \/ op = "!=" /\ IF o = Null THEN a[1] # 0
                        ELSE a[1] # 0 /\ a # b
        \/ op = "<" /\ SqlLess(a, b)
        \/ op = "<=" /\ (SqlLess(a, b) \/ SqlEq(a, b))
        \/ op = ">" /\ SqlLess(b, a)
        \/ op = ">=" /\ (SqlLess(b, a) \/ SqlEq(a, b))
        \/ op = "IN" /\ \E x \in o.elems : SqlEq(a, SqlValue(x))
        \/ op = "CONTAINS" /\ \E x \in JsonEach(v) : SqlEq(JsonExtract(x), b)

(* execFind's WHERE: the live documents for which every term is true. *)
FindLive(expr) ==
    {k \in Present : \A c \in expr : CompileTerm(docs[k], c.op, c.value)}

(* ORDER BY json_extract, NULLs lowest. *)
SqlSorted(s, order) ==
    \A i, j \in DOMAIN s : i < j =>
        LET a == JsonExtract(docs[s[i]])
            b == JsonExtract(docs[s[j]])
            below(x, y) == x[1] < y[1] \/ (x[1] = y[1] /\ x[2] < y[2])
        IN  /\ order = "ASC" => ~below(b, a)
            /\ order = "DESC" => ~below(a, b)

(* LIMIT ? OFFSET ?; no LIMIT is LIMIT -1. *)
SqlPage(s, limit, offset) ==
    SubSeq(s, offset + 1,
           IF limit > 0 /\ offset + limit < Len(s) THEN offset + limit ELSE Len(s))

(* What execFind may return: rows that compare equal come in any order. *)
ExecFind(expr, order, limit, offset) ==
    {SqlPage(s, limit, offset) :
        s \in {q \in SetToSeqs(FindLive(expr)) : SqlSorted(q, order)}}
-----------------------------------------------------------------------------
(* match.go *)

CompareEqual(a, b) ==
    \/ a.t = "num" /\ b.t = "num" /\ Float(a.n) = Float(b.n)
    \/ a.t \in {"str", "bool", "null"} /\ a = b

(* asFloat of both: only numbers have an order. *)
Floats(a, b) == a.t = "num" /\ b.t = "num"

(* Mutant: = null asks for an explicit null. *)
MatchTermExplicitNull(v, op, o) ==
    \/ op = "=" /\ CompareEqual(v, o)
    \/ op = "!=" /\ (v.t = "missing" \/ ~CompareEqual(v, o))
    \/ op = "<" /\ Floats(v, o) /\ Float(v.n) < Float(o.n)
    \/ op = "<=" /\ Floats(v, o) /\ Float(v.n) <= Float(o.n)
    \/ op = ">" /\ Floats(v, o) /\ Float(v.n) > Float(o.n)
    \/ op = ">=" /\ Floats(v, o) /\ Float(v.n) >= Float(o.n)
    \/ op = "IN" /\ v # Missing /\ o.t = "arr" /\ \E x \in o.elems : CompareEqual(v, x)
    \/ op = "CONTAINS" /\ v.t = "arr" /\ \E x \in v.elems : CompareEqual(x, o)

MatchTerm(v, op, o) ==
    \/ op = "=" /\ IF o = Null THEN v \in {Missing, Null}
                   ELSE v # Missing /\ CompareEqual(v, o)
    \/ op = "!=" /\ IF o = Null THEN v \notin {Missing, Null}
                    ELSE v = Missing \/ ~CompareEqual(v, o)
    \/ op = "<" /\ Floats(v, o) /\ Float(v.n) < Float(o.n)
    \/ op = "<=" /\ Floats(v, o) /\ Float(v.n) <= Float(o.n)
    \/ op = ">" /\ Floats(v, o) /\ Float(v.n) > Float(o.n)
    \/ op = ">=" /\ Floats(v, o) /\ Float(v.n) >= Float(o.n)
    \/ op = "IN" /\ v # Missing /\ o.t = "arr"
                 /\ \E x \in o.elems : CompareEqual(v, x)
    \/ op = "CONTAINS" /\ v.t = "arr" /\ \E x \in v.elems : CompareEqual(x, o)

(* matchExpr over the versions that ReplayAsOf returned. *)
MatchExpr(expr) ==
    {k \in Present : \A c \in expr : MatchTerm(docs[k], c.op, c.value)}

(* a before b: a value without the field is before nothing. *)
LessField(a, b) ==
    /\ a # Missing
    /\ \/ b = Missing
       \/ Floats(a, b) /\ Float(a.n) < Float(b.n)
       \/ a.t = "str" /\ b.t = "str" /\ a.n < b.n

Less(j, k, order) ==
    IF order = "DESC" THEN LessField(docs[k], docs[j])
    ELSE LessField(docs[j], docs[k])

(* One step of sort.SliceStable, an insertion sort on up to 20 rows: k     *)
(* moves left past the rows it is less than.                               *)
Insert(s, k, order) ==
    LET from == CHOOSE i \in 1 .. Len(s) + 1 :
                    /\ \A j \in i .. Len(s) : Less(k, s[j], order)
                    /\ i > 1 => ~Less(k, s[i - 1], order)
    IN  SubSeq(s, 1, from - 1) \o <<k>> \o SubSeq(s, from, Len(s))

(* done[n] is the first n rows, sorted. *)
SliceStable(s, order) ==
    LET done[n \in 0 .. Len(s)] ==
            IF n = 0 THEN <<>> ELSE Insert(done[n - 1], s[n], order)
    IN  done[Len(s)]

(* offset, then limit. *)
Slice(s, limit, offset) ==
    LET rest == SubSeq(s, offset + 1, Len(s))
    IN  IF limit > 0 /\ Len(rest) > limit THEN SubSeq(rest, 1, limit) ELSE rest

(* Mutant: the rows are cut before they are sorted. *)
LimitAndSort(s, order, limit, offset) ==
    SliceStable(Slice(s, limit, offset), order)

SortAndLimit(s, order, limit, offset) ==
    Slice(IF order = "none" THEN s ELSE SliceStable(s, order), limit, offset)

(* A loop over s that appends what is in S and passes over the rest:       *)
(* kept[n] is what it has appended after n rounds.                         *)
Collect(s, S) ==
    LET kept[n \in 0 .. Len(s)] ==
            IF n = 0 THEN <<>>
            ELSE IF s[n] \in S THEN Append(kept[n - 1], s[n]) ELSE kept[n - 1]
    IN  kept[Len(s)]

(* ReplayAsOf's rows come in key order. *)
KeyOrder == [k \in Keys |-> k]

(* execFindAsOf at the present. *)
ExecFindAsOf(expr, order, limit, offset) ==
    SortAndLimit(Collect(KeyOrder, MatchExpr(expr)), order, limit, offset)
-----------------------------------------------------------------------------
(* The two values are comparable alike on both sides: a boolean is not set *)
(* against a number, and a number is one that float64 holds.               *)
Alike(v, x) ==
    /\ {v.t, x.t} # {"bool", "num"}
    /\ v.t = "num" => Float(v.n) = v.n

(* The comparisons on which the two evaluators are to agree. *)
Covered(v, op, o) ==
    \/ op \in {"=", "!="} /\ o = Null
    \/ op = "=" /\ Alike(v, o)
    \/ op = "!=" /\ v \notin {Missing, Null} /\ Alike(v, o)
    \/ /\ op \in {"<", "<=", ">", ">="}
       /\ \/ v \in {Missing, Null}
          \/ o = Null
          \/ v.t = "num" /\ o.t = "num" /\ Alike(v, o)
    \/ op = "IN" /\ \A x \in o.elems : Alike(v, x) /\ {v, x} # {Null}
    \/ /\ op = "CONTAINS"
       /\ o # Null
       /\ \/ v \in {Missing, Null}
          \/ v.t = "arr" /\ \A x \in v.elems : Alike(x, o)

(* FIND and FIND ... AS OF now keep the same documents for every covered   *)
(* comparison.  Left out, because SQL and Go do differ there: != on a      *)
(* missing or null field, the order of strings, booleans against numbers,  *)
(* null in lists, CONTAINS of a scalar, integers beyond 2^53.              *)
WhereAgrees ==
    \A op \in CmpOp, o \in Operands : Compiles(op, o) =>
        LET expr == {[op |-> op, value |-> o]}
        IN  \A k \in Present : Covered(docs[k], op, o) =>
                (k \in FindLive(expr) <=> k \in MatchExpr(expr))

(* The field is a number, or a string, in every document. *)
Uniform ==
    \E t \in {"num", "str"} :
        \A k \in Present : docs[k].t = t /\ Alike(docs[k], docs[k])

(* The terms that compile and are covered on every document. *)
AgreedTerms ==
    {c \in [op : CmpOp, value : Operands] :
        /\ Compiles(c.op, c.value)
        /\ \A k \in Present : Covered(docs[k], c.op, c.value)}

(* On such a collection every page that Go filters, sorts and cuts is one  *)
(* that SQL may return, ascending or descending, for any LIMIT and OFFSET, *)
(* without WHERE and with one covered comparison.                          *)
OrderAgrees ==
    Uniform =>
        \A expr \in {{}} \cup {{c} : c \in AgreedTerms},
           order \in {"none", "ASC", "DESC"}, limit, offset \in 0 .. NumKeys :
            ExecFindAsOf(expr, order, limit, offset)
                \in ExecFind(expr, order, limit, offset)

(* match.go: a value missing the field sorts last regardless of direction. *)
MissingSortsLast ==
    \A order \in {"ASC", "DESC"} :
        LET s == ExecFindAsOf({}, order, 0, 0)
        IN  \A i, j \in DOMAIN s :
                i < j /\ docs[s[i]] = Missing => docs[s[j]] = Missing
=============================================================================
