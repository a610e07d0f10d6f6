----------------------------- MODULE FindProofs -----------------------------
(***************************************************************************)
(* Theorems about Find and Search, for any JSON values, operands and       *)
(* number of documents: the two evaluators of WHERE agree on every covered *)
(* comparison, the pages that Go sorts and cuts are pages of SQL, and      *)
(* SEARCH over an index that has drifted from the documents returns what   *)
(* FIND does, page by page.                                                *)
(*                                                                         *)
(* What the loops of the code compute (Collect, SliceStable, the           *)
(* concatenation of pages) is proved by induction over the set of the      *)
(* sequences, or of the rounds, for which the claim holds.                 *)
(***************************************************************************)
EXTENDS Search, Induction, FiniteSetTheorems, FunctionTheorems, TLAPS

DocsOK == docs \in [Keys -> FieldValues \cup {NoDoc}]

(* The collection holds values of the field and nothing else. *)
THEOREM DocsTyped == SearchSpec => []DocsOK
  <1>1. SearchInit => DocsOK
    BY DEF SearchInit, Init, DocsOK
  <1>2. DocsOK /\ [SearchNext]_searchVars => DocsOK'
    BY DEF DocsOK, SearchNext, searchVars, Next, Put, Delete, Upsert, ForeignUpsert
  <1> QED
    BY <1>1, <1>2, PTL DEF SearchSpec

(* What the values are, case by case. *)
LEMMA ScalarCases ==
    ASSUME NEW v \in Scalar
    PROVE  \/ v = Null /\ v.t = "null"
           \/ v.t = "bool" /\ v = Bool(v.n) /\ v.n \in Int
           \/ v.t = "num" /\ v = Num(v.n) /\ v.n \in Int
           \/ v.t = "str" /\ v = Str(v.n) /\ v.n \in Int /\ v.n # ArrayRank
  BY FindAssumption DEF Scalar, Null, Bool, Num, Str

LEMMA JsonCases ==
    ASSUME NEW v \in Json
    PROVE  \/ v \in Scalar /\ v.t # "arr" /\ v.t # "missing"
           \/ v.t = "arr" /\ v.elems \subseteq Scalar
  BY ScalarCases DEF Json

(* = of SQL and compareEqual of Go, on a value and a scalar. *)
LEMMA EqualAlike ==
    ASSUME NEW v \in Json \cup {Missing}, NEW x \in Scalar,
           Alike(v, x), {v, x} # {Null}
    PROVE  SqlEq(JsonExtract(v), SqlValue(x)) <=> CompareEqual(v, x)
  <1>1. CASE v = Missing
    BY <1>1 DEF Missing, SqlEq, JsonExtract, CompareEqual
  <1>2. CASE v.t = "arr"
    BY <1>2, ScalarCases DEF SqlEq, JsonExtract, SqlValue, CompareEqual, Num
  <1>3. CASE v \in Scalar
    BY <1>3, ScalarCases
       DEF SqlEq, JsonExtract, SqlValue, CompareEqual, Num, Null, Bool, Str, Alike
  <1> QED
    BY <1>1, <1>2, <1>3, JsonCases

(* The two evaluators of one covered comparison. *)
LEMMA TermsAgree ==
    ASSUME NEW v \in Json \cup {Missing}, NEW op \in CmpOp, NEW o \in Json,
           Compiles(op, o), Covered(v, op, o)
    PROVE  CompileTerm(v, op, o) <=> MatchTerm(v, op, o)
  <1> USE DEF CmpOp
  <1>1. /\ o.t = "arr" => o.elems \subseteq Scalar
        /\ o.t # "arr" => o \in Scalar
        /\ v.t = "arr" => v.elems \subseteq Scalar
        /\ v = Missing \/ v.t = "arr" \/ v \in Scalar
    BY JsonCases DEF Missing
  <1>2. /\ Missing.t = "missing" /\ Null.t = "null" /\ Missing # Null
        /\ \A x \in Scalar : x.t = "null" => x = Null
        /\ \A x \in Scalar : x.t # "arr" /\ x # Missing
        /\ v.t = "missing" => v = Missing
        /\ v.t = "null" => v = Null
    BY <1>1, ScalarCases DEF Missing, Null
  <1>3. /\ JsonExtract(v)[1] = 0 <=> v \in {Missing, Null}
        /\ JsonExtract(Null) = <<0, 0>>
        /\ SqlValue(Null) = <<0, 0>>
    <2>1. JsonExtract(v)[1] = 0 <=> v.t \in {"missing", "null"}
      BY DEF JsonExtract
    <2> QED
      BY <1>2, <2>1 DEF JsonExtract, SqlValue
  <1>4. CASE op = "="
    <2>1. CASE o = Null
      BY <1>3, <1>4, <2>1 DEF CompileTerm, MatchTerm
    <2>2. CASE o # Null
      <3>1. o \in Scalar /\ Alike(v, o) /\ {v, o} # {Null}
        BY <1>1, <1>4, <2>2 DEF Compiles, Covered
      <3>2. SqlEq(JsonExtract(v), SqlValue(o)) <=> CompareEqual(v, o)
        BY <3>1, EqualAlike
      <3>3. ~CompareEqual(Missing, o)
        BY <1>2 DEF CompareEqual
      <3> QED
        BY <1>4, <2>2, <3>2, <3>3 DEF CompileTerm, MatchTerm
    <2> QED
      BY <2>1, <2>2
  <1>5. CASE op = "!="
    <2>1. CASE o = Null
      BY <1>3, <1>5, <2>1 DEF CompileTerm, MatchTerm
    <2>2. CASE o # Null
      <3>1. /\ o \in Scalar /\ Alike(v, o) /\ {v, o} # {Null}
            /\ v \notin {Missing, Null}
        BY <1>1, <1>5, <2>2 DEF Compiles, Covered
      <3>2. SqlEq(JsonExtract(v), SqlValue(o)) <=> CompareEqual(v, o)
        BY <3>1, EqualAlike
      <3> QED
        BY <1>3, <1>5, <2>2, <3>1, <3>2 DEF CompileTerm, MatchTerm, SqlEq
    <2> QED
      BY <2>1, <2>2
  <1>6. CASE op \in {"<", "<=", ">", ">="}
    <2>1. CASE v \in {Missing, Null} \/ o = Null
      <3>1. ~Floats(v, o)
        BY <1>2, <2>1 DEF Floats
      <3>2. JsonExtract(v)[1] = 0 \/ SqlValue(o)[1] = 0
        BY <1>3, <2>1
      <3>3. /\ ~SqlLess(JsonExtract(v), SqlValue(o))
            /\ ~SqlLess(SqlValue(o), JsonExtract(v))
            /\ ~SqlEq(JsonExtract(v), SqlValue(o))
        BY <3>2 DEF SqlLess, SqlEq
      <3> QED
        BY <1>6, <3>1, <3>3 DEF CompileTerm, MatchTerm
    <2>2. CASE ~(v \in {Missing, Null} \/ o = Null)
      <3>1. v.t = "num" /\ o.t = "num" /\ Alike(v, o)
        BY <1>6, <2>2 DEF Covered
      <3>2. v.n \in Int /\ o.n \in Int /\ Float(v.n) = v.n
        BY <1>1, <3>1, ScalarCases DEF Alike, Missing
      <3>3. Float(o.n) \in Int
        BY <3>2 DEF Float
      <3>4. JsonExtract(v) = <<1, v.n>> /\ SqlValue(o) = <<1, Float(o.n)>>
        BY <3>1 DEF JsonExtract, SqlValue, Num
      <3>5. /\ SqlLess(JsonExtract(v), SqlValue(o)) <=> Float(v.n) < Float(o.n)
            /\ SqlLess(SqlValue(o), JsonExtract(v)) <=> Float(v.n) > Float(o.n)
            /\ SqlEq(JsonExtract(v), SqlValue(o)) <=> Float(v.n) = Float(o.n)
        BY <3>2, <3>3, <3>4 DEF SqlLess, SqlEq
      <3> QED
        BY <1>6, <3>1, <3>2, <3>3, <3>5 DEF CompileTerm, MatchTerm, Floats
    <2> QED
      BY <2>1, <2>2
  <1>7. CASE op = "IN"
    <2>1. /\ o.t = "arr" /\ o.elems \subseteq Scalar
          /\ \A x \in o.elems : Alike(v, x) /\ {v, x} # {Null}
      BY <1>1, <1>7 DEF Compiles, Covered
    <2>2. \A x \in o.elems :
              SqlEq(JsonExtract(v), SqlValue(x)) <=> CompareEqual(v, x)
      BY <2>1, EqualAlike
    <2>3. \A x : ~CompareEqual(Missing, x)
      BY <1>2 DEF CompareEqual
    <2> QED
      BY <1>7, <2>1, <2>2, <2>3 DEF CompileTerm, MatchTerm
  <1>8. CASE op = "CONTAINS"
    <2>1. o \in Scalar /\ o # Null
      BY <1>1, <1>8 DEF Compiles, Covered
    <2>2. CASE v \in {Missing, Null}
      <3>1. \A x \in JsonEach(v) : x = Null
        BY <1>2, <2>2 DEF JsonEach
      <3>2. ~SqlEq(JsonExtract(Null), SqlValue(o))
        BY <1>3 DEF SqlEq
      <3>3. v.t # "arr"
        BY <1>2, <2>2
      <3> QED
        BY <1>8, <3>1, <3>2, <3>3 DEF CompileTerm, MatchTerm
    <2>3. CASE v \notin {Missing, Null}
      <3>1. v.t = "arr" /\ \A x \in v.elems : Alike(x, o)
        BY <1>8, <2>3 DEF Covered
      <3>2. \A x \in v.elems : x \in Json /\ {x, o} # {Null}
        BY <1>1, <2>1, <3>1 DEF Json
      <3>3. \A x \in v.elems :
                SqlEq(JsonExtract(x), SqlValue(o)) <=> CompareEqual(x, o)
        BY <2>1, <3>1, <3>2, EqualAlike
      <3>4. JsonEach(v) = v.elems
        BY <3>1 DEF JsonEach
      <3> QED
        BY <1>8, <3>1, <3>3, <3>4 DEF CompileTerm, MatchTerm
    <2> QED
      BY <2>2, <2>3
  <1> QED
    BY <1>4, <1>5, <1>6, <1>7, <1>8

(* WhereAgrees: for every collection that puts and deletes can make, of    *)
(* any JSON values, compileTerm's SQL over live and matchTerm over the     *)
(* replay keep the same documents wherever the comparison is covered.      *)
THEOREM EvaluatorsAgree == SearchSpec => []WhereAgrees
  <1>1. DocsOK => WhereAgrees
    <2> SUFFICES ASSUME DocsOK, NEW op \in CmpOp, NEW o \in Operands, Compiles(op, o),
                        NEW k \in Present, Covered(docs[k], op, o)
                 PROVE  LET expr == {[op |-> op, value |-> o]}
                        IN  k \in FindLive(expr) <=> k \in MatchExpr(expr)
      BY DEF WhereAgrees
    <2>1. docs[k] \in Json \cup {Missing} /\ o \in Json
      BY FindAssumption DEF DocsOK, Present
    <2>2. CompileTerm(docs[k], op, o) <=> MatchTerm(docs[k], op, o)
      BY <2>1, TermsAgree
    <2> DEFINE c == [op |-> op, value |-> o]
    <2>3. c.op = op /\ c.value = o
      OBVIOUS
    <2> HIDE DEF c
    <2>4. /\ k \in FindLive({c}) <=> CompileTerm(docs[k], op, o)
          /\ k \in MatchExpr({c}) <=> MatchTerm(docs[k], op, o)
      BY <2>3 DEF FindLive, MatchExpr
    <2> QED
      BY <2>2, <2>4 DEF c
  <1> QED
    BY <1>1, DocsTyped, PTL
-----------------------------------------------------------------------------
(* g[n] is what the loop of Collect has kept after n rounds. *)
Keeps(g, s, S) ==
    /\ g[0] = <<>>
    /\ \A n \in 1 .. Len(s) :
           g[n] = IF s[n] \in S THEN Append(g[n - 1], s[n]) ELSE g[n - 1]

(* What the loop keeps are sequences, and Collect is the last of them. *)
LEMMA CollectRounds ==
    ASSUME NEW X, NEW s \in Seq(X), NEW S
    PROVE  \E g \in [0 .. Len(s) -> Seq(X \cap S)] :
               Collect(s, S) = g[Len(s)] /\ Keeps(g, s, S)
  <1> DEFINE N == Len(s)
             A == Seq(X \cap S)
             Round(n, r) == IF s[n] \in S THEN Append(r, s[n]) ELSE r
             F == [p \in (1 .. N) \X A |-> Round(p[1], p[2])]
             Loop(g) == [n \in 0 .. N |-> IF n = 0 THEN <<>> ELSE Round(n, g[n - 1])]
  <1>1. N \in Nat /\ <<>> \in A /\ \A n \in 1 .. N : s[n] \in X
    BY LenProperties, EmptySeq
  <1>2. ASSUME NEW n \in 1 .. N, NEW r \in A PROVE Round(n, r) \in A
    BY <1>1, AppendProperties
  <1>3. Collect(s, S) = (CHOOSE f : f = Loop(f))[N]
    BY DEF Collect
  <1> SUFFICES \E g \in [0 .. N -> A] :
                   /\ Collect(s, S) = g[N]
                   /\ g[0] = <<>>
                   /\ \A n \in 1 .. N : g[n] = Round(n, g[n - 1])
    BY DEF Keeps
  <1> HIDE DEF N, A, Round
  <1>4. F \in [(1 .. N) \X A -> A]
    BY <1>2
  <1>5. PICK h \in [0 .. N -> A] : Computes(h, N, <<>>, F)
    <2> HIDE DEF F
    <2> QED
      BY <1>1, <1>4, RecursionExists
  <1>6. h[0] = <<>> /\ \A n \in 1 .. N : h[n] = Round(n, h[n - 1])
    <2>1. h[0] = <<>>
      BY <1>5 DEF Computes
    <2>2. ASSUME NEW n \in 1 .. N PROVE h[n] = Round(n, h[n - 1])
      <3>1. h[n] = F[<<n, h[n - 1]>>]
        BY <1>5 DEF Computes
      <3>2. <<n, h[n - 1]>> \in (1 .. N) \X A
        BY <1>1
      <3> QED
        BY <3>1, <3>2
    <2> QED
      BY <2>1, <2>2
  <1>7. h = Loop(h)
    <2>1. \A n \in 0 .. N : h[n] = Loop(h)[n]
      BY <1>1, <1>6
    <2> QED
      BY <2>1
  <1> DEFINE g == CHOOSE f : f = Loop(f)
  <1>8. g = Loop(g)
    <2> HIDE DEF Loop
    <2> QED
      BY <1>7
  <1> HIDE DEF g
  <1>9. g[0] = <<>> /\ \A n \in 1 .. N : g[n] = Round(n, g[n - 1])
    BY <1>1, <1>8
  <1> DEFINE T == {n \in 0 .. N : g[n] = h[n]}
  <1>10. N \in T
    <2>1. 0 \in T
      BY <1>1, <1>6, <1>9
    <2>2. ASSUME NEW n \in 1 .. N, n - 1 \in T PROVE n \in T
      BY <1>1, <1>6, <1>9, <2>2
    <2> HIDE DEF T
    <2>3. \A n \in 0 .. N : n \in T
      BY <1>1, <2>1, <2>2, CountingUp
    <2> QED
      BY <1>1, <2>3
  <1>11. Collect(s, S) = h[N]
    BY <1>3, <1>10 DEF g
  <1> QED
    BY <1>6, <1>11

(* Collect of nothing, and of one more element. *)
LEMMA CollectAppend ==
    ASSUME NEW X, NEW S
    PROVE  /\ Collect(<<>>, S) = <<>>
           /\ \A s \in Seq(X), x \in X :
                  /\ x \in S => Collect(Append(s, x), S) = Append(Collect(s, S), x)
                  /\ x \notin S => Collect(Append(s, x), S) = Collect(s, S)
  <1>1. Collect(<<>>, S) = <<>>
    <2>1. <<>> \in Seq(X) /\ Len(<<>>) = 0
      BY EmptySeq
    <2>2. PICK g : Collect(<<>>, S) = g[Len(<<>>)] /\ Keeps(g, <<>>, S)
      BY <2>1, CollectRounds, Zenon
    <2> QED
      BY <2>1, <2>2, Zenon DEF Keeps
  <1>2. ASSUME NEW s \in Seq(X), NEW x \in X
        PROVE  /\ x \in S => Collect(Append(s, x), S) = Append(Collect(s, S), x)
               /\ x \notin S => Collect(Append(s, x), S) = Collect(s, S)
    <2> DEFINE r == Append(s, x)
               N == Len(s)
    <2>1. /\ N \in Nat /\ r \in Seq(X) /\ Len(r) = N + 1
          /\ r[N + 1] = x /\ \A n \in 1 .. N : r[n] = s[n]
      BY LenProperties, AppendProperties
    <2>2. PICK g : Collect(s, S) = g[N] /\ Keeps(g, s, S)
      BY CollectRounds, Zenon
    <2> HIDE DEF r
    <2>3. PICK h : Collect(r, S) = h[N + 1] /\ Keeps(h, r, S)
      BY <2>1, CollectRounds, Zenon
    <2>4. /\ h[0] = <<>> /\ g[0] = <<>>
          /\ \A n \in 1 .. N :
                 g[n] = IF s[n] \in S THEN Append(g[n - 1], s[n]) ELSE g[n - 1]
          /\ \A n \in 1 .. N + 1 :
                 h[n] = IF r[n] \in S THEN Append(h[n - 1], r[n]) ELSE h[n - 1]
      BY <2>1, <2>2, <2>3, Zenon DEF Keeps
    <2> HIDE DEF N
    <2> DEFINE T == {n \in 0 .. N : g[n] = h[n]}
    <2>5. 0 \in T
      BY <2>1, <2>4
    <2>6. ASSUME NEW n \in 1 .. N, n - 1 \in T PROVE n \in T
      <3>1. /\ r[n] = s[n] /\ g[n - 1] = h[n - 1] /\ n \in 1 .. N + 1
        BY <2>1, <2>6
      <3>2. g[n] = h[n]
        BY <2>4, <3>1, Zenon
      <3> QED
        BY <3>2
    <2> HIDE DEF T
    <2>7. N \in T
      <3>1. \A n \in 0 .. N : n \in T
        BY <2>1, <2>5, <2>6, CountingUp
      <3> QED
        BY <2>1, <3>1
    <2>8. g[N] = h[N]
      BY <2>7 DEF T
    <2>9. N + 1 \in 1 .. N + 1 /\ (N + 1) - 1 = N
      BY <2>1
    <2>10. h[N + 1] = IF x \in S THEN Append(h[N], x) ELSE h[N]
      BY <2>1, <2>4, <2>9, Zenon
    <2> QED
      BY <2>2, <2>3, <2>8, <2>10, Zenon DEF r
  <1> QED
    BY <1>1, <1>2

(* What a sequence with one more element lists, and when it lists nothing  *)
(* twice.                                                                  *)
LEMMA AppendFacts ==
    ASSUME NEW X, NEW s \in Seq(X), NEW x \in X
    PROVE  /\ ToSet(<<>>) = {} /\ IsInjective(<<>>)
           /\ ToSet(s) \subseteq X
           /\ ToSet(Append(s, x)) = ToSet(s) \cup {x}
           /\ IsInjective(Append(s, x)) <=> IsInjective(s) /\ x \notin ToSet(s)
  <1> DEFINE r == Append(s, x)
             N == Len(s)
  <1>1. /\ N \in Nat /\ DOMAIN r = 1 .. N + 1 /\ DOMAIN s = 1 .. N
        /\ r[N + 1] = x /\ \A n \in 1 .. N : r[n] = s[n] /\ s[n] \in X
    BY LenProperties, AppendProperties
  <1>2. ToSet(<<>>) = {} /\ IsInjective(<<>>)
    BY DEF ToSet, IsInjective
  <1> HIDE DEF r, N
  <1>3. ToSet(s) \subseteq X
    BY <1>1 DEF ToSet
  <1>4. ToSet(r) = ToSet(s) \cup {x}
    <2>1. \A n \in 1 .. N + 1 : n \in 1 .. N \/ n = N + 1
      BY <1>1
    <2>2. \A n \in 1 .. N : n \in 1 .. N + 1
      BY <1>1
    <2>3. N + 1 \in 1 .. N + 1
      BY <1>1
    <2> QED
      BY <1>1, <2>1, <2>2, <2>3 DEF ToSet
  <1>5. ASSUME IsInjective(r) PROVE IsInjective(s) /\ x \notin ToSet(s)
    BY <1>1, <1>5 DEF ToSet, IsInjective
  <1>6. ASSUME IsInjective(s), x \notin ToSet(s) PROVE IsInjective(r)
    BY <1>1, <1>6 DEF ToSet, IsInjective
  <1> QED
    BY <1>2, <1>3, <1>4, <1>5, <1>6 DEF r

(* What Collect keeps: the elements of s that are in S and no others, none *)
(* of them twice unless s has it twice; all of s if S has all of it.       *)
LEMMA CollectFacts ==
    ASSUME NEW X, NEW S, NEW s \in Seq(X)
    PROVE  /\ Collect(s, S) \in Seq(X)
           /\ ToSet(Collect(s, S)) = ToSet(s) \cap S
           /\ IsInjective(s) => IsInjective(Collect(s, S))
           /\ ToSet(s) \subseteq S => Collect(s, S) = s
  <1> DEFINE Good(q) == /\ Collect(q, S) \in Seq(X)
                        /\ ToSet(Collect(q, S)) = ToSet(q) \cap S
                        /\ IsInjective(q) => IsInjective(Collect(q, S))
                        /\ ToSet(q) \subseteq S => Collect(q, S) = q
             T == {q \in Seq(X) : Good(q)}
  <1>1. <<>> \in T
    <2>1. /\ <<>> \in Seq(X) /\ Collect(<<>>, S) = <<>>
          /\ ToSet(<<>>) = {} /\ IsInjective(<<>>)
      BY EmptySeq, CollectAppend DEF ToSet, IsInjective
    <2> QED
      BY <2>1, Zenon
  <1>2. ASSUME NEW q \in Seq(X), NEW x \in X, q \in T PROVE Append(q, x) \in T
    <2> DEFINE r == Append(q, x)
               c == Collect(q, S)
    <2>1. r \in Seq(X)
      BY AppendProperties
    <2>2. Good(q) /\ c \in Seq(X)
      BY <1>2
    <2>3. /\ ToSet(r) = ToSet(q) \cup {x}
          /\ IsInjective(r) => IsInjective(q) /\ x \notin ToSet(q)
      BY AppendFacts, ZenonT(40)
    <2>4. CASE x \in S
      <3>1. Collect(r, S) = Append(c, x)
        BY <2>4, CollectAppend, ZenonT(40)
      <3>2. /\ Append(c, x) \in Seq(X)
            /\ ToSet(Append(c, x)) = ToSet(c) \cup {x}
            /\ IsInjective(c) /\ x \notin ToSet(c) => IsInjective(Append(c, x))
        BY <2>2, AppendFacts, AppendProperties, ZenonT(40)
      <3>3. ToSet(Collect(r, S)) = ToSet(r) \cap S
        BY <2>2, <2>3, <2>4, <3>1, <3>2
      <3>4. IsInjective(r) => IsInjective(Collect(r, S))
        BY <2>2, <2>3, <3>1, <3>2
      <3>5. ToSet(r) \subseteq S => Collect(r, S) = r
        BY <2>2, <2>3, <3>1
      <3> QED
        BY <2>1, <3>1, <3>2, <3>3, <3>4, <3>5
    <2>5. CASE x \notin S
      <3>1. Collect(r, S) = c
        BY <2>5, CollectAppend, ZenonT(40)
      <3> QED
        BY <2>1, <2>2, <2>3, <2>5, <3>1
    <2> QED
      BY <2>4, <2>5
  <1>3. s \in T
    <2> HIDE DEF T
    <2> QED
      BY <1>1, <1>2, AllSequences
  <1> QED
    BY <1>3

(* Collect goes through two sequences one after the other. *)
LEMMA CollectConcat ==
    ASSUME NEW X, NEW S, NEW s \in Seq(X), NEW t \in Seq(X)
    PROVE  Collect(s \o t, S) = Collect(s, S) \o Collect(t, S)
  <1> DEFINE T == {q \in Seq(X) : Collect(s \o q, S) = Collect(s, S) \o Collect(q, S)}
  <1>1. <<>> \in T
    <2>1. /\ <<>> \in Seq(X) /\ s \o <<>> = s
          /\ Collect(s, S) \o <<>> = Collect(s, S) /\ Collect(<<>>, S) = <<>>
      BY EmptySeq, ConcatEmptySeq, CollectFacts, CollectAppend, Zenon
    <2> QED
      BY <2>1, Zenon
  <1>2. ASSUME NEW q \in Seq(X), NEW x \in X, q \in T PROVE Append(q, x) \in T
    <2> DEFINE b == Collect(s, S)
               c == Collect(q, S)
    <2>1. b \in Seq(X) /\ c \in Seq(X) /\ Append(q, x) \in Seq(X) /\ s \o q \in Seq(X)
      BY CollectFacts, AppendProperties, ConcatProperties, Zenon
    <2>2. \A u, v \in Seq(X) : u \o Append(v, x) = Append(u \o v, x)
      <3> SUFFICES ASSUME NEW u \in Seq(X), NEW v \in Seq(X)
                   PROVE  u \o Append(v, x) = Append(u \o v, x)
        OBVIOUS
      <3> DEFINE e == <<x>>
      <3>1. e \in Seq(X) /\ u \o v \in Seq(X)
        BY ConcatProperties
      <3>2. Append(v, x) = v \o e /\ Append(u \o v, x) = (u \o v) \o e
        BY <3>1, AppendIsConcat, Zenon
      <3> HIDE DEF e
      <3>3. (u \o v) \o e = u \o (v \o e)
        BY <3>1, ConcatAssociative, SMTT(30)
      <3> QED
        BY <3>2, <3>3, Zenon
    <2>3. Collect(s \o q, S) = b \o c
      BY <1>2
    <2>4. CASE x \in S
      <3>1. Collect(Append(q, x), S) = Append(c, x)
        BY <2>4, CollectAppend, ZenonT(40)
      <3>2. Collect(Append(s \o q, x), S) = Append(b \o c, x)
        BY <2>1, <2>3, <2>4, CollectAppend, ZenonT(40)
      <3>3. Collect(s \o Append(q, x), S) = b \o Collect(Append(q, x), S)
        BY <2>1, <2>2, <3>1, <3>2, ZenonT(40)
      <3> QED
        BY <2>1, <3>3
    <2>5. CASE x \notin S
      <3>1. /\ Collect(Append(q, x), S) = c
            /\ Collect(Append(s \o q, x), S) = b \o c
        BY <2>1, <2>3, <2>5, CollectAppend, ZenonT(40)
      <3>2. Collect(s \o Append(q, x), S) = b \o Collect(Append(q, x), S)
        BY <2>1, <2>2, <3>1, ZenonT(40)
      <3> QED
        BY <2>1, <3>2
    <2> QED
      BY <2>4, <2>5
  <1>3. t \in T
    <2> HIDE DEF T
    <2> QED
      BY <1>1, <1>2, AllSequences
  <1> QED
    BY <1>3

(* Two elements that Collect keeps stand in the order in which s has them. *)
LEMMA CollectKeepsOrder ==
    ASSUME NEW X, NEW S, NEW s \in Seq(X)
    PROVE  InOrderOf(s, Collect(s, S))
  <1> DEFINE Ordered(c, q) ==
                 \A i, j \in 1 .. Len(c) : i < j =>
                     \E a, b \in 1 .. Len(q) : a < b /\ c[i] = q[a] /\ c[j] = q[b]
             T == {q \in Seq(X) : Ordered(Collect(q, S), q)}
  <1>1. <<>> \in T
    <2>1. <<>> \in Seq(X) /\ Collect(<<>>, S) = <<>> /\ Len(<<>>) = 0
      BY EmptySeq, CollectAppend, Zenon
    <2> QED
      BY <2>1
  <1>2. ASSUME NEW q \in Seq(X), NEW x \in X, q \in T PROVE Append(q, x) \in T
    <2> DEFINE r == Append(q, x)
               c == Collect(q, S)
               d == Collect(r, S)
               M == Len(q)
               N == Len(c)
    <2>1. /\ r \in Seq(X) /\ Len(r) = M + 1 /\ r[M + 1] = x /\ M \in Nat
          /\ \A n \in 1 .. M : r[n] = q[n]
      BY AppendProperties, LenProperties
    <2>2. c \in Seq(X) /\ ToSet(c) = ToSet(q) \cap S /\ N \in Nat
      BY CollectFacts, LenProperties
    <2>3. Ordered(c, q)
      BY <1>2
    <2>4. ASSUME NEW i \in 1 .. N PROVE \E a \in 1 .. M : c[i] = q[a]
      <3>1. DOMAIN c = 1 .. N /\ DOMAIN q = 1 .. M
        BY <2>2, LenProperties
      <3>2. c[i] \in ToSet(c)
        BY <3>1 DEF ToSet
      <3>3. c[i] \in ToSet(q)
        BY <2>2, <3>2
      <3> QED
        BY <3>1, <3>3 DEF ToSet
    <2>5. CASE x \in S
      <3>1. d = Append(c, x)
        BY <2>5, CollectAppend, ZenonT(40)
      <3>2. Len(d) = N + 1 /\ d[N + 1] = x /\ \A n \in 1 .. N : d[n] = c[n]
        BY <2>2, <3>1, AppendProperties
      <3> HIDE DEF r, c, d, M, N
      <3>3. ASSUME NEW i \in 1 .. N + 1, NEW j \in 1 .. N + 1, i < j
            PROVE  \E a, b \in 1 .. M + 1 : a < b /\ d[i] = r[a] /\ d[j] = r[b]
        <4>1. i \in 1 .. N /\ d[i] = c[i]
          BY <2>2, <3>2, <3>3
        <4>2. CASE j = N + 1
          <5>1. PICK a \in 1 .. M : c[i] = q[a]
            BY <2>4, <4>1
          <5>2. /\ a \in 1 .. M + 1 /\ M + 1 \in 1 .. M + 1 /\ a < M + 1
                /\ d[i] = r[a] /\ d[j] = r[M + 1]
            BY <2>1, <3>2, <4>1, <4>2, <5>1
          <5> QED
            BY <5>2
        <4>3. CASE j # N + 1
          <5>1. j \in 1 .. N /\ d[j] = c[j]
            BY <2>2, <3>2, <4>3
          <5>2. PICK a \in 1 .. M, b \in 1 .. M : a < b /\ c[i] = q[a] /\ c[j] = q[b]
            BY <2>3, <3>3, <4>1, <5>1 DEF N, M
          <5>3. /\ a \in 1 .. M + 1 /\ b \in 1 .. M + 1
                /\ d[i] = r[a] /\ d[j] = r[b]
            BY <2>1, <4>1, <5>1, <5>2
          <5> QED
            BY <5>2, <5>3
        <4> QED
          BY <4>2, <4>3
      <3>4. Ordered(d, r)
        BY <2>1, <3>2, <3>3
      <3> QED
        BY <2>1, <3>4 DEF d, r
    <2>6. CASE x \notin S
      <3>1. d = c
        BY <2>6, CollectAppend, ZenonT(40)
      <3> HIDE DEF r, c, d, M
      <3>2. ASSUME NEW i \in 1 .. N, NEW j \in 1 .. N, i < j
            PROVE  \E a, b \in 1 .. M + 1 : a < b /\ c[i] = r[a] /\ c[j] = r[b]
        <4>1. PICK a \in 1 .. M, b \in 1 .. M : a < b /\ c[i] = q[a] /\ c[j] = q[b]
          BY <2>3, <3>2 DEF M
        <4>2. /\ a \in 1 .. M + 1 /\ b \in 1 .. M + 1
              /\ c[i] = r[a] /\ c[j] = r[b]
          BY <2>1, <4>1
        <4> QED
          BY <4>1, <4>2
      <3>3. Ordered(d, r)
        BY <2>1, <3>1, <3>2, SMTT(30)
      <3> QED
        BY <2>1, <3>3 DEF d, r
    <2> QED
      BY <2>5, <2>6
  <1>3. s \in T
    <2> HIDE DEF T
    <2> QED
      BY <1>1, <1>2, AllSequences
  <1>4. DOMAIN Collect(s, S) = 1 .. Len(Collect(s, S)) /\ DOMAIN s = 1 .. Len(s)
    BY CollectFacts, LenProperties
  <1>5. ASSUME NEW i \in DOMAIN Collect(s, S), NEW j \in DOMAIN Collect(s, S), i < j
        PROVE  \E a, b \in DOMAIN s :
                   a < b /\ Collect(s, S)[i] = s[a] /\ Collect(s, S)[j] = s[b]
    <2>1. Ordered(Collect(s, S), s)
      BY <1>3
    <2>2. PICK a \in 1 .. Len(s), b \in 1 .. Len(s) :
              a < b /\ Collect(s, S)[i] = s[a] /\ Collect(s, S)[j] = s[b]
      BY <1>4, <1>5, <2>1
    <2> QED
      BY <1>4, <2>2
  <1> QED
    BY <1>5 DEF InOrderOf
-----------------------------------------------------------------------------
(* SetToSeqs(P) are the sequences that list P, each element once. *)
LEMMA ListsOfSet ==
    ASSUME NEW P, IsFiniteSet(P)
    PROVE  \A s : s \in SetToSeqs(P) <=>
                      s \in Seq(P) /\ IsInjective(s) /\ ToSet(s) = P
  <1> DEFINE N == Cardinality(P)
  <1>1. N \in Nat
    BY FS_CardinalityType
  <1>2. IsFiniteSet(1 .. N) /\ Cardinality(1 .. N) = N
    BY <1>1, FS_Interval
  <1>3. ASSUME NEW s \in SetToSeqs(P)
        PROVE  s \in Seq(P) /\ IsInjective(s) /\ ToSet(s) = P
    <2>1. /\ s \in [1 .. N -> P]
          /\ \A i, j \in 1 .. N : i # j => s[i] # s[j]
      BY DEF SetToSeqs
    <2>2. s \in Seq(P)
      BY <1>1, <2>1, SeqDef
    <2>3. s \in Injection(1 .. N, P) /\ IsInjective(s)
      BY <2>1 DEF Injection, IsInjective
    <2>4. s \in Surjection(1 .. N, P)
      BY <1>2, <2>3, FS_Injection
    <2>5. ToSet(s) = P
      BY <2>1, <2>4 DEF Surjection, ToSet
    <2> QED
      BY <2>2, <2>3, <2>5
  <1>4. ASSUME NEW s \in Seq(P), IsInjective(s), ToSet(s) = P
        PROVE  s \in SetToSeqs(P)
    <2>1. Len(s) \in Nat /\ s \in [1 .. Len(s) -> P] /\ DOMAIN s = 1 .. Len(s)
      BY LenProperties
    <2>2. s \in Bijection(1 .. Len(s), P)
      BY <1>4, <2>1 DEF Bijection, Injection, Surjection, ToSet
    <2>3. ExistsBijection(1 .. Len(s), P)
      BY <2>2 DEF ExistsBijection
    <2>4. N = Len(s)
      BY <2>1, <2>3, FS_CountingElements
    <2>5. \A i, j \in 1 .. N : i # j => s[i] # s[j]
      BY <1>4, <2>1, <2>4 DEF IsInjective
    <2> QED
      BY <2>1, <2>4, <2>5 DEF SetToSeqs
  <1> QED
    BY <1>3, <1>4

(* r is s with k at place f, in front of a suffix of rows that it is less  *)
(* than and behind a row that it is not less than.                         *)
PlacedAt(f, r, s, k, order) ==
    /\ \A j \in f .. Len(s) : Less(k, s[j], order)
    /\ f > 1 => ~Less(k, s[f - 1], order)
    /\ Len(r) = Len(s) + 1
    /\ \A i \in 1 .. Len(s) + 1 :
           r[i] = IF i < f THEN s[i] ELSE IF i = f THEN k ELSE s[i - 1]

(* Insert puts k at such a place, for any Less. *)
LEMMA InsertRows ==
    ASSUME NEW X, NEW s \in Seq(X), NEW k \in X, NEW order
    PROVE  \E f \in 1 .. Len(s) + 1 :
               /\ Insert(s, k, order) \in Seq(X)
               /\ PlacedAt(f, Insert(s, k, order), s, k, order)
  <1> DEFINE N == Len(s)
             L(j) == Less(k, s[j], order)
             Fits(i) == /\ \A j \in i .. N : L(j)
                        /\ i > 1 => ~L(i - 1)
             f == CHOOSE i \in 1 .. N + 1 : Fits(i)
             t == SubSeq(s, 1, f - 1)
             e == <<k>>
             u == SubSeq(s, f, N)
             v == t \o e
             r == v \o u
  <1>1. N \in Nat /\ \A i \in 1 .. N : s[i] \in X
    BY LenProperties
  <1>2. Insert(s, k, order) = r
    BY DEF Insert
  <1>3. \E i \in 1 .. N + 1 : Fits(i)
    <2> HIDE DEF L, N
    <2> DEFINE S == {i \in 1 .. N + 1 : \A j \in i .. N : L(j)}
    <2>1. S \in SUBSET Nat /\ N + 1 \in S
      BY <1>1
    <2>2. PICK i \in S : \A m \in S : i <= m
      <3> HIDE DEF S
      <3> QED
        BY <2>1, LeastNatural
    <2>3. i > 1 => i - 1 \notin S
      BY <1>1, <2>2
    <2>4. ASSUME i > 1, L(i - 1) PROVE FALSE
      <3>1. \A j \in i - 1 .. N : j = i - 1 \/ j \in i .. N
        BY <1>1, <2>2
      <3>2. i - 1 \in S
        BY <1>1, <2>2, <2>4, <3>1
      <3> QED
        BY <2>3, <2>4, <3>2
    <2> QED
      BY <2>2, <2>4
  <1>4. f \in 1 .. N + 1 /\ Fits(f)
    <2> HIDE DEF Fits, N
    <2> QED
      BY <1>3, Zenon
  <1> HIDE DEF f, L, N
  <1>5. /\ t \in Seq(X) /\ Len(t) = f - 1
        /\ \A i \in 1 .. f - 1 : t[i] = s[i]
    <2>1. f - 1 \in Int /\ \A i \in 1 .. f - 1 : s[i] \in X
      BY <1>1, <1>4
    <2>2. /\ t \in Seq(X)
          /\ Len(t) = IF 1 <= f - 1 THEN f - 1 - 1 + 1 ELSE 0
          /\ \A i \in 1 .. f - 1 - 1 + 1 : t[i] = s[1 + i - 1]
      BY <2>1, SubSeqProperties
    <2> HIDE DEF t
    <2> QED
      BY <1>1, <1>4, <2>2
  <1>6. /\ u \in Seq(X) /\ Len(u) = N - f + 1
        /\ \A i \in 1 .. N - f + 1 : u[i] = s[f + i - 1]
    <2>1. f \in Int /\ N \in Int /\ \A i \in f .. N : s[i] \in X
      BY <1>1, <1>4
    <2>2. /\ u \in Seq(X)
          /\ Len(u) = IF f <= N THEN N - f + 1 ELSE 0
          /\ \A i \in 1 .. N - f + 1 : u[i] = s[f + i - 1]
      BY <2>1, SubSeqProperties
    <2> HIDE DEF u
    <2> QED
      BY <1>1, <1>4, <2>2
  <1>7. e \in Seq(X) /\ Len(e) = 1 /\ e[1] = k
    OBVIOUS
  <1> HIDE DEF t, u, e
  <1>8. /\ v \in Seq(X) /\ Len(v) = f
        /\ \A i \in 1 .. f : v[i] = IF i <= f - 1 THEN s[i] ELSE k
    <2>1. /\ v \in Seq(X) /\ Len(v) = Len(t) + Len(e)
          /\ \A i \in 1 .. Len(t) + Len(e) :
                 v[i] = IF i <= Len(t) THEN t[i] ELSE e[i - Len(t)]
      BY <1>5, <1>7, ConcatProperties
    <2> HIDE DEF v
    <2>2. Len(v) = f /\ f \in Int
      BY <1>1, <1>4, <1>5, <1>7, <2>1
    <2>3. ASSUME NEW i \in 1 .. f PROVE v[i] = IF i <= f - 1 THEN s[i] ELSE k
      <3>1. CASE i <= f - 1
        BY <1>5, <1>7, <2>1, <2>2, <3>1
      <3>2. CASE i = f
        <4>1. v[f] = e[f - (f - 1)] /\ f - (f - 1) = 1
          BY <1>5, <1>7, <2>1, <2>2, <3>2
        <4> QED
          BY <1>7, <2>2, <3>2, <4>1
      <3> QED
        BY <2>2, <3>1, <3>2
    <2> QED
      BY <2>1, <2>2, <2>3
  <1> HIDE DEF v
  <1>9. /\ r \in Seq(X) /\ Len(r) = Len(v) + Len(u)
        /\ \A i \in 1 .. Len(v) + Len(u) :
               r[i] = IF i <= Len(v) THEN v[i] ELSE u[i - Len(v)]
    BY <1>6, <1>8, ConcatProperties
  <1> HIDE DEF r
  <1>10. /\ r \in Seq(X) /\ Len(r) = N + 1
         /\ \A i \in 1 .. N + 1 :
                r[i] = IF i < f THEN s[i] ELSE IF i = f THEN k ELSE s[i - 1]
    <2>1. Len(v) + Len(u) = N + 1
      BY <1>1, <1>4, <1>6, <1>8
    <2>2. ASSUME NEW i \in 1 .. N + 1
          PROVE  r[i] = IF i < f THEN s[i] ELSE IF i = f THEN k ELSE s[i - 1]
      <3>1. CASE i <= f
        BY <1>1, <1>4, <1>8, <1>9, <2>1, <3>1
      <3>2. CASE i > f
        <4>1. i - f \in 1 .. N - f + 1 /\ f + (i - f) - 1 = i - 1
          BY <1>1, <1>4, <3>2
        <4>2. r[i] = u[i - f]
          BY <1>1, <1>4, <1>8, <1>9, <2>1, <3>2
        <4> QED
          BY <1>1, <1>4, <1>6, <3>2, <4>1, <4>2
      <3> QED
        BY <1>1, <1>4, <3>1, <3>2
    <2> QED
      BY <1>9, <2>1, <2>2
  <1>11. PlacedAt(f, r, s, k, order)
    BY <1>4, <1>10, Zenon DEF PlacedAt, N, L
  <1> QED
    BY <1>2, <1>4, <1>10, <1>11, Zenon DEF N

(* Insert adds k to the rows, and nothing twice. *)
LEMMA InsertAdds ==
    ASSUME NEW X, NEW s \in Seq(X), NEW k \in X, NEW order
    PROVE  /\ Insert(s, k, order) \in Seq(X)
           /\ ToSet(Insert(s, k, order)) = ToSet(s) \cup {k}
           /\ IsInjective(s) /\ k \notin ToSet(s) => IsInjective(Insert(s, k, order))
  <1> DEFINE N == Len(s)
             r == Insert(s, k, order)
  <1>1. N \in Nat /\ DOMAIN s = 1 .. N
    BY LenProperties
  <1>2. PICK f \in 1 .. N + 1 : r \in Seq(X) /\ PlacedAt(f, r, s, k, order)
    BY InsertRows, Zenon
  <1>3. /\ r \in Seq(X) /\ Len(r) = N + 1
        /\ \A i \in 1 .. N + 1 :
               r[i] = IF i < f THEN s[i] ELSE IF i = f THEN k ELSE s[i - 1]
    BY <1>2, Zenon DEF PlacedAt
  <1>4. DOMAIN r = 1 .. N + 1
    BY <1>3, LenProperties
  <1> HIDE DEF N, r
  <1>5. ToSet(r) \subseteq ToSet(s) \cup {k}
    <2> SUFFICES ASSUME NEW i \in 1 .. N + 1 PROVE r[i] \in ToSet(s) \cup {k}
      BY <1>4 DEF ToSet
    <2>1. CASE i < f
      <3>1. i \in 1 .. N /\ r[i] = s[i]
        BY <1>1, <1>3, <2>1
      <3> QED
        BY <1>1, <3>1 DEF ToSet
    <2>2. CASE i = f
      BY <1>3, <2>2
    <2>3. CASE i > f
      <3>1. i - 1 \in 1 .. N /\ r[i] = s[i - 1]
        BY <1>1, <1>3, <2>3
      <3> QED
        BY <1>1, <3>1 DEF ToSet
    <2> QED
      BY <1>1, <1>3, <2>1, <2>2, <2>3
  <1>6. ToSet(s) \subseteq ToSet(r)
    <2> SUFFICES ASSUME NEW i \in 1 .. N PROVE s[i] \in ToSet(r)
      BY <1>1 DEF ToSet
    <2>1. CASE i < f
      <3>1. i \in 1 .. N + 1 /\ r[i] = s[i]
        BY <1>1, <1>3, <2>1
      <3> QED
        BY <1>4, <3>1 DEF ToSet
    <2>2. CASE i >= f
      <3>1. i + 1 \in 1 .. N + 1 /\ i + 1 > f /\ (i + 1) - 1 = i
        BY <1>1, <1>3, <2>2
      <3>2. r[i + 1] = s[i]
        BY <1>1, <1>3, <3>1
      <3> QED
        BY <1>4, <3>1, <3>2 DEF ToSet
    <2> QED
      BY <1>1, <1>3, <2>1, <2>2
  <1>7. k \in ToSet(r)
    <2>1. r[f] = k
      BY <1>1, <1>3
    <2> QED
      BY <1>4, <2>1 DEF ToSet
  <1>8. ASSUME IsInjective(s), k \notin ToSet(s) PROVE IsInjective(r)
    <2>1. /\ \A a, b \in 1 .. N : s[a] = s[b] => a = b
          /\ \A a \in 1 .. N : s[a] # k
      BY <1>1, <1>8 DEF IsInjective, ToSet
    <2> DEFINE was(i) == IF i < f THEN i ELSE i - 1
    <2>2. ASSUME NEW i \in 1 .. N + 1
          PROVE  i # f => was(i) \in 1 .. N /\ r[i] = s[was(i)]
      BY <1>1, <1>3
    <2>3. \A i, j \in 1 .. N + 1 : i # f /\ j # f /\ was(i) = was(j) => i = j
      BY <1>1, <1>3
    <2>4. r[f] = k
      BY <1>1, <1>3
    <2> HIDE DEF was
    <2>5. ASSUME NEW i \in 1 .. N + 1, NEW j \in 1 .. N + 1, r[i] = r[j] PROVE i = j
      <3>1. CASE i = f \/ j = f
        BY <2>1, <2>2, <2>4, <2>5, <3>1
      <3>2. CASE i # f /\ j # f
        BY <2>1, <2>2, <2>3, <2>5, <3>2
      <3> QED
        BY <3>1, <3>2
    <2> QED
      BY <1>4, <2>5 DEF IsInjective
  <1> QED
    BY <1>3, <1>5, <1>6, <1>7, <1>8 DEF r

(* The rows of s do not go down in the weight w. *)
Ascends(s, w) == \A i, j \in 1 .. Len(s) : i < j => w[s[i]] <= w[s[j]]

(* Where Less compares weights, Insert keeps the rows in order. *)
LEMMA InsertAscends ==
    ASSUME NEW X, NEW s \in Seq(X), NEW k \in X, NEW order, NEW w \in [X -> Int],
           \A a, b \in X : Less(a, b, order) <=> w[a] < w[b],
           Ascends(s, w)
    PROVE  Ascends(Insert(s, k, order), w)
  <1> DEFINE N == Len(s)
             r == Insert(s, k, order)
             v == [i \in 1 .. N |-> w[s[i]]]
  <1>1. N \in Nat /\ \A i \in 1 .. N : s[i] \in X
    BY LenProperties
  <1>2. PICK f \in 1 .. N + 1 : PlacedAt(f, r, s, k, order)
    BY InsertRows, Zenon
  <1>3. /\ \A j \in f .. N : Less(k, s[j], order)
        /\ f > 1 => ~Less(k, s[f - 1], order)
        /\ Len(r) = N + 1
        /\ \A i \in 1 .. N + 1 :
               r[i] = IF i < f THEN s[i] ELSE IF i = f THEN k ELSE s[i - 1]
    BY <1>2, Zenon DEF PlacedAt
  <1>4. \A i, j \in 1 .. N : i < j => v[i] <= v[j]
    BY DEF Ascends
  <1> HIDE DEF N, r
  <1>5. v \in [1 .. N -> Int] /\ w[k] \in Int
    BY <1>1
  <1>6. \A j \in f .. N : w[k] < v[j]
    BY <1>1, <1>3
  <1>7. f > 1 => v[f - 1] <= w[k]
    <2> SUFFICES ASSUME f > 1 PROVE v[f - 1] <= w[k]
      OBVIOUS
    <2>1. f - 1 \in 1 .. N
      BY <1>1
    <2>2. ~(w[k] < w[s[f - 1]])
      BY <1>1, <1>3, <2>1
    <2> QED
      BY <1>1, <1>5, <2>1, <2>2
  <1>8. \A j \in 1 .. f - 1 : v[j] <= w[k]
    <2> SUFFICES ASSUME NEW j \in 1 .. f - 1 PROVE v[j] <= w[k]
      OBVIOUS
    <2>1. f > 1 /\ j \in 1 .. N /\ f - 1 \in 1 .. N /\ (j = f - 1 \/ j < f - 1)
      BY <1>1
    <2>2. v[j] <= v[f - 1] /\ v[j] \in Int /\ v[f - 1] \in Int
      BY <1>4, <1>5, <2>1
    <2> HIDE DEF v
    <2> QED
      BY <1>5, <1>7, <2>1, <2>2
  <1>9. ASSUME NEW i \in 1 .. N + 1
        PROVE  /\ i < f => i \in 1 .. N /\ w[r[i]] = v[i]
               /\ i = f => w[r[i]] = w[k]
               /\ i > f => i - 1 \in f .. N /\ w[r[i]] = v[i - 1]
    BY <1>1, <1>3
  <1> HIDE DEF v
  <1>10. ASSUME NEW i \in 1 .. N + 1, NEW j \in 1 .. N + 1, i < j
        PROVE  w[r[i]] <= w[r[j]]
    <2>1. CASE j < f
      BY <1>1, <1>4, <1>9, <1>10, <2>1
    <2>2. CASE j = f
      BY <1>1, <1>8, <1>9, <1>10, <2>2
    <2>3. CASE j > f /\ i < f
      <3>1. i \in 1 .. N /\ j - 1 \in 1 .. N /\ i < j - 1
        BY <1>1, <1>3, <2>3
      <3>2. v[i] <= v[j - 1]
        BY <1>4, <3>1
      <3>3. w[r[i]] = v[i] /\ w[r[j]] = v[j - 1]
        BY <1>1, <1>9, <2>3
      <3> QED
        BY <3>2, <3>3
    <2>4. CASE j > f /\ i = f
      <3>1. w[k] < v[j - 1] /\ v[j - 1] \in Int /\ w[r[i]] = w[k] /\ w[r[j]] = v[j - 1]
        BY <1>1, <1>5, <1>6, <1>9, <2>4
      <3> QED
        BY <1>5, <3>1
    <2>5. CASE j > f /\ i > f
      <3>1. i - 1 \in 1 .. N /\ j - 1 \in 1 .. N /\ i - 1 < j - 1
        BY <1>1, <1>3, <1>10, <2>5
      <3>2. v[i - 1] <= v[j - 1]
        BY <1>4, <3>1
      <3>3. w[r[i]] = v[i - 1] /\ w[r[j]] = v[j - 1]
        BY <1>1, <1>9, <2>5
      <3> QED
        BY <3>2, <3>3
    <2> QED
      BY <1>1, <1>3, <1>10, <2>1, <2>2, <2>3, <2>4, <2>5
  <1> QED
    BY <1>3, <1>10 DEF Ascends, r

(* g[n] is the first n rows of s, sorted by insertion. *)
Sorts(g, s, order) ==
    /\ g[0] = <<>>
    /\ \A n \in 1 .. Len(s) : g[n] = Insert(g[n - 1], s[n], order)

(* The sorted prefixes are sequences, and SliceStable is the last of them. *)
LEMMA SortRounds ==
    ASSUME NEW X, NEW s \in Seq(X), NEW order
    PROVE  \E g \in [0 .. Len(s) -> Seq(X)] :
               SliceStable(s, order) = g[Len(s)] /\ Sorts(g, s, order)
  <1> DEFINE N == Len(s)
             A == Seq(X)
             Round(n, r) == Insert(r, s[n], order)
             F == [p \in (1 .. N) \X A |-> Round(p[1], p[2])]
             Loop(g) == [n \in 0 .. N |-> IF n = 0 THEN <<>> ELSE Round(n, g[n - 1])]
  <1>1. N \in Nat /\ <<>> \in A /\ \A n \in 1 .. N : s[n] \in X
    BY LenProperties, EmptySeq
  <1>2. ASSUME NEW n \in 1 .. N, NEW r \in A PROVE Round(n, r) \in A
    BY <1>1, InsertAdds
  <1>3. SliceStable(s, order) = (CHOOSE f : f = Loop(f))[N]
    BY DEF SliceStable
  <1> SUFFICES \E g \in [0 .. N -> A] :
                   /\ SliceStable(s, order) = g[N]
                   /\ g[0] = <<>>
                   /\ \A n \in 1 .. N : g[n] = Round(n, g[n - 1])
    BY DEF Sorts
  <1> HIDE DEF N, A, Round
  <1>4. F \in [(1 .. N) \X A -> A]
    BY <1>2
  <1>5. PICK h \in [0 .. N -> A] : Computes(h, N, <<>>, F)
    <2> HIDE DEF F
    <2> QED
      BY <1>1, <1>4, RecursionExists
  <1>6. h[0] = <<>> /\ \A n \in 1 .. N : h[n] = Round(n, h[n - 1])
    <2>1. h[0] = <<>>
      BY <1>5 DEF Computes
    <2>2. ASSUME NEW n \in 1 .. N PROVE h[n] = Round(n, h[n - 1])
      <3>1. h[n] = F[<<n, h[n - 1]>>]
        BY <1>5 DEF Computes
      <3>2. <<n, h[n - 1]>> \in (1 .. N) \X A
        BY <1>1
      <3> QED
        BY <3>1, <3>2
    <2> QED
      BY <2>1, <2>2
  <1>7. h = Loop(h)
    <2>1. \A n \in 0 .. N : h[n] = Loop(h)[n]
      BY <1>1, <1>6
    <2> QED
      BY <2>1
  <1> DEFINE g == CHOOSE f : f = Loop(f)
  <1>8. g = Loop(g)
    <2> HIDE DEF Loop
    <2> QED
      BY <1>7
  <1> HIDE DEF g
  <1>9. g[0] = <<>> /\ \A n \in 1 .. N : g[n] = Round(n, g[n - 1])
    BY <1>1, <1>8
  <1> DEFINE T == {n \in 0 .. N : g[n] = h[n]}
  <1>10. N \in T
    <2>1. 0 \in T
      BY <1>1, <1>6, <1>9
    <2>2. ASSUME NEW n \in 1 .. N, n - 1 \in T PROVE n \in T
      BY <1>1, <1>6, <1>9, <2>2
    <2> HIDE DEF T
    <2>3. \A n \in 0 .. N : n \in T
      BY <1>1, <2>1, <2>2, CountingUp
    <2> QED
      BY <1>1, <2>3
  <1>11. SliceStable(s, order) = h[N]
    BY <1>3, <1>10 DEF g
  <1> QED
    BY <1>6, <1>11

(* SliceStable lists the rows it was given, and in order where Less        *)
(* compares weights.                                                       *)
LEMMA SortFacts ==
    ASSUME NEW X, NEW s \in Seq(X), IsInjective(s), NEW order, NEW w \in [X -> Int]
    PROVE  LET r == SliceStable(s, order)
           IN  /\ r \in Seq(X)
               /\ IsInjective(r)
               /\ ToSet(r) = ToSet(s)
               /\ (\A a, b \in X : Less(a, b, order) <=> w[a] < w[b]) => Ascends(r, w)
  <1> DEFINE N == Len(s)
             Pre(n) == {s[i] : i \in 1 .. n}
             Compares == \A a, b \in X : Less(a, b, order) <=> w[a] < w[b]
  <1>1. /\ N \in Nat /\ DOMAIN s = 1 .. N /\ (\A n \in 1 .. N : s[n] \in X)
        /\ \A a, b \in 1 .. N : s[a] = s[b] => a = b
    BY LenProperties DEF IsInjective
  <1>2. PICK g \in [0 .. N -> Seq(X)] :
            SliceStable(s, order) = g[N] /\ Sorts(g, s, order)
    BY SortRounds, Zenon
  <1>3. g[0] = <<>> /\ \A n \in 1 .. N : g[n] = Insert(g[n - 1], s[n], order)
    BY <1>2, Zenon DEF Sorts
  <1>4. ToSet(s) = Pre(N)
    BY <1>1 DEF ToSet
  <1> HIDE DEF N, Compares
  <1> DEFINE Good(n) == /\ IsInjective(g[n])
                        /\ ToSet(g[n]) = Pre(n)
                        /\ Compares => Ascends(g[n], w)
             T == {n \in 0 .. N : Good(n)}
  <1>5. 0 \in T
    <2>1. Pre(0) = {}
      OBVIOUS
    <2>2. IsInjective(<<>>) /\ ToSet(<<>>) = {} /\ Ascends(<<>>, w)
      BY DEF IsInjective, ToSet, Ascends
    <2> HIDE DEF Pre
    <2>3. Good(0)
      BY <1>3, <2>1, <2>2, Zenon
    <2> HIDE DEF Good
    <2> QED
      BY <1>1, <2>3
  <1>6. ASSUME NEW n \in 1 .. N, n - 1 \in T PROVE n \in T
    <2>1. /\ s[n] \in X /\ g[n - 1] \in Seq(X) /\ n \in 0 .. N
          /\ g[n] = Insert(g[n - 1], s[n], order)
      <3>1. n \in 0 .. N /\ n - 1 \in 0 .. N
        BY <1>1
      <3> QED
        BY <1>1, <1>3, <3>1, Zenon
    <2>2. Pre(n) = Pre(n - 1) \cup {s[n]} /\ s[n] \notin Pre(n - 1)
      <3>1. \A i \in 1 .. n : i = n \/ i \in 1 .. n - 1
        BY <1>1
      <3>2. \A i \in 1 .. n - 1 : i \in 1 .. n /\ i \in 1 .. N /\ i # n
        BY <1>1
      <3>3. s[n] \notin Pre(n - 1)
        BY <1>1, <3>2
      <3>4. Pre(n) \subseteq Pre(n - 1) \cup {s[n]}
        BY <3>1
      <3>5. n \in 1 .. n
        BY <1>1
      <3>6. Pre(n - 1) \cup {s[n]} \subseteq Pre(n)
        BY <3>2, <3>5
      <3> QED
        BY <3>3, <3>4, <3>6
    <2> HIDE DEF Pre
    <2>3. /\ IsInjective(g[n - 1]) /\ ToSet(g[n - 1]) = Pre(n - 1)
          /\ Compares => Ascends(g[n - 1], w)
      BY <1>6
    <2>4. IsInjective(g[n]) /\ ToSet(g[n]) = Pre(n)
      BY <2>1, <2>2, <2>3, InsertAdds
    <2>5. ASSUME Compares PROVE Ascends(g[n], w)
      <3> DEFINE q == g[n - 1]
                 k == s[n]
      <3>1. q \in Seq(X) /\ k \in X /\ Ascends(q, w)
        BY <2>1, <2>3, <2>5
      <3>2. \A a, b \in X : Less(a, b, order) <=> w[a] < w[b]
        BY <2>5 DEF Compares
      <3>3. g[n] = Insert(q, k, order)
        BY <2>1
      <3> HIDE DEF q, k
      <3>4. Ascends(Insert(q, k, order), w)
        BY <3>1, <3>2, InsertAscends, ZenonT(40)
      <3> QED
        BY <3>3, <3>4
    <2>6. Good(n)
      BY <2>4, <2>5
    <2> HIDE DEF Good
    <2> QED
      BY <2>1, <2>6
  <1> HIDE DEF T
  <1>7. \A n \in 0 .. N : n \in T
    BY <1>1, <1>5, <1>6, CountingUp
  <1>8. /\ N \in 0 .. N /\ g[N] \in Seq(X) /\ IsInjective(g[N])
        /\ ToSet(g[N]) = Pre(N) /\ (Compares => Ascends(g[N], w))
    BY <1>1, <1>7 DEF T
  <1> QED
    BY <1>2, <1>4, <1>8 DEF Compares

(* Cutting a page in Go gives what LIMIT and OFFSET of SQL give. *)
LEMMA SamePage ==
    ASSUME NEW X, NEW s \in Seq(X), NEW limit \in Nat, NEW offset \in Nat
    PROVE  Slice(s, limit, offset) = SqlPage(s, limit, offset)
  <1> DEFINE N == Len(s)
             rest == SubSeq(s, offset + 1, N)
  <1>1. N \in Nat /\ \A i \in 1 .. N : s[i] \in X
    BY LenProperties
  <1>2. /\ rest \in Seq(X)
        /\ Len(rest) = IF offset + 1 <= N THEN N - (offset + 1) + 1 ELSE 0
        /\ \A i \in 1 .. N - (offset + 1) + 1 : rest[i] = s[offset + 1 + i - 1]
    BY <1>1, SubSeqProperties
  <1>3. CASE limit > 0 /\ offset + limit < N
    <2> DEFINE a == SubSeq(rest, 1, limit)
               b == SubSeq(s, offset + 1, offset + limit)
    <2> HIDE DEF rest, N
    <2>1. Len(rest) = N - offset /\ Len(rest) > limit
      BY <1>1, <1>2, <1>3
    <2>2. \A i \in 1 .. N - offset : rest[i] = s[offset + i] /\ rest[i] \in X
      BY <1>1, <1>2
    <2>3. /\ \A i \in 1 .. limit : rest[i] \in X
          /\ \A i \in offset + 1 .. offset + limit : s[i] \in X
      BY <1>1, <1>3, <2>2
    <2>4. /\ a \in Seq(X) /\ Len(a) = IF 1 <= limit THEN limit - 1 + 1 ELSE 0
          /\ \A i \in 1 .. limit - 1 + 1 : a[i] = rest[1 + i - 1]
      BY <2>3, SubSeqProperties
    <2>5. /\ b \in Seq(X)
          /\ Len(b) = IF offset + 1 <= offset + limit
                      THEN offset + limit - (offset + 1) + 1 ELSE 0
          /\ \A i \in 1 .. offset + limit - (offset + 1) + 1 :
                 b[i] = s[offset + 1 + i - 1]
      BY <2>3, SubSeqProperties
    <2>6. Slice(s, limit, offset) = a
      BY <1>3, <2>1 DEF Slice, rest, N
    <2>7. SqlPage(s, limit, offset) = b
      BY <1>3 DEF SqlPage, N
    <2> HIDE DEF a, b
    <2>8. Len(a) = limit /\ Len(b) = limit
      BY <1>3, <2>4, <2>5
    <2>9. \A i \in 1 .. limit : a[i] = b[i]
      BY <1>1, <1>3, <2>2, <2>4, <2>5
    <2>10. a = b
      BY <2>4, <2>5, <2>8, <2>9, SeqEqual
    <2> QED
      BY <2>6, <2>7, <2>10
  <1>4. CASE ~(limit > 0 /\ offset + limit < N)
    <2>1. ~(limit > 0 /\ Len(rest) > limit)
      <3> HIDE DEF rest, N
      <3> QED
        BY <1>1, <1>2, <1>4
    <2>2. Slice(s, limit, offset) = rest
      BY <2>1 DEF Slice
    <2>3. SqlPage(s, limit, offset) = rest
      BY <1>4 DEF SqlPage
    <2> QED
      BY <2>2, <2>3
  <1> QED
    BY <1>3, <1>4
-----------------------------------------------------------------------------
(* On a uniform collection both sides order the documents by an integer:   *)
(* the number, or the place of the string, negated for DESC.               *)
LEMMA UniformWeights ==
    ASSUME DocsOK, Uniform, NEW order \in {"ASC", "DESC"}
    PROVE  \E w \in [Present -> Int] :
               /\ \A a, b \in Present : Less(a, b, order) <=> w[a] < w[b]
               /\ \A s \in Seq(Present) : Ascends(s, w) => SqlSorted(s, order)
  <1>1. PICK t \in {"num", "str"} :
            \A k \in Present : docs[k].t = t /\ Alike(docs[k], docs[k])
    BY DEF Uniform
  <1>2. ASSUME NEW k \in Present
        PROVE  /\ docs[k] # Missing /\ docs[k].t = t /\ docs[k].n \in Int
               /\ t = "num" => Float(docs[k].n) = docs[k].n
    <2>1. docs[k].t = t /\ (t = "num" => Float(docs[k].n) = docs[k].n)
      BY <1>1 DEF Alike
    <2>2. docs[k] \in Json \cup {Missing}
      BY FindAssumption DEF DocsOK, Present
    <2>3. docs[k] # Missing
      BY <2>1 DEF Missing
    <2>4. docs[k] \in Scalar
      BY <2>1, <2>2, <2>3, JsonCases
    <2>5. docs[k].n \in Int
      BY <2>1, <2>4, ScalarCases
    <2> QED
      BY <2>1, <2>3, <2>5
  <1> DEFINE v == [k \in Present |-> docs[k].n]
             w == [k \in Present |-> IF order = "DESC" THEN 0 - v[k] ELSE v[k]]
  <1>3. v \in [Present -> Int] /\ w \in [Present -> Int]
    BY <1>2
  <1>4. \A a, b \in Present : LessField(docs[a], docs[b]) <=> v[a] < v[b]
    <2> SUFFICES ASSUME NEW a \in Present, NEW b \in Present
                 PROVE  LessField(docs[a], docs[b]) <=> docs[a].n < docs[b].n
      OBVIOUS
    <2> QED
      BY <1>2 DEF LessField, Floats
  <1>5. \A k \in Present :
            JsonExtract(docs[k]) = IF t = "num" THEN <<1, v[k]>> ELSE <<2, v[k]>>
    BY <1>2 DEF JsonExtract
  <1> HIDE DEF v
  <1>6. \A a, b \in Present : Less(a, b, order) <=> w[a] < w[b]
    BY <1>3, <1>4 DEF Less
  <1>7. ASSUME NEW s \in Seq(Present), Ascends(s, w) PROVE SqlSorted(s, order)
    <2>1. DOMAIN s = 1 .. Len(s) /\ \A i \in 1 .. Len(s) : s[i] \in Present
      BY LenProperties
    <2>2. ASSUME NEW i \in 1 .. Len(s), NEW j \in 1 .. Len(s), i < j
          PROVE  LET a == JsonExtract(docs[s[i]])
                     b == JsonExtract(docs[s[j]])
                     below(x, y) == x[1] < y[1] \/ (x[1] = y[1] /\ x[2] < y[2])
                 IN  /\ order = "ASC" => ~below(b, a)
                     /\ order = "DESC" => ~below(a, b)
      <3> DEFINE p == s[i]
                 q == s[j]
      <3>1. p \in Present /\ q \in Present /\ w[p] <= w[q]
        BY <1>7, <2>1, <2>2 DEF Ascends
      <3> HIDE DEF p, q
      <3>2. /\ order = "ASC" => v[p] <= v[q]
            /\ order = "DESC" => v[q] <= v[p]
        BY <1>3, <3>1
      <3>3. PICK c \in {1, 2} : JsonExtract(docs[p]) = <<c, v[p]>>
                                /\ JsonExtract(docs[q]) = <<c, v[q]>>
        BY <1>1, <1>5, <3>1
      <3>4. v[p] \in Int /\ v[q] \in Int
        BY <1>3, <3>1
      <3> QED
        BY <3>2, <3>3, <3>4 DEF p, q
    <2> QED
      BY <2>1, <2>2 DEF SqlSorted
  <1> HIDE DEF w
  <1> QED
    BY <1>3, <1>6, <1>7

(* The rows that the loop of execFindAsOf keeps: each matching key once. *)
LEMMA ReplayLists ==
    ASSUME NEW P \in SUBSET Keys
    PROVE  LET c == Collect(KeyOrder, P)
           IN  c \in Seq(P) /\ IsInjective(c) /\ ToSet(c) = P
  <1>1. KeyOrder \in Seq(Keys) /\ IsInjective(KeyOrder) /\ ToSet(KeyOrder) = Keys
    <2>1. KeyOrder \in [1 .. NumKeys -> Keys] /\ DOMAIN KeyOrder = Keys
      BY DEF KeyOrder, Keys
    <2>2. KeyOrder \in Seq(Keys)
      BY <2>1, FindAssumption, SeqDef
    <2>3. \A k \in Keys : KeyOrder[k] = k
      BY DEF KeyOrder
    <2>4. IsInjective(KeyOrder)
      BY <2>1, <2>3, Zenon DEF IsInjective
    <2>5. ToSet(KeyOrder) = Keys
      BY <2>1, <2>3 DEF ToSet
    <2> QED
      BY <2>2, <2>4, <2>5
  <1>2. Keys \cap P = P
    OBVIOUS
  <1>3. Collect(KeyOrder, P) \in Seq(P)
    <2>1. PICK g \in [0 .. Len(KeyOrder) -> Seq(Keys \cap P)] :
              Collect(KeyOrder, P) = g[Len(KeyOrder)]
      BY <1>1, CollectRounds, Zenon
    <2>2. Len(KeyOrder) \in 0 .. Len(KeyOrder)
      BY <1>1, LenProperties
    <2> QED
      BY <1>2, <2>1, <2>2
  <1> QED
    BY <1>1, <1>2, <1>3, CollectFacts

(* A filter of covered terms keeps the same documents on both sides. *)
LEMMA FiltersAgree ==
    ASSUME DocsOK, NEW expr \in SUBSET AgreedTerms
    PROVE  FindLive(expr) = MatchExpr(expr)
  <1>1. ASSUME NEW k \in Present, NEW c \in expr
        PROVE  CompileTerm(docs[k], c.op, c.value) <=> MatchTerm(docs[k], c.op, c.value)
    <2>1. /\ c.op \in CmpOp /\ c.value \in Operands
          /\ Compiles(c.op, c.value) /\ Covered(docs[k], c.op, c.value)
      BY DEF AgreedTerms
    <2>2. docs[k] \in Json \cup {Missing} /\ c.value \in Json
      BY <2>1, FindAssumption DEF DocsOK, Present
    <2> QED
      BY <2>1, <2>2, TermsAgree
  <1> QED
    BY <1>1 DEF FindLive, MatchExpr

(* A whole statement: with any covered filter, any order and any page, on  *)
(* a uniform collection, Go's answer is one of SQL's.                      *)
LEMMA StatementsAgree ==
    ASSUME DocsOK, Uniform, NEW expr \in SUBSET AgreedTerms,
           NEW order \in {"none", "ASC", "DESC"}, NEW limit \in Nat, NEW offset \in Nat
    PROVE  ExecFindAsOf(expr, order, limit, offset) \in ExecFind(expr, order, limit, offset)
  <1> DEFINE P == FindLive(expr)
             c == Collect(KeyOrder, P)
             r == IF order = "none" THEN c ELSE SliceStable(c, order)
  <1>1. P = MatchExpr(expr)
    BY FiltersAgree
  <1>2. P \subseteq Present /\ P \subseteq Keys
    BY DEF FindLive, Present
  <1>3. IsFiniteSet(P)
    <2>1. IsFiniteSet(Keys)
      BY FindAssumption, FS_Interval DEF Keys
    <2> QED
      BY <1>2, <2>1, FS_Subset
  <1> HIDE DEF P
  <1>4. c \in Seq(P) /\ IsInjective(c) /\ ToSet(c) = P
    BY <1>2, ReplayLists
  <1>5. c \in Seq(Present)
    BY <1>2, <1>4, SeqMonotonic
  <1>6. ExecFindAsOf(expr, order, limit, offset) = Slice(r, limit, offset)
    BY <1>1 DEF ExecFindAsOf, SortAndLimit
  <1> HIDE DEF c
  <1>7. r \in Seq(P) /\ IsInjective(r) /\ ToSet(r) = P /\ SqlSorted(r, order)
    <2>1. CASE order = "none"
      <3>1. r = c
        BY <2>1
      <3>2. SqlSorted(r, order)
        BY <2>1 DEF SqlSorted
      <3> QED
        BY <1>4, <3>1, <3>2
    <2>2. CASE order # "none"
      <3>1. r = SliceStable(c, order) /\ order \in {"ASC", "DESC"}
        BY <2>2
      <3> HIDE DEF r
      <3>2. PICK w \in [Present -> Int] :
                /\ \A a, b \in Present : Less(a, b, order) <=> w[a] < w[b]
                /\ \A s \in Seq(Present) : Ascends(s, w) => SqlSorted(s, order)
        BY <3>1, UniformWeights
      <3>3. r \in Seq(Present) /\ IsInjective(r) /\ ToSet(r) = P /\ Ascends(r, w)
        BY <1>4, <1>5, <3>1, <3>2, SortFacts
      <3>4. r \in Seq(Range(r)) /\ Range(r) = ToSet(r)
        BY <3>3, SeqOfRange DEF Range, ToSet
      <3> QED
        BY <3>2, <3>3, <3>4
    <2> QED
      BY <2>1, <2>2
  <1> HIDE DEF r
  <1>8. r \in SetToSeqs(P)
    BY <1>3, <1>7, ListsOfSet
  <1>9. Slice(r, limit, offset) = SqlPage(r, limit, offset)
    BY <1>7, SamePage
  <1>10. SqlPage(r, limit, offset) \in ExecFind(expr, order, limit, offset)
    BY <1>7, <1>8 DEF ExecFind, P
  <1> QED
    BY <1>6, <1>9, <1>10

(* OrderAgrees: for every collection whose field is a number or a string   *)
(* throughout, of any size, the page that execFindAsOf filters, sorts and  *)
(* cuts is one that the SQL of execFind may return.                        *)
THEOREM OrdersAgree == SearchSpec => []OrderAgrees
  <1>1. ASSUME DocsOK PROVE OrderAgrees
    <2> SUFFICES ASSUME Uniform, NEW expr \in {{}} \cup {{c} : c \in AgreedTerms},
                        NEW order \in {"none", "ASC", "DESC"},
                        NEW limit \in 0 .. NumKeys, NEW offset \in 0 .. NumKeys
                 PROVE  ExecFindAsOf(expr, order, limit, offset)
                            \in ExecFind(expr, order, limit, offset)
      BY DEF OrderAgrees
    <2>1. expr \in SUBSET AgreedTerms
      OBVIOUS
    <2>2. limit \in Nat /\ offset \in Nat
      BY FindAssumption
    <2> QED
      BY <1>1, <2>1, <2>2, StatementsAgree
  <1>2. DocsOK => OrderAgrees
    BY <1>1
  <1> QED
    BY <1>2, DocsTyped, PTL
-----------------------------------------------------------------------------
PointsOK == points \subseteq Keys \cup {Foreign}

(* The index holds points of keys, and the foreign one. *)
THEOREM PointsTyped == SearchSpec => []PointsOK
  <1>1. SearchInit => PointsOK
    BY DEF SearchInit, PointsOK
  <1>2. PointsOK /\ [SearchNext]_searchVars => PointsOK'
    BY DEF PointsOK, SearchNext, searchVars, Upsert, ForeignUpsert, Keys
  <1> QED
    BY <1>1, <1>2, PTL DEF SearchSpec

(* A ranking lists the points, each once. *)
LEMMA RankingLists ==
    ASSUME PointsOK, NEW r \in Rankings
    PROVE  r \in Seq(points) /\ IsInjective(r) /\ ToSet(r) = points
  <1>1. IsFiniteSet(Keys)
    BY FindAssumption, FS_Interval DEF Keys
  <1>2. IsFiniteSet(Keys \cup {Foreign})
    BY <1>1, FS_AddElement
  <1>3. IsFiniteSet(points)
    BY <1>2, FS_Subset DEF PointsOK
  <1> QED
    BY <1>3, ListsOfSet DEF Rankings

(* The best n hits. *)
LEMMA FirstFacts ==
    ASSUME NEW X, NEW r \in Seq(X), NEW n \in Nat
    PROVE  /\ First(r, n) \in Seq(X)
           /\ Len(First(r, n)) = IF n < Len(r) THEN n ELSE Len(r)
           /\ \A i \in 1 .. Len(First(r, n)) : First(r, n)[i] = r[i]
           /\ n >= Len(r) => First(r, n) = r
           /\ IsInjective(r) => IsInjective(First(r, n))
  <1> DEFINE N == Len(r)
             m == IF n < N THEN n ELSE N
             f == SubSeq(r, 1, m)
  <1>1. N \in Nat /\ DOMAIN r = 1 .. N /\ \A i \in 1 .. N : r[i] \in X
    BY LenProperties
  <1>2. First(r, n) = f
    BY DEF First
  <1>3. SubSeq(r, 1, N) = r
    BY SubSeqFull
  <1> HIDE DEF N
  <1>4. m \in Nat /\ m <= N /\ (n >= N => m = N)
    BY <1>1
  <1> HIDE DEF m
  <1>5. m \in Int /\ \A i \in 1 .. m : r[i] \in X
    BY <1>1, <1>4
  <1>6. /\ f \in Seq(X) /\ Len(f) = IF 1 <= m THEN m - 1 + 1 ELSE 0
        /\ \A i \in 1 .. m - 1 + 1 : f[i] = r[1 + i - 1]
    BY <1>5, SubSeqProperties
  <1>7. n >= N => f = r
    BY <1>3, <1>4
  <1>8. DOMAIN f = 1 .. Len(f)
    BY <1>6, LenProperties
  <1> HIDE DEF f
  <1>9. Len(f) = m /\ \A i \in 1 .. m : f[i] = r[i]
    BY <1>4, <1>6
  <1>10. ASSUME \A i, j \in 1 .. N : r[i] = r[j] => i = j,
                NEW i \in 1 .. m, NEW j \in 1 .. m, f[i] = f[j]
         PROVE  i = j
    <2>1. i \in 1 .. N /\ j \in 1 .. N
      BY <1>1, <1>4
    <2> QED
      BY <1>9, <1>10, <2>1
  <1>11. IsInjective(r) => IsInjective(f)
    BY <1>1, <1>8, <1>9, <1>10, Zenon DEF IsInjective
  <1> QED
    BY <1>2, <1>6, <1>7, <1>9, <1>11 DEF m, N

(* One search without LIMIT, with any filter. *)
LEMMA SearchRows ==
    ASSUME PointsOK, NEW r \in Rankings, NEW expr
    PROVE  LET rows == ExecSearch(r, expr, 0, 0)
           IN  /\ IsInjective(rows)
               /\ ToSet(rows) = FindLive(expr) \cap ToSet(First(r, DefaultLimit))
  <1> DEFINE f == First(r, DefaultLimit)
             keys == Collect(f, Keys)
  <1>1. r \in Seq(points) /\ IsInjective(r)
    BY RankingLists
  <1>2. f \in Seq(points) /\ IsInjective(f)
    BY <1>1, SearchAssumption, FirstFacts
  <1> HIDE DEF f
  <1>3. keys \in Seq(points) /\ IsInjective(keys) /\ ToSet(keys) = ToSet(f) \cap Keys
    BY <1>2, CollectFacts
  <1>4. SubSeq(keys, 0 + 1, Len(keys)) = keys
    BY <1>3, SubSeqFull
  <1>5. ExecSearch(r, expr, 0, 0) = Collect(keys, FindLive(expr))
    <2>1. Fetch(0, 0) = 0
      BY DEF Fetch
    <2>2. IndexSearch(r, 0) = keys
      BY DEF IndexSearch, f
    <2> QED
      BY <1>4, <2>1, <2>2 DEF ExecSearch, Hydrate
  <1> HIDE DEF keys
  <1>6. FindLive(expr) \subseteq Keys
    BY DEF FindLive, Present
  <1>7. /\ IsInjective(Collect(keys, FindLive(expr)))
        /\ ToSet(Collect(keys, FindLive(expr))) = ToSet(keys) \cap FindLive(expr)
    BY <1>3, CollectFacts
  <1> QED
    BY <1>3, <1>5, <1>6, <1>7 DEF f

(* SearchAgreesWithFind: however the index has drifted away from the       *)
(* documents and in whatever order it ranks its points, execSearch without *)
(* LIMIT returns the documents of FIND that are among the default number   *)
(* of hits, none twice.                                                    *)
THEOREM SearchFindsLive == SearchSpec => []SearchAgreesWithFind
  <1>1. PointsOK => SearchAgreesWithFind
    BY SearchRows DEF SearchAgreesWithFind
  <1> QED
    BY <1>1, PointsTyped, PTL
-----------------------------------------------------------------------------
(* h[i] is the first i of N sequences, one after the other. *)
Concatenates(h, seqs, N) ==
    /\ h = [i \in 1 .. N |-> h[i]]
    /\ h[1] = seqs[1]
    /\ \A i \in 2 .. N : h[i] = h[i - 1] \o seqs[i]

(* FlattenSeq is the last of them. *)
LEMMA FlattenIs ==
    ASSUME NEW N \in Nat \ {0}, NEW seqs, Len(seqs) = N,
           NEW h, Concatenates(h, seqs, N)
    PROVE  FlattenSeq(seqs) = h[N]
  <1> DEFINE Cat(i, q) == q \o seqs[i]
             Loop(f) == [i \in 1 .. N |-> IF i = 1 THEN seqs[i] ELSE Cat(i, f[i - 1])]
             g == CHOOSE f : f = Loop(f)
  <1>1. FlattenSeq(seqs) = g[N]
    BY DEF FlattenSeq
  <1>2. h[1] = seqs[1] /\ \A i \in 2 .. N : h[i] = Cat(i, h[i - 1])
    BY DEF Concatenates
  <1> HIDE DEF Cat
  <1>3. h = Loop(h)
    <2>1. \A i \in 1 .. N : h[i] = Loop(h)[i]
      BY <1>2
    <2>2. h = [i \in 1 .. N |-> h[i]]
      BY DEF Concatenates
    <2>3. [i \in 1 .. N |-> h[i]] = [i \in 1 .. N |-> Loop(h)[i]]
      BY <2>1
    <2>4. Loop(h) = [i \in 1 .. N |-> Loop(h)[i]]
      OBVIOUS
    <2> HIDE DEF Loop
    <2> QED
      BY <2>2, <2>3, <2>4, Zenon
  <1>4. g = Loop(g)
    <2> HIDE DEF Loop
    <2> QED
      BY <1>3
  <1> HIDE DEF g
  <1> DEFINE T == {n \in 0 .. N : n = 0 \/ g[n] = h[n]}
  <1>5. 0 \in T
    OBVIOUS
  <1>6. ASSUME NEW n \in 1 .. N, n - 1 \in T PROVE n \in T
    <2>1. g[n] = Loop(g)[n] /\ h[n] = Loop(h)[n]
      BY <1>3, <1>4
    <2>2. CASE n = 1
      BY <2>1, <2>2
    <2>3. CASE n # 1
      <3>1. g[n - 1] = h[n - 1]
        BY <1>6, <2>3
      <3> QED
        BY <2>1, <2>3, <3>1
    <2> QED
      BY <2>2, <2>3
  <1> HIDE DEF T
  <1>7. \A n \in 0 .. N : n \in T
    BY <1>5, <1>6, CountingUp
  <1>8. g[N] = h[N]
    BY <1>7 DEF T
  <1> QED
    BY <1>1, <1>8

(* One page of a search over points that all have a key: the rows between  *)
(* what the smaller and what the larger number of hits gives.              *)
LEMMA PageRows ==
    ASSUME NEW r \in Seq(Keys), NEW expr, NEW size \in Nat \ {0}, NEW o \in Nat
    PROVE  LET L == FindLive(expr)
               page == ExecSearch(r, expr, size, o)
           IN  /\ page \in Seq(Keys)
               /\ Collect(First(r, o), L) \o page = Collect(First(r, o + size), L)
               /\ o = 0 => page = Collect(First(r, size), L)
  <1> DEFINE L == FindLive(expr)
             q == First(r, o + size)
             p == First(r, o)
             d == SubSeq(q, o + 1, Len(q))
  <1>1. o + size \in Nat /\ o + size > 0 /\ Fetch(size, o) = o + size
    BY DEF Fetch
  <1>2. /\ q \in Seq(Keys) /\ p \in Seq(Keys)
        /\ Len(q) = IF o + size < Len(r) THEN o + size ELSE Len(r)
        /\ Len(p) = IF o < Len(r) THEN o ELSE Len(r)
        /\ \A i \in 1 .. Len(q) : q[i] = r[i]
        /\ \A i \in 1 .. Len(p) : p[i] = r[i]
        /\ o >= Len(r) => p = r
        /\ o + size >= Len(r) => q = r
    BY <1>1, FirstFacts
  <1>3. ExecSearch(r, expr, size, o) = Collect(d, L)
    <2>1. ToSet(q) \subseteq Keys
      BY <1>2, LenProperties DEF ToSet
    <2>2. Collect(q, Keys) = q
      BY <1>2, <2>1, CollectFacts
    <2>3. IndexSearch(r, o + size) = Collect(q, Keys)
      BY <1>1 DEF IndexSearch
    <2> QED
      BY <1>1, <2>2, <2>3 DEF ExecSearch, Hydrate
  <1> DEFINE M == Len(r)
             N == Len(q)
  <1>4. M \in Nat /\ N \in Nat /\ \A i \in 1 .. N : q[i] \in Keys
    BY <1>2, LenProperties
  <1> HIDE DEF p, q, M, N
  <1>5. d \in Seq(Keys)
    <2>1. \A i \in o + 1 .. N : q[i] \in Keys
      BY <1>4
    <2>2. SubSeq(q, o + 1, N) \in Seq(Keys)
      BY <1>4, <2>1, SubSeqProperties
    <2> QED
      BY <2>2 DEF N
  <1>6. SubSeq(q, 1, N) = q
    BY <1>2, SubSeqFull DEF N
  <1>7. p \o d = q
    <2>1. CASE o < M
      <3>1. Len(p) = o /\ o <= N /\ \A i \in 1 .. o : p[i] = q[i]
        BY <1>2, <1>4, <2>1 DEF M, N
      <3> DEFINE b == SubSeq(q, 1, o)
      <3>2. /\ b \in Seq(Keys) /\ Len(b) = IF 1 <= o THEN o - 1 + 1 ELSE 0
            /\ \A i \in 1 .. o - 1 + 1 : b[i] = q[1 + i - 1]
        <4>1. \A i \in 1 .. o : q[i] \in Keys
          BY <1>4, <3>1
        <4> QED
          BY <4>1, SubSeqProperties
      <3>3. b \o d = SubSeq(q, 1, N)
        <4>1. /\ 1 \in 1 .. N + 1 /\ o \in 1 - 1 .. N /\ N \in o .. N
          BY <1>4, <3>1
        <4> QED
          BY <1>2, <4>1, ConcatAdjacentSubSeq DEF N
      <3> HIDE DEF b, d
      <3>4. Len(b) = o /\ \A i \in 1 .. o : b[i] = p[i]
        BY <3>1, <3>2
      <3>5. b = p
        BY <1>2, <3>1, <3>2, <3>4, SeqEqual
      <3> QED
        BY <1>6, <3>3, <3>5
    <2>2. CASE o >= M
      <3>1. p = r /\ q = r /\ N = M
        BY <1>2, <1>4, <2>2 DEF M, N
      <3>2. d = <<>>
        BY <1>4, <2>2, <3>1, SubSeqEmpty DEF N
      <3> HIDE DEF d
      <3> QED
        BY <3>1, <3>2, ConcatEmptySeq
    <2> QED
      BY <1>4, <2>1, <2>2
  <1>8. Collect(p, L) \o Collect(d, L) = Collect(q, L)
    <2> HIDE DEF d, L
    <2> QED
      BY <1>2, <1>5, <1>7, CollectConcat
  <1>9. Collect(d, L) \in Seq(Keys)
    <2> HIDE DEF d, L
    <2> QED
      BY <1>5, CollectFacts
  <1>10. o = 0 => d = q
    BY <1>6 DEF N
  <1>11. o = 0 => q = First(r, size)
    BY DEF q
  <1> HIDE DEF d
  <1>12. /\ ExecSearch(r, expr, size, o) \in Seq(Keys)
         /\ Collect(First(r, o), L) \o ExecSearch(r, expr, size, o)
                = Collect(First(r, o + size), L)
         /\ o = 0 => ExecSearch(r, expr, size, o) = Collect(First(r, size), L)
    <2> HIDE DEF L
    <2>1. o = 0 => ExecSearch(r, expr, size, o) = Collect(First(r, size), L)
      BY <1>3, <1>10, <1>11, Zenon
    <2> QED
      BY <1>3, <1>8, <1>9, <2>1, Zenon DEF p, q
  <1> QED
    BY <1>12, Zenon

(* All pages, with any filter. *)
LEMMA AllPagesRows ==
    ASSUME PointsOK, Foreign \notin points, NEW r \in Rankings, NEW expr,
           NEW size \in Nat \ {0}
    PROVE  LET rows == AllPages(r, expr, size)
           IN  ToSet(rows) = FindLive(expr) \cap points /\ InOrderOf(r, rows)
  <1> DEFINE L == FindLive(expr)
             M == Len(r)
             page(i) == ExecSearch(r, expr, size, (i - 1) * size)
             pages == [i \in 1 .. M + 1 |-> page(i)]
             h == [i \in 1 .. M + 1 |-> Collect(First(r, i * size), L)]
  <1>1. r \in Seq(points) /\ ToSet(r) = points
    BY RankingLists
  <1>2. points \subseteq Keys
    BY DEF PointsOK
  <1>3. r \in Seq(Keys)
    BY <1>1, <1>2, SeqMonotonic
  <1>4. M \in Nat /\ size \in Nat \ {0}
    BY <1>3, LenProperties, FindAssumption
  <1> HIDE DEF M
  <1>5. ASSUME NEW i \in 1 .. M + 1
        PROVE  /\ i - 1 \in Nat /\ (i - 1) * size \in Nat /\ i * size \in Nat
               /\ (i - 1) * size + size = i * size
    BY <1>4
  <1>6. ASSUME NEW i \in 1 .. M + 1
        PROVE  /\ page(i) \in Seq(Keys)
               /\ Collect(First(r, (i - 1) * size), L) \o page(i) =
                      Collect(First(r, i * size), L)
               /\ (i - 1) * size = 0 => page(i) = Collect(First(r, size), L)
    <2> DEFINE o == (i - 1) * size
    <2>1. o \in Nat /\ o + size = i * size
      BY <1>5
    <2> HIDE DEF o
    <2> DEFINE q == ExecSearch(r, expr, size, o)
    <2>2. /\ q \in Seq(Keys)
          /\ Collect(First(r, o), L) \o q = Collect(First(r, o + size), L)
          /\ o = 0 => q = Collect(First(r, size), L)
      BY <1>3, <1>4, <2>1, PageRows
    <2> HIDE DEF L
    <2> QED
      BY <2>1, <2>2 DEF o
  <1>7. Len(pages) = M + 1
    <2>1. pages \in [1 .. M + 1 -> Seq(Keys)]
      BY <1>6
    <2> HIDE DEF pages
    <2>2. pages \in Seq(Seq(Keys)) /\ DOMAIN pages = 1 .. M + 1
      BY <1>4, <2>1, SeqDef
    <2> QED
      BY <1>4, <2>2, LenProperties
  <1>8. h \in [1 .. M + 1 -> Seq(Keys)]
    <2>1. ASSUME NEW i \in 1 .. M + 1
          PROVE  Collect(First(r, i * size), L) \in Seq(Keys)
      BY <1>3, <1>5, FirstFacts, CollectFacts
    <2> HIDE DEF L
    <2> QED
      BY <2>1
  <1>9. h[1] = pages[1]
    <2>1. 1 \in 1 .. M + 1 /\ (1 - 1) * size = 0 /\ 1 * size = size
      BY <1>4
    <2>2. page(1) = Collect(First(r, size), L)
      BY <1>6, <2>1
    <2> HIDE DEF page
    <2> QED
      BY <2>1, <2>2
  <1>10. ASSUME NEW i \in 2 .. M + 1 PROVE h[i] = h[i - 1] \o pages[i]
    <2>1. i \in 1 .. M + 1 /\ i - 1 \in 1 .. M + 1
      BY <1>4
    <2>2. Collect(First(r, (i - 1) * size), L) \o page(i) = Collect(First(r, i * size), L)
      BY <1>6, <2>1
    <2> HIDE DEF page, L
    <2> QED
      BY <2>1, <2>2
  <1>11. FlattenSeq(pages) = h[M + 1]
    <2> DEFINE K == M + 1
    <2>1. K \in Nat \ {0}
      BY <1>4
    <2>2. h = [i \in 1 .. K |-> h[i]]
      <3> HIDE DEF h
      <3> QED
        BY <1>8
    <2> HIDE DEF pages, h
    <2>3. Concatenates(h, pages, K)
      BY <1>9, <1>10, <2>2 DEF Concatenates
    <2>4. Len(pages) = K
      BY <1>7
    <2> HIDE DEF K
    <2>5. FlattenSeq(pages) = h[K]
      BY <2>1, <2>3, <2>4, FlattenIs
    <2> QED
      BY <2>5 DEF K
  <1>12. h[M + 1] = Collect(r, L)
    <2>1. (M + 1) * size \in Nat /\ (M + 1) * size >= M /\ M + 1 \in 1 .. M + 1
      BY <1>4
    <2>2. First(r, (M + 1) * size) = r
      BY <1>3, <2>1, FirstFacts DEF M
    <2> QED
      BY <2>1, <2>2
  <1>13. AllPages(r, expr, size) = Collect(r, L)
    BY <1>11, <1>12 DEF AllPages, M
  <1>14. ToSet(Collect(r, L)) = points \cap L
    <2> HIDE DEF L
    <2> QED
      BY <1>1, CollectFacts
  <1>15. InOrderOf(r, Collect(r, L))
    <2> HIDE DEF L
    <2> QED
      BY <1>1, CollectKeepsOrder
  <1> HIDE DEF L
  <1>16. ToSet(AllPages(r, expr, size)) = L \cap points
    BY <1>13, <1>14
  <1> QED
    BY <1>13, <1>15, <1>16, Zenon DEF L

(* SearchPagesAddUp: over an index without foreign points, reading SEARCH  *)
(* page after page meets every indexed document of FIND once, in relevance *)
(* order, for any page size and ranking, though deleted and filtered       *)
(* documents leave pages short.                                            *)
THEOREM SearchPagesComplete == SearchSpec => []SearchPagesAddUp
  <1>1. \A size \in 1 .. NumKeys : size \in Nat \ {0}
    BY FindAssumption
  <1>2. PointsOK => SearchPagesAddUp
    BY <1>1, AllPagesRows DEF SearchPagesAddUp
  <1> QED
    BY <1>2, PointsTyped, PTL
=============================================================================
