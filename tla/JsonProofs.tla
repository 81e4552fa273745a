---- MODULE JsonProofs ----
(***************************************************************************)
(* Lemmas about the JSON values and texts the firewall handles, for every  *)
(* value, text, pattern and set of rules: what the walks over a value are  *)
(* (each a recursive function, shown to exist and to satisfy its           *)
(* equation), what redacting a text leaves of it, and what the rewritings  *)
(* of a body keep.                                                         *)
(***************************************************************************)
EXTENDS RequestShape, PromptText, ContentRules, SequenceTheorems, WellFoundedInduction, TLAPS

(***************************************************************************)
(* Induction and recursion along a rank.                                   *)
(***************************************************************************)
(* A set of numbers has a least element.                                   *)
LEMMA LeastNumber ==
    ASSUME NEW T, T \subseteq Nat, T # {}
    PROVE  \E n \in T : \A m \in T : n <= m
<1>1. PICK n \in T : \A m \in T : ~(<<m, n>> \in OpToRel(<, Nat))
  BY WFMin, NatLessThanWellFounded
<1>2. \A m \in T : ~(m < n)
  BY <1>1 DEF OpToRel
<1>3. \A m \in T : m \in Nat
  OBVIOUS
<1> QED
  BY <1>2, <1>3

(* A set holds a whole domain if it holds an element whenever it holds all *)
(* of lower rank.                                                          *)
LEMMA RankInduction ==
    ASSUME NEW D, NEW rank \in [D -> Nat], NEW S,
           \A v \in D : (\A w \in D : rank[w] < rank[v] => w \in S) => v \in S
    PROVE  D \subseteq S
<1> SUFFICES ASSUME NEW u \in D, u \notin S PROVE FALSE
  OBVIOUS
<1> DEFINE T == {rank[v] : v \in D \ S}
<1>1. T \subseteq Nat /\ T # {}
  OBVIOUS
<1>2. PICK n \in T : \A m \in T : n <= m
  BY <1>1, LeastNumber
<1>3. PICK v \in D \ S : rank[v] = n
  BY <1>2
<1>4. ASSUME NEW w \in D, rank[w] < rank[v] PROVE w \in S
  <2>1. rank[w] \in Nat /\ rank[v] \in Nat
    OBVIOUS
  <2>2. w \notin S => n <= rank[w]
    BY <1>2
  <2> QED
    BY <1>3, <1>4, <2>1, <2>2
<1> QED
  BY <1>3, <1>4

(* Induction from 0 up to a bound, and from a bound down to 1.             *)
LEMMA UpInduction ==
    ASSUME NEW N \in Nat, NEW S, 0 \in S, \A n \in 1..N : n - 1 \in S => n \in S
    PROVE  0..N \subseteq S
<1> DEFINE D == 0..N
           rank == [n \in D |-> n]
<1>1. rank \in [D -> Nat]
  OBVIOUS
<1>2. ASSUME NEW n \in D, \A m \in D : rank[m] < rank[n] => m \in S PROVE n \in S
  <2>1. CASE n = 0
    BY <2>1
  <2>2. CASE n # 0
    <3>1. n \in 1..N /\ n - 1 \in D /\ rank[n - 1] < rank[n]
      BY <2>2
    <3> QED
      BY <1>2, <3>1
  <2> QED
    BY <2>1, <2>2
<1>3. D \subseteq S
  <2>1. \A n \in D : (\A m \in D : rank[m] < rank[n] => m \in S) => n \in S
    BY <1>2
  <2> HIDE DEF D, rank
  <2> QED
    BY <1>1, <2>1, RankInduction
<1> QED
  BY <1>3

LEMMA DownInduction ==
    ASSUME NEW N \in Nat, NEW S, \A i \in 1..N : (\A j \in (i + 1)..N : j \in S) => i \in S
    PROVE  1..N \subseteq S
<1> DEFINE D == 1..N
           rank == [i \in D |-> N - i]
<1>1. rank \in [D -> Nat]
  OBVIOUS
<1>2. ASSUME NEW i \in D, \A j \in D : rank[j] < rank[i] => j \in S PROVE i \in S
  <2>1. \A j \in (i + 1)..N : j \in D /\ rank[j] < rank[i]
    OBVIOUS
  <2> QED
    BY <1>2, <2>1
<1>3. D \subseteq S
  <2>1. \A i \in D : (\A j \in D : rank[j] < rank[i] => j \in S) => i \in S
    BY <1>2
  <2> HIDE DEF D, rank
  <2> QED
    BY <1>1, <2>1, RankInduction
<1> QED
  BY <1>3

(* F computes the value at an argument from values of lower rank only.     *)
Descends(F, D, T, rank) ==
    /\ rank \in [D -> Nat]
    /\ \E top \in Nat : \A v \in D : rank[v] <= top
    /\ F \in [[D -> T] -> [D -> T]]
    /\ \A g, h \in [D -> T], v \in D :
          (\A w \in D : rank[w] < rank[v] => g[w] = h[w]) => F[g][v] = F[h][v]

(* A function that is computed so exists.                                  *)
LEMMA RankRecursion ==
    ASSUME NEW D, NEW T, NEW rank, NEW F, T # {}, Descends(F, D, T, rank)
    PROVE  \E f \in [D -> T] : f = F[f]
<1> USE DEF Descends
<1>0. PICK top \in Nat : \A v \in D : rank[v] <= top
  OBVIOUS
<1> DEFINE Holds(n) == \E g \in [D -> T] : \A v \in D : rank[v] < n => g[v] = F[g][v]
           U == 0..(top + 1)
           S == {n \in 0..(top + 1) : Holds(n)}
           same == [n \in U |-> n]
<1>1. ASSUME NEW n \in U, \A m \in U : same[m] < same[n] => m \in S
      PROVE  n \in S
  <2>1. CASE n = 0
    <3>1. [v \in D |-> CHOOSE base \in T : TRUE] \in [D -> T]
      OBVIOUS
    <3>2. \A v \in D : ~(rank[v] < 0)
      OBVIOUS
    <3> QED
      BY <2>1, <3>1, <3>2
  <2>2. CASE n # 0
    <3>1. n - 1 \in U /\ same[n - 1] < same[n]
      BY <2>2
    <3>2. PICK g \in [D -> T] : \A v \in D : rank[v] < n - 1 => g[v] = F[g][v]
      BY <1>1, <3>1
    <3>3. F[g] \in [D -> T]
      OBVIOUS
    <3>4. ASSUME NEW v \in D, rank[v] < n PROVE F[g][v] = F[F[g]][v]
      <4>1. \A w \in D : rank[w] < rank[v] => g[w] = F[g][w]
        BY <3>2, <3>4
      <4> QED
        BY <3>3, <4>1
    <3> QED
      BY <3>3, <3>4
  <2> QED
    BY <2>1, <2>2
<1>2. same \in [U -> Nat]
  OBVIOUS
<1>3. U \subseteq S
  <2> HIDE DEF S, same, U
  <2> QED
    BY <1>1, <1>2, RankInduction
<1>4. PICK g \in [D -> T] : \A v \in D : rank[v] < top + 1 => g[v] = F[g][v]
  BY <1>3
<1>5. \A v \in D : g[v] = F[g][v]
  BY <1>0, <1>4
<1> QED
  BY <1>5

-----------------------------------------------------------------------------
(***************************************************************************)
(* Concatenating what a function yields for the items of a sequence.       *)
(***************************************************************************)
Yields(f, items, S) == \A i \in 1..Len(items) : f[items[i]] \in Seq(S)

BuiltUp(upTo, f, items, S) ==
    /\ upTo \in [0..Len(items) -> Seq(S)]
    /\ upTo[0] = <<>>
    /\ \A n \in 1..Len(items) : upTo[n] = upTo[n - 1] \o f[items[n]]
    /\ FlatMap(f, items) = upTo[Len(items)]

(* The concatenation is built up item by item.                             *)
LEMMA FlatMapSteps ==
    ASSUME NEW S, NEW I, NEW items \in Seq(I), NEW f, Yields(f, items, S)
    PROVE  \E upTo : BuiltUp(upTo, f, items, S)
<1> USE DEF Yields
<1> DEFINE D == 0..Len(items)
           T == Seq(S)
           Next1(g, n) == IF n = 0 THEN <<>> ELSE g[n - 1] \o f[items[n]]
           F == [g \in [D -> T] |-> [n \in D |-> Next1(g, n)]]
           rank == [n \in D |-> n]
<1>1. Len(items) \in Nat
  OBVIOUS
<1>2. rank \in [D -> Nat] /\ \A n \in D : rank[n] <= Len(items)
  BY <1>1
<1>3. <<>> \in T
  OBVIOUS
<1>4. F \in [[D -> T] -> [D -> T]]
  <2>1. ASSUME NEW g \in [D -> T], NEW n \in D PROVE Next1(g, n) \in T
    <3>1. CASE n = 0
      BY <3>1
    <3>2. CASE n # 0
      <4>1. n \in 1..Len(items) /\ n - 1 \in D
        BY <1>1, <3>2
      <4>2. g[n - 1] \in T /\ f[items[n]] \in T
        BY <4>1
      <4> QED
        BY <3>2, <4>2
    <3> QED
      BY <3>1, <3>2
  <2> HIDE DEF Next1
  <2> QED
    BY <2>1
<1>5. ASSUME NEW g \in [D -> T], NEW h \in [D -> T], NEW n \in D,
             \A m \in D : rank[m] < rank[n] => g[m] = h[m]
      PROVE  F[g][n] = F[h][n]
  <2>1. n # 0 => n - 1 \in D /\ rank[n - 1] < rank[n]
    BY <1>1
  <2>2. Next1(g, n) = Next1(h, n)
    BY <1>5, <2>1
  <2> HIDE DEF Next1
  <2> QED
    BY <2>2
<1>6. \E g \in [D -> T] : g = F[g]
  <2>1. T # {} /\ \E top \in Nat : \A n \in D : rank[n] <= top
    BY <1>1, <1>2, <1>3
  <2>2. \A g, h \in [D -> T], n \in D :
           (\A m \in D : rank[m] < rank[n] => g[m] = h[m]) => F[g][n] = F[h][n]
    BY <1>5
  <2> HIDE DEF F, D, T, rank
  <2>3. Descends(F, D, T, rank)
    BY <1>2, <1>4, <2>1, <2>2 DEF Descends
  <2> QED
    BY <2>1, <2>3, RankRecursion
<1>7. PICK g0 \in [D -> T] : g0 = [n \in D |-> Next1(g0, n)]
  BY <1>6
<1> DEFINE upTo == CHOOSE g : g = [n \in D |-> Next1(g, n)]
           A(h) == {n \in D : upTo[n] = h[n]}
<1>8. upTo = [n \in D |-> Next1(upTo, n)]
  <2> HIDE DEF Next1, D
  <2> QED
    BY <1>7
<1>9. FlatMap(f, items) = upTo[Len(items)]
  BY DEF FlatMap
<1> HIDE DEF upTo
<1>10. upTo[0] = <<>> /\ \A n \in 1..Len(items) : upTo[n] = upTo[n - 1] \o f[items[n]]
  <2>1. \A n \in D : upTo[n] = Next1(upTo, n)
    <3> HIDE DEF Next1, D
    <3> QED
      BY <1>8
  <2>2. 0 \in D /\ \A n \in 1..Len(items) : n \in D /\ n # 0
    BY <1>1
  <2> QED
    BY <2>1, <2>2
<1>11. ASSUME NEW n \in 1..Len(items), n - 1 \in A(g0) PROVE n \in A(g0)
  <2>1. n \in D /\ n # 0
    BY <1>1
  <2> QED
    BY <1>7, <1>10, <1>11, <2>1
<1>12. D \subseteq A(g0)
  <2>1. 0 \in A(g0)
    BY <1>1, <1>7, <1>10
  <2> HIDE DEF A
  <2> QED
    BY <1>1, <1>11, <2>1, UpInduction
<1>13. upTo \in [D -> T]
  BY <1>8, <1>12
<1>14. BuiltUp(upTo, f, items, S)
  BY <1>9, <1>10, <1>13 DEF BuiltUp
<1> QED
  BY <1>14

(* The elements of a concatenation.                                        *)
LEMMA ConcatElements ==
    ASSUME NEW S, NEW s \in Seq(S), NEW t \in Seq(S)
    PROVE  \A x : x \in ToSet(s \o t) <=> x \in ToSet(s) \/ x \in ToSet(t)
<1>1. /\ s \o t \in Seq(S) /\ Len(s \o t) = Len(s) + Len(t)
      /\ \A i \in 1..(Len(s) + Len(t)) :
            (s \o t)[i] = IF i <= Len(s) THEN s[i] ELSE t[i - Len(s)]
      /\ Len(s) \in Nat /\ Len(t) \in Nat
  BY ConcatProperties
<1>2. ASSUME NEW i \in 1..Len(s) PROVE s[i] \in ToSet(s \o t)
  <2>1. i \in DOMAIN (s \o t) /\ (s \o t)[i] = s[i]
    BY <1>1
  <2> QED
    BY <2>1 DEF ToSet
<1>3. ASSUME NEW i \in 1..Len(t) PROVE t[i] \in ToSet(s \o t)
  <2>1. Len(s) + i \in DOMAIN (s \o t) /\ (s \o t)[Len(s) + i] = t[i]
    BY <1>1
  <2> QED
    BY <2>1 DEF ToSet
<1>4. ASSUME NEW i \in DOMAIN (s \o t)
      PROVE  (s \o t)[i] \in ToSet(s) \/ (s \o t)[i] \in ToSet(t)
  <2>1. i \in 1..(Len(s) + Len(t))
    BY <1>1
  <2>2. CASE i <= Len(s)
    <3>1. i \in DOMAIN s /\ (s \o t)[i] = s[i]
      BY <1>1, <2>1, <2>2
    <3> QED
      BY <3>1 DEF ToSet
  <2>3. CASE ~(i <= Len(s))
    <3>1. i - Len(s) \in DOMAIN t /\ (s \o t)[i] = t[i - Len(s)]
      BY <1>1, <2>1, <2>3
    <3> QED
      BY <3>1 DEF ToSet
  <2> QED
    BY <2>2, <2>3
<1>5. DOMAIN s = 1..Len(s) /\ DOMAIN t = 1..Len(t)
  OBVIOUS
<1> HIDE DEF ToSet
<1> QED
  BY <1>2, <1>3, <1>4, <1>5 DEF ToSet

(* What it yields, item by item, is all it holds.                          *)
LEMMA FlatMapFacts ==
    ASSUME NEW S, NEW I, NEW items \in Seq(I), NEW f, Yields(f, items, S)
    PROVE  /\ FlatMap(f, items) \in Seq(S)
           /\ \A x : x \in ToSet(FlatMap(f, items))
                        <=> \E i \in 1..Len(items) : x \in ToSet(f[items[i]])
<1> DEFINE N == Len(items)
<1>1. N \in Nat
  OBVIOUS
<1>2. PICK upTo : BuiltUp(upTo, f, items, S)
  BY FlatMapSteps
<1> DEFINE Holds(n) ==
              \A x : x \in ToSet(upTo[n]) <=> \E i \in 1..n : x \in ToSet(f[items[i]])
           H == {n \in 0..N : Holds(n)}
<1>3. 0 \in H
  <2>1. upTo[0] = <<>> /\ \A x : x \notin ToSet(<<>>)
    BY <1>2 DEF BuiltUp, ToSet
  <2> QED
    BY <1>1, <2>1
<1>4. ASSUME NEW n \in 1..N, n - 1 \in H PROVE n \in H
  <2> DEFINE last == f[items[n]]
             before == upTo[n - 1]
  <2>1. n - 1 \in 0..N /\ n \in 0..N
    BY <1>1
  <2>2. before \in Seq(S) /\ last \in Seq(S) /\ upTo[n] = before \o last
    BY <1>2, <2>1 DEF BuiltUp, Yields
  <2>3. \A x : x \in ToSet(upTo[n]) <=> x \in ToSet(before) \/ x \in ToSet(last)
    <3> HIDE DEF before, last
    <3> QED
      BY <2>2, ConcatElements
  <2>4. \A i : i \in 1..n <=> i \in 1..(n - 1) \/ i = n
    OBVIOUS
  <2>7. Holds(n)
    BY <1>4, <2>3, <2>4
  <2> QED
    BY <2>1, <2>7
<1>5. 0..N \subseteq H
  <2> HIDE DEF H, N
  <2> QED
    BY <1>1, <1>3, <1>4, UpInduction
<1>6. N \in H
  BY <1>1, <1>5
<1>7. FlatMap(f, items) = upTo[N] /\ upTo[N] \in Seq(S)
  BY <1>1, <1>2 DEF BuiltUp
<1> QED
  BY <1>6, <1>7

(* It depends on what the function yields for the items only.              *)
LEMMA FlatMapCongruence ==
    ASSUME NEW S, NEW I, NEW items \in Seq(I), NEW f, NEW g, Yields(f, items, S),
           \A i \in 1..Len(items) : f[items[i]] = g[items[i]]
    PROVE  FlatMap(f, items) = FlatMap(g, items)
<1> DEFINE N == Len(items)
<1>1. N \in Nat
  OBVIOUS
<1>2. PICK p : BuiltUp(p, f, items, S)
  BY FlatMapSteps
<1>3. PICK q : BuiltUp(q, g, items, S)
  <2>1. Yields(g, items, S)
    BY DEF Yields
  <2> QED
    BY <2>1, FlatMapSteps
<1> DEFINE H == {n \in 0..N : p[n] = q[n]}
<1>4. 0 \in H
  BY <1>1, <1>2, <1>3 DEF BuiltUp
<1>5. ASSUME NEW n \in 1..N, n - 1 \in H PROVE n \in H
  <2>1. p[n] = p[n - 1] \o f[items[n]] /\ q[n] = q[n - 1] \o g[items[n]]
    BY <1>2, <1>3 DEF BuiltUp
  <2>2. p[n - 1] = q[n - 1] /\ f[items[n]] = g[items[n]] /\ n \in 0..N
    BY <1>1, <1>5
  <2>3. p[n] = q[n]
    BY <2>1, <2>2
  <2> QED
    BY <2>2, <2>3
<1>6. 0..N \subseteq H
  <2> HIDE DEF H, N
  <2> QED
    BY <1>1, <1>4, <1>5, UpInduction
<1> QED
  BY <1>1, <1>2, <1>3, <1>6 DEF BuiltUp

-----------------------------------------------------------------------------
(***************************************************************************)
(* Texts: what redacting leaves.                                           *)
(***************************************************************************)
LEMMA Prepend ==
    ASSUME NEW S, NEW x \in S, NEW s \in Seq(S)
    PROVE  /\ <<x>> \in Seq(S) /\ <<x>> \o s \in Seq(S)
           /\ Len(<<x>> \o s) = Len(s) + 1 /\ Len(s) \in Nat
           /\ (<<x>> \o s)[1] = x
           /\ \A k \in 2..(Len(s) + 1) : (<<x>> \o s)[k] = s[k - 1]
<1>1. <<x>> \in Seq(S) /\ Len(<<x>>) = 1 /\ <<x>>[1] = x /\ Len(s) \in Nat
  OBVIOUS
<1> DEFINE first == <<x>>
<1> HIDE DEF first
<1>2. /\ first \in Seq(S) /\ Len(first) = 1 /\ first[1] = x
      /\ first \o s \in Seq(S)
      /\ Len(first \o s) = Len(first) + Len(s)
      /\ \A i \in 1..(Len(first) + Len(s)) :
            (first \o s)[i] = IF i <= Len(first) THEN first[i] ELSE s[i - Len(first)]
  BY <1>1, ConcatProperties DEF first
<1>3. \A k \in 2..(Len(s) + 1) : (first \o s)[k] = s[k - 1]
  BY <1>1, <1>2
<1>4. (first \o s)[1] = x /\ Len(first \o s) = Len(s) + 1
  BY <1>1, <1>2
<1> QED
  BY <1>1, <1>2, <1>3, <1>4 DEF first

LEMMA TextFacts ==
    /\ <<>> \in Text /\ Replacement \in Text
    /\ \A mark \in Marks : <<mark>> \in Text
    /\ \A a, b \in Text : a \o b \in Text
<1>1. <<>> \in Text
  BY EmptySeq DEF Text
<1>2. ASSUME NEW mark \in Marks PROVE <<mark>> \in Text
  BY EmptySeq, Prepend DEF Text
<1>0. Replacement \in Text
  BY <1>2, JsonAssumption DEF Replacement
<1>3. \A a, b \in Text : a \o b \in Text
  BY ConcatProperties DEF Text
<1> QED
  BY <1>0, <1>1, <1>2, <1>3

LEMMA JoinedFacts ==
    ASSUME NEW a \in Text, NEW b \in Text
    PROVE  /\ a \o b \in Text /\ Len(a \o b) = Len(a) + Len(b) /\ Len(a) \in Nat /\ Len(b) \in Nat
           /\ DOMAIN (a \o b) = 1..(Len(a) + Len(b))
           /\ \A k \in 1..(Len(a) + Len(b)) : (a \o b)[k] = IF k <= Len(a) THEN a[k] ELSE b[k - Len(a)]
           /\ \A c \in Text : (a \o b) \o c = a \o (b \o c)
<1>1. a \in Seq(Marks) /\ b \in Seq(Marks)
  BY DEF Text
<1>2. /\ a \o b \in Seq(Marks) /\ Len(a \o b) = Len(a) + Len(b)
      /\ \A k \in 1..(Len(a) + Len(b)) : (a \o b)[k] = IF k <= Len(a) THEN a[k] ELSE b[k - Len(a)]
  BY <1>1, ConcatProperties
<1>3. DOMAIN (a \o b) = 1..(Len(a) + Len(b)) /\ Len(a) \in Nat /\ Len(b) \in Nat
  BY <1>1, <1>2
<1>4. \A c \in Text : (a \o b) \o c = a \o (b \o c)
  BY <1>1, ConcatAssociative DEF Text
<1> QED
  BY <1>2, <1>3, <1>4 DEF Text

LEMMA JoinedThrice == \A a, b, c \in Text : (a \o b) \o c = a \o (b \o c)
  BY JoinedFacts

FormsAt(pattern, text, i) == {form \in pattern : MatchesAt(form, text, i)}
FormAt(pattern, text, i) == CHOOSE form \in FormsAt(pattern, text, i) : TRUE

(* What is left of a text from a position on.                              *)
LeftFrom(pattern, text, from) ==
    /\ from \in [1..(Len(text) + 1) -> Text]
    /\ from[Len(text) + 1] = <<>>
    /\ \A i \in 1..Len(text) :
          from[i] = IF FormsAt(pattern, text, i) = {} THEN <<text[i]>> \o from[i + 1]
                    ELSE Replacement \o from[i + Len(FormAt(pattern, text, i).marks)]
    /\ Redacted(pattern, text) = from[1]

LEMMA FormFacts ==
    ASSUME NEW pattern \in Pattern, NEW form \in pattern
    PROVE  /\ form \in Form /\ form.marks \in Text
           /\ Len(form.marks) \in Nat \ {0} /\ DOMAIN form.marks = 1..Len(form.marks)
           /\ Head(form.marks) = form.marks[1] /\ Last(form.marks) = form.marks[Len(form.marks)]
<1>1. form \in Form
  BY DEF Pattern
<1>2. form.marks \in Text \ {<<>>}
  BY <1>1 DEF Form
<1> DEFINE marks == form.marks
<1> HIDE DEF marks
<1>3. marks \in Seq(Marks) /\ marks # <<>>
  BY <1>2 DEF Text, marks
<1>4. Len(marks) \in Nat \ {0} /\ DOMAIN marks = 1..Len(marks) /\ Head(marks) = marks[1]
  BY <1>3, EmptySeq
<1> QED
  BY <1>1, <1>2, <1>4 DEF Last, marks

(* A literal pattern looks at no neighbour.                                *)
LEMMA LiterallyFacts ==
    ASSUME NEW texts, texts \subseteq Text \ {<<>>}
    PROVE  /\ Literally(texts) \in Pattern /\ OpenEnds(Literally(texts))
           /\ \A other : Apart(Literally(texts), other)
<1>1. ASSUME NEW form \in Literally(texts)
      PROVE  form \in Form /\ form.left = {} /\ form.right = {}
  BY <1>1 DEF Literally, Form
<1> QED
  BY <1>1 DEF Pattern, OpenEnds, Apart

(* A form that matches is not empty and ends inside the text.              *)
LEMMA FormFits ==
    ASSUME NEW pattern \in Pattern, NEW text \in Text, NEW i \in 1..Len(text),
           FormsAt(pattern, text, i) # {}
    PROVE  /\ FormAt(pattern, text, i) \in pattern /\ MatchesAt(FormAt(pattern, text, i), text, i)
           /\ i + Len(FormAt(pattern, text, i).marks) \in (i + 1)..(Len(text) + 1)
<1> DEFINE form == FormAt(pattern, text, i)
<1>1. form \in FormsAt(pattern, text, i)
  BY DEF FormAt
<1>2. form \in pattern /\ MatchesAt(form, text, i) /\ i + Len(form.marks) <= Len(text) + 1
  BY <1>1 DEF FormsAt, MatchesAt
<1>3. Len(form.marks) \in Nat \ {0} /\ Len(text) \in Nat
  BY <1>2, FormFacts DEF Text
<1> QED
  BY <1>2, <1>3

LEMMA RedactedSteps ==
    ASSUME NEW pattern \in Pattern, NEW text \in Text
    PROVE  \E from : LeftFrom(pattern, text, from)
<1> DEFINE N == Len(text)
           D == 1..(N + 1)
           Rest1(g, i) ==
               IF i > N THEN <<>>
               ELSE IF FormsAt(pattern, text, i) = {} THEN <<text[i]>> \o g[i + 1]
               ELSE Replacement \o g[i + Len(FormAt(pattern, text, i).marks)]
           F == [g \in [D -> Text] |-> [i \in D |-> Rest1(g, i)]]
           rank == [i \in D |-> (N + 1) - i]
<1>1. N \in Nat
  BY DEF Text
<1>2. rank \in [D -> Nat] /\ \E top \in Nat : \A i \in D : rank[i] <= top
  <2>1. \A i \in D : (N + 1) - i \in Nat /\ (N + 1) - i <= N
    BY <1>1
  <2> HIDE DEF D, N
  <2> QED
    BY <1>1, <2>1
<1>3. <<>> \in Text
  BY TextFacts
<1>4. ASSUME NEW i \in D, i <= N
      PROVE  /\ i \in 1..N /\ text[i] \in Marks /\ i + 1 \in D
             /\ FormsAt(pattern, text, i) # {} => i + Len(FormAt(pattern, text, i).marks) \in (i + 1)..(N + 1)
  BY <1>1, <1>4, FormFits DEF Text
<1>5. ASSUME NEW g \in [D -> Text], NEW i \in D PROVE Rest1(g, i) \in Text
  <2>1. CASE i > N
    BY <1>3, <2>1
  <2>2. CASE i <= N /\ FormsAt(pattern, text, i) = {}
    <3>1. ~(i > N) /\ <<text[i]>> \in Text /\ g[i + 1] \in Text
      BY <1>1, <1>4, <2>2, TextFacts
    <3> QED
      BY <2>2, <3>1, TextFacts
  <2>3. CASE i <= N /\ FormsAt(pattern, text, i) # {}
    <3> DEFINE j == i + Len(FormAt(pattern, text, i).marks)
    <3>1. ~(i > N) /\ j \in D
      BY <1>1, <1>4, <2>3
    <3>2. g[j] \in Text
      <4> HIDE DEF D, j
      <4> QED
        BY <3>1
    <3> QED
      BY <2>3, <3>1, <3>2, TextFacts
  <2> QED
    BY <1>1, <2>1, <2>2, <2>3
<1>6. F \in [[D -> Text] -> [D -> Text]]
  <2> HIDE DEF Rest1, D
  <2> QED
    BY <1>5
<1>7. ASSUME NEW g \in [D -> Text], NEW h \in [D -> Text], NEW i \in D,
             \A j \in D : rank[j] < rank[i] => g[j] = h[j]
      PROVE  F[g][i] = F[h][i]
  <2>1. \A j \in (i + 1)..(N + 1) : g[j] = h[j]
    BY <1>1, <1>7
  <2>2. Rest1(g, i) = Rest1(h, i)
    <3>1. CASE i > N
      BY <3>1
    <3>2. CASE ~(i > N) /\ FormsAt(pattern, text, i) = {}
      <4>1. g[i + 1] = h[i + 1]
        BY <1>1, <2>1, <3>2
      <4> QED
        BY <3>2, <4>1
    <3>3. CASE ~(i > N) /\ FormsAt(pattern, text, i) # {}
      <4> DEFINE j == i + Len(FormAt(pattern, text, i).marks)
      <4>1. j \in (i + 1)..(N + 1)
        BY <1>1, <1>4, <3>3
      <4>2. g[j] = h[j]
        <5> HIDE DEF D, N, j
        <5> QED
          BY <2>1, <4>1
      <4> QED
        BY <3>3, <4>2
    <3> QED
      BY <3>1, <3>2, <3>3
  <2> HIDE DEF Rest1, D
  <2> QED
    BY <2>2
<1>8. \E g \in [D -> Text] : g = F[g]
  <2>1. Descends(F, D, Text, rank)
    <3>1. \A g, h \in [D -> Text], i \in D :
             (\A j \in D : rank[j] < rank[i] => g[j] = h[j]) => F[g][i] = F[h][i]
      BY <1>7
    <3> HIDE DEF F, D, rank
    <3> QED
      BY <1>2, <1>6, <3>1 DEF Descends
  <2>2. Text # {}
    BY <1>3
  <2> HIDE DEF F, D, rank
  <2> QED
    BY <2>1, <2>2, RankRecursion
<1>9. PICK g0 \in [D -> Text] : g0 = [i \in D |-> Rest1(g0, i)]
  BY <1>8
<1> DEFINE from == CHOOSE g : g = [i \in D |-> Rest1(g, i)]
           A(h) == {i \in D : from[i] = h[i]}
<1>10. from = [i \in D |-> Rest1(from, i)]
  <2> HIDE DEF Rest1, D
  <2> QED
    BY <1>9
<1>11. Redacted(pattern, text) = from[1]
  BY DEF Redacted, FormsAt, FormAt
<1> HIDE DEF from
<1>12. ASSUME NEW i \in D, \A j \in D : rank[j] < rank[i] => j \in A(g0) PROVE i \in A(g0)
  <2>1. \A j \in (i + 1)..(N + 1) : from[j] = g0[j]
    BY <1>1, <1>12
  <2>2. Rest1(from, i) = Rest1(g0, i)
    BY <1>1, <1>4, <2>1
  <2>3. from[i] = Rest1(from, i) /\ g0[i] = Rest1(g0, i)
    <3> HIDE DEF Rest1, D
    <3> QED
      BY <1>9, <1>10
  <2> HIDE DEF Rest1
  <2> QED
    BY <2>2, <2>3
<1>13. D \subseteq A(g0)
  <2>1. \A i \in D : (\A j \in D : rank[j] < rank[i] => j \in A(g0)) => i \in A(g0)
    BY <1>12
  <2> HIDE DEF A, D, rank
  <2> QED
    BY <1>2, <2>1, RankInduction
<1>14. from \in [D -> Text]
  BY <1>10, <1>13
<1>15. \A i \in D : from[i] = Rest1(from, i)
  <2> HIDE DEF Rest1, D
  <2> QED
    BY <1>10
<1>16. N + 1 \in D /\ N + 1 > N /\ \A i \in 1..N : i \in D /\ ~(i > N)
  BY <1>1
<1> QED
  BY <1>11, <1>14, <1>15, <1>16 DEF LeftFrom

(* What is left of a text is one mark, its own or the replacement of a     *)
(* match, and what is left from a later position.                          *)
GoneAt(pattern, text, i, j) ==
    \E gone \in pattern : j = i + Len(gone.marks) /\ MatchesAt(gone, text, i)

LeftBy(pattern, text, from, i, j, mark) ==
    /\ from[j] \in Text /\ from[i] \in Text
    /\ Len(from[i]) = Len(from[j]) + 1 /\ Len(from[j]) \in Nat
    /\ from[i][1] = mark
    /\ \A k \in 2..Len(from[i]) : from[i][k] = from[j][k - 1]
    /\ IF FormsAt(pattern, text, i) = {} THEN mark = text[i] /\ j = i + 1
       ELSE mark = "REDACTED" /\ GoneAt(pattern, text, i, j)

LEMMA LeftStep ==
    ASSUME NEW pattern \in Pattern, NEW text \in Text, NEW from,
           LeftFrom(pattern, text, from), NEW i \in 1..Len(text)
    PROVE  \E j \in (i + 1)..(Len(text) + 1), mark \in Marks :
              LeftBy(pattern, text, from, i, j, mark)
<1> USE DEF LeftBy
<1>1. Len(text) \in Nat /\ text[i] \in Marks /\ from \in [1..(Len(text) + 1) -> Text]
  BY DEF Text, LeftFrom
<1> DEFINE kept == FormsAt(pattern, text, i) = {}
           j == IF kept THEN i + 1 ELSE i + Len(FormAt(pattern, text, i).marks)
           mark == IF kept THEN text[i] ELSE "REDACTED"
<1>2. j \in (i + 1)..(Len(text) + 1) /\ mark \in Marks
  <2>1. CASE kept
    BY <1>1, <2>1
  <2>2. CASE ~kept
    <3>1. j \in (i + 1)..(Len(text) + 1)
      BY <2>2, FormFits
    <3>2. mark \in Marks
      BY <2>2, JsonAssumption
    <3> QED
      BY <3>1, <3>2
  <2> QED
    BY <2>1, <2>2
<1>3. from[i] = <<mark>> \o from[j]
  BY DEF LeftFrom, Replacement
<1>4. from[j] \in Text /\ from[i] \in Text
  <2> HIDE DEF j
  <2> QED
    BY <1>1, <1>2
<1>5. /\ Len(from[i]) = Len(from[j]) + 1 /\ Len(from[j]) \in Nat
      /\ from[i][1] = mark
      /\ \A k \in 2..Len(from[i]) : from[i][k] = from[j][k - 1]
  <2> DEFINE rest == from[j]
  <2>1. rest \in Seq(Marks)
    BY <1>4 DEF Text
  <2>2. from[i] = <<mark>> \o rest
    BY <1>3
  <2> HIDE DEF rest, mark
  <2>3. /\ Len(<<mark>> \o rest) = Len(rest) + 1 /\ Len(rest) \in Nat
        /\ (<<mark>> \o rest)[1] = mark
        /\ \A k \in 2..(Len(rest) + 1) : (<<mark>> \o rest)[k] = rest[k - 1]
    BY <1>2, <2>1, Prepend
  <2> QED
    BY <2>2, <2>3 DEF rest
<1>6. ~kept => GoneAt(pattern, text, i, j)
  BY FormFits DEF GoneAt
<1> QED
  BY <1>2, <1>4, <1>5, <1>6

(* Each mark that is left begins what is left from some position.  In      *)
(* front of that position is the mark that is left in front of it, or the  *)
(* match in whose place REDACTED stands.                                   *)
LeftOf(pattern, text, mark, q) ==
    \/ q - 1 \in 1..Len(text) /\ mark = text[q - 1]
    \/ mark = "REDACTED" /\ \E i \in 1..Len(text) : GoneAt(pattern, text, i, q)

LEMMA LeftSuffix ==
    ASSUME NEW pattern \in Pattern, NEW text \in Text, NEW from,
           LeftFrom(pattern, text, from)
    PROVE  \A p \in 1..Len(from[1]) : \E q \in 1..Len(text) :
              /\ Len(from[1]) = p - 1 + Len(from[q])
              /\ \A k \in 1..Len(from[q]) : from[1][p + k - 1] = from[q][k]
              /\ IF p = 1 THEN q = 1 ELSE LeftOf(pattern, text, from[1][p - 1], q)
<1> DEFINE N == Len(text)
           Holds(i) == \A p \in 1..Len(from[i]) : \E q \in 1..N :
                          /\ Len(from[i]) = p - 1 + Len(from[q])
                          /\ \A k \in 1..Len(from[q]) : from[i][p + k - 1] = from[q][k]
                          /\ IF p = 1 THEN q = i ELSE LeftOf(pattern, text, from[i][p - 1], q)
           H == {i \in 1..(N + 1) : Holds(i)}
<1>1. N \in Nat /\ from[N + 1] = <<>>
  BY DEF Text, LeftFrom
<1>2. ASSUME NEW i \in 1..(N + 1), \A j \in (i + 1)..(N + 1) : j \in H PROVE i \in H
  <2>1. CASE i = N + 1
    BY <1>1, <2>1
  <2>2. CASE i # N + 1
    <3>1. i \in 1..N
      BY <1>1, <2>2
    <3>2. PICK j \in (i + 1)..(N + 1), mark \in Marks : LeftBy(pattern, text, from, i, j, mark)
      BY <3>1, LeftStep
    <3> USE DEF LeftBy
    <3>3. ASSUME NEW p \in 1..Len(from[i])
          PROVE  \E q \in 1..N :
                    /\ Len(from[i]) = p - 1 + Len(from[q])
                    /\ \A k \in 1..Len(from[q]) : from[i][p + k - 1] = from[q][k]
                    /\ IF p = 1 THEN q = i ELSE LeftOf(pattern, text, from[i][p - 1], q)
      <4>1. CASE p = 1
        BY <3>1, <3>2, <4>1
      <4>2. CASE p # 1
        <5>1. p - 1 \in 1..Len(from[j]) /\ Holds(j)
          <6>1. j \in H
            BY <1>2
          <6>2. p - 1 \in 1..Len(from[j])
            BY <3>2, <4>2
          <6> QED
            BY <6>1, <6>2
        <5>2. PICK q \in 1..N :
                 /\ Len(from[j]) = (p - 1) - 1 + Len(from[q])
                 /\ \A k \in 1..Len(from[q]) : from[j][(p - 1) + k - 1] = from[q][k]
                 /\ IF p - 1 = 1 THEN q = j ELSE LeftOf(pattern, text, from[j][(p - 1) - 1], q)
          BY <5>1
        <5>3. Len(from[q]) \in Nat
          BY <1>1 DEF LeftFrom, Text
        <5>4. ASSUME NEW k \in 1..Len(from[q]) PROVE from[i][p + k - 1] = from[q][k]
          <6>1. p + k - 1 \in 2..Len(from[i])
            BY <3>2, <4>2, <5>2, <5>3
          <6>2. from[i][p + k - 1] = from[j][(p + k - 1) - 1]
            BY <3>2, <6>1
          <6>3. (p + k - 1) - 1 = (p - 1) + k - 1
            BY <3>2, <5>3
          <6> QED
            BY <5>2, <6>2, <6>3
        <5>5. Len(from[i]) = p - 1 + Len(from[q])
          BY <3>2, <5>2, <5>3
        <5>6. LeftOf(pattern, text, from[i][p - 1], q)
          <6>1. CASE p - 1 = 1
            <7>1. q = j /\ p - 1 = 1 /\ from[i][p - 1] = mark
              BY <3>2, <5>2, <6>1
            <7>2. FormsAt(pattern, text, i) = {} => mark = text[i] /\ j = i + 1
              BY <3>2
            <7>3. FormsAt(pattern, text, i) # {} => mark = "REDACTED" /\ GoneAt(pattern, text, i, j)
              BY <3>2
            <7> QED
              BY <3>1, <7>1, <7>2, <7>3 DEF LeftOf
          <6>2. CASE p - 1 # 1
            <7>1. p - 1 \in 2..Len(from[i])
              BY <4>2, <6>2
            <7>2. from[i][p - 1] = from[j][(p - 1) - 1]
              BY <3>2, <7>1
            <7> QED
              BY <5>2, <6>2, <7>2
          <6> QED
            BY <6>1, <6>2
        <5> QED
          BY <4>2, <5>4, <5>5, <5>6
      <4> QED
        BY <4>1, <4>2
    <3> QED
      BY <3>3
  <2> QED
    BY <2>1, <2>2
<1>3. 1..(N + 1) \subseteq H
  <2> DEFINE M == N + 1
  <2>1. M \in Nat /\ \A i \in 1..M : (\A j \in (i + 1)..M : j \in H) => i \in H
    BY <1>1, <1>2
  <2>2. 1..M \subseteq H
    <3> HIDE DEF H, M
    <3> QED
      BY <2>1, DownInduction
  <2> QED
    BY <2>2
<1>4. Holds(1)
  <2>1. 1 \in 1..(N + 1)
    BY <1>1
  <2>2. 1 \in H
    <3> HIDE DEF H
    <3> QED
      BY <1>3, <2>1
  <2> QED
    BY <2>2
<1> QED
  BY <1>4

(* What is left up to the first replacement is the text itself, and what   *)
(* is left behind it is left from the position behind it.                  *)
Run(text, from, i, m) ==
    /\ i + m <= Len(text) + 1 /\ \A k \in 1..m : text[i + k - 1] = from[i][k]
    /\ Len(from[i]) = m + Len(from[i + m])
    /\ m < Len(from[i]) => from[i][m + 1] = from[i + m][1]

LEMMA LeftPrefix ==
    ASSUME NEW pattern \in Pattern, NEW text \in Text, NEW from,
           LeftFrom(pattern, text, from)
    PROVE  \A i \in 1..(Len(text) + 1) : \A m \in 0..Len(from[i]) :
              (\A k \in 1..m : from[i][k] # "REDACTED") => Run(text, from, i, m)
<1> DEFINE N == Len(text)
           Same(i, m) == (\A k \in 1..m : from[i][k] # "REDACTED") =>
                            /\ i + m <= N + 1 /\ \A k \in 1..m : text[i + k - 1] = from[i][k]
                            /\ Len(from[i]) = m + Len(from[i + m])
                            /\ m < Len(from[i]) => from[i][m + 1] = from[i + m][1]
           Holds(i) == \A m \in 0..Len(from[i]) : Same(i, m)
           H == {i \in 1..(N + 1) : Holds(i)}
<1>1. N \in Nat /\ from[N + 1] = <<>> /\ Len(from[N + 1]) = 0
  BY DEF Text, LeftFrom
<1>2. ASSUME NEW i \in 1..(N + 1), \A j \in (i + 1)..(N + 1) : j \in H PROVE i \in H
  <2>1. CASE i = N + 1
    <3>1. i + 0 = i /\ Len(from[i]) = 0 /\ Len(from[i + 0]) = 0
      BY <1>1, <2>1
    <3>2. Same(i, 0)
      BY <1>1, <2>1, <3>1
    <3>3. \A m \in 0..Len(from[i]) : m = 0
      BY <3>1
    <3>4. Holds(i)
      <4> HIDE DEF Same
      <4> QED
        BY <3>2, <3>3
    <3> HIDE DEF Holds
    <3> QED
      BY <3>4
  <2>2. CASE i # N + 1
    <3>1. i \in 1..N
      BY <1>1, <2>2
    <3>2. PICK j \in (i + 1)..(N + 1), mark \in Marks : LeftBy(pattern, text, from, i, j, mark)
      BY <3>1, LeftStep
    <3> USE DEF LeftBy
    <3>3. ASSUME NEW m \in 0..Len(from[i]), \A k \in 1..m : from[i][k] # "REDACTED"
          PROVE  /\ i + m <= N + 1 /\ \A k \in 1..m : text[i + k - 1] = from[i][k]
                 /\ Len(from[i]) = m + Len(from[i + m])
                 /\ m < Len(from[i]) => from[i][m + 1] = from[i + m][1]
      <4>1. CASE m = 0
        <5>1. i + m = i /\ m + 1 = 1 /\ 1..m = {}
          BY <4>1
        <5> QED
          BY <1>1, <3>2, <4>1, <5>1
      <4>2. CASE m # 0
        <5>1. 1 \in 1..m /\ m - 1 \in 0..Len(from[j])
          BY <3>2, <4>2
        <5>2. from[i][1] = text[i] /\ j = i + 1
          BY <3>2, <3>3, <5>1
        <5>3. \A k \in 1..(m - 1) : k + 1 \in 2..Len(from[i]) /\ k + 1 \in 1..m
          BY <3>2, <4>2
        <5>4. \A k \in 1..(m - 1) : from[j][k] = from[i][k + 1]
          BY <3>2, <5>3
        <5>5. \A k \in 1..(m - 1) : from[j][k] # "REDACTED"
          BY <3>3, <5>3, <5>4
        <5>6. Same(j, m - 1)
          <6>1. j \in H
            BY <1>2
          <6> QED
            BY <5>1, <6>1
        <5>7. /\ j + (m - 1) <= N + 1 /\ \A k \in 1..(m - 1) : text[j + k - 1] = from[j][k]
              /\ Len(from[j]) = (m - 1) + Len(from[j + (m - 1)])
              /\ m - 1 < Len(from[j]) => from[j][(m - 1) + 1] = from[j + (m - 1)][1]
          BY <5>5, <5>6
        <5>8. i + m <= N + 1
          BY <3>2, <5>2, <5>7
        <5>9. ASSUME NEW k \in 1..m PROVE text[i + k - 1] = from[i][k]
          <6>1. CASE k = 1
            BY <3>1, <5>2, <6>1
          <6>2. CASE k # 1
            <7>1. k - 1 \in 1..(m - 1) /\ (k - 1) + 1 = k /\ j + (k - 1) - 1 = i + k - 1
              BY <3>1, <5>2, <6>2
            <7>2. text[j + (k - 1) - 1] = from[j][k - 1] /\ from[j][k - 1] = from[i][(k - 1) + 1]
              BY <5>4, <5>7, <7>1
            <7> QED
              BY <7>1, <7>2
          <6> QED
            BY <6>1, <6>2
        <5>10. j + (m - 1) = i + m /\ (m - 1) + 1 = m
          BY <3>1, <5>2
        <5>11. Len(from[j]) = (m - 1) + Len(from[i + m])
          BY <5>7, <5>10
        <5>12. Len(from[i]) = Len(from[j]) + 1 /\ Len(from[j]) \in Nat
          BY <3>2
        <5>13. Len(from[i]) = m + Len(from[i + m])
          <6> DEFINE L == Len(from[i + m])
          <6>1. L = Len(from[j]) - (m - 1)
            <7>1. i + m \in 1..(N + 1)
              BY <1>1, <3>1, <5>8
            <7>2. L \in Nat
              BY <7>1 DEF LeftFrom, Text
            <7> HIDE DEF L
            <7>3. Len(from[j]) = (m - 1) + L
              BY <5>11 DEF L
            <7> QED
              BY <5>12, <7>2, <7>3
          <6> HIDE DEF L
          <6>2. Len(from[i]) = m + L
            BY <5>12, <6>1
          <6> QED
            BY <6>2 DEF L
        <5>14. ASSUME m < Len(from[i]) PROVE from[i][m + 1] = from[i + m][1]
          <6>1. m + 1 \in 2..Len(from[i]) /\ (m + 1) - 1 = m /\ m - 1 < Len(from[j])
            BY <4>2, <5>12, <5>14
          <6>2. from[i][m + 1] = from[j][m]
            BY <3>2, <6>1
          <6> QED
            BY <5>7, <5>10, <6>1, <6>2
        <5> QED
          BY <5>8, <5>9, <5>13, <5>14
      <4> QED
        BY <4>1, <4>2
    <3> QED
      BY <3>3
  <2> QED
    BY <2>1, <2>2
<1>3. 1..(N + 1) \subseteq H
  <2> DEFINE M == N + 1
  <2>1. M \in Nat /\ \A i \in 1..M : (\A j \in (i + 1)..M : j \in H) => i \in H
    BY <1>1, <1>2
  <2>2. 1..M \subseteq H
    <3> HIDE DEF H, M
    <3> QED
      BY <2>1, DownInduction
  <2> QED
    BY <2>2
<1> HIDE DEF Same
<1>4. \A i \in 1..(N + 1) : Holds(i)
  BY <1>3
<1> USE DEF Same
<1> QED
  BY <1>4 DEF Run

(* A text that is not blank is not blank afterwards.                       *)
LEMMA LeftNonBlank ==
    ASSUME NEW pattern \in Pattern, NEW text \in Text, NEW from,
           LeftFrom(pattern, text, from), ~IsBlank(text)
    PROVE  ~IsBlank(from[1])
<1> DEFINE N == Len(text)
           Holds(i) == (\E k \in i..N : text[k] # "blank")
                          => \E k \in 1..Len(from[i]) : from[i][k] # "blank"
           H == {i \in 1..(N + 1) : Holds(i)}
<1>1. N \in Nat /\ DOMAIN text = 1..N
  BY DEF Text
<1>2. ASSUME NEW i \in 1..(N + 1), \A j \in (i + 1)..(N + 1) : j \in H PROVE i \in H
  <2>1. CASE i = N + 1
    BY <1>1, <2>1
  <2>2. CASE i # N + 1
    <3>1. i \in 1..N
      BY <1>1, <2>2
    <3>2. PICK j \in (i + 1)..(N + 1), mark \in Marks : LeftBy(pattern, text, from, i, j, mark)
      BY <3>1, LeftStep
    <3> USE DEF LeftBy
    <3>3. 1 \in 1..Len(from[i])
      BY <3>2
    <3>4. CASE mark # "blank"
      BY <3>2, <3>3, <3>4
    <3>5. CASE mark = "blank"
      <4>1. mark = text[i] /\ j = i + 1
        BY <3>2, <3>5
      <4>2. ASSUME \E k \in i..N : text[k] # "blank"
            PROVE  \E k \in 1..Len(from[i]) : from[i][k] # "blank"
        <5>1. \E k \in j..N : text[k] # "blank"
          BY <3>1, <3>5, <4>1, <4>2
        <5>2. Holds(j)
          <6>1. j \in H
            BY <1>2
          <6> QED
            BY <6>1
        <5>3. PICK k \in 1..Len(from[j]) : from[j][k] # "blank"
          BY <5>1, <5>2
        <5>4. k + 1 \in 2..Len(from[i]) /\ k + 1 \in 1..Len(from[i]) /\ (k + 1) - 1 = k
          BY <3>2
        <5>5. from[i][k + 1] = from[j][(k + 1) - 1]
          BY <3>2, <5>4
        <5>6. from[i][k + 1] # "blank"
          BY <5>3, <5>4, <5>5
        <5> QED
          BY <5>4, <5>6
      <4> QED
        BY <4>2
    <3> QED
      BY <3>4, <3>5
  <2> QED
    BY <2>1, <2>2
<1>3. 1..(N + 1) \subseteq H
  <2> DEFINE M == N + 1
  <2>1. M \in Nat /\ \A i \in 1..M : (\A j \in (i + 1)..M : j \in H) => i \in H
    BY <1>1, <1>2
  <2>2. 1..M \subseteq H
    <3> HIDE DEF H, M
    <3> QED
      BY <2>1, DownInduction
  <2> QED
    BY <2>2
<1>4. Holds(1)
  <2>1. 1 \in 1..(N + 1)
    BY <1>1
  <2>2. 1 \in H
    <3> HIDE DEF H
    <3> QED
      BY <1>3, <2>1
  <2> QED
    BY <2>2
<1>5. from[1] \in Text
  BY <1>1 DEF LeftFrom
<1> QED
  BY <1>1, <1>4, <1>5 DEF IsBlank, Text

(* What stands behind a run of marks that are left.                        *)
LEMMA RightOf ==
    ASSUME NEW pattern \in Pattern, NEW text \in Text, NEW from,
           LeftFrom(pattern, text, from), NEW i \in 1..(Len(text) + 1), NEW m \in 0..Len(from[i]),
           \A k \in 1..m : from[i][k] # "REDACTED"
    PROVE  \/ m = Len(from[i]) /\ i + m = Len(text) + 1
           \/ m < Len(from[i]) /\ i + m \in 1..Len(text) /\ from[i][m + 1] = text[i + m]
           \/ /\ m < Len(from[i]) /\ i + m \in 1..Len(text) /\ from[i][m + 1] = "REDACTED"
              /\ \E j \in Nat : GoneAt(pattern, text, i + m, j)
<1>0. Run(text, from, i, m)
  BY LeftPrefix
<1>1. /\ i + m <= Len(text) + 1 /\ Len(from[i]) = m + Len(from[i + m])
      /\ m < Len(from[i]) => from[i][m + 1] = from[i + m][1]
  BY <1>0 DEF Run
<1>2. Len(text) \in Nat /\ from \in [1..(Len(text) + 1) -> Text] /\ from[Len(text) + 1] = <<>>
  BY DEF Text, LeftFrom
<1>3. m \in Nat /\ i \in Nat /\ Len(from[i]) \in Nat
  BY <1>2 DEF Text
<1>4. CASE i + m = Len(text) + 1
  BY <1>1, <1>2, <1>3, <1>4
<1>5. CASE i + m # Len(text) + 1
  <2>1. i + m \in 1..Len(text)
    BY <1>1, <1>2, <1>3, <1>5
  <2> DEFINE e == i + m
  <2>2. PICK j \in (e + 1)..(Len(text) + 1), mark \in Marks : LeftBy(pattern, text, from, e, j, mark)
    BY <2>1, LeftStep
  <2>3. /\ Len(from[e]) \in Nat /\ Len(from[e]) # 0 /\ from[e][1] = mark
        /\ IF FormsAt(pattern, text, e) = {} THEN mark = text[e]
           ELSE mark = "REDACTED" /\ GoneAt(pattern, text, e, j)
    BY <2>2 DEF LeftBy
  <2>4. m < Len(from[i]) /\ j \in Nat
    <3>1. Len(from[i]) = m + Len(from[e])
      BY <1>1
    <3> HIDE DEF e
    <3>2. j \in Nat
      BY <2>1, <2>2 DEF e
    <3> QED
      BY <1>3, <2>3, <3>1, <3>2
  <2> QED
    BY <1>1, <2>1, <2>3, <2>4
<1> QED
  BY <1>4, <1>5

(* A form without the replacement's mark, apart from what was replaced,    *)
(* that matches what is left matched the text, at a position from which it *)
(* still leads what is left.                                               *)
LEMMA LeftMatch ==
    ASSUME NEW pattern \in Pattern, NEW text \in Text, NEW from,
           LeftFrom(pattern, text, from), NEW other \in Pattern, Apart(other, pattern),
           NEW form \in other, "REDACTED" \notin ToSet(form.marks),
           NEW p \in 1..Len(from[1]), MatchesAt(form, from[1], p)
    PROVE  \E q \in 1..Len(text) : MatchesAt(form, text, q) /\ from[q][1] = form.marks[1]
<1> DEFINE m == Len(form.marks)
<1>1. /\ m \in Nat \ {0} /\ \A k \in 1..m : form.marks[k] # "REDACTED"
      /\ Head(form.marks) = form.marks[1] /\ Last(form.marks) = form.marks[m]
  BY FormFacts DEF ToSet
<1>2. PICK q \in 1..Len(text) :
         /\ Len(from[1]) = p - 1 + Len(from[q])
         /\ \A k \in 1..Len(from[q]) : from[1][p + k - 1] = from[q][k]
         /\ IF p = 1 THEN q = 1 ELSE LeftOf(pattern, text, from[1][p - 1], q)
  BY LeftSuffix
<1>3. /\ Len(text) \in Nat /\ Len(from[q]) \in Nat /\ from[1] \in Text /\ Len(from[1]) \in Nat
      /\ DOMAIN text = 1..Len(text) /\ DOMAIN from[1] = 1..Len(from[1])
  BY DEF LeftFrom, Text
<1>4. /\ p + m <= Len(from[1]) + 1 /\ \A k \in 1..m : from[1][p + k - 1] = form.marks[k]
      /\ Neighbour(from[1], p - 1) \notin form.left /\ Neighbour(from[1], p + m) \notin form.right
  BY <1>1 DEF MatchesAt
<1>5. m \in 0..Len(from[q])
  BY <1>1, <1>2, <1>3, <1>4
<1>6. \A k \in 1..m : from[q][k] = form.marks[k]
  BY <1>1, <1>2, <1>4, <1>5
<1>7. \A k \in 1..m : from[q][k] # "REDACTED"
  BY <1>1, <1>6
<1>8. q + m <= Len(text) + 1 /\ \A k \in 1..m : text[q + k - 1] = from[q][k]
  <2>1. q \in 1..(Len(text) + 1)
    BY <1>3
  <2>2. Run(text, from, q, m)
    <3> HIDE DEF m
    <3> QED
      BY <1>5, <1>7, <2>1, LeftPrefix
  <2> QED
    BY <2>2 DEF Run
<1>9. \A k \in 1..m : text[q + k - 1] = form.marks[k]
  BY <1>6, <1>8
<1>10. text[q] = Head(form.marks) /\ text[q + m - 1] = Last(form.marks)
  <2>1. text[q + 1 - 1] = form.marks[1] /\ q + 1 - 1 = q
    BY <1>1, <1>9
  <2>2. text[q + m - 1] = form.marks[m]
    BY <1>1, <1>9
  <2> QED
    BY <1>1, <2>1, <2>2
<1>11. ASSUME NEW gone \in pattern
       PROVE  /\ \/ "REDACTED" \in form.left \/ Last(gone.marks) \notin form.left
                 \/ Head(form.marks) \in gone.right
              /\ \/ "REDACTED" \in form.right \/ Head(gone.marks) \notin form.right
                 \/ Last(form.marks) \in gone.left
  BY DEF Apart
<1>12. Neighbour(text, q - 1) \notin form.left
  <2>1. CASE p = 1
    BY <1>2, <1>3, <1>4, <2>1 DEF Neighbour
  <2>2. CASE p # 1
    <3>1. LeftOf(pattern, text, from[1][p - 1], q) /\ Neighbour(from[1], p - 1) = from[1][p - 1]
      BY <1>2, <1>3, <2>2 DEF Neighbour
    <3>2. CASE q - 1 \in 1..Len(text) /\ from[1][p - 1] = text[q - 1]
      BY <1>3, <1>4, <3>1, <3>2 DEF Neighbour
    <3>3. CASE from[1][p - 1] = "REDACTED" /\ \E i \in 1..Len(text) : GoneAt(pattern, text, i, q)
      <4>1. PICK i \in 1..Len(text), gone \in pattern :
               q = i + Len(gone.marks) /\ MatchesAt(gone, text, i)
        BY <3>3 DEF GoneAt
      <4> DEFINE n == Len(gone.marks)
      <4>2. n \in Nat \ {0} /\ Last(gone.marks) = gone.marks[n]
        BY FormFacts
      <4>3. /\ \A k \in 1..n : text[i + k - 1] = gone.marks[k]
            /\ Neighbour(text, i + n) \notin gone.right
        BY <4>1 DEF MatchesAt
      <4>4. Neighbour(text, i + n) = Head(form.marks)
        BY <1>3, <1>10, <4>1 DEF Neighbour
      <4>5. i + n - 1 = q - 1 /\ q - 1 \in 1..Len(text)
        BY <1>3, <4>1, <4>2
      <4>6. Neighbour(text, q - 1) = Last(gone.marks)
        <5>1. text[i + n - 1] = gone.marks[n]
          BY <4>2, <4>3
        <5> QED
          BY <1>3, <4>2, <4>5, <5>1 DEF Neighbour
      <4> QED
        BY <1>4, <1>11, <3>1, <3>3, <4>3, <4>4, <4>6
    <3> QED
      BY <3>1, <3>2, <3>3 DEF LeftOf
  <2> QED
    BY <2>1, <2>2
<1>13. Neighbour(text, q + m) \notin form.right
  <2>1. /\ p + m <= Len(from[1]) <=> m < Len(from[q])
        /\ m < Len(from[q]) => from[1][p + m] = from[q][m + 1]
    <3>1. p + m <= Len(from[1]) <=> m < Len(from[q])
      BY <1>1, <1>2, <1>3
    <3>2. ASSUME m < Len(from[q]) PROVE from[1][p + m] = from[q][m + 1]
      <4>1. m + 1 \in 1..Len(from[q]) /\ p + (m + 1) - 1 = p + m
        BY <1>1, <1>3, <3>2
      <4> QED
        BY <1>2, <4>1
    <3> QED
      BY <3>1, <3>2
  <2>2. p + m \in Nat /\ p + m >= 1 /\ q + m \in Nat
    BY <1>1, <1>3
  <2>3. q \in 1..(Len(text) + 1)
    BY <1>3
  <2> HIDE DEF m
  <2>4. CASE m = Len(from[q]) /\ q + m = Len(text) + 1
    <3>1. Neighbour(text, q + m) = "edge"
      BY <1>3, <2>4 DEF Neighbour
    <3>2. Neighbour(from[1], p + m) = "edge"
      BY <1>3, <2>1, <2>2, <2>4 DEF Neighbour
    <3> QED
      BY <1>4, <3>1, <3>2
  <2>5. CASE m < Len(from[q]) /\ q + m \in 1..Len(text) /\ from[q][m + 1] = text[q + m]
    <3>1. Neighbour(text, q + m) = text[q + m]
      BY <1>3, <2>5 DEF Neighbour
    <3>2. Neighbour(from[1], p + m) = text[q + m]
      BY <1>3, <2>1, <2>2, <2>5 DEF Neighbour
    <3> QED
      BY <1>4, <3>1, <3>2
  <2>6. CASE /\ m < Len(from[q]) /\ q + m \in 1..Len(text) /\ from[q][m + 1] = "REDACTED"
             /\ \E j \in Nat : GoneAt(pattern, text, q + m, j)
    <3>1. PICK gone \in pattern : MatchesAt(gone, text, q + m)
      BY <2>6 DEF GoneAt
    <3>2. Len(gone.marks) \in Nat \ {0} /\ Head(gone.marks) = gone.marks[1]
      BY FormFacts
    <3>0. PICK e \in 1..Len(text) : e = q + m
      BY <2>6
    <3>3. /\ \A k \in 1..Len(gone.marks) : text[e + k - 1] = gone.marks[k]
          /\ Neighbour(text, e - 1) \notin gone.left
      <4>1. MatchesAt(gone, text, e)
        BY <3>0, <3>1
      <4> QED
        BY <4>1 DEF MatchesAt
    <3>4. text[e] = Head(gone.marks)
      <4>1. text[e + 1 - 1] = gone.marks[1] /\ e + 1 - 1 = e
        BY <3>2, <3>3
      <4> QED
        BY <3>2, <4>1
    <3>5. Neighbour(text, e) = Head(gone.marks)
      BY <1>3, <3>4 DEF Neighbour
    <3>6. Neighbour(text, e - 1) = Last(form.marks)
      <4>1. e - 1 \in 1..Len(text) /\ e - 1 = q + m - 1
        BY <1>1, <1>3, <2>2, <3>0
      <4>2. Neighbour(text, q + m - 1) = Last(form.marks)
        <5>1. q + m - 1 \in 1..Len(text)
          BY <4>1
        <5> QED
          BY <1>3, <1>10, <5>1 DEF Neighbour
      <4> QED
        BY <4>1, <4>2
    <3>7. Neighbour(from[1], p + m) = "REDACTED"
      BY <1>3, <2>1, <2>2, <2>6 DEF Neighbour
    <3> QED
      BY <1>4, <1>11, <3>0, <3>3, <3>5, <3>6, <3>7
  <2> QED
    BY <1>5, <1>7, <2>3, <2>4, <2>5, <2>6, RightOf
<1>14. MatchesAt(form, text, q)
  BY <1>8, <1>9, <1>12, <1>13 DEF MatchesAt
<1>15. from[q][1] = form.marks[1]
  BY <1>1, <1>6
<1> QED
  BY <1>14, <1>15

(* Redacting leaves a text, not a blank one of one that was not.  It makes *)
(* no new match of a pattern without the replacement's mark that is apart  *)
(* from what it replaces, and leaves none of its own, if it is apart from  *)
(* itself.                                                                 *)
Unmade(other, pattern) == Lacks(other, "REDACTED") /\ Apart(other, pattern)

LEMMA RedactedFacts ==
    ASSUME NEW pattern \in Pattern, NEW text \in Text
    PROVE  /\ Redacted(pattern, text) \in Text
           /\ ~IsBlank(text) => ~IsBlank(Redacted(pattern, text))
           /\ \A other \in Pattern :
                 Unmade(other, pattern) /\ Occurs(other, Redacted(pattern, text))
                    => Occurs(other, text)
           /\ Unmade(pattern, pattern) => ~Occurs(pattern, Redacted(pattern, text))
<1>1. PICK from : LeftFrom(pattern, text, from)
  BY RedactedSteps
<1>2. Redacted(pattern, text) = from[1] /\ from[1] \in Text /\ Len(text) \in Nat
  BY <1>1 DEF LeftFrom, Text
<1>3. DOMAIN from[1] = 1..Len(from[1]) /\ DOMAIN text = 1..Len(text)
  BY <1>2 DEF Text
<1>4. ASSUME NEW other \in Pattern, Unmade(other, pattern), Occurs(other, from[1])
      PROVE  \E form \in other, q \in 1..Len(text) :
                MatchesAt(form, text, q) /\ from[q][1] = form.marks[1]
  <2>1. PICK form \in other, p \in 1..Len(from[1]) : MatchesAt(form, from[1], p)
    BY <1>3, <1>4 DEF Occurs
  <2>2. "REDACTED" \notin ToSet(form.marks) /\ Apart(other, pattern)
    BY <1>4 DEF Lacks, Unmade
  <2> QED
    BY <1>1, <2>1, <2>2, LeftMatch
<1>5. ASSUME NEW other \in Pattern, Unmade(other, pattern), Occurs(other, from[1])
      PROVE  Occurs(other, text)
  BY <1>3, <1>4, <1>5 DEF Occurs
<1>6. ASSUME Unmade(pattern, pattern), Occurs(pattern, from[1])
      PROVE  FALSE
  <2>1. PICK form \in pattern, q \in 1..Len(text) :
           MatchesAt(form, text, q) /\ from[q][1] = form.marks[1]
    BY <1>4, <1>6
  <2>2. FormsAt(pattern, text, q) # {}
    BY <2>1 DEF FormsAt
  <2>3. from[q][1] = "REDACTED"
    BY <1>1, <2>2, LeftStep DEF LeftBy
  <2>4. "REDACTED" \notin ToSet(form.marks)
    BY <1>6 DEF Lacks, Unmade
  <2>5. 1 \in DOMAIN form.marks
    BY FormFacts
  <2> QED
    BY <2>1, <2>3, <2>4, <2>5 DEF ToSet
<1>7. ~IsBlank(text) => ~IsBlank(from[1])
  BY <1>1, LeftNonBlank
<1> QED
  BY <1>2, <1>5, <1>6, <1>7

(* What matches a part of a text that lies between the ends of lines       *)
(* matches the text.                                                       *)
LEMMA OccursInWhole ==
    ASSUME NEW pattern \in Pattern, OpenEnds(pattern), NEW a \in Text, NEW part \in Text, NEW b \in Text,
           Occurs(pattern, part),
           Neighbour((a \o part) \o b, Len(a)) \in LineEnds,
           Neighbour((a \o part) \o b, Len(a) + Len(part) + 1) \in LineEnds
    PROVE  Occurs(pattern, (a \o part) \o b)
<1> DEFINE text == (a \o part) \o b
<1>2. PICK form \in pattern, p \in 1..Len(part) : MatchesAt(form, part, p)
  BY DEF Occurs, Text
<1> DEFINE m == Len(form.marks)
<1>4. /\ Len(a) \in Nat /\ Len(b) \in Nat /\ Len(part) \in Nat /\ m \in Nat \ {0}
      /\ DOMAIN part = 1..Len(part)
  BY <1>2, FormFacts DEF Text
<1>5. /\ a \o part \in Text /\ Len(a \o part) = Len(a) + Len(part)
      /\ \A k \in 1..Len(part) : (a \o part)[Len(a) + k] = part[k]
  <2>1. a \o part \in Text
    BY TextFacts
  <2>2. Len(a \o part) = Len(a) + Len(part)
    BY ConcatProperties DEF Text
  <2>3. \A k \in 1..(Len(a) + Len(part)) :
           (a \o part)[k] = IF k <= Len(a) THEN a[k] ELSE part[k - Len(a)]
    BY ConcatProperties DEF Text
  <2> QED
    BY <1>4, <2>1, <2>2, <2>3
<1>6. /\ text \in Text /\ Len(text) = Len(a) + Len(part) + Len(b)
      /\ \A k \in 1..(Len(a) + Len(part)) : text[k] = (a \o part)[k]
  <2> DEFINE front == a \o part
  <2>1. front \in Seq(Marks) /\ b \in Seq(Marks) /\ text = front \o b
    BY <1>5 DEF Text
  <2> HIDE DEF front, text
  <2>2. Len(text) = Len(front) + Len(b) /\ text \in Seq(Marks)
    BY <2>1, ConcatProperties
  <2>3. \A k \in 1..(Len(front) + Len(b)) :
           text[k] = IF k <= Len(front) THEN front[k] ELSE b[k - Len(front)]
    BY <2>1, ConcatProperties
  <2>4. Len(front) = Len(a) + Len(part) /\ front = a \o part
    BY <1>5 DEF front
  <2> QED
    BY <1>4, <2>2, <2>3, <2>4 DEF Text
<1>0. Neighbour(text, Len(a)) \in LineEnds /\ Neighbour(text, Len(a) + Len(part) + 1) \in LineEnds
  OBVIOUS
<1> HIDE DEF text
<1>7. /\ p + m <= Len(part) + 1 /\ \A k \in 1..m : part[p + k - 1] = form.marks[k]
      /\ Neighbour(part, p - 1) \notin form.left /\ Neighbour(part, p + m) \notin form.right
  BY <1>2, <1>4 DEF MatchesAt
<1> DEFINE q == Len(a) + p
<1>8. q \in DOMAIN text /\ q + m <= Len(text) + 1 /\ DOMAIN text = 1..Len(text)
  BY <1>4, <1>6, <1>7 DEF Text
<1>9. \A j \in 1..Len(part) : text[Len(a) + j] = part[j] /\ Len(a) + j \in DOMAIN text
  <2> TAKE j \in 1..Len(part)
  <2>1. Len(a) + j \in 1..(Len(a) + Len(part))
    BY <1>4
  <2>2. text[Len(a) + j] = part[j]
    BY <1>5, <1>6, <2>1
  <2> QED
    BY <1>4, <1>6, <1>8, <2>1, <2>2
<1>10. ASSUME NEW k \in 1..m PROVE text[q + k - 1] = form.marks[k]
  <2>1. p + k - 1 \in 1..Len(part) /\ q + k - 1 = Len(a) + (p + k - 1)
    BY <1>4, <1>7
  <2> DEFINE j == p + k - 1
  <2>2. text[Len(a) + j] = part[j]
    <3>1. j \in 1..Len(part)
      BY <2>1
    <3> HIDE DEF j
    <3> QED
      BY <1>9, <3>1
  <2> QED
    BY <1>7, <2>1, <2>2
<1>11. \A side \in {form.left, form.right} : "edge" \notin side => LineEnds \cap side = {}
  BY <1>2 DEF OpenEnds, LineEnds
<1>12. Neighbour(text, q - 1) \notin form.left
  <2>1. CASE p = 1
    <3>1. q - 1 = Len(a) /\ Neighbour(part, p - 1) = "edge"
      BY <1>4, <2>1 DEF Neighbour
    <3> QED
      BY <1>0, <1>7, <1>11, <3>1
  <2>2. CASE p # 1
    <3>1. p - 1 \in 1..Len(part) /\ q - 1 = Len(a) + (p - 1)
      BY <1>4, <2>2
    <3>2. Neighbour(text, q - 1) = part[p - 1] /\ Neighbour(part, p - 1) = part[p - 1]
      <4> DEFINE j == p - 1
      <4>1. j \in 1..Len(part) /\ q - 1 = Len(a) + j
        BY <3>1
      <4> HIDE DEF j, q
      <4>2. Neighbour(text, q - 1) = part[j] /\ Neighbour(part, j) = part[j]
        BY <1>4, <1>9, <4>1 DEF Neighbour
      <4> QED
        BY <4>2 DEF j
    <3> QED
      BY <1>7, <3>2
  <2> QED
    BY <2>1, <2>2
<1>13. Neighbour(text, q + m) \notin form.right
  <2>1. CASE p + m = Len(part) + 1
    <3>0. p \in Nat
      BY <1>4
    <3>1. q + m = Len(a) + Len(part) + 1 /\ Neighbour(part, p + m) = "edge"
      <4> HIDE DEF m
      <4> QED
        BY <1>4, <2>1, <3>0 DEF Neighbour
    <3> QED
      BY <1>0, <1>7, <1>11, <3>1
  <2>2. CASE p + m # Len(part) + 1
    <3> DEFINE j == p + m
    <3>0. p \in Nat /\ p + m <= Len(part) + 1 /\ p >= 1
      BY <1>4, <1>7
    <3>1. j \in 1..Len(part) /\ q + m = Len(a) + j
      <4> HIDE DEF m
      <4> QED
        BY <1>4, <2>2, <3>0
    <3> HIDE DEF j
    <3>2. Neighbour(text, Len(a) + j) = part[j] /\ Neighbour(part, j) = part[j]
      BY <1>4, <1>9, <3>1 DEF Neighbour
    <3> QED
      BY <1>7, <3>1, <3>2 DEF j
  <2> QED
    BY <2>1, <2>2
<1>14. MatchesAt(form, text, q)
  BY <1>4, <1>8, <1>10, <1>12, <1>13 DEF MatchesAt
<1> QED
  BY <1>8, <1>14 DEF Occurs, text

LEMMA RuleType ==
    ASSUME NEW rules \in Rules, NEW i \in DOMAIN rules
    PROVE  rules[i].pattern \in Pattern /\ rules[i].action \in {"block", "redact", "log_only"}
<1> DEFINE R == [pattern : Pattern, action : {"block", "redact", "log_only"}]
<1>1. \A rule \in R : rule.pattern \in Pattern /\ rule.action \in {"block", "redact", "log_only"}
  OBVIOUS
<1>2. rules[i] \in R
  <2>1. rules \in Seq(R)
    BY DEF Rules
  <2> HIDE DEF R
  <2> QED
    BY <2>1
<1> HIDE DEF R
<1> QED
  BY <1>1, <1>2

RedactedUpTo(rules, text, after) ==
    /\ after \in [0..Len(rules) -> Text]
    /\ after[0] = text
    /\ \A n \in 1..Len(rules) :
          after[n] = IF rules[n].action = "redact"
                     THEN Redacted(rules[n].pattern, after[n - 1]) ELSE after[n - 1]
    /\ RedactText(rules, text) = after[Len(rules)]

LEMMA RedactTextSteps ==
    ASSUME NEW rules \in Rules, NEW text \in Text
    PROVE  \E after : RedactedUpTo(rules, text, after)
<1> DEFINE N == Len(rules)
           D == 0..N
           Next1(g, n) ==
               IF n = 0 THEN text
               ELSE IF rules[n].action = "redact" THEN Redacted(rules[n].pattern, g[n - 1])
               ELSE g[n - 1]
           F == [g \in [D -> Text] |-> [n \in D |-> Next1(g, n)]]
           rank == [n \in D |-> n]
<1>1. N \in Nat /\ \A n \in D : n # 0 => n \in DOMAIN rules /\ n - 1 \in D
  BY DEF Rules
<1>2. rank \in [D -> Nat] /\ \E top \in Nat : \A n \in D : rank[n] <= top
  <2>1. \A n \in D : n \in Nat /\ n <= N
    BY <1>1
  <2> HIDE DEF D, N
  <2> QED
    BY <1>1, <2>1
<1>3. ASSUME NEW g \in [D -> Text], NEW n \in D PROVE Next1(g, n) \in Text
  <2>1. CASE n = 0
    BY <2>1
  <2>2. CASE n # 0
    <3>1. rules[n].pattern \in Pattern
      BY <1>1, <2>2, RuleType
    <3>2. g[n - 1] \in Text
      <4> HIDE DEF D
      <4> QED
        BY <1>1, <2>2
    <3>3. Redacted(rules[n].pattern, g[n - 1]) \in Text
      BY <3>1, <3>2, RedactedFacts
    <3> QED
      BY <2>2, <3>2, <3>3
  <2> QED
    BY <2>1, <2>2
<1>4. F \in [[D -> Text] -> [D -> Text]]
  <2> HIDE DEF Next1, D
  <2> QED
    BY <1>3
<1>5. ASSUME NEW g \in [D -> Text], NEW h \in [D -> Text], NEW n \in D,
             \A m \in D : rank[m] < rank[n] => g[m] = h[m]
      PROVE  F[g][n] = F[h][n]
  <2>1. n # 0 => n - 1 \in D /\ rank[n - 1] < rank[n]
    BY <1>1
  <2>2. Next1(g, n) = Next1(h, n)
    BY <1>5, <2>1
  <2> HIDE DEF Next1
  <2> QED
    BY <2>2
<1>6. \E g \in [D -> Text] : g = F[g]
  <2>1. Descends(F, D, Text, rank)
    <3>1. \A g, h \in [D -> Text], n \in D :
             (\A m \in D : rank[m] < rank[n] => g[m] = h[m]) => F[g][n] = F[h][n]
      BY <1>5
    <3> HIDE DEF F, D, rank
    <3> QED
      BY <1>2, <1>4, <3>1 DEF Descends
  <2>2. Text # {}
    OBVIOUS
  <2> HIDE DEF F, D, rank
  <2> QED
    BY <2>1, <2>2, RankRecursion
<1>7. PICK g0 \in [D -> Text] : g0 = [n \in D |-> Next1(g0, n)]
  BY <1>6
<1> DEFINE after == CHOOSE g : g = [n \in D |-> Next1(g, n)]
           A(h) == {n \in D : after[n] = h[n]}
<1>8. after = [n \in D |-> Next1(after, n)]
  <2> HIDE DEF Next1, D
  <2> QED
    BY <1>7
<1>9. RedactText(rules, text) = after[N]
  BY DEF RedactText
<1> HIDE DEF after
<1>10. \A n \in D : after[n] = Next1(after, n) /\ g0[n] = Next1(g0, n)
  <2> HIDE DEF Next1, D
  <2> QED
    BY <1>7, <1>8
<1>11. ASSUME NEW n \in 1..N, n - 1 \in A(g0) PROVE n \in A(g0)
  <2>1. n \in D /\ n # 0 /\ after[n - 1] = g0[n - 1]
    BY <1>1, <1>11
  <2>2. Next1(after, n) = Next1(g0, n)
    BY <2>1
  <2> HIDE DEF Next1, D
  <2> QED
    BY <1>10, <2>1, <2>2
<1>12. D \subseteq A(g0)
  <2>1. 0 \in A(g0)
    BY <1>1, <1>10
  <2> HIDE DEF A, N
  <2> QED
    BY <1>1, <1>11, <2>1, UpInduction
<1>13. after \in [D -> Text]
  <2> HIDE DEF Next1, D
  <2> QED
    BY <1>8, <1>12
<1>14. 0 \in D /\ \A n \in 1..N : n \in D /\ n # 0
  BY <1>1
<1> QED
  BY <1>9, <1>10, <1>13, <1>14 DEF RedactedUpTo

(* They leave a text, not a blank one of one that was not, make no new     *)
(* match of a pattern none of them makes, and leave no match of one they   *)
(* redact, whichever rules follow.                                         *)
UnmadeBy(other, rules) ==
    \A j \in DOMAIN rules : rules[j].action = "redact" => Unmade(other, rules[j].pattern)

LEMMA RedactTextFacts ==
    ASSUME NEW rules \in Rules, NEW text \in Text
    PROVE  /\ RedactText(rules, text) \in Text
           /\ ~IsBlank(text) => ~IsBlank(RedactText(rules, text))
           /\ \A other \in Pattern :
                 UnmadeBy(other, rules) /\ Occurs(other, RedactText(rules, text))
                    => Occurs(other, text)
           /\ \A i \in DOMAIN rules :
                 rules[i].action = "redact" /\ UnmadeBy(rules[i].pattern, rules)
                    => ~Occurs(rules[i].pattern, RedactText(rules, text))
<1> DEFINE N == Len(rules)
<1>1. N \in Nat /\ DOMAIN rules = 1..N
  BY DEF Rules
<1>2. PICK after : RedactedUpTo(rules, text, after)
  BY RedactTextSteps
<1> DEFINE Keeps(n) ==
              /\ ~IsBlank(text) => ~IsBlank(after[n])
              /\ \A other \in Pattern :
                    UnmadeBy(other, rules) /\ Occurs(other, after[n]) => Occurs(other, text)
           Clears(n) ==
              \A i \in 1..n : rules[i].action = "redact" /\ UnmadeBy(rules[i].pattern, rules)
                                 => ~Occurs(rules[i].pattern, after[n])
           H == {n \in 0..N : Keeps(n) /\ Clears(n)}
<1>3. 0 \in H
  BY <1>1, <1>2 DEF RedactedUpTo
<1>4. ASSUME NEW n \in 1..N, n - 1 \in H PROVE n \in H
  <2>1. n \in 0..N /\ n \in DOMAIN rules /\ after[n - 1] \in Text
    BY <1>1, <1>2 DEF RedactedUpTo
  <2>2. rules[n].pattern \in Pattern
    BY <2>1, RuleType
  <2>3. CASE rules[n].action = "redact"
    <3>1. after[n] = Redacted(rules[n].pattern, after[n - 1])
      BY <1>2, <2>3 DEF RedactedUpTo
    <3>2. /\ ~IsBlank(after[n - 1]) => ~IsBlank(after[n])
          /\ \A other \in Pattern :
                UnmadeBy(other, rules) /\ Occurs(other, after[n]) => Occurs(other, after[n - 1])
          /\ UnmadeBy(rules[n].pattern, rules) => ~Occurs(rules[n].pattern, after[n])
      <4>1. \A other : UnmadeBy(other, rules) => Unmade(other, rules[n].pattern)
        BY <2>1, <2>3 DEF UnmadeBy
      <4> QED
        BY <2>1, <2>2, <3>1, <4>1, RedactedFacts
    <3>3. Keeps(n)
      BY <1>4, <3>2
    <3>4. ASSUME NEW i \in 1..n, rules[i].action = "redact", UnmadeBy(rules[i].pattern, rules)
          PROVE  ~Occurs(rules[i].pattern, after[n])
      <4>1. CASE i = n
        BY <3>2, <3>4, <4>1
      <4>2. CASE i # n
        <5>1. i \in 1..(n - 1) /\ i \in DOMAIN rules
          BY <1>1, <4>2
        <5>2. ~Occurs(rules[i].pattern, after[n - 1])
          BY <1>4, <3>4, <5>1
        <5>3. rules[i].pattern \in Pattern
          BY <5>1, RuleType
        <5> QED
          BY <3>2, <3>4, <5>2, <5>3
      <4> QED
        BY <4>1, <4>2
    <3> QED
      BY <2>1, <3>3, <3>4
  <2>4. CASE rules[n].action # "redact"
    <3>1. after[n] = after[n - 1]
      BY <1>2, <2>4 DEF RedactedUpTo
    <3>2. \A i \in 1..n : rules[i].action = "redact" => i \in 1..(n - 1)
      BY <2>4
    <3>3. Clears(n)
      BY <1>4, <3>1, <3>2
    <3>4. Keeps(n)
      BY <1>4, <3>1
    <3> QED
      BY <2>1, <3>3, <3>4
  <2> QED
    BY <2>3, <2>4
<1>5. 0..N \subseteq H
  <2> HIDE DEF H, N
  <2> QED
    BY <1>1, <1>3, <1>4, UpInduction
<1>6. N \in H
  BY <1>1, <1>5
<1>7. RedactText(rules, text) = after[N] /\ after[N] \in Text
  BY <1>1, <1>2 DEF RedactedUpTo
<1> QED
  BY <1>1, <1>6, <1>7

-----------------------------------------------------------------------------
(***************************************************************************)
(* Values: how deep they nest, and induction on it.                        *)
(***************************************************************************)
LEMMA JsonSteps ==
    /\ Json[0] = Leaves
    /\ \A n \in 1..MaxNesting : Json[n] = Nested(Json[n - 1])
<1> DEFINE N == MaxNesting
           Level(g, n) == IF n = 0 THEN Leaves ELSE Nested(g[n - 1])
           Holds(n) == \E g : g = [m \in 0..n |-> Level(g, m)]
           H == {n \in 0..N : Holds(n)}
<1>1. N \in Nat
  BY JsonAssumption
<1>2. 0 \in H
  <2> DEFINE g == [m \in 0..0 |-> Leaves]
  <2>1. \A m \in 0..0 : Level(g, m) = Leaves
    OBVIOUS
  <2>2. g = [m \in 0..0 |-> Level(g, m)]
    BY <2>1
  <2>3. Holds(0)
    <3> HIDE DEF g, Level
    <3> QED
      BY <2>2
  <2>4. 0 \in 0..N
    BY <1>1
  <2> HIDE DEF Holds
  <2> QED
    BY <2>3, <2>4
<1>3. ASSUME NEW n \in 1..N, n - 1 \in H PROVE n \in H
  <2>1. PICK g : g = [m \in 0..(n - 1) |-> Level(g, m)]
    BY <1>3
  <2> DEFINE h == [m \in 0..n |-> Level(g, m)]
  <2>2. \A m \in 0..(n - 1) : h[m] = g[m]
    <3>1. \A m \in 0..(n - 1) : m \in 0..n
      OBVIOUS
    <3>2. \A m \in 0..(n - 1) : g[m] = Level(g, m)
      <4> HIDE DEF Level
      <4> QED
        BY <2>1
    <3> HIDE DEF Level
    <3> QED
      BY <3>1, <3>2
  <2> HIDE DEF h
  <2>3. \A m \in 0..n : Level(h, m) = Level(g, m)
    <3>1. \A m \in 0..n : m # 0 => m - 1 \in 0..(n - 1)
      OBVIOUS
    <3> QED
      BY <2>2, <3>1
  <2>4. h = [m \in 0..n |-> Level(h, m)]
    <3> HIDE DEF Level
    <3> QED
      BY <2>3 DEF h
  <2> QED
    BY <1>1, <2>4
<1>4. 0..N \subseteq H
  <2> HIDE DEF H, N
  <2> QED
    BY <1>1, <1>2, <1>3, UpInduction
<1>5. N \in H
  BY <1>1, <1>4
<1>6. Json = [n \in 0..N |-> Level(Json, n)]
  <2>1. Json = CHOOSE g : g = [n \in 0..N |-> Level(g, n)]
    BY DEF Json
  <2> HIDE DEF Level
  <2> QED
    BY <1>5, <2>1
<1>7. \A n \in 0..N : Json[n] = Level(Json, n)
  <2> HIDE DEF Level
  <2> QED
    BY <1>6
<1> QED
  BY <1>1, <1>7

(* What nests no deeper than n is a value whatever the depth allowed.      *)
LEMMA JsonGrows ==
    \A n \in 1..MaxNesting : Json[n - 1] \subseteq Json[n]
<1> DEFINE H == {n \in 0..MaxNesting : n # 0 => Json[n - 1] \subseteq Json[n]}
<1>1. MaxNesting \in Nat
  BY JsonAssumption
<1>2. 0 \in H
  BY <1>1
<1>3. ASSUME NEW n \in 1..MaxNesting, n - 1 \in H PROVE n \in H
  <2>1. Json[n] = Nested(Json[n - 1])
    BY JsonSteps
  <2>2. CASE n = 1
    BY <2>1, <2>2, JsonSteps DEF Nested
  <2>3. CASE n # 1
    <3>1. n - 1 \in 1..MaxNesting
      BY <1>1, <2>3
    <3>2. Json[n - 1] = Nested(Json[(n - 1) - 1]) /\ Json[(n - 1) - 1] \subseteq Json[n - 1]
      BY <1>3, <3>1, JsonSteps
    <3>3. \A P, Q : P \subseteq Q => Nested(P) \subseteq Nested(Q)
      BY DEF Nested
    <3> QED
      BY <2>1, <3>2, <3>3
  <2> QED
    BY <2>2, <2>3
<1>4. 0..MaxNesting \subseteq H
  <2> HIDE DEF H
  <2> QED
    BY <1>1, <1>2, <1>3, UpInduction
<1> QED
  BY <1>4

LEMMA JsonMonotone ==
    ASSUME NEW n \in 0..MaxNesting
    PROVE  \A m \in 0..n : Json[m] \subseteq Json[n]
<1> DEFINE N == MaxNesting
           H == {i \in 0..N : \A m \in 0..i : Json[m] \subseteq Json[i]}
<1>1. N \in Nat
  BY JsonAssumption
<1>2. 0 \in H
  BY <1>1
<1>3. ASSUME NEW i \in 1..N, i - 1 \in H PROVE i \in H
  <2>1. Json[i - 1] \subseteq Json[i]
    BY <1>3, JsonGrows
  <2>2. \A m \in 0..i : m \in 0..(i - 1) \/ m = i
    OBVIOUS
  <2> QED
    BY <1>1, <1>3, <2>1, <2>2
<1>4. 0..N \subseteq H
  <2> HIDE DEF H, N
  <2> QED
    BY <1>1, <1>2, <1>3, UpInduction
<1> QED
  BY <1>4

LEMMA JsonInValue ==
    ASSUME NEW n \in 0..MaxNesting
    PROVE  Json[n] \subseteq Value
  BY JsonMonotone, JsonAssumption DEF Value

(* How deep a value nests.                                                 *)
Depth ==
    [v \in Value |-> CHOOSE n \in 0..MaxNesting :
        v \in Json[n] /\ \A m \in 0..MaxNesting : v \in Json[m] => n <= m]

LEMMA DepthFacts ==
    ASSUME NEW v \in Value
    PROVE  /\ Depth[v] \in 0..MaxNesting /\ v \in Json[Depth[v]]
           /\ \A m \in 0..MaxNesting : v \in Json[m] => Depth[v] <= m
<1> DEFINE T == {n \in 0..MaxNesting : v \in Json[n]}
<1>1. T \subseteq Nat /\ T # {}
  BY JsonAssumption DEF Value
<1>2. PICK n \in T : \A m \in T : n <= m
  BY <1>1, LeastNumber
<1> QED
  BY <1>2 DEF Depth

LEMMA DepthIsRank ==
    Depth \in [Value -> Nat] /\ \E top \in Nat : \A v \in Value : Depth[v] <= top
<1>1. \A v \in Value : Depth[v] \in Nat /\ Depth[v] <= MaxNesting
  BY DepthFacts, JsonAssumption
<1> QED
  BY <1>1, JsonAssumption DEF Depth

(* What a value of a level is made of.                                     *)
LEMMA LevelForms ==
    ASSUME NEW n \in 0..MaxNesting, NEW v \in Json[n]
    PROVE  /\ IsString(v) => v.text \in Text /\ v = Str(v.text)
           /\ IsArray(v) => n > 0 /\ v.items \in Seq(Json[n - 1]) /\ v = Arr(v.items)
           /\ IsObject(v) => n > 0 /\ v.fields \in [Keys -> Json[n - 1]]
                                /\ v = [kind |-> "object", fields |-> v.fields]
<1>1. n = 0 \/ n \in 1..MaxNesting
  BY JsonAssumption
<1>2. v \in Leaves \/ (n > 0 /\ v \in Nested(Json[n - 1]))
  BY <1>1, JsonSteps
<1>3. v \in Leaves => /\ ~IsArray(v) /\ ~IsObject(v)
                      /\ IsString(v) => v.text \in Text /\ v = Str(v.text)
  BY DEF Leaves, IsArray, IsObject, IsString, Str
<1> DEFINE P == Json[n - 1]
<1>4. ASSUME v \in [kind : {"array"}, items : Seq(P)]
      PROVE  /\ ~IsString(v) /\ ~IsObject(v)
             /\ v.items \in Seq(P) /\ v = Arr(v.items)
  BY <1>4 DEF IsString, IsObject, Arr
<1>5. ASSUME v \in [kind : {"object"}, fields : [Keys -> P]]
      PROVE  /\ ~IsString(v) /\ ~IsArray(v)
             /\ v.fields \in [Keys -> P] /\ v = [kind |-> "object", fields |-> v.fields]
  BY <1>5 DEF IsString, IsArray
<1> QED
  BY <1>2, <1>3, <1>4, <1>5 DEF Nested

LEMMA LevelBuilds ==
    ASSUME NEW n \in 0..MaxNesting
    PROVE  /\ Absent \in Json[n] /\ Null \in Json[n]
           /\ \A text \in Text : Str(text) \in Json[n]
           /\ n > 0 => /\ \A items \in Seq(Json[n - 1]) : Arr(items) \in Json[n]
                       /\ \A fields \in [Keys -> Json[n - 1]] :
                             [kind |-> "object", fields |-> fields] \in Json[n]
<1>1. n = 0 \/ n \in 1..MaxNesting
  BY JsonAssumption
<1>2. Leaves \subseteq Json[n]
  BY <1>1, JsonSteps DEF Nested
<1>3. n > 0 => Json[n] = Nested(Json[n - 1])
  BY <1>1, JsonSteps
<1>4. Absent \in Leaves /\ Null \in Leaves /\ \A text \in Text : Str(text) \in Leaves
  BY DEF Leaves, Absent, Null, Str
<1> DEFINE P == Json[n - 1]
<1>5. \A items \in Seq(P) : Arr(items) \in Nested(P)
  BY DEF Nested, Arr
<1>6. \A fields \in [Keys -> P] : [kind |-> "object", fields |-> fields] \in Nested(P)
  BY DEF Nested
<1> QED
  BY <1>2, <1>3, <1>4, <1>5, <1>6

(* The parts of a value are values that nest less deep.                    *)
LEMMA PartsLower ==
    ASSUME NEW v \in Value
    PROVE  /\ IsString(v) => v.text \in Text
           /\ IsArray(v) => /\ v.items \in Seq(Value)
                            /\ \A i \in 1..Len(v.items) : Depth[v.items[i]] < Depth[v]
           /\ IsObject(v) => /\ v.fields \in [Keys -> Value]
                             /\ \A k \in Keys : Depth[v.fields[k]] < Depth[v]
<1> DEFINE n == Depth[v]
           P == Json[n - 1]
<1>1. n \in 0..MaxNesting /\ v \in Json[n] /\ n \in Nat
  BY DepthFacts
<1> HIDE DEF n
<1>2. /\ IsString(v) => v.text \in Text
      /\ IsArray(v) => n > 0 /\ v.items \in Seq(P)
      /\ IsObject(v) => n > 0 /\ v.fields \in [Keys -> P]
  BY <1>1, LevelForms
<1>3. ASSUME n > 0
      PROVE  P \subseteq Value /\ \A w \in P : Depth[w] < n
  <2>1. n - 1 \in 0..MaxNesting
    BY <1>1, <1>3, JsonAssumption
  <2>2. P \subseteq Value
    BY <2>1, JsonInValue
  <2>3. \A w \in P : Depth[w] <= n - 1 /\ Depth[w] \in Nat
    BY <2>1, <2>2, DepthFacts
  <2> QED
    BY <1>1, <2>2, <2>3
<1> HIDE DEF P
<1>4. IsArray(v) => v.items \in Seq(Value) /\ \A i \in 1..Len(v.items) : v.items[i] \in P
  <2>1. ASSUME IsArray(v) PROVE v.items \in Seq(Value) /\ \A i \in 1..Len(v.items) : v.items[i] \in P
    <3>1. v.items \in Seq(P) /\ P \subseteq Value
      BY <1>2, <1>3, <2>1
    <3> QED
      BY <3>1
  <2> QED
    BY <2>1
<1>5. IsObject(v) => v.fields \in [Keys -> Value] /\ \A k \in Keys : v.fields[k] \in P
  BY <1>2, <1>3
<1> QED
  BY <1>2, <1>3, <1>4, <1>5 DEF n

LEMMA GetFacts ==
    ASSUME NEW v \in Value, NEW key \in Keys
    PROVE  /\ Get(v, key) \in Value
           /\ IsObject(v) => Depth[Get(v, key)] < Depth[v]
<1>1. Absent \in Value
  BY LevelBuilds, JsonAssumption DEF Value
<1> QED
  BY <1>1, PartsLower DEF Get

LEMMA KeysFacts ==
    /\ KeysRead \subseteq Keys /\ KeyOrder \in Seq(Keys)
    /\ \A k : k \in Keys <=> \E i \in 1..Len(KeyOrder) : KeyOrder[i] = k
<1>1. KeyOrder \in Seq(STRING) /\ KeysRead \subseteq Keys /\ Len(KeyOrder) \in Nat
  BY JsonAssumption
<1>2. DOMAIN KeyOrder = 1..Len(KeyOrder)
  BY <1>1
<1>3. \A k : k \in Keys <=> \E i \in 1..Len(KeyOrder) : KeyOrder[i] = k
  BY <1>2 DEF Keys, ToSet
<1> QED
  BY <1>1, <1>3

(* What holds of a value if it holds of all that nest less deep holds of   *)
(* every value.                                                            *)
LEMMA ValueInduction ==
    ASSUME NEW S, \A v \in Value : (\A w \in Value : Depth[w] < Depth[v] => w \in S) => v \in S
    PROVE  Value \subseteq S
  BY DepthIsRank, RankInduction

(* F at a value needs its argument at values that nest less deep only.     *)
Unnests(F, T) ==
    /\ F \in [[Value -> T] -> [Value -> T]]
    /\ \A g, h \in [Value -> T], v \in Value :
          (\A w \in Value : Depth[w] < Depth[v] => g[w] = h[w]) => F[g][v] = F[h][v]

LEMMA ValueRecursion ==
    ASSUME NEW T, T # {}, NEW F, Unnests(F, T)
    PROVE  \E f \in [Value -> T] : f = F[f]
<1>1. Descends(F, Value, T, Depth)
  BY DepthIsRank DEF Descends, Unnests
<1> QED
  BY <1>1, RankRecursion

-----------------------------------------------------------------------------
(***************************************************************************)
(* The strings of a value.                                                 *)
(***************************************************************************)
Fields(g, v) == [key \in Keys |-> g[v.fields[key]]]

StringsStep(g, v) ==
    CASE IsArray(v)  -> FlatMap(g, v.items)
      [] IsObject(v) -> FlatMap(Fields(g, v), KeyOrder)
      [] IsString(v) -> <<v.text>>
      [] OTHER       -> <<>>

(* A value is of one kind.                                                 *)
LEMMA OneKind ==
    ASSUME NEW v
    PROVE  /\ ~(IsString(v) /\ IsArray(v)) /\ ~(IsString(v) /\ IsObject(v))
           /\ ~(IsArray(v) /\ IsObject(v))
  BY DEF IsString, IsArray, IsObject

LEMMA StringsStepFacts ==
    ASSUME NEW g, NEW v \in Value,
           \A w \in Value : Depth[w] < Depth[v] => g[w] \in Seq(Text)
    PROVE  /\ StringsStep(g, v) \in Seq(Text)
           /\ \A h : (\A w \in Value : Depth[w] < Depth[v] => g[w] = h[w])
                        => StringsStep(g, v) = StringsStep(h, v)
<1>1. CASE IsString(v)
  <2>1. v.text \in Text /\ ~IsArray(v) /\ ~IsObject(v)
    BY <1>1, PartsLower, OneKind
  <2>2. \A h : StringsStep(h, v) = <<v.text>>
    BY <1>1, <2>1 DEF StringsStep
  <2> QED
    BY <2>1, <2>2
<1>2. CASE IsArray(v)
  <2>1. v.items \in Seq(Value) /\ Yields(g, v.items, Text)
    <3>1. /\ v.items \in Seq(Value)
          /\ \A i \in 1..Len(v.items) : Depth[v.items[i]] < Depth[v] /\ v.items[i] \in Value
      BY <1>2, PartsLower
    <3> QED
      BY <3>1 DEF Yields
  <2>2. \A h : StringsStep(h, v) = FlatMap(h, v.items)
    BY <1>2, OneKind DEF StringsStep
  <2>3. FlatMap(g, v.items) \in Seq(Text)
    BY <2>1, FlatMapFacts
  <2>4. ASSUME NEW h, \A w \in Value : Depth[w] < Depth[v] => g[w] = h[w]
        PROVE  FlatMap(g, v.items) = FlatMap(h, v.items)
    <3>1. \A i \in 1..Len(v.items) : v.items[i] \in Value /\ Depth[v.items[i]] < Depth[v]
      BY <1>2, PartsLower
    <3>2. \A i \in 1..Len(v.items) : g[v.items[i]] = h[v.items[i]]
      BY <2>4, <3>1
    <3> QED
      BY <2>1, <3>2, FlatMapCongruence
  <2> QED
    BY <2>2, <2>3, <2>4
<1>3. CASE IsObject(v)
  <2>1. \A k \in Keys : v.fields[k] \in Value /\ Depth[v.fields[k]] < Depth[v]
    BY <1>3, PartsLower
  <2>2. KeyOrder \in Seq(Keys) /\ \A i \in 1..Len(KeyOrder) : KeyOrder[i] \in Keys
    BY KeysFacts
  <2>3. Yields(Fields(g, v), KeyOrder, Text)
    BY <2>1, <2>2 DEF Yields, Fields
  <2>4. \A h : StringsStep(h, v) = FlatMap(Fields(h, v), KeyOrder)
    BY <1>3, OneKind DEF StringsStep
  <2>5. FlatMap(Fields(g, v), KeyOrder) \in Seq(Text)
    BY <2>2, <2>3, FlatMapFacts
  <2>6. ASSUME NEW h, \A w \in Value : Depth[w] < Depth[v] => g[w] = h[w]
        PROVE  FlatMap(Fields(g, v), KeyOrder) = FlatMap(Fields(h, v), KeyOrder)
    <3>1. Fields(g, v) = Fields(h, v)
      BY <2>1, <2>6 DEF Fields
    <3> QED
      BY <3>1
  <2> QED
    BY <2>4, <2>5, <2>6
<1>4. CASE ~IsString(v) /\ ~IsArray(v) /\ ~IsObject(v)
  <2>1. \A h : StringsStep(h, v) = <<>>
    BY <1>4 DEF StringsStep
  <2> QED
    BY <2>1, EmptySeq
<1> QED
  BY <1>1, <1>2, <1>3, <1>4

(* The walk is defined on every value and yields texts.                    *)
LEMMA StringsOfFacts ==
    ASSUME NEW v \in Value
    PROVE  StringsOf[v] = StringsStep(StringsOf, v) /\ StringsOf[v] \in Seq(Text)
<1> DEFINE T == Seq(Text)
           F == [g \in [Value -> T] |-> [w \in Value |-> StringsStep(g, w)]]
<1>1. Unnests(F, T)
  <2>1. \A g \in [Value -> T], w \in Value : StringsStep(g, w) \in T
    BY StringsStepFacts
  <2>2. F \in [[Value -> T] -> [Value -> T]]
    BY <2>1
  <2>3. \A g, h \in [Value -> T], w \in Value :
           (\A u \in Value : Depth[u] < Depth[w] => g[u] = h[u])
              => StringsStep(g, w) = StringsStep(h, w)
    BY StringsStepFacts
  <2> QED
    BY <2>2, <2>3 DEF Unnests
<1>2. PICK f \in [Value -> T] : f = [w \in Value |-> StringsStep(f, w)]
  <2>1. T # {}
    BY EmptySeq
  <2>2. \E f \in [Value -> T] : f = F[f]
    <3> HIDE DEF F, T
    <3> QED
      BY <1>1, <2>1, ValueRecursion
  <2> QED
    BY <2>2
<1>3. StringsOf = [w \in Value |-> StringsStep(StringsOf, w)]
  <2> DEFINE Walk(g) ==
          [w \in Value |->
              CASE IsArray(w)  -> FlatMap(g, w.items)
                [] IsObject(w) -> FlatMap([key \in Keys |-> g[w.fields[key]]], KeyOrder)
                [] IsString(w) -> <<w.text>>
                [] OTHER       -> <<>>]
  <2>1. StringsOf = CHOOSE g : g = Walk(g)
    BY DEF StringsOf
  <2>2. \A g : Walk(g) = [w \in Value |-> StringsStep(g, w)]
    BY DEF StringsStep, Fields
  <2> HIDE DEF Walk
  <2> QED
    BY <1>2, <2>1, <2>2
<1> DEFINE S == {w \in Value : StringsOf[w] = f[w]}
<1>4. ASSUME NEW w \in Value, \A u \in Value : Depth[u] < Depth[w] => u \in S
      PROVE  w \in S
  <2>0. \A u \in Value : Depth[u] < Depth[w] => f[u] \in Seq(Text) /\ f[u] = StringsOf[u]
    BY <1>4
  <2>1. StringsStep(f, w) = StringsStep(StringsOf, w)
    BY <2>0, StringsStepFacts
  <2>2. StringsOf[w] = StringsStep(StringsOf, w) /\ f[w] = StringsStep(f, w)
    BY <1>2, <1>3
  <2> QED
    BY <2>1, <2>2
<1>5. Value \subseteq S
  <2> HIDE DEF S
  <2> QED
    BY <1>4, ValueInduction
<1> QED
  BY <1>3, <1>5

-----------------------------------------------------------------------------
(***************************************************************************)
(* A value written as text is a text.                                      *)
(***************************************************************************)
SpelledStep(g, v) ==
    CASE IsArray(v)         -> <<"[">> \o Listed(FlatMap(Item(g), v.items)) \o <<"]">>
      [] IsObject(v)        ->
            <<"{">> \o Listed(FlatMap(Field(g, v.fields), KeyOrder)) \o <<"}">>
      [] IsString(v)        -> Quoted(v.text)
      [] v.kind = "number"  -> <<Numeral[v.number]>>
      [] v.kind = "bool"    -> IF v.holds THEN <<"true">> ELSE <<"false">>
      [] OTHER              -> <<"null">>

LEMMA Punctuation ==
    /\ \A mark \in Brackets \cup {"null", "true", "false"} : <<mark>> \in Text
    /\ \A key \in Keys : <<key>> \in Text
    /\ \A n \in DOMAIN Numeral : <<Numeral[n]>> \in Text
<1>1. \A n \in DOMAIN Numeral : Numeral[n] \in Marks
  BY JsonAssumption
<1>2. Brackets \cup Keys \cup {"null", "true", "false"} \subseteq Marks
  BY TextAssumption
<1> QED
  BY <1>1, <1>2, TextFacts

LEMMA QuotedType ==
    ASSUME NEW text \in Text PROVE Quoted(text) \in Text
<1>1. ASSUME NEW mark \in Marks PROVE Escaped(mark) \in Marks
  <2>1. CASE mark \in {"newline", "blank", "quote"}
    <3>1. PICK m \in DOMAIN Escapes : Escapes[m] = mark
      BY <2>1, TextAssumption
    <3>2. (CHOOSE e \in DOMAIN Escapes : Escapes[e] = mark) \in DOMAIN Escapes
      BY <3>1
    <3> QED
      BY <2>1, <3>2, TextAssumption DEF Escaped
  <2>2. CASE mark \notin {"newline", "blank", "quote"}
    BY <2>2 DEF Escaped
  <2> QED
    BY <2>1, <2>2
<1> DEFINE inside == [i \in DOMAIN text |-> Escaped(text[i])]
<1>2. inside \in Text
  <2>1. /\ DOMAIN text = 1..Len(text) /\ Len(text) \in Nat
        /\ \A i \in 1..Len(text) : text[i] \in Marks
    BY DEF Text
  <2>2. \A i \in 1..Len(text) : Escaped(text[i]) \in Marks
    BY <1>1, <2>1
  <2> QED
    BY <2>1, <2>2 DEF Text
<1>3. <<"quote">> \in Text
  BY Punctuation DEF Brackets
<1>4. Quoted(text) = <<"quote">> \o inside \o <<"quote">>
  BY DEF Quoted
<1> HIDE DEF inside
<1> QED
  BY <1>2, <1>3, <1>4, TextFacts

LEMMA ListedType ==
    ASSUME NEW parts \in Text PROVE Listed(parts) \in Text
<1>1. parts \in Seq(Marks)
  BY DEF Text
<1>2. parts # <<>> => Tail(parts) \in Seq(Marks)
  BY <1>1
<1> QED
  BY <1>2 DEF Listed, Text

LEMMA NumberKnown ==
    ASSUME NEW v \in Value, v.kind = "number" PROVE v.number \in DOMAIN Numeral
<1>1. ASSUME NEW parts, v \in Nested(parts) PROVE v.number \in DOMAIN Numeral
  BY <1>1 DEF Nested, Leaves
<1>2. \E parts : v \in Nested(parts)
  BY JsonSteps, JsonAssumption DEF Value
<1> QED
  BY <1>1, <1>2

LEMMA SpelledStepFacts ==
    ASSUME NEW g, NEW v \in Value, \A w \in Value : Depth[w] < Depth[v] => g[w] \in Text
    PROVE  /\ SpelledStep(g, v) \in Text
           /\ \A h : (\A w \in Value : Depth[w] < Depth[v] => g[w] = h[w])
                        => SpelledStep(g, v) = SpelledStep(h, v)
<1>0. \A mark \in Brackets \cup {"null", "true", "false"} : <<mark>> \in Text
  BY Punctuation
<1>1. CASE IsArray(v)
  <2>1. /\ v.items \in Seq(Value)
        /\ \A i \in 1..Len(v.items) : Depth[v.items[i]] < Depth[v] /\ v.items[i] \in Value
    BY <1>1, PartsLower
  <2>2. \A i \in 1..Len(v.items) : Item(g)[v.items[i]] \in Seq(Marks)
    <3> SUFFICES ASSUME NEW i \in 1..Len(v.items)
                 PROVE  <<",">> \o g[v.items[i]] \in Text
      BY <2>1 DEF Item, Text
    <3>1. g[v.items[i]] \in Text /\ <<",">> \in Text
      BY <1>0, <2>1 DEF Brackets
    <3> QED
      BY <3>1, TextFacts
  <2>3. Yields(Item(g), v.items, Marks)
    BY <2>2 DEF Yields
  <2>4. \A h : SpelledStep(h, v) = <<"[">> \o Listed(FlatMap(Item(h), v.items)) \o <<"]">>
    BY <1>1 DEF SpelledStep, IsArray, IsObject, IsString
  <2>5. FlatMap(Item(g), v.items) \in Text
    BY <2>1, <2>3, FlatMapFacts DEF Text
  <2>6. SpelledStep(g, v) \in Text
    <3> DEFINE all == FlatMap(Item(g), v.items)
    <3>1. /\ Listed(all) \in Text /\ <<"[">> \in Text /\ <<"]">> \in Text
          /\ SpelledStep(g, v) = <<"[">> \o Listed(all) \o <<"]">>
      BY <1>0, <2>4, <2>5, ListedType DEF Brackets
    <3> HIDE DEF all
    <3> QED
      BY <3>1, TextFacts
  <2>7. ASSUME NEW h, \A w \in Value : Depth[w] < Depth[v] => g[w] = h[w]
        PROVE  FlatMap(Item(g), v.items) = FlatMap(Item(h), v.items)
    <3>1. \A i \in 1..Len(v.items) : Item(g)[v.items[i]] = Item(h)[v.items[i]]
      BY <2>1, <2>7 DEF Item
    <3> QED
      BY <2>1, <2>3, <3>1, FlatMapCongruence
  <2> QED
    BY <2>4, <2>6, <2>7
<1>2. CASE IsObject(v)
  <2> DEFINE fields == v.fields
  <2>1. \A key \in Keys : fields[key] \in Value /\ Depth[fields[key]] < Depth[v]
    BY <1>2, PartsLower
  <2>2. KeyOrder \in Seq(Keys) /\ \A i \in 1..Len(KeyOrder) : KeyOrder[i] \in Keys
    BY KeysFacts
  <2>3. ASSUME NEW key \in Keys PROVE Field(g, fields)[key] \in Text
    <3>1. /\ g[fields[key]] \in Text /\ <<",">> \in Text /\ <<":">> \in Text
          /\ Quoted(<<key>>) \in Text
      BY <1>0, <2>1, Punctuation, QuotedType DEF Brackets
    <3>2. <<",">> \o Quoted(<<key>>) \o <<":">> \o g[fields[key]] \in Text
      BY <3>1, TextFacts
    <3> QED
      BY <3>2, TextFacts DEF Field
  <2>4. Yields(Field(g, fields), KeyOrder, Marks)
    BY <2>2, <2>3 DEF Yields, Text
  <2>5. \A h : SpelledStep(h, v)
                 = <<"{">> \o Listed(FlatMap(Field(h, fields), KeyOrder)) \o <<"}">>
    BY <1>2 DEF SpelledStep, IsArray, IsObject, IsString
  <2>6. FlatMap(Field(g, fields), KeyOrder) \in Text
    BY <2>2, <2>4, FlatMapFacts DEF Text
  <2>7. SpelledStep(g, v) \in Text
    <3> DEFINE all == FlatMap(Field(g, fields), KeyOrder)
    <3>1. /\ Listed(all) \in Text /\ <<"{">> \in Text /\ <<"}">> \in Text
          /\ SpelledStep(g, v) = <<"{">> \o Listed(all) \o <<"}">>
      BY <1>0, <2>5, <2>6, ListedType DEF Brackets
    <3> HIDE DEF all
    <3> QED
      <4> DEFINE inner == Listed(all)
                 step == SpelledStep(g, v)
      <4>1. inner \in Text /\ <<"{">> \in Text /\ <<"}">> \in Text /\ step = <<"{">> \o inner \o <<"}">>
        BY <3>1
      <4> HIDE DEF inner, step
      <4>2. step \in Text
        BY <4>1, TextFacts
      <4> QED
        BY <4>2 DEF step
  <2>8. ASSUME NEW h, \A w \in Value : Depth[w] < Depth[v] => g[w] = h[w]
        PROVE  Field(g, fields) = Field(h, fields)
    <3>1. \A key \in Keys : g[fields[key]] = h[fields[key]]
      BY <2>1, <2>8
    <3> QED
      BY <3>1 DEF Field
  <2> QED
    BY <2>5, <2>7, <2>8
<1>3. CASE ~IsArray(v) /\ ~IsObject(v)
  <2>1. \A h : SpelledStep(g, v) = SpelledStep(h, v)
    BY <1>3 DEF SpelledStep
  <2>2. CASE IsString(v)
    <3>1. v.text \in Text
      BY <2>2, PartsLower
    <3>2. SpelledStep(g, v) = Quoted(v.text)
      BY <2>2 DEF SpelledStep, IsArray, IsObject, IsString
    <3> QED
      BY <2>1, <3>1, <3>2, QuotedType
  <2>3. CASE v.kind = "number"
    <3>1. v.number \in DOMAIN Numeral
      BY <1>3, <2>3, NumberKnown
    <3>2. SpelledStep(g, v) = <<Numeral[v.number]>>
      BY <1>3, <2>3 DEF SpelledStep, IsString
    <3> QED
      BY <2>1, <3>1, <3>2, Punctuation
  <2>4. CASE ~IsString(v) /\ v.kind # "number"
    <3>1. SpelledStep(g, v) \in {<<"true">>, <<"false">>, <<"null">>}
      BY <1>3, <2>4 DEF SpelledStep
    <3> QED
      BY <1>0, <2>1, <3>1
  <2> QED
    BY <2>2, <2>3, <2>4
<1> QED
  BY <1>1, <1>2, <1>3

LEMMA SpelledFacts ==
    ASSUME NEW v \in Value PROVE Spelled[v] \in Text
<1> DEFINE F == [g \in [Value -> Text] |-> [w \in Value |-> SpelledStep(g, w)]]
<1>1. Unnests(F, Text)
  <2>1. \A g \in [Value -> Text], w \in Value : SpelledStep(g, w) \in Text
    BY SpelledStepFacts
  <2>2. F \in [[Value -> Text] -> [Value -> Text]]
    BY <2>1
  <2>3. \A g, h \in [Value -> Text], w \in Value :
           (\A u \in Value : Depth[u] < Depth[w] => g[u] = h[u])
              => SpelledStep(g, w) = SpelledStep(h, w)
    BY SpelledStepFacts
  <2> QED
    BY <2>2, <2>3 DEF Unnests
<1>2. PICK f \in [Value -> Text] : f = [w \in Value |-> SpelledStep(f, w)]
  <2>1. Text # {}
    BY TextFacts
  <2>2. \E f \in [Value -> Text] : f = F[f]
    <3> HIDE DEF F
    <3> QED
      BY <1>1, <2>1, ValueRecursion
  <2> QED
    BY <2>2
<1>3. Spelled = [w \in Value |-> SpelledStep(Spelled, w)]
  <2> DEFINE Walk(g) ==
          [w \in Value |->
              CASE IsArray(w) -> <<"[">> \o Listed(FlatMap(Item(g), w.items)) \o <<"]">>
                [] IsObject(w) ->
                      <<"{">> \o Listed(FlatMap(Field(g, w.fields), KeyOrder)) \o <<"}">>
                [] IsString(w) -> Quoted(w.text)
                [] w.kind = "number" -> <<Numeral[w.number]>>
                [] w.kind = "bool" -> IF w.holds THEN <<"true">> ELSE <<"false">>
                [] OTHER -> <<"null">>]
  <2>1. Spelled = CHOOSE g : g = Walk(g)
    BY DEF Spelled
  <2>2. \A g : Walk(g) = [w \in Value |-> SpelledStep(g, w)]
    BY DEF SpelledStep
  <2> HIDE DEF Walk
  <2> QED
    BY <1>2, <2>1, <2>2
<1> DEFINE S == {w \in Value : Spelled[w] = f[w]}
<1>4. ASSUME NEW w \in Value, \A u \in Value : Depth[u] < Depth[w] => u \in S
      PROVE  w \in S
  <2>0. \A u \in Value : Depth[u] < Depth[w] => f[u] \in Text /\ f[u] = Spelled[u]
    BY <1>4
  <2>1. SpelledStep(f, w) = SpelledStep(Spelled, w)
    BY <2>0, SpelledStepFacts
  <2>2. Spelled[w] = SpelledStep(Spelled, w) /\ f[w] = SpelledStep(f, w)
    BY <1>2, <1>3
  <2> QED
    BY <2>1, <2>2
<1>5. Value \subseteq S
  <2> HIDE DEF S
  <2> QED
    BY <1>4, ValueInduction
<1> QED
  BY <1>2, <1>5

-----------------------------------------------------------------------------
(***************************************************************************)
(* Rewriting the strings of a value, down the fields whose keys are in K.  *)
(***************************************************************************)
RewriteStep(g, h, K, v) ==
    CASE IsArray(v)  -> Arr([i \in DOMAIN v.items |-> g[v.items[i]]])
      [] IsObject(v) -> Obj([k \in Keys |-> IF k \in K THEN g[v.fields[k]] ELSE v.fields[k]])
      [] IsString(v) -> Str(h[v.text])
      [] OTHER       -> v

Rewrites(f, h, K) ==
    /\ h \in [Text -> Text]
    /\ f = [v \in Value |-> RewriteStep(f, h, K, v)]

(* What a step is, kind by kind.                                           *)
ByKind(g, h, K, v) ==
    /\ IsArray(v) => RewriteStep(g, h, K, v) = Arr([i \in DOMAIN v.items |-> g[v.items[i]]])
    /\ IsObject(v) => RewriteStep(g, h, K, v) =
           [kind |-> "object",
            fields |-> [k \in Keys |-> IF k \in K THEN g[v.fields[k]] ELSE v.fields[k]]]
    /\ IsString(v) => RewriteStep(g, h, K, v) = Str(h[v.text])
    /\ ~IsArray(v) /\ ~IsObject(v) /\ ~IsString(v) => RewriteStep(g, h, K, v) = v

LEMMA RewriteCases ==
    ASSUME NEW g, NEW h, NEW K, NEW v
    PROVE  ByKind(g, h, K, v)
<1>1. IsArray(v) => ~IsObject(v) /\ ~IsString(v)
  BY OneKind
<1>2. IsObject(v) => ~IsString(v) /\ ~IsArray(v)
  BY OneKind
<1> DEFINE fields == [k \in Keys |-> IF k \in K THEN g[v.fields[k]] ELSE v.fields[k]]
<1>3. Obj(fields) = [kind |-> "object", fields |-> fields]
  <2>1. DOMAIN fields = Keys /\ fields = [k \in Keys |-> fields[k]]
    OBVIOUS
  <2> HIDE DEF fields
  <2>2. [k \in Keys |-> IF k \in DOMAIN fields THEN fields[k] ELSE Absent] = fields
    BY <2>1
  <2> QED
    BY <2>2 DEF Obj
<1>4. IsArray(v) => RewriteStep(g, h, K, v) = Arr([i \in DOMAIN v.items |-> g[v.items[i]]])
  BY <1>1 DEF RewriteStep
<1>5. IsObject(v) => RewriteStep(g, h, K, v) = Obj(fields)
  BY <1>2 DEF RewriteStep
<1>6. IsString(v) => RewriteStep(g, h, K, v) = Str(h[v.text])
  BY <1>1, <1>2 DEF RewriteStep
<1>7. ~IsArray(v) /\ ~IsObject(v) /\ ~IsString(v) => RewriteStep(g, h, K, v) = v
  BY DEF RewriteStep
<1> QED
  BY <1>3, <1>4, <1>5, <1>6, <1>7 DEF ByKind

(* It stays on the level of what it rewrites.                              *)
LEMMA RewriteLevel ==
    ASSUME NEW g, NEW h \in [Text -> Text], NEW K, NEW v \in Value,
           \A w \in Value : Depth[w] < Depth[v] => g[w] \in Json[Depth[w]]
    PROVE  RewriteStep(g, h, K, v) \in Json[Depth[v]]
<1> DEFINE n == Depth[v]
           P == Json[n - 1]
<1>0. ByKind(g, h, K, v)
  BY RewriteCases
<1>1. n \in 0..MaxNesting /\ v \in Json[n] /\ n \in Nat
  BY DepthFacts
<1> HIDE DEF n
<1>2. n > 0 => /\ n - 1 \in 0..MaxNesting
               /\ \A w \in P : w \in Value /\ Depth[w] < n /\ Depth[w] \in 0..(n - 1)
  <2>1. n > 0 => n - 1 \in 0..MaxNesting
    BY <1>1, JsonAssumption
  <2>2. n > 0 => \A w \in P : w \in Value /\ Depth[w] <= n - 1 /\ Depth[w] \in 0..MaxNesting
    BY <2>1, JsonInValue, DepthFacts
  <2> QED
    BY <1>1, <2>1, <2>2
<1>3. ASSUME n > 0, NEW w \in P PROVE g[w] \in P
  <2>1. w \in Value /\ Depth[w] < Depth[v] /\ Depth[w] \in 0..(n - 1) /\ n - 1 \in 0..MaxNesting
    BY <1>2, <1>3 DEF n
  <2>2. g[w] \in Json[Depth[w]]
    BY <2>1
  <2> QED
    BY <2>1, <2>2, JsonMonotone
<1>4. CASE IsArray(v)
  <2>1. n > 0 /\ v.items \in Seq(P)
    BY <1>1, <1>4, LevelForms
  <2>2. [i \in DOMAIN v.items |-> g[v.items[i]]] \in Seq(P)
    <3> HIDE DEF P
    <3>1. v.items \in [1..Len(v.items) -> P] /\ Len(v.items) \in Nat /\ DOMAIN v.items = 1..Len(v.items)
      BY <2>1
    <3>2. [i \in DOMAIN v.items |-> g[v.items[i]]] \in [1..Len(v.items) -> P]
      BY <1>3, <2>1, <3>1
    <3> QED
      BY <3>1, <3>2
  <2>3. Arr([i \in DOMAIN v.items |-> g[v.items[i]]]) \in Json[n]
    BY <1>1, <2>1, <2>2, LevelBuilds
  <2> QED
    BY <1>4, <2>3, <1>0 DEF ByKind, n
<1>5. CASE IsObject(v)
  <2>1. n > 0 /\ v.fields \in [Keys -> P]
    BY <1>1, <1>5, LevelForms
  <2>2. [k \in Keys |-> IF k \in K THEN g[v.fields[k]] ELSE v.fields[k]] \in [Keys -> P]
    <3> HIDE DEF P
    <3> QED
      BY <1>3, <2>1
  <2>3. [kind |-> "object",
         fields |-> [k \in Keys |-> IF k \in K THEN g[v.fields[k]] ELSE v.fields[k]]] \in Json[n]
    BY <1>1, <2>1, <2>2, LevelBuilds
  <2> QED
    BY <1>5, <2>3, <1>0 DEF ByKind, n
<1>6. CASE IsString(v)
  <2>1. h[v.text] \in Text
    BY <1>6, PartsLower
  <2>2. Str(h[v.text]) \in Json[n]
    BY <1>1, <2>1, LevelBuilds
  <2> QED
    BY <1>6, <2>2, <1>0 DEF ByKind, n
<1>7. CASE ~IsArray(v) /\ ~IsObject(v) /\ ~IsString(v)
  BY <1>1, <1>7, <1>0 DEF ByKind, n
<1> QED
  BY <1>4, <1>5, <1>6, <1>7

LEMMA RewriteCongruence ==
    ASSUME NEW g, NEW f, NEW h, NEW K, NEW v \in Value,
           \A w \in Value : Depth[w] < Depth[v] => g[w] = f[w]
    PROVE  RewriteStep(g, h, K, v) = RewriteStep(f, h, K, v)
<1>0. ByKind(g, h, K, v) /\ ByKind(f, h, K, v)
  BY RewriteCases
<1>1. CASE IsArray(v)
  <2>1. \A i \in DOMAIN v.items : v.items[i] \in Value /\ Depth[v.items[i]] < Depth[v]
    BY <1>1, PartsLower
  <2>2. [i \in DOMAIN v.items |-> g[v.items[i]]] = [i \in DOMAIN v.items |-> f[v.items[i]]]
    BY <2>1
  <2> QED
    BY <1>1, <2>2, <1>0 DEF ByKind
<1>2. CASE IsObject(v)
  <2>1. \A k \in Keys : v.fields[k] \in Value /\ Depth[v.fields[k]] < Depth[v]
    BY <1>2, PartsLower
  <2>2. [k \in Keys |-> IF k \in K THEN g[v.fields[k]] ELSE v.fields[k]]
           = [k \in Keys |-> IF k \in K THEN f[v.fields[k]] ELSE v.fields[k]]
    BY <2>1
  <2> QED
    BY <1>2, <2>2, <1>0 DEF ByKind
<1>3. CASE IsString(v)
  BY <1>3, <1>0 DEF ByKind
<1>4. CASE ~IsArray(v) /\ ~IsObject(v) /\ ~IsString(v)
  BY <1>4, <1>0 DEF ByKind
<1> QED
  BY <1>1, <1>2, <1>3, <1>4

(* There is such a rewriting.                                              *)
LEMMA RewriteExists ==
    ASSUME NEW h \in [Text -> Text], NEW K
    PROVE  \E f : Rewrites(f, h, K)
<1> DEFINE Within(g, v) ==
              IF RewriteStep(g, h, K, v) \in Value THEN RewriteStep(g, h, K, v) ELSE v
           F == [g \in [Value -> Value] |-> [v \in Value |-> Within(g, v)]]
<1>1. Unnests(F, Value)
  <2>1. \A g \in [Value -> Value], v \in Value : Within(g, v) \in Value
    OBVIOUS
  <2>2. \A g, f \in [Value -> Value], v \in Value :
           (\A w \in Value : Depth[w] < Depth[v] => g[w] = f[w]) => Within(g, v) = Within(f, v)
    <3>1. \A g, f \in [Value -> Value], v \in Value :
             (\A w \in Value : Depth[w] < Depth[v] => g[w] = f[w])
                => RewriteStep(g, h, K, v) = RewriteStep(f, h, K, v)
      BY RewriteCongruence
    <3> QED
      BY <3>1
  <2> HIDE DEF Within
  <2> QED
    BY <2>1, <2>2 DEF Unnests
<1>2. PICK f \in [Value -> Value] : f = F[f]
  <2>1. Value # {}
    BY JsonInValue, LevelBuilds, JsonAssumption
  <2> HIDE DEF F
  <2> QED
    BY <1>1, <2>1, ValueRecursion
<1>3. \A v \in Value : f[v] = Within(f, v)
  <2> HIDE DEF Within
  <2> QED
    BY <1>2
<1> DEFINE S == {v \in Value : RewriteStep(f, h, K, v) \in Json[Depth[v]]}
<1>4. ASSUME NEW v \in Value, \A w \in Value : Depth[w] < Depth[v] => w \in S
      PROVE  v \in S
  <2>1. ASSUME NEW w \in Value, Depth[w] < Depth[v] PROVE f[w] \in Json[Depth[w]]
    <3>1. RewriteStep(f, h, K, w) \in Json[Depth[w]] /\ Depth[w] \in 0..MaxNesting
      BY <1>4, <2>1, DepthFacts
    <3>2. RewriteStep(f, h, K, w) \in Value
      BY <3>1, JsonInValue
    <3> QED
      BY <1>3, <3>1, <3>2
  <2> QED
    BY <2>1, RewriteLevel
<1>5. Value \subseteq S
  <2> HIDE DEF S
  <2> QED
    BY <1>4, ValueInduction
<1>6. \A v \in Value : f[v] = RewriteStep(f, h, K, v)
  <2>1. \A v \in Value : RewriteStep(f, h, K, v) \in Json[Depth[v]] /\ Depth[v] \in 0..MaxNesting
    BY <1>5, DepthFacts
  <2>2. \A v \in Value : RewriteStep(f, h, K, v) \in Value
    BY <2>1, JsonInValue
  <2> QED
    BY <1>3, <2>2
<1>7. f = [v \in Value |-> RewriteStep(f, h, K, v)]
  BY <1>6
<1> QED
  BY <1>7 DEF Rewrites

(* It keeps each value on its level.                                       *)
LEMMA RewriteType ==
    ASSUME NEW f, NEW h, NEW K, Rewrites(f, h, K), NEW v \in Value
    PROVE  f[v] \in Value /\ f[v] \in Json[Depth[v]] /\ f[v] = RewriteStep(f, h, K, v)
<1>1. h \in [Text -> Text] /\ \A w \in Value : f[w] = RewriteStep(f, h, K, w)
  BY DEF Rewrites
<1> DEFINE S == {w \in Value : f[w] \in Json[Depth[w]]}
<1>2. ASSUME NEW w \in Value, \A u \in Value : Depth[u] < Depth[w] => u \in S
      PROVE  w \in S
  <2>1. \A u \in Value : Depth[u] < Depth[w] => f[u] \in Json[Depth[u]]
    BY <1>2
  <2>2. RewriteStep(f, h, K, w) \in Json[Depth[w]]
    BY <1>1, <2>1, RewriteLevel
  <2> QED
    BY <1>1, <2>2
<1>3. Value \subseteq S
  <2> HIDE DEF S
  <2> QED
    BY <1>2, ValueInduction
<1>4. f[v] \in Json[Depth[v]] /\ Depth[v] \in 0..MaxNesting
  BY <1>3, DepthFacts
<1> QED
  BY <1>1, <1>4, JsonInValue

(* Both rewritings of the detectors are of this kind.                      *)
InjectionRewrite == [text \in Text |-> Redacted(InjectionPattern, text)]
DlpRewrite(rules) == [text \in Text |-> RedactText(rules, text)]

LEMMA InjectionLiteral ==
    /\ InjectionPattern \in Pattern /\ OpenEnds(InjectionPattern)
    /\ \A other : Apart(InjectionPattern, other)
    /\ Lacks(InjectionPattern, "REDACTED") => \A other : Unmade(InjectionPattern, other)
  BY LiterallyFacts, PromptAssumption DEF InjectionPattern, Unmade

LEMMA RedactContentRewrites == Rewrites(RedactContent, InjectionRewrite, RedactedFields)
<1> DEFINE h == [text \in Text |-> Redacted(InjectionPattern, text)]
           Walk(g) ==
              [v \in Value |->
                  CASE IsArray(v)  -> Arr([i \in DOMAIN v.items |-> g[v.items[i]]])
                    [] IsObject(v) -> Obj([k \in Keys |-> IF k \in RedactedFields
                                                          THEN g[v.fields[k]] ELSE v.fields[k]])
                    [] IsString(v) -> Str(Redacted(InjectionPattern, v.text))
                    [] OTHER       -> v]
<1>1. h \in [Text -> Text]
  BY RedactedFacts, InjectionLiteral
<1>2. RedactContent = CHOOSE g : g = Walk(g)
  BY DEF RedactContent
<1>3. ASSUME NEW g PROVE Walk(g) = [v \in Value |-> RewriteStep(g, h, RedactedFields, v)]
  <2>1. \A v \in Value : IsString(v) => h[v.text] = Redacted(InjectionPattern, v.text)
    BY PartsLower
  <2> HIDE DEF h
  <2> QED
    BY <2>1 DEF RewriteStep
<1>4. \E g : g = [v \in Value |-> RewriteStep(g, h, RedactedFields, v)]
  <2> HIDE DEF h
  <2> QED
    BY <1>1, RewriteExists DEF Rewrites
<1>5. RedactContent = [v \in Value |-> RewriteStep(RedactContent, h, RedactedFields, v)]
  <2> HIDE DEF Walk, h
  <2> QED
    BY <1>2, <1>3, <1>4
<1> HIDE DEF h
<1>6. InjectionRewrite = h
  BY DEF InjectionRewrite, h
<1> QED
  BY <1>1, <1>5, <1>6 DEF Rewrites

LEMMA DlpRedactRewrites ==
    ASSUME NEW rules \in Rules
    PROVE  \E f : /\ Rewrites(f, DlpRewrite(rules), Keys)
                  /\ \A v \in Value : DlpRedactValue(rules, v) = f[v]
<1> DEFINE h == [text \in Text |-> RedactText(rules, text)]
           Walk(g) ==
              [v \in Value |->
                  CASE IsArray(v)  -> Arr([i \in DOMAIN v.items |-> g[v.items[i]]])
                    [] IsObject(v) -> Obj([k \in Keys |-> g[v.fields[k]]])
                    [] IsString(v) -> Str(RedactText(rules, v.text))
                    [] OTHER       -> v]
<1>1. h \in [Text -> Text]
  BY RedactTextFacts
<1> DEFINE rewritten == CHOOSE g : g = Walk(g)
<1>2. \A v \in Value : DlpRedactValue(rules, v) = rewritten[v]
  BY DEF DlpRedactValue
<1>3. ASSUME NEW g PROVE Walk(g) = [v \in Value |-> RewriteStep(g, h, Keys, v)]
  <2>1. \A v \in Value : IsString(v) => h[v.text] = RedactText(rules, v.text)
    BY PartsLower
  <2>2. \A v : [k \in Keys |-> IF k \in Keys THEN g[v.fields[k]] ELSE v.fields[k]]
                 = [k \in Keys |-> g[v.fields[k]]]
    OBVIOUS
  <2> HIDE DEF h
  <2> QED
    BY <2>1, <2>2 DEF RewriteStep
<1>4. \E g : g = [v \in Value |-> RewriteStep(g, h, Keys, v)]
  <2> HIDE DEF h
  <2> QED
    BY <1>1, RewriteExists DEF Rewrites
<1>5. rewritten = [v \in Value |-> RewriteStep(rewritten, h, Keys, v)]
  <2> HIDE DEF Walk, h
  <2> QED
    BY <1>3, <1>4
<1> HIDE DEF h, rewritten
<1>6. DlpRewrite(rules) = h
  BY DEF DlpRewrite, h
<1> QED
  BY <1>1, <1>2, <1>5, <1>6 DEF Rewrites

(* What is rewritten keeps its kind, and its parts are rewritten in place. *)
InPlace(f, h, K, v) ==
    /\ f[v].kind = v.kind
    /\ IsString(f[v]) = IsString(v) /\ IsArray(f[v]) = IsArray(v) /\ IsObject(f[v]) = IsObject(v)
    /\ IsString(v) => f[v] = Str(h[v.text]) /\ f[v].text = h[v.text] /\ h[v.text] \in Text
    /\ IsArray(v) => /\ Len(f[v].items) = Len(v.items)
                     /\ DOMAIN f[v].items = DOMAIN v.items
                     /\ \A i \in 1..Len(v.items) : f[v].items[i] = f[v.items[i]]
    /\ IsObject(v) => \A k \in Keys :
                         f[v].fields[k] = IF k \in K THEN f[v.fields[k]] ELSE v.fields[k]
    /\ ~IsArray(v) /\ ~IsObject(v) /\ ~IsString(v) => f[v] = v

LEMMA RewriteInPlace ==
    ASSUME NEW f, NEW h, NEW K, Rewrites(f, h, K), NEW v \in Value
    PROVE  InPlace(f, h, K, v)
<1>1. f[v] = RewriteStep(f, h, K, v) /\ ByKind(f, h, K, v)
  BY RewriteType, RewriteCases
<1>2. CASE IsString(v)
  <2>1. v.text \in Text /\ h[v.text] \in Text
    BY <1>2, PartsLower DEF Rewrites
  <2>2. f[v] = [kind |-> "string", text |-> h[v.text]] /\ v.kind = "string"
    BY <1>1, <1>2 DEF ByKind, Str, IsString
  <2> QED
    BY <2>1, <2>2 DEF InPlace, IsString, IsArray, IsObject, Str
<1>3. CASE IsArray(v)
  <2> DEFINE items == [i \in DOMAIN v.items |-> f[v.items[i]]]
  <2>1. v.items \in Seq(Value) /\ v.kind = "array"
    BY <1>3, PartsLower DEF IsArray
  <2>2. \A i \in 1..Len(v.items) : v.items[i] \in Value /\ f[v.items[i]] \in Value
    BY <2>1, RewriteType
  <2>3. /\ items \in Seq(Value) /\ Len(items) = Len(v.items) /\ DOMAIN items = DOMAIN v.items
        /\ \A i \in 1..Len(v.items) : items[i] = f[v.items[i]]
    BY <2>1, <2>2
  <2>4. f[v] = [kind |-> "array", items |-> items]
    BY <1>1, <1>3 DEF ByKind, Arr
  <2> HIDE DEF items
  <2> QED
    BY <2>1, <2>3, <2>4 DEF InPlace, IsString, IsArray, IsObject
<1>4. CASE IsObject(v)
  <2> DEFINE fields == [k \in Keys |-> IF k \in K THEN f[v.fields[k]] ELSE v.fields[k]]
  <2>1. f[v] = [kind |-> "object", fields |-> fields] /\ v.kind = "object"
    BY <1>1, <1>4 DEF ByKind, IsObject
  <2>2. \A k \in Keys : fields[k] = IF k \in K THEN f[v.fields[k]] ELSE v.fields[k]
    OBVIOUS
  <2> HIDE DEF fields
  <2> QED
    BY <2>1, <2>2 DEF InPlace, IsString, IsArray, IsObject
<1>5. CASE ~IsArray(v) /\ ~IsObject(v) /\ ~IsString(v)
  BY <1>1, <1>5 DEF ByKind, InPlace
<1> QED
  BY <1>2, <1>3, <1>4, <1>5

LEMMA RewriteGet ==
    ASSUME NEW f, NEW h, NEW K, Rewrites(f, h, K), NEW v \in Value, NEW key \in Keys
    PROVE  Get(f[v], key) = IF key \in K THEN f[Get(v, key)] ELSE Get(v, key)
<1>1. InPlace(f, h, K, v)
  BY RewriteInPlace
<1>2. Absent \in Value
  BY LevelBuilds, JsonAssumption DEF Value
<1>3. f[Absent] = Absent
  <2>1. InPlace(f, h, K, Absent)
    BY <1>2, RewriteInPlace
  <2> QED
    BY <2>1 DEF InPlace, Absent, IsString, IsArray, IsObject
<1> QED
  BY <1>1, <1>3 DEF InPlace, Get

(* What the strings of a value are.                                        *)
StringIn(x, v) ==
    \/ IsString(v) /\ x = v.text
    \/ IsArray(v) /\ \E i \in 1..Len(v.items) : x \in ToSet(StringsOf[v.items[i]])
    \/ IsObject(v) /\ \E k \in Keys : x \in ToSet(StringsOf[v.fields[k]])

LEMMA StringsElements ==
    ASSUME NEW v \in Value, NEW x
    PROVE  x \in ToSet(StringsOf[v]) <=> StringIn(x, v)
<1>1. StringsOf[v] = StringsStep(StringsOf, v) /\ \A w \in Value : StringsOf[w] \in Seq(Text)
  BY StringsOfFacts
<1>2. CASE IsString(v)
  <2>1. StringsOf[v] = <<v.text>> /\ ~IsArray(v) /\ ~IsObject(v)
    BY <1>1, <1>2, OneKind DEF StringsStep
  <2>2. x \in ToSet(<<v.text>>) <=> x = v.text
    BY DEF ToSet
  <2> QED
    BY <1>2, <2>1, <2>2 DEF StringIn
<1>3. CASE IsArray(v)
  <2>1. StringsOf[v] = FlatMap(StringsOf, v.items) /\ ~IsString(v) /\ ~IsObject(v)
    BY <1>1, <1>3, OneKind DEF StringsStep
  <2>2. v.items \in Seq(Value) /\ Yields(StringsOf, v.items, Text)
    BY <1>1, <1>3, PartsLower DEF Yields
  <2>3. x \in ToSet(StringsOf[v]) <=> \E i \in 1..Len(v.items) : x \in ToSet(StringsOf[v.items[i]])
    BY <2>1, <2>2, FlatMapFacts
  <2> QED
    BY <1>3, <2>1, <2>3 DEF StringIn
<1>4. CASE IsObject(v)
  <2>1. StringsOf[v] = FlatMap(Fields(StringsOf, v), KeyOrder) /\ ~IsString(v) /\ ~IsArray(v)
    BY <1>1, <1>4, OneKind DEF StringsStep
  <2>2. \A k \in Keys : v.fields[k] \in Value /\ Fields(StringsOf, v)[k] = StringsOf[v.fields[k]]
    BY <1>4, PartsLower DEF Fields
  <2>3. KeyOrder \in Seq(Keys) /\ \A i \in 1..Len(KeyOrder) : KeyOrder[i] \in Keys
    BY KeysFacts
  <2>4. Yields(Fields(StringsOf, v), KeyOrder, Text)
    BY <1>1, <2>2, <2>3 DEF Yields
  <2>5. x \in ToSet(StringsOf[v])
           <=> \E i \in 1..Len(KeyOrder) : x \in ToSet(Fields(StringsOf, v)[KeyOrder[i]])
    BY <2>1, <2>3, <2>4, FlatMapFacts
  <2>6. x \in ToSet(StringsOf[v]) <=> \E k \in Keys : x \in ToSet(StringsOf[v.fields[k]])
    BY <2>2, <2>3, <2>5, KeysFacts
  <2> QED
    BY <1>4, <2>1, <2>6 DEF StringIn
<1>5. CASE ~IsString(v) /\ ~IsArray(v) /\ ~IsObject(v)
  <2>1. StringsOf[v] = <<>>
    BY <1>1, <1>5 DEF StringsStep
  <2> QED
    BY <1>5, <2>1 DEF StringIn, ToSet
<1> QED
  BY <1>2, <1>3, <1>4, <1>5

(* Where every field is walked, every string is a rewritten one.           *)
LEMMA RewriteStrings ==
    ASSUME NEW f, NEW h, Rewrites(f, h, Keys), NEW v \in Value
    PROVE  \A x \in ToSet(StringsOf[f[v]]) : \E s \in ToSet(StringsOf[v]) : x = h[s]
<1> DEFINE S == {w \in Value :
                    \A x \in ToSet(StringsOf[f[w]]) : \E s \in ToSet(StringsOf[w]) : x = h[s]}
<1>1. ASSUME NEW w \in Value, \A u \in Value : Depth[u] < Depth[w] => u \in S,
             NEW x \in ToSet(StringsOf[f[w]])
      PROVE  \E s \in ToSet(StringsOf[w]) : x = h[s]
  <2>1. f[w] \in Value /\ InPlace(f, h, Keys, w)
    BY RewriteType, RewriteInPlace
  <2>2. StringIn(x, f[w])
    BY <1>1, <2>1, StringsElements
  <2>3. \A s : StringIn(s, w) => s \in ToSet(StringsOf[w])
    BY StringsElements
  <2>4. CASE IsString(w)
    <3>1. x = h[w.text]
      BY <2>1, <2>2, <2>4, OneKind DEF StringIn, InPlace
    <3> QED
      BY <2>3, <2>4, <3>1 DEF StringIn
  <2>5. CASE IsArray(w)
    <3>1. PICK i \in 1..Len(w.items) : x \in ToSet(StringsOf[f[w.items[i]]])
      <4>1. IsArray(f[w]) /\ ~IsString(f[w]) /\ ~IsObject(f[w])
        BY <2>1, <2>5, OneKind DEF InPlace
      <4> QED
        BY <2>1, <2>2, <2>5, <4>1 DEF StringIn, InPlace
    <3>2. w.items[i] \in Value /\ Depth[w.items[i]] < Depth[w]
      BY <2>5, PartsLower
    <3>3. PICK s \in ToSet(StringsOf[w.items[i]]) : x = h[s]
      BY <1>1, <3>1, <3>2
    <3> QED
      BY <2>3, <2>5, <3>3 DEF StringIn
  <2>6. CASE IsObject(w)
    <3>1. PICK k \in Keys : x \in ToSet(StringsOf[f[w.fields[k]]])
      <4>1. IsObject(f[w]) /\ ~IsString(f[w]) /\ ~IsArray(f[w])
        BY <2>1, <2>6, OneKind DEF InPlace
      <4> QED
        BY <2>1, <2>2, <2>6, <4>1 DEF StringIn, InPlace
    <3>2. w.fields[k] \in Value /\ Depth[w.fields[k]] < Depth[w]
      BY <2>6, PartsLower
    <3>3. PICK s \in ToSet(StringsOf[w.fields[k]]) : x = h[s]
      BY <1>1, <3>1, <3>2
    <3> QED
      BY <2>3, <2>6, <3>3 DEF StringIn
  <2>7. CASE ~IsString(w) /\ ~IsArray(w) /\ ~IsObject(w)
    BY <2>1, <2>2, <2>7 DEF StringIn, InPlace
  <2> QED
    BY <2>4, <2>5, <2>6, <2>7
<1>2. Value \subseteq S
  <2>1. \A w \in Value : (\A u \in Value : Depth[u] < Depth[w] => u \in S) => w \in S
    BY <1>1
  <2> HIDE DEF S
  <2> QED
    BY <2>1, ValueInduction
<1> QED
  BY <1>2

-----------------------------------------------------------------------------
(***************************************************************************)
(* The strings of a content, and of a body.                                *)
(***************************************************************************)
LEMMA TextOfFacts ==
    ASSUME NEW v \in Value
    PROVE  /\ TextOf(v) \in Seq(Text)
           /\ \A x : x \in ToSet(TextOf(v)) <=> IsString(v) /\ x = v.text
<1>1. IsString(v) => v.text \in Text
  BY PartsLower
<1>2. IsString(v) => TextOf(v) = <<v.text>>
  BY DEF TextOf
<1>3. ~IsString(v) => TextOf(v) = <<>>
  BY DEF TextOf
<1>4. \A x : x \notin ToSet(<<>>) /\ (x \in ToSet(<<v.text>>) <=> x = v.text)
  BY DEF ToSet
<1>5. <<>> \in Seq(Text) /\ \A x \in Text : <<x>> \in Seq(Text)
  BY EmptySeq
<1> HIDE DEF ToSet
<1>6. CASE IsString(v)
  BY <1>1, <1>2, <1>4, <1>5, <1>6
<1>7. CASE ~IsString(v)
  BY <1>3, <1>4, <1>5, <1>7
<1> QED
  BY <1>6, <1>7

LEMMA KeysUsed ==
    /\ RedactedFields \subseteq Keys
    /\ {"choices", "content", "data", "delta", "function", "input", "instructions", "item",
        "max_output_tokens", "max_tokens", "message", "messages", "model", "name", "output",
        "response", "role", "stream", "text", "tool_calls", "tools", "type"} \subseteq Keys
  BY KeysFacts DEF KeysRead, RedactedFields

PartStep(g, part) ==
    IF IsObject(part)
    THEN TextOf(Get(part, "text")) \o g[Get(part, "content")] \o g[Get(part, "output")]
    ELSE TextOf(part)

PartSteps(g) == [part \in Value |-> PartStep(g, part)]

ContentStep(g, content) ==
    IF IsArray(content) THEN FlatMap(PartSteps(g), content.items)
    ELSE PartSteps(g)[content]

LEMMA PartStepFacts ==
    ASSUME NEW g, NEW part \in Value,
           \A w \in Value : Depth[w] < Depth[part] => g[w] \in Seq(Text)
    PROVE  /\ PartStep(g, part) \in Seq(Text)
           /\ \A x : x \in ToSet(PartStep(g, part)) <=>
                 IF IsObject(part)
                 THEN \/ x \in ToSet(TextOf(Get(part, "text")))
                      \/ x \in ToSet(g[Get(part, "content")])
                      \/ x \in ToSet(g[Get(part, "output")])
                 ELSE x \in ToSet(TextOf(part))
           /\ \A h : (\A w \in Value : Depth[w] < Depth[part] => g[w] = h[w])
                        => PartStep(g, part) = PartStep(h, part)
<1>1. CASE IsObject(part)
  <2> DEFINE a == TextOf(Get(part, "text"))
             b == g[Get(part, "content")]
             c == g[Get(part, "output")]
  <2>1. \A key \in {"text", "content", "output"} :
           Get(part, key) \in Value /\ Depth[Get(part, key)] < Depth[part]
    BY <1>1, GetFacts, KeysUsed
  <2>2. a \in Seq(Text) /\ b \in Seq(Text) /\ c \in Seq(Text)
    BY <2>1, TextOfFacts
  <2>3. PartStep(g, part) = (a \o b) \o c
    BY <1>1 DEF PartStep
  <2>4. /\ a \o b \in Seq(Text) /\ (a \o b) \o c \in Seq(Text)
        /\ \A x : x \in ToSet((a \o b) \o c) <=> x \in ToSet(a) \/ x \in ToSet(b) \/ x \in ToSet(c)
    <3> HIDE DEF a, b, c
    <3>1. a \o b \in Seq(Text)
      BY <2>2, ConcatProperties
    <3>2. (a \o b) \o c \in Seq(Text)
      BY <2>2, <3>1, ConcatProperties
    <3>3. \A x : x \in ToSet(a \o b) <=> x \in ToSet(a) \/ x \in ToSet(b)
      BY <2>2, ConcatElements
    <3>4. \A x : x \in ToSet((a \o b) \o c) <=> x \in ToSet(a \o b) \/ x \in ToSet(c)
      BY <2>2, <3>1, ConcatElements
    <3> QED
      BY <3>1, <3>2, <3>3, <3>4
  <2>5. \A h : (\A w \in Value : Depth[w] < Depth[part] => g[w] = h[w])
                  => PartStep(g, part) = PartStep(h, part)
    BY <1>1, <2>1 DEF PartStep
  <2> QED
    BY <1>1, <2>3, <2>4, <2>5
<1>2. CASE ~IsObject(part)
  BY <1>2, TextOfFacts DEF PartStep
<1> QED
  BY <1>1, <1>2

LEMMA ContentStepFacts ==
    ASSUME NEW g, NEW v \in Value,
           \A w \in Value : Depth[w] < Depth[v] => g[w] \in Seq(Text)
    PROVE  /\ ContentStep(g, v) \in Seq(Text)
           /\ \A x : x \in ToSet(ContentStep(g, v)) <=>
                 IF IsArray(v) THEN \E i \in 1..Len(v.items) : x \in ToSet(PartStep(g, v.items[i]))
                 ELSE x \in ToSet(PartStep(g, v))
           /\ \A h : (\A w \in Value : Depth[w] < Depth[v] => g[w] = h[w])
                        => ContentStep(g, v) = ContentStep(h, v)
<1>1. CASE IsArray(v)
  <2>1. \A i \in 1..Len(v.items) : v.items[i] \in Value /\ Depth[v.items[i]] < Depth[v]
    BY <1>1, PartsLower
  <2>2. ASSUME NEW i \in 1..Len(v.items)
        PROVE  /\ PartStep(g, v.items[i]) \in Seq(Text)
               /\ \A h : (\A w \in Value : Depth[w] < Depth[v] => g[w] = h[w])
                            => PartStep(g, v.items[i]) = PartStep(h, v.items[i])
    <3>1. /\ v.items[i] \in Value
          /\ \A w \in Value : Depth[w] < Depth[v.items[i]] => Depth[w] < Depth[v]
      BY <2>1, DepthIsRank
    <3> QED
      BY <3>1, PartStepFacts
  <2>3. v.items \in Seq(Value)
    BY <1>1, PartsLower
  <2>4. \A h : \A i \in 1..Len(v.items) : PartSteps(h)[v.items[i]] = PartStep(h, v.items[i])
    BY <2>1 DEF PartSteps
  <2>5. Yields(PartSteps(g), v.items, Text)
    BY <2>2, <2>4 DEF Yields
  <2>6. /\ FlatMap(PartSteps(g), v.items) \in Seq(Text)
        /\ \A x : x \in ToSet(FlatMap(PartSteps(g), v.items))
              <=> \E i \in 1..Len(v.items) : x \in ToSet(PartSteps(g)[v.items[i]])
    BY <2>3, <2>5, FlatMapFacts
  <2>7. ASSUME NEW h, \A w \in Value : Depth[w] < Depth[v] => g[w] = h[w]
        PROVE  FlatMap(PartSteps(g), v.items) = FlatMap(PartSteps(h), v.items)
    <3>1. \A i \in 1..Len(v.items) : PartSteps(g)[v.items[i]] = PartSteps(h)[v.items[i]]
      BY <2>2, <2>4, <2>7
    <3> QED
      BY <2>3, <2>5, <3>1, FlatMapCongruence
  <2>8. \A h : ContentStep(h, v) = FlatMap(PartSteps(h), v.items)
    BY <1>1 DEF ContentStep
  <2> QED
    BY <1>1, <2>4, <2>6, <2>7, <2>8
<1>2. CASE ~IsArray(v)
  <2>1. \A h : ContentStep(h, v) = PartStep(h, v)
    BY <1>2 DEF ContentStep, PartSteps
  <2> QED
    BY <1>2, <2>1, PartStepFacts
<1> QED
  BY <1>1, <1>2

(* The walk is defined on every value.                                     *)
LEMMA ContentStringsFacts ==
    ASSUME NEW v \in Value
    PROVE  ContentStrings[v] = ContentStep(ContentStrings, v) /\ ContentStrings[v] \in Seq(Text)
<1> DEFINE T == Seq(Text)
           F == [g \in [Value -> T] |-> [w \in Value |-> ContentStep(g, w)]]
<1>1. Unnests(F, T)
  <2>1. \A g \in [Value -> T], w \in Value : ContentStep(g, w) \in T
    BY ContentStepFacts
  <2>2. F \in [[Value -> T] -> [Value -> T]]
    BY <2>1
  <2>3. \A g, h \in [Value -> T], w \in Value :
           (\A u \in Value : Depth[u] < Depth[w] => g[u] = h[u])
              => ContentStep(g, w) = ContentStep(h, w)
    BY ContentStepFacts
  <2> QED
    BY <2>2, <2>3 DEF Unnests
<1>2. PICK f \in [Value -> T] : f = [w \in Value |-> ContentStep(f, w)]
  <2>1. T # {}
    BY EmptySeq
  <2>2. \E f \in [Value -> T] : f = F[f]
    <3> HIDE DEF F, T
    <3> QED
      BY <1>1, <2>1, ValueRecursion
  <2> QED
    BY <2>2
<1>3. ContentStrings = [w \in Value |-> ContentStep(ContentStrings, w)]
  <2> DEFINE Walk(g) ==
          [w \in Value |->
              IF IsArray(w)
              THEN FlatMap([part \in Value |->
                      IF IsObject(part)
                      THEN TextOf(Get(part, "text"))
                              \o g[Get(part, "content")] \o g[Get(part, "output")]
                      ELSE TextOf(part)], w.items)
              ELSE [part \in Value |->
                      IF IsObject(part)
                      THEN TextOf(Get(part, "text"))
                              \o g[Get(part, "content")] \o g[Get(part, "output")]
                      ELSE TextOf(part)][w]]
  <2>1. ContentStrings = CHOOSE g : g = Walk(g)
    BY DEF ContentStrings
  <2>2. \A g : Walk(g) = [w \in Value |-> ContentStep(g, w)]
    BY DEF ContentStep, PartSteps, PartStep
  <2> HIDE DEF Walk
  <2> QED
    BY <1>2, <2>1, <2>2
<1> DEFINE S == {w \in Value : ContentStrings[w] = f[w]}
<1>4. ASSUME NEW w \in Value, \A u \in Value : Depth[u] < Depth[w] => u \in S
      PROVE  w \in S
  <2>1. \A u \in Value : Depth[u] < Depth[w] => f[u] \in Seq(Text) /\ f[u] = ContentStrings[u]
    BY <1>4
  <2>2. ContentStep(f, w) = ContentStep(ContentStrings, w)
    BY <2>1, ContentStepFacts
  <2>3. ContentStrings[w] = ContentStep(ContentStrings, w) /\ f[w] = ContentStep(f, w)
    BY <1>2, <1>3
  <2> QED
    BY <2>2, <2>3
<1>5. Value \subseteq S
  <2> HIDE DEF S
  <2> QED
    BY <1>4, ValueInduction
<1> QED
  BY <1>3, <1>5

PartIn(x, part) ==
    IF IsObject(part)
    THEN \/ x \in ToSet(TextOf(Get(part, "text")))
         \/ x \in ToSet(ContentStrings[Get(part, "content")])
         \/ x \in ToSet(ContentStrings[Get(part, "output")])
    ELSE x \in ToSet(TextOf(part))

ContentIn(x, content) ==
    IF IsArray(content) THEN \E i \in 1..Len(content.items) : PartIn(x, content.items[i])
    ELSE PartIn(x, content)

LEMMA ContentElements ==
    ASSUME NEW v \in Value, NEW x
    PROVE  x \in ToSet(ContentStrings[v]) <=> ContentIn(x, v)
<1>1. ContentStrings[v] = ContentStep(ContentStrings, v)
      /\ \A w \in Value : ContentStrings[w] \in Seq(Text)
  BY ContentStringsFacts
<1>2. \A part \in Value : x \in ToSet(PartStep(ContentStrings, part)) <=> PartIn(x, part)
  BY <1>1, PartStepFacts DEF PartIn
<1>3. CASE IsArray(v)
  <2>1. \A i \in 1..Len(v.items) : v.items[i] \in Value
    BY <1>3, PartsLower
  <2>2. x \in ToSet(ContentStrings[v])
           <=> \E i \in 1..Len(v.items) : x \in ToSet(PartStep(ContentStrings, v.items[i]))
    BY <1>1, <1>3, ContentStepFacts
  <2> QED
    BY <1>2, <1>3, <2>1, <2>2 DEF ContentIn
<1>4. CASE ~IsArray(v)
  <2>1. x \in ToSet(ContentStrings[v]) <=> x \in ToSet(PartStep(ContentStrings, v))
    BY <1>1, <1>4, ContentStepFacts
  <2> QED
    BY <1>2, <1>4, <2>1 DEF ContentIn
<1> QED
  BY <1>3, <1>4

(* x is h at a member of the set.                                          *)
Image(h, x, set) == \E s \in set : x = h[s]

LEMMA RewriteText ==
    ASSUME NEW f, NEW h, NEW K, Rewrites(f, h, K), NEW v \in Value
    PROVE  \A x \in ToSet(TextOf(f[v])) : Image(h, x, ToSet(TextOf(v)))
<1>1. f[v] \in Value /\ InPlace(f, h, K, v)
  BY RewriteType, RewriteInPlace
<1>2. \A x : x \in ToSet(TextOf(f[v])) <=> IsString(f[v]) /\ x = f[v].text
  BY <1>1, TextOfFacts
<1>3. \A x : x \in ToSet(TextOf(v)) <=> IsString(v) /\ x = v.text
  BY TextOfFacts
<1> QED
  BY <1>1, <1>2, <1>3 DEF InPlace, Image

(* The strings of the contents below a part are images, those of the part. *)
ImagesBelow(f, h, part) ==
    \A w \in Value : Depth[w] < Depth[part] =>
        \A x \in ToSet(ContentStrings[f[w]]) : Image(h, x, ToSet(ContentStrings[w]))

PartImages(f, h, part) == \A x : PartIn(x, f[part]) => \E s : PartIn(s, part) /\ x = h[s]

(* A rewriting that walks the fields content is read from leaves no string *)
(* of the content as it was.                                               *)
LEMMA RewritePart ==
    ASSUME NEW f, NEW h, NEW K, Rewrites(f, h, K), RedactedFields \subseteq K, NEW part \in Value,
           ImagesBelow(f, h, part)
    PROVE  PartImages(f, h, part)
<1>1. f[part] \in Value /\ InPlace(f, h, K, part)
  BY RewriteType, RewriteInPlace
<1>2. CASE IsObject(part)
  <2>1. IsObject(f[part])
    BY <1>1, <1>2 DEF InPlace
  <2>2. ASSUME NEW key \in RedactedFields
        PROVE  /\ Get(part, key) \in Value /\ Depth[Get(part, key)] < Depth[part]
               /\ Get(f[part], key) = f[Get(part, key)]
    <3>1. key \in Keys /\ key \in K
      BY KeysUsed
    <3> QED
      BY <1>2, <3>1, GetFacts, RewriteGet
  <2>3. {"text", "content", "output"} = RedactedFields
    BY DEF RedactedFields
  <2>4. ASSUME NEW x \in ToSet(TextOf(Get(f[part], "text")))
        PROVE  Image(h, x, ToSet(TextOf(Get(part, "text"))))
    BY <2>2, <2>3, RewriteText
  <2>5. ASSUME NEW key \in {"content", "output"}, NEW x \in ToSet(ContentStrings[Get(f[part], key)])
        PROVE  Image(h, x, ToSet(ContentStrings[Get(part, key)]))
    BY <2>2, <2>3 DEF ImagesBelow
  <2> QED
    BY <1>2, <2>1, <2>4, <2>5 DEF PartIn, Image, PartImages
<1>3. CASE ~IsObject(part)
  <2>1. ~IsObject(f[part])
    BY <1>1, <1>3 DEF InPlace
  <2> QED
    BY <1>3, <2>1, RewriteText DEF PartIn, Image, PartImages
<1> QED
  BY <1>2, <1>3

LEMMA RewriteContent ==
    ASSUME NEW f, NEW h, NEW K, Rewrites(f, h, K), RedactedFields \subseteq K, NEW v \in Value
    PROVE  \A x \in ToSet(ContentStrings[f[v]]) : Image(h, x, ToSet(ContentStrings[v]))
<1> DEFINE S == {w \in Value :
                    \A x \in ToSet(ContentStrings[f[w]]) : Image(h, x, ToSet(ContentStrings[w]))}
<1>1. ASSUME NEW w \in Value, \A u \in Value : Depth[u] < Depth[w] => u \in S,
             NEW x \in ToSet(ContentStrings[f[w]])
      PROVE  Image(h, x, ToSet(ContentStrings[w]))
  <2>1. f[w] \in Value /\ InPlace(f, h, K, w)
    BY RewriteType, RewriteInPlace
  <2>2. ContentIn(x, f[w]) /\ \A s : ContentIn(s, w) => s \in ToSet(ContentStrings[w])
    BY <1>1, <2>1, ContentElements
  <2>3. CASE IsArray(w)
    <3>1. PICK i \in 1..Len(w.items) : PartIn(x, f[w.items[i]])
      BY <2>1, <2>2, <2>3 DEF ContentIn, InPlace
    <3>2. w.items[i] \in Value /\ Depth[w.items[i]] < Depth[w]
      BY <2>3, PartsLower
    <3>3. ASSUME NEW u \in Value, Depth[u] < Depth[w.items[i]]
          PROVE  \A y \in ToSet(ContentStrings[f[u]]) : Image(h, y, ToSet(ContentStrings[u]))
      <4>1. Depth[u] \in Nat /\ Depth[w.items[i]] \in Nat /\ Depth[w] \in Nat
        BY <3>2, DepthIsRank
      <4>2. Depth[u] < Depth[w]
        BY <3>2, <3>3, <4>1
      <4> QED
        BY <1>1, <4>2
    <3>4. ImagesBelow(f, h, w.items[i])
      BY <3>3 DEF ImagesBelow
    <3>5. PartImages(f, h, w.items[i])
      BY <3>2, <3>4, RewritePart
    <3> QED
      BY <2>2, <2>3, <3>1, <3>5 DEF ContentIn, Image, PartImages
  <2>4. CASE ~IsArray(w)
    <3>1. PartIn(x, f[w])
      BY <2>1, <2>2, <2>4 DEF ContentIn, InPlace
    <3>2. ImagesBelow(f, h, w)
      BY <1>1 DEF ImagesBelow
    <3>3. PartImages(f, h, w)
      BY <3>2, RewritePart
    <3> QED
      BY <2>2, <2>4, <3>1, <3>3 DEF ContentIn, Image, PartImages
  <2> QED
    BY <2>3, <2>4
<1>2. Value \subseteq S
  <2>1. \A w \in Value : (\A u \in Value : Depth[u] < Depth[w] => u \in S) => w \in S
    BY <1>1
  <2> HIDE DEF S
  <2> QED
    BY <2>1, ValueInduction
<1> QED
  BY <1>2

LEMMA ItemsOfFacts ==
    ASSUME NEW v \in Value
    PROVE  /\ ItemsOf(v) \in Seq(Value) /\ Len(ItemsOf(v)) \in Nat
           /\ DOMAIN ItemsOf(v) = 1..Len(ItemsOf(v))
           /\ \A i \in 1..Len(ItemsOf(v)) : ItemsOf(v)[i] \in Value
           /\ IsArray(v) => ItemsOf(v) = v.items
<1>1. ItemsOf(v) \in Seq(Value) /\ (IsArray(v) => ItemsOf(v) = v.items)
  BY PartsLower, EmptySeq DEF ItemsOf
<1> QED
  BY <1>1

ItemIn(x, item) ==
    \/ x \in ToSet(TextOf(item))
    \/ x \in ToSet(ContentStrings[Get(item, "content")])
    \/ x \in ToSet(ContentStrings[Get(item, "output")])
    \/ x \in ToSet(TextOf(Get(item, "text")))

InputIn(x, asked) ==
    IF IsArray(asked) THEN \E i \in 1..Len(asked.items) : ItemIn(x, asked.items[i])
    ELSE ItemIn(x, asked)

MessagesIn(x, messages) ==
    \E i \in 1..Len(ItemsOf(messages)) :
        x \in ToSet(ContentStrings[Get(ItemsOf(messages)[i], "content")])

PromptIn(x, body) ==
    \/ MessagesIn(x, Get(body, "messages"))
    \/ x \in ToSet(TextOf(Get(body, "instructions")))
    \/ InputIn(x, Get(body, "input"))

LEMMA ItemElements ==
    ASSUME NEW item \in Value
    PROVE  /\ InputItemStrings[item] \in Seq(Text)
           /\ \A x : x \in ToSet(InputItemStrings[item]) <=> ItemIn(x, item)
<1> DEFINE a == TextOf(item)
           b == ContentStrings[Get(item, "content")]
           c == ContentStrings[Get(item, "output")]
           d == TextOf(Get(item, "text"))
<1>1. \A key \in {"text", "content", "output"} : Get(item, key) \in Value
  BY GetFacts, KeysUsed
<1>2. a \in Seq(Text) /\ b \in Seq(Text) /\ c \in Seq(Text) /\ d \in Seq(Text)
  BY <1>1, TextOfFacts, ContentStringsFacts
<1>3. InputItemStrings[item] = ((a \o b) \o c) \o d
  BY DEF InputItemStrings
<1>4. \A x : ItemIn(x, item) <=> x \in ToSet(a) \/ x \in ToSet(b) \/ x \in ToSet(c) \/ x \in ToSet(d)
  BY DEF ItemIn
<1> HIDE DEF a, b, c, d
<1>5. a \o b \in Seq(Text) /\ \A x : x \in ToSet(a \o b) <=> x \in ToSet(a) \/ x \in ToSet(b)
  BY <1>2, ConcatProperties, ConcatElements
<1>6. /\ (a \o b) \o c \in Seq(Text)
      /\ \A x : x \in ToSet((a \o b) \o c) <=> x \in ToSet(a \o b) \/ x \in ToSet(c)
  BY <1>2, <1>5, ConcatProperties, ConcatElements
<1>7. /\ ((a \o b) \o c) \o d \in Seq(Text)
      /\ \A x : x \in ToSet(((a \o b) \o c) \o d) <=> x \in ToSet((a \o b) \o c) \/ x \in ToSet(d)
  <2> DEFINE e == (a \o b) \o c
  <2>1. e \in Seq(Text)
    BY <1>6
  <2> HIDE DEF e
  <2>2. e \o d \in Seq(Text) /\ \A x : x \in ToSet(e \o d) <=> x \in ToSet(e) \/ x \in ToSet(d)
    BY <1>2, <2>1, ConcatProperties, ConcatElements
  <2> QED
    BY <2>2 DEF e
<1> QED
  BY <1>3, <1>4, <1>5, <1>6, <1>7

LEMMA InputElements ==
    ASSUME NEW asked \in Value
    PROVE  /\ InputStrings(asked) \in Seq(Text)
           /\ \A x : x \in ToSet(InputStrings(asked)) <=> InputIn(x, asked)
<1>1. CASE IsArray(asked)
  <2>1. asked.items \in Seq(Value) /\ \A i \in 1..Len(asked.items) : asked.items[i] \in Value
    BY <1>1, PartsLower
  <2>2. Yields(InputItemStrings, asked.items, Text)
    BY <2>1, ItemElements DEF Yields
  <2>3. InputStrings(asked) = FlatMap(InputItemStrings, asked.items)
    BY <1>1 DEF InputStrings
  <2>4. /\ FlatMap(InputItemStrings, asked.items) \in Seq(Text)
        /\ \A x : x \in ToSet(FlatMap(InputItemStrings, asked.items))
              <=> \E i \in 1..Len(asked.items) : x \in ToSet(InputItemStrings[asked.items[i]])
    BY <2>1, <2>2, FlatMapFacts
  <2> QED
    BY <1>1, <2>1, <2>3, <2>4, ItemElements DEF InputIn
<1>2. CASE ~IsArray(asked)
  BY <1>2, ItemElements DEF InputStrings, InputIn
<1> QED
  BY <1>1, <1>2

LEMMA MessageElements ==
    ASSUME NEW body \in Value
    PROVE  /\ MessageStrings(body) \in Seq(Text)
           /\ \A x : x \in ToSet(MessageStrings(body)) <=> MessagesIn(x, Get(body, "messages"))
<1> DEFINE items == ItemsOf(Get(body, "messages"))
           f == [message \in Value |-> ContentStrings[Get(message, "content")]]
<1>1. Get(body, "messages") \in Value
  BY GetFacts, KeysUsed
<1>2. items \in Seq(Value) /\ \A i \in 1..Len(items) : items[i] \in Value
  BY <1>1, ItemsOfFacts
<1>3. \A message \in Value : f[message] = ContentStrings[Get(message, "content")]
                                /\ f[message] \in Seq(Text)
  BY GetFacts, KeysUsed, ContentStringsFacts
<1>4. MessageStrings(body) = FlatMap(f, items)
  BY DEF MessageStrings
<1>5. \A x : MessagesIn(x, Get(body, "messages"))
                <=> \E i \in 1..Len(items) : x \in ToSet(ContentStrings[Get(items[i], "content")])
  BY DEF MessagesIn
<1> HIDE DEF items, f
<1>6. Yields(f, items, Text)
  BY <1>2, <1>3 DEF Yields
<1>7. /\ FlatMap(f, items) \in Seq(Text)
      /\ \A x : x \in ToSet(FlatMap(f, items)) <=> \E i \in 1..Len(items) : x \in ToSet(f[items[i]])
  BY <1>2, <1>6, FlatMapFacts
<1> QED
  BY <1>2, <1>3, <1>4, <1>5, <1>7

LEMMA PromptElements ==
    ASSUME NEW body \in Value
    PROVE  /\ PromptStrings(body) \in Seq(Text)
           /\ \A x : x \in ToSet(PromptStrings(body)) <=> PromptIn(x, body)
<1> DEFINE a == MessageStrings(body)
           b == TextOf(Get(body, "instructions"))
           c == InputStrings(Get(body, "input"))
<1>1. \A key \in {"instructions", "input"} : Get(body, key) \in Value
  BY GetFacts, KeysUsed
<1>2. a \in Seq(Text) /\ b \in Seq(Text) /\ c \in Seq(Text)
  BY <1>1, MessageElements, TextOfFacts, InputElements
<1>3. PromptStrings(body) = (a \o b) \o c
  BY DEF PromptStrings
<1>4. \A x : PromptIn(x, body) <=> x \in ToSet(a) \/ x \in ToSet(b) \/ x \in ToSet(c)
  BY <1>1, MessageElements, InputElements DEF PromptIn
<1> HIDE DEF a, b, c
<1>5. a \o b \in Seq(Text) /\ \A x : x \in ToSet(a \o b) <=> x \in ToSet(a) \/ x \in ToSet(b)
  BY <1>2, ConcatProperties, ConcatElements
<1>6. /\ (a \o b) \o c \in Seq(Text)
      /\ \A x : x \in ToSet((a \o b) \o c) <=> x \in ToSet(a \o b) \/ x \in ToSet(c)
  BY <1>2, <1>5, ConcatProperties, ConcatElements
<1> QED
  BY <1>3, <1>4, <1>5, <1>6

ItemImages(h, new, old) == \A x : ItemIn(x, new) => \E s : ItemIn(s, old) /\ x = h[s]

LEMMA RewriteItem ==
    ASSUME NEW f, NEW h, NEW K, Rewrites(f, h, K), RedactedFields \subseteq K, NEW item \in Value
    PROVE  ItemImages(h, f[item], item)
<1>1. ASSUME NEW key \in RedactedFields
      PROVE  Get(item, key) \in Value /\ Get(f[item], key) = f[Get(item, key)]
  <2>1. key \in Keys /\ key \in K
    BY KeysUsed
  <2> QED
    BY <2>1, GetFacts, RewriteGet
<1>2. {"text", "content", "output"} = RedactedFields
  BY DEF RedactedFields
<1>3. \A x \in ToSet(TextOf(f[item])) : Image(h, x, ToSet(TextOf(item)))
  BY RewriteText
<1>4. \A x \in ToSet(TextOf(Get(f[item], "text"))) : Image(h, x, ToSet(TextOf(Get(item, "text"))))
  BY <1>1, <1>2, RewriteText
<1>5. ASSUME NEW key \in {"content", "output"}
      PROVE  \A x \in ToSet(ContentStrings[Get(f[item], key)]) :
                Image(h, x, ToSet(ContentStrings[Get(item, key)]))
  <2>1. Get(item, key) \in Value /\ Get(f[item], key) = f[Get(item, key)]
    BY <1>1, <1>2
  <2> QED
    BY <2>1, RewriteContent
<1> QED
  BY <1>3, <1>4, <1>5 DEF ItemImages, ItemIn, Image

PromptImages(h, new, old) == \A x : PromptIn(x, new) => \E s : PromptIn(s, old) /\ x = h[s]

(* DLP leaves no prompt string as it was, nor adds one.                    *)
LEMMA RewritePrompts ==
    ASSUME NEW f, NEW h, Rewrites(f, h, Keys), NEW body \in Value
    PROVE  PromptImages(h, f[body], body)
<1>1. ASSUME NEW key \in Keys
      PROVE  Get(body, key) \in Value /\ Get(f[body], key) = f[Get(body, key)]
  BY GetFacts, RewriteGet
<1>2. {"messages", "instructions", "input"} \subseteq Keys /\ RedactedFields \subseteq Keys
  BY KeysUsed
<1> DEFINE messages == Get(body, "messages")
           asked == Get(body, "input")
<1>3. messages \in Value /\ asked \in Value
  BY <1>1, <1>2
<1>4. ASSUME NEW x, MessagesIn(x, f[messages]) PROVE \E s : MessagesIn(s, messages) /\ x = h[s]
  <2>1. InPlace(f, h, Keys, messages)
    BY <1>3, RewriteInPlace
  <2>2. IsArray(messages)
    BY <1>4, <2>1 DEF MessagesIn, ItemsOf, InPlace
  <2>3. PICK i \in 1..Len(messages.items) :
           x \in ToSet(ContentStrings[Get(f[messages.items[i]], "content")])
    BY <1>4, <2>1, <2>2 DEF MessagesIn, ItemsOf, InPlace
  <2> DEFINE message == messages.items[i]
  <2>4. message \in Value
    BY <1>3, <2>2, PartsLower
  <2>5. Get(message, "content") \in Value /\ Get(f[message], "content") = f[Get(message, "content")]
    <3>1. "content" \in Keys
      BY KeysUsed
    <3> HIDE DEF message
    <3> QED
      BY <2>4, <3>1, GetFacts, RewriteGet
  <2>6. Image(h, x, ToSet(ContentStrings[Get(message, "content")]))
    BY <1>2, <2>3, <2>5, RewriteContent
  <2> QED
    BY <2>2, <2>6 DEF MessagesIn, ItemsOf, Image
<1>5. ASSUME NEW x, x \in ToSet(TextOf(Get(f[body], "instructions")))
      PROVE  Image(h, x, ToSet(TextOf(Get(body, "instructions"))))
  BY <1>1, <1>2, <1>5, RewriteText
<1>6. ASSUME NEW x, InputIn(x, f[asked]) PROVE \E s : InputIn(s, asked) /\ x = h[s]
  <2>1. InPlace(f, h, Keys, asked)
    BY <1>3, RewriteInPlace
  <2>2. CASE IsArray(asked)
    <3>1. PICK i \in 1..Len(asked.items) : ItemIn(x, f[asked.items[i]])
      BY <1>6, <2>1, <2>2 DEF InputIn, InPlace
    <3>2. asked.items[i] \in Value
      BY <1>3, <2>2, PartsLower
    <3>3. ItemImages(h, f[asked.items[i]], asked.items[i])
      BY <1>2, <3>2, RewriteItem
    <3> QED
      BY <2>2, <3>1, <3>3 DEF InputIn, ItemImages
  <2>3. CASE ~IsArray(asked)
    <3>1. ItemIn(x, f[asked])
      BY <1>6, <2>1, <2>3 DEF InputIn, InPlace
    <3>2. ItemImages(h, f[asked], asked)
      BY <1>2, <1>3, RewriteItem
    <3> QED
      BY <2>3, <3>1, <3>2 DEF InputIn, ItemImages
  <2> QED
    BY <2>2, <2>3
<1>7. Get(f[body], "messages") = f[messages] /\ Get(f[body], "input") = f[asked]
  BY <1>1, <1>2
<1> HIDE DEF messages, asked
<1>8. ASSUME NEW x, PromptIn(x, f[body]) PROVE \E s : PromptIn(s, body) /\ x = h[s]
  <2>1. MessagesIn(x, f[messages]) \/ x \in ToSet(TextOf(Get(f[body], "instructions"))) \/ InputIn(x, f[asked])
    BY <1>7, <1>8 DEF PromptIn
  <2> QED
    BY <1>4, <1>5, <1>6, <2>1 DEF PromptIn, Image, messages, asked
<1> QED
  BY <1>8 DEF PromptImages

(* A message whose content was replaced, and an item of the input.         *)
LEMMA RedactMessageFacts ==
    ASSUME NEW message \in Value
    PROVE  /\ Get(RedactMessage(message), "content") = RedactContent[Get(message, "content")]
           /\ ~IsObject(message) => RedactMessage(message) = message
           /\ IsObject(message) =>
                 /\ IsObject(RedactMessage(message))
                 /\ \A key \in Keys \ {"content"} : Get(RedactMessage(message), key) = Get(message, key)
<1>1. "content" \in Keys
  BY KeysUsed
<1>2. Absent \in Value /\ RedactContent[Absent] = Absent
  <2>1. Absent \in Value
    BY LevelBuilds, JsonAssumption DEF Value
  <2>2. InPlace(RedactContent, InjectionRewrite, RedactedFields, Absent)
    BY <2>1, RedactContentRewrites, RewriteInPlace
  <2> QED
    BY <2>1, <2>2 DEF InPlace, Absent, IsString, IsArray, IsObject
<1>3. CASE Get(message, "content") = Absent
  BY <1>2, <1>3 DEF RedactMessage
<1>4. CASE Get(message, "content") # Absent
  <2>1. IsObject(message)
    BY <1>4 DEF Get
  <2> DEFINE w == RedactContent[Get(message, "content")]
             new == RedactMessage(message)
  <2>2. new = [message EXCEPT !.fields["content"] = w]
    BY <1>4 DEF RedactMessage, Put
  <2>3. message = [kind |-> "object", fields |-> message.fields] /\ message.fields \in [Keys -> Value]
    BY <2>1, DepthFacts, LevelForms, PartsLower
  <2> HIDE DEF w
  <2>4. new.kind = "object" /\ new.fields = [message.fields EXCEPT !["content"] = w]
    BY <2>2, <2>3
  <2>5. new.fields["content"] = w /\ \A key \in Keys \ {"content"} : new.fields[key] = message.fields[key]
    BY <1>1, <2>3, <2>4
  <2> HIDE DEF new
  <2>6. IsObject(new)
    BY <2>4 DEF IsObject
  <2> QED
    BY <2>1, <2>5, <2>6 DEF Get, w, new
<1> QED
  BY <1>3, <1>4

LEMMA RedactItemFacts ==
    ASSUME NEW item \in Value
    PROVE  ItemImages(InjectionRewrite, RedactInputItem(item), item)
<1>1. CASE IsArray(item)
  <2>1. ~IsString(item) /\ ~IsObject(item)
    BY <1>1, OneKind
  <2>2. Get(item, "content") = Absent /\ Get(item, "output") = Absent /\ Get(item, "text") = Absent
    BY <2>1 DEF Get
  <2>3. Absent \in Value /\ ~IsArray(Absent) /\ ~IsObject(Absent) /\ ~IsString(Absent)
    BY LevelBuilds, JsonAssumption DEF Value, Absent, IsArray, IsObject, IsString
  <2>4. \A x : x \notin ToSet(TextOf(item)) /\ x \notin ToSet(TextOf(Absent))
    BY <2>1, <2>3, TextOfFacts
  <2>5. \A x : x \notin ToSet(ContentStrings[Absent])
    BY <2>3, <2>4, ContentElements DEF ContentIn, PartIn
  <2>6. \A x : ~ItemIn(x, item)
    BY <2>2, <2>4, <2>5 DEF ItemIn
  <2>7. RedactInputItem(item) = item
    BY <1>1 DEF RedactInputItem
  <2> QED
    BY <2>6, <2>7 DEF ItemImages
<1>2. CASE ~IsArray(item)
  <2>1. RedactInputItem(item) = RedactContent[item]
    BY <1>2 DEF RedactInputItem
  <2> QED
    BY <2>1, RedactContentRewrites, RewriteItem
<1> QED
  BY <1>1, <1>2

(* The fields of a redacted body.                                          *)
LEMMA RedactedBodyFields ==
    ASSUME NEW body \in Value
    PROVE  /\ \A key \in Keys : Get(RedactPromptFields(body), key) =
                 IF IsObject(body) THEN RedactField(key, Get(body, key)) ELSE Absent
           /\ IsObject(RedactPromptFields(body)) = IsObject(body)
           /\ IsObject(body) => RedactPromptFields(body) =
                 [kind |-> "object", fields |-> [k \in Keys |-> RedactField(k, body.fields[k])]]
<1>1. CASE IsObject(body)
  <2> DEFINE fields == [k \in Keys |-> RedactField(k, body.fields[k])]
  <2>1. DOMAIN fields = Keys /\ fields = [k \in Keys |-> fields[k]]
    OBVIOUS
  <2>2. \A k \in Keys : fields[k] = RedactField(k, body.fields[k])
    OBVIOUS
  <2>3. RedactPromptFields(body) = Obj(fields)
    BY <1>1 DEF RedactPromptFields
  <2> HIDE DEF fields
  <2>4. [k \in Keys |-> IF k \in DOMAIN fields THEN fields[k] ELSE Absent] = fields
    BY <2>1
  <2>5. RedactPromptFields(body) = [kind |-> "object", fields |-> fields]
    BY <2>3, <2>4 DEF Obj
  <2>6. IsObject(RedactPromptFields(body)) /\ RedactPromptFields(body).fields = fields
    BY <2>5 DEF IsObject
  <2> QED
    BY <1>1, <2>2, <2>5, <2>6 DEF Get, fields
<1>2. CASE ~IsObject(body)
  BY <1>2 DEF RedactPromptFields, Get
<1> QED
  BY <1>1, <1>2

(* Arr of a function on the items' places is an array of as many items.    *)
LEMMA ArrFacts ==
    ASSUME NEW v, IsArray(v), v.items \in Seq(Value), NEW f, f = [i \in DOMAIN v.items |-> f[i]]
    PROVE  /\ IsArray(Arr(f)) /\ ~IsString(Arr(f)) /\ ~IsObject(Arr(f)) /\ Arr(f).items = f
           /\ DOMAIN f = 1..Len(v.items) /\ Len(f) = Len(v.items) /\ Len(v.items) \in Nat
<1>1. DOMAIN f = 1..Len(v.items) /\ Len(v.items) \in Nat
  OBVIOUS
<1>2. Len(f) = Len(v.items)
  BY <1>1
<1> QED
  BY <1>1, <1>2 DEF Arr, IsArray, IsString, IsObject

RedactedMessages(messages) == RedactField("messages", messages)

LEMMA RedactedMessagesFacts ==
    ASSUME NEW messages \in Value
    PROVE  /\ IsArray(RedactedMessages(messages)) = IsArray(messages)
           /\ Len(ItemsOf(RedactedMessages(messages))) = Len(ItemsOf(messages))
           /\ \A i \in 1..Len(ItemsOf(messages)) :
                 ItemsOf(RedactedMessages(messages))[i] = RedactMessage(ItemsOf(messages)[i])
<1>1. CASE IsArray(messages)
  <2> DEFINE f == [i \in DOMAIN messages.items |-> RedactMessage(messages.items[i])]
  <2>1. RedactedMessages(messages) = Arr(f)
    BY <1>1 DEF RedactedMessages, RedactField
  <2>2. messages.items \in Seq(Value) /\ ItemsOf(messages) = messages.items
    BY <1>1, PartsLower DEF ItemsOf
  <2>3. f = [i \in DOMAIN messages.items |-> f[i]]
    OBVIOUS
  <2>4. \A i \in DOMAIN messages.items : f[i] = RedactMessage(messages.items[i])
    OBVIOUS
  <2> HIDE DEF f
  <2>5. /\ IsArray(Arr(f)) /\ Arr(f).items = f
        /\ DOMAIN f = 1..Len(messages.items) /\ Len(f) = Len(messages.items)
    BY <1>1, <2>2, <2>3, ArrFacts
  <2>6. ItemsOf(Arr(f)) = f
    BY <2>5 DEF ItemsOf
  <2> QED
    BY <1>1, <2>1, <2>2, <2>3, <2>4, <2>5, <2>6
<1>2. CASE ~IsArray(messages)
  <2>1. RedactedMessages(messages) = messages
    BY <1>2 DEF RedactedMessages, RedactField
  <2>2. ItemsOf(messages) = <<>> /\ Len(<<>>) = 0
    BY <1>2 DEF ItemsOf
  <2> QED
    BY <2>1, <2>2
<1> QED
  BY <1>1, <1>2

RedactedInput(asked) == RedactField("input", asked)

LEMMA RedactedInputFacts ==
    ASSUME NEW asked \in Value
    PROVE  /\ IsArray(RedactedInput(asked)) = IsArray(asked)
           /\ IsArray(asked) => /\ Len(RedactedInput(asked).items) = Len(asked.items)
                                /\ \A i \in 1..Len(asked.items) :
                                      RedactedInput(asked).items[i] = RedactInputItem(asked.items[i])
           /\ ~IsArray(asked) => RedactedInput(asked) = RedactContent[asked]
<1>1. CASE IsArray(asked)
  <2> DEFINE f == [i \in DOMAIN asked.items |-> RedactInputItem(asked.items[i])]
  <2>1. RedactedInput(asked) = Arr(f)
    BY <1>1 DEF RedactedInput, RedactField
  <2>2. asked.items \in Seq(Value)
    BY <1>1, PartsLower
  <2>3. f = [i \in DOMAIN asked.items |-> f[i]]
    OBVIOUS
  <2>4. \A i \in DOMAIN asked.items : f[i] = RedactInputItem(asked.items[i])
    OBVIOUS
  <2> HIDE DEF f
  <2>5. /\ IsArray(Arr(f)) /\ Arr(f).items = f
        /\ DOMAIN f = 1..Len(asked.items) /\ Len(f) = Len(asked.items)
    BY <1>1, <2>2, <2>3, ArrFacts
  <2> QED
    BY <1>1, <2>1, <2>2, <2>3, <2>4, <2>5
<1>2. CASE ~IsArray(asked)
  <2>1. RedactedInput(asked) = RedactContent[asked]
    BY <1>2 DEF RedactedInput, RedactField, RedactInputItem
  <2>2. InPlace(RedactContent, InjectionRewrite, RedactedFields, asked)
    BY RedactContentRewrites, RewriteInPlace
  <2> QED
    BY <1>2, <2>1, <2>2 DEF InPlace
<1> QED
  BY <1>1, <1>2

(* The injection detector leaves no prompt string as it was, nor adds one, *)
(* although it walks the body another way than it reads it.                *)
LEMMA RedactPrompts ==
    ASSUME NEW body \in Value
    PROVE  PromptImages(InjectionRewrite, RedactPromptFields(body), body)
<1>1. SUFFICES ASSUME IsObject(body)
               PROVE  PromptImages(InjectionRewrite, RedactPromptFields(body), body)
  <2>1. ASSUME ~IsObject(body), NEW x PROVE ~PromptIn(x, RedactPromptFields(body))
    <3>1. \A key : Get(RedactPromptFields(body), key) = Absent
      BY <2>1 DEF RedactPromptFields, Get
    <3>2. Absent \in Value /\ ~IsArray(Absent) /\ ~IsObject(Absent) /\ ~IsString(Absent)
      BY LevelBuilds, JsonAssumption DEF Value, Absent, IsArray, IsObject, IsString
    <3>3. x \notin ToSet(TextOf(Absent)) /\ Get(Absent, "content") = Absent
             /\ Get(Absent, "output") = Absent /\ Get(Absent, "text") = Absent
             /\ Len(ItemsOf(Absent)) = 0
      BY <3>2, TextOfFacts DEF Get, ItemsOf
    <3>4. x \notin ToSet(ContentStrings[Absent])
      BY <3>2, <3>3, ContentElements DEF ContentIn, PartIn
    <3>5. ~MessagesIn(x, Absent)
      BY <3>3 DEF MessagesIn
    <3>6. ~InputIn(x, Absent)
      BY <3>2, <3>3, <3>4 DEF InputIn, ItemIn
    <3> QED
      BY <3>1, <3>3, <3>5, <3>6 DEF PromptIn
  <2> QED
    BY <2>1 DEF PromptImages
<1> DEFINE h == InjectionRewrite
           new == RedactPromptFields(body)
           messages == Get(body, "messages")
           asked == Get(body, "input")
           instructions == Get(body, "instructions")
<1>2. messages \in Value /\ asked \in Value /\ instructions \in Value
  BY GetFacts, KeysUsed
<1>3. /\ Get(new, "messages") = RedactedMessages(messages)
      /\ Get(new, "input") = RedactedInput(asked)
      /\ Get(new, "instructions") = RedactContent[instructions]
  <2>1. {"messages", "input", "instructions"} \subseteq Keys
    BY KeysUsed
  <2>2. \A key \in Keys : Get(new, key) = RedactField(key, Get(body, key))
    BY <1>1, RedactedBodyFields
  <2>3. RedactField("instructions", instructions) = RedactContent[instructions]
    BY DEF RedactField
  <2> HIDE DEF new
  <2> QED
    BY <2>1, <2>2, <2>3 DEF RedactedMessages, RedactedInput
<1>4. Rewrites(RedactContent, h, RedactedFields)
  BY RedactContentRewrites
<1>5. ASSUME NEW x, MessagesIn(x, RedactedMessages(messages)) PROVE \E s : MessagesIn(s, messages) /\ x = h[s]
  <2> HIDE DEF messages, h
  <2>1. PICK i \in 1..Len(ItemsOf(messages)) :
           x \in ToSet(ContentStrings[Get(RedactMessage(ItemsOf(messages)[i]), "content")])
    BY <1>2, <1>5, RedactedMessagesFacts DEF MessagesIn
  <2> DEFINE message == ItemsOf(messages)[i]
  <2>2. message \in Value
    BY <1>2, <2>1, ItemsOfFacts
  <2>3. Get(RedactMessage(message), "content") = RedactContent[Get(message, "content")]
           /\ Get(message, "content") \in Value
    <3> HIDE DEF message
    <3> QED
      BY <2>2, RedactMessageFacts, GetFacts, KeysUsed
  <2>4. \A y \in ToSet(ContentStrings[RedactContent[Get(message, "content")]]) :
           Image(h, y, ToSet(ContentStrings[Get(message, "content")]))
    BY <1>4, <2>3, RewriteContent
  <2> QED
    BY <2>1, <2>3, <2>4 DEF MessagesIn, Image
<1>6. ASSUME NEW x, x \in ToSet(TextOf(RedactContent[instructions]))
      PROVE  Image(h, x, ToSet(TextOf(instructions)))
  BY <1>2, <1>4, <1>6, RewriteText
<1>7. ASSUME NEW x, InputIn(x, RedactedInput(asked)) PROVE \E s : InputIn(s, asked) /\ x = h[s]
  <2> HIDE DEF asked
  <2>1. CASE IsArray(asked)
    <3>1. PICK i \in 1..Len(asked.items) : ItemIn(x, RedactInputItem(asked.items[i]))
      BY <1>2, <1>7, <2>1, RedactedInputFacts DEF InputIn
    <3>2. asked.items[i] \in Value
      BY <1>2, <2>1, PartsLower
    <3>3. ItemImages(h, RedactInputItem(asked.items[i]), asked.items[i])
      BY <3>2, RedactItemFacts
    <3> QED
      BY <2>1, <3>1, <3>3 DEF InputIn, ItemImages
  <2>2. CASE ~IsArray(asked)
    <3>1. ItemIn(x, RedactContent[asked])
      BY <1>2, <1>7, <2>2, RedactedInputFacts DEF InputIn
    <3>2. ItemImages(h, RedactContent[asked], asked)
      BY <1>2, <1>4, RewriteItem
    <3> QED
      BY <2>2, <3>1, <3>2 DEF InputIn, ItemImages
  <2> QED
    BY <2>1, <2>2
<1> HIDE DEF h, new
<1>8. ASSUME NEW x, PromptIn(x, new) PROVE \E s : PromptIn(s, body) /\ x = h[s]
  <2>1. \/ MessagesIn(x, RedactedMessages(messages))
        \/ x \in ToSet(TextOf(RedactContent[instructions]))
        \/ InputIn(x, RedactedInput(asked))
    BY <1>3, <1>8 DEF PromptIn
  <2> QED
    BY <1>5, <1>6, <1>7, <2>1 DEF PromptIn, Image
<1> QED
  BY <1>8 DEF PromptImages, h, new

-----------------------------------------------------------------------------
(***************************************************************************)
(* The rewritten bodies are values.                                        *)
(***************************************************************************)
LEMMA PutFacts ==
    ASSUME NEW n \in 1..MaxNesting, NEW v \in Json[n], IsObject(v), NEW key \in Keys, NEW w \in Json[n - 1]
    PROVE  /\ Put(v, key, w) \in Json[n] /\ IsObject(Put(v, key, w))
           /\ Get(Put(v, key, w), key) = w
           /\ \A other \in Keys \ {key} : Get(Put(v, key, w), other) = Get(v, other)
<1> DEFINE P == Json[n - 1]
<1>1. n \in 0..MaxNesting /\ n > 0
  BY JsonAssumption
<1>2. v.fields \in [Keys -> P] /\ v = [kind |-> "object", fields |-> v.fields]
  BY <1>1, LevelForms
<1> DEFINE fields == [v.fields EXCEPT ![key] = w]
<1>3. fields \in [Keys -> P] /\ fields[key] = w /\ \A other \in Keys \ {key} : fields[other] = v.fields[other]
  BY <1>2
<1>4. Put(v, key, w) = [kind |-> "object", fields |-> fields]
  BY <1>2 DEF Put
<1> HIDE DEF fields
<1>5. Put(v, key, w) \in Json[n]
  BY <1>1, <1>3, <1>4, LevelBuilds
<1>6. IsObject(Put(v, key, w)) /\ Put(v, key, w).fields = fields
  BY <1>4 DEF IsObject
<1> QED
  BY <1>3, <1>5, <1>6 DEF Get

LEMMA RewriteKeepsLevel ==
    ASSUME NEW f, NEW h, NEW K, Rewrites(f, h, K), NEW n \in 0..MaxNesting, NEW v \in Json[n]
    PROVE  f[v] \in Json[n]
<1>1. v \in Value
  BY JsonInValue
<1>2. Depth[v] \in 0..n
  BY <1>1, DepthFacts, JsonAssumption
<1>3. f[v] \in Json[Depth[v]]
  BY <1>1, RewriteType
<1> QED
  BY <1>2, <1>3, JsonMonotone

LEMMA GetLevel ==
    ASSUME NEW n \in 1..MaxNesting, NEW v \in Json[n], NEW key \in Keys
    PROVE  Get(v, key) \in Json[n - 1]
<1>1. n \in 0..MaxNesting /\ n - 1 \in 0..MaxNesting
  BY JsonAssumption
<1>2. Absent \in Json[n - 1]
  BY <1>1, LevelBuilds
<1> QED
  BY <1>1, <1>2, LevelForms DEF Get

LEMMA RedactMessageLevel ==
    ASSUME NEW n \in 0..MaxNesting, NEW message \in Json[n]
    PROVE  RedactMessage(message) \in Json[n]
<1>1. CASE Get(message, "content") = Absent
  BY <1>1 DEF RedactMessage
<1>2. CASE Get(message, "content") # Absent
  <2>1. IsObject(message)
    BY <1>2 DEF Get
  <2>2. n \in 1..MaxNesting /\ n - 1 \in 0..MaxNesting
    BY <2>1, LevelForms, JsonAssumption
  <2>3. "content" \in Keys
    BY KeysUsed
  <2>4. Get(message, "content") \in Json[n - 1]
    BY <2>2, <2>3, GetLevel
  <2>5. RedactContent[Get(message, "content")] \in Json[n - 1]
    BY <2>2, <2>4, RedactContentRewrites, RewriteKeepsLevel
  <2> QED
    BY <1>2, <2>1, <2>2, <2>3, <2>5, PutFacts DEF RedactMessage
<1> QED
  BY <1>1, <1>2

LEMMA RedactItemLevel ==
    ASSUME NEW n \in 0..MaxNesting, NEW item \in Json[n]
    PROVE  RedactInputItem(item) \in Json[n]
<1>1. RedactContent[item] \in Json[n]
  BY RedactContentRewrites, RewriteKeepsLevel
<1> QED
  BY <1>1 DEF RedactInputItem

LEMMA RedactFieldLevel ==
    ASSUME NEW n \in 0..MaxNesting, NEW key, NEW value \in Json[n]
    PROVE  RedactField(key, value) \in Json[n]
<1>1. IsArray(value) => n > 0 /\ n - 1 \in 0..MaxNesting /\ value.items \in Seq(Json[n - 1])
  BY LevelForms, JsonAssumption
<1> DEFINE P == Json[n - 1]
<1>2. ASSUME IsArray(value), NEW g, \A item \in P : g[item] \in P
      PROVE  Arr([i \in DOMAIN value.items |-> g[value.items[i]]]) \in Json[n]
  <2>1. value.items \in Seq(P)
    BY <1>1, <1>2
  <2>2. [i \in DOMAIN value.items |-> g[value.items[i]]] \in Seq(P)
    <3> HIDE DEF P
    <3>1. /\ value.items \in [1..Len(value.items) -> P] /\ Len(value.items) \in Nat
          /\ DOMAIN value.items = 1..Len(value.items)
      BY <2>1
    <3>2. [i \in DOMAIN value.items |-> g[value.items[i]]] \in [1..Len(value.items) -> P]
      BY <1>2, <3>1
    <3> QED
      BY <3>1, <3>2
  <2> QED
    BY <1>1, <1>2, <2>2, LevelBuilds
<1> DEFINE g1 == [item \in P |-> RedactMessage(item)]
           g2 == [item \in P |-> RedactInputItem(item)]
<1>3. ASSUME IsArray(value)
      PROVE  /\ Arr([i \in DOMAIN value.items |-> RedactMessage(value.items[i])]) \in Json[n]
             /\ Arr([i \in DOMAIN value.items |-> RedactInputItem(value.items[i])]) \in Json[n]
  <2>1. \A item \in P : g1[item] = RedactMessage(item) /\ g1[item] \in P
    BY <1>1, <1>3, RedactMessageLevel
  <2>2. \A item \in P : g2[item] = RedactInputItem(item) /\ g2[item] \in P
    BY <1>1, <1>3, RedactItemLevel
  <2>3. \A i \in DOMAIN value.items : value.items[i] \in P
    BY <1>1, <1>3
  <2> HIDE DEF g1, g2, P
  <2>4. [i \in DOMAIN value.items |-> g1[value.items[i]]]
           = [i \in DOMAIN value.items |-> RedactMessage(value.items[i])]
    BY <2>1, <2>3
  <2>5. [i \in DOMAIN value.items |-> g2[value.items[i]]]
           = [i \in DOMAIN value.items |-> RedactInputItem(value.items[i])]
    BY <2>2, <2>3
  <2>6. Arr([i \in DOMAIN value.items |-> g1[value.items[i]]]) \in Json[n]
    BY <1>2, <1>3, <2>1
  <2>7. Arr([i \in DOMAIN value.items |-> g2[value.items[i]]]) \in Json[n]
    BY <1>2, <1>3, <2>2
  <2> QED
    BY <2>4, <2>5, <2>6, <2>7
<1>4. RedactContent[value] \in Json[n] /\ RedactInputItem(value) \in Json[n]
  BY RedactContentRewrites, RewriteKeepsLevel, RedactItemLevel
<1> QED
  BY <1>3, <1>4 DEF RedactField

LEMMA RedactedBodyType ==
    ASSUME NEW body \in Value
    PROVE  RedactPromptFields(body) \in Value
<1>1. CASE IsObject(body)
  <2> DEFINE n == MaxNesting
             fields == [k \in Keys |-> RedactField(k, body.fields[k])]
  <2>1. n \in 0..MaxNesting /\ n - 1 \in 0..MaxNesting /\ n > 0
    BY JsonAssumption
  <2>2. body.fields \in [Keys -> Json[n - 1]]
    BY <1>1, <2>1, LevelForms DEF Value
  <2>3. \A k \in Keys : RedactField(k, body.fields[k]) \in Json[n - 1]
    BY <2>1, <2>2, RedactFieldLevel
  <2>4. fields \in [Keys -> Json[n - 1]]
    BY <2>3
  <2>5. RedactPromptFields(body) = [kind |-> "object", fields |-> fields]
    BY <1>1, RedactedBodyFields
  <2> HIDE DEF fields
  <2> QED
    BY <2>1, <2>4, <2>5, LevelBuilds DEF Value
<1>2. CASE ~IsObject(body)
  BY <1>2 DEF RedactPromptFields
<1> QED
  BY <1>1, <1>2

LEMMA DlpRedactType ==
    ASSUME NEW rules \in Rules, NEW v \in Value
    PROVE  DlpRedactValue(rules, v) \in Value
  BY DlpRedactRewrites, RewriteType

-----------------------------------------------------------------------------
(***************************************************************************)
(* What is left after redaction.                                           *)
(***************************************************************************)
LEMMA InjectionFound ==
    ASSUME NEW body \in Value
    PROVE  HasInjection(body) <=> \E x : PromptIn(x, body) /\ Occurs(InjectionPattern, x)
<1>1. PromptStrings(body) \in Seq(Text) /\ \A x : x \in ToSet(PromptStrings(body)) <=> PromptIn(x, body)
  BY PromptElements
<1> DEFINE s == PromptStrings(body)
<1>2. HasInjection(body) <=> \E i \in DOMAIN s : Occurs(InjectionPattern, s[i])
  BY DEF HasInjection
<1>3. \A x : x \in ToSet(s) <=> \E i \in DOMAIN s : s[i] = x
  BY DEF ToSet
<1> HIDE DEF s
<1> QED
  BY <1>1, <1>2, <1>3 DEF s

LEMMA PromptInText ==
    ASSUME NEW body \in Value, NEW x, PromptIn(x, body)
    PROVE  x \in Text
<1>1. PromptStrings(body) \in Seq(Text) /\ x \in ToSet(PromptStrings(body))
  BY PromptElements
<1> QED
  BY <1>1 DEF ToSet

(* Redacting the prompt fields of a body leaves no match of the injection  *)
(* pattern in any string the detector reads (injection.rs:99), if no match *)
(* can hold the word written in the place of another.                      *)
THEOREM InjectionGone ==
    ASSUME NEW body \in Value, Lacks(InjectionPattern, "REDACTED")
    PROVE  ~HasInjection(RedactPromptFields(body))
<1> DEFINE new == RedactPromptFields(body)
<1>1. new \in Value
  BY RedactedBodyType
<1>2. SUFFICES ASSUME NEW x, PromptIn(x, new), Occurs(InjectionPattern, x) PROVE FALSE
  BY <1>1, InjectionFound
<1>3. PICK s : PromptIn(s, body) /\ x = InjectionRewrite[s]
  BY <1>2, RedactPrompts DEF PromptImages
<1>4. s \in Text
  BY <1>3, PromptInText
<1>5. x = Redacted(InjectionPattern, s)
  BY <1>3, <1>4 DEF InjectionRewrite
<1> QED
  BY <1>2, <1>4, <1>5, RedactedFacts, InjectionLiteral

(* Rewriting by the rules of DLP makes no match for the injection detector *)
(* (dlp.rs:64-97), with the same proviso.                                  *)
THEOREM DlpMakesNoInjection ==
    ASSUME NEW rules \in Rules, NEW body \in Value, Lacks(InjectionPattern, "REDACTED"),
           ~HasInjection(body)
    PROVE  ~HasInjection(DlpRedactValue(rules, body))
<1> DEFINE h == DlpRewrite(rules)
           new == DlpRedactValue(rules, body)
<1>1. PICK f : Rewrites(f, h, Keys) /\ new = f[body]
  BY DlpRedactRewrites
<1>2. new \in Value /\ PromptImages(h, new, body)
  BY <1>1, DlpRedactType, RewritePrompts
<1>3. SUFFICES ASSUME NEW x, PromptIn(x, new), Occurs(InjectionPattern, x) PROVE FALSE
  BY <1>2, InjectionFound
<1>4. PICK s : PromptIn(s, body) /\ x = h[s]
  BY <1>2, <1>3 DEF PromptImages
<1>5. s \in Text /\ x = RedactText(rules, s)
  BY <1>4, PromptInText DEF DlpRewrite
<1>6. Occurs(InjectionPattern, s)
  BY <1>3, <1>5, RedactTextFacts, InjectionLiteral DEF UnmadeBy
<1> QED
  BY <1>4, <1>6, InjectionFound

(* A text with a line for each string: each string lies between the ends   *)
(* of lines.                                                               *)
OfWholeLines(text) == text = <<>> \/ (Len(text) \in DOMAIN text /\ text[Len(text)] = "newline")

LEMMA LineEnded ==
    ASSUME NEW a \in Text, NEW x \in Text
    PROVE  Append(x, "newline") \in Text /\ OfWholeLines(a \o Append(x, "newline"))
<1>1. "newline" \in Marks
  BY JsonAssumption
<1> DEFINE y == Append(x, "newline")
<1>2. y \in Seq(Marks) /\ Len(y) = Len(x) + 1 /\ y[Len(y)] = "newline" /\ Len(x) \in Nat
  BY <1>1 DEF Text
<1> HIDE DEF y
<1>0. y \in Text
  BY <1>2 DEF Text
<1>3. /\ a \in Seq(Marks) /\ Len(a) \in Nat
      /\ a \o y \in Seq(Marks) /\ Len(a \o y) = Len(a) + Len(y)
      /\ \A k \in 1..(Len(a) + Len(y)) : (a \o y)[k] = IF k <= Len(a) THEN a[k] ELSE y[k - Len(a)]
  BY <1>0, JoinedFacts DEF Text
<1>4. Len(a) + Len(y) \in 1..(Len(a) + Len(y)) /\ (Len(a) + Len(y)) - Len(a) = Len(y)
         /\ ~(Len(a) + Len(y) <= Len(a))
  BY <1>2, <1>3
<1>5. (a \o y)[Len(a) + Len(y)] = "newline"
  BY <1>2, <1>3, <1>4
<1>6. DOMAIN (a \o y) = 1..Len(a \o y)
  BY <1>3
<1> QED
  BY <1>2, <1>3, <1>4, <1>5, <1>6 DEF OfWholeLines, Text, y

LEMMA LinesParts ==
    ASSUME NEW v \in Value, NEW x \in ToSet(StringsOf[v])
    PROVE  \E a, b \in Text : OfWholeLines(a) /\ Lines(v) = (a \o x) \o (<<"newline">> \o b)
<1> DEFINE f == [text \in Text |-> Append(text, "newline")]
           strings == StringsOf[v]
           N == Len(strings)
<1>1. strings \in Seq(Text) /\ N \in Nat
  BY StringsOfFacts
<1>2. PICK place \in 1..N : strings[place] = x
  BY <1>1 DEF ToSet
<1>3. "newline" \in Marks /\ <<"newline">> \in Text /\ <<>> \in Text
  BY JsonAssumption, TextFacts
<1>4. \A text \in Text : /\ f[text] = text \o <<"newline">> /\ f[text] = Append(text, "newline")
                         /\ f[text] \in Text
  BY <1>3, AppendIsConcat DEF Text
<1>5. Lines(v) = FlatMap(f, strings)
  BY DEF Lines
<1> HIDE DEF f, strings, N
<1>6. Yields(f, strings, Marks)
  BY <1>1, <1>4 DEF Yields, Text
<1>7. PICK upTo : BuiltUp(upTo, f, strings, Marks)
  BY <1>1, <1>6, FlatMapSteps
<1> DEFINE Split(s, t) == \E a, b \in Text : OfWholeLines(a) /\ t = (a \o s) \o (<<"newline">> \o b)
           Holds(n) == OfWholeLines(upTo[n]) /\ \A i \in 1..n : Split(strings[i], upTo[n])
           H == {n \in 0..N : Holds(n)}
<1>8. 0 \in H
  <2>1. upTo[0] = <<>> /\ 1..0 = {}
    BY <1>7 DEF BuiltUp
  <2>2. Holds(0)
    <3> HIDE DEF Split
    <3> QED
      BY <2>1 DEF OfWholeLines
  <2> HIDE DEF Holds
  <2> QED
    BY <1>1, <2>2
<1>9. ASSUME NEW n \in 1..N, n - 1 \in H PROVE n \in H
  <2> DEFINE before == upTo[n - 1]
             last == strings[n]
             nl == <<"newline">>
  <2>1. n - 1 \in 0..N /\ n \in 0..N
    BY <1>1
  <2>2. last \in Text
    BY <1>1 DEF N
  <2>3. before \in Text /\ upTo[n] = before \o f[last]
    BY <1>7, <2>1 DEF BuiltUp, Text, N
  <2>4. f[last] = last \o nl /\ f[last] = Append(last, "newline") /\ f[last] \in Text /\ nl \in Text
    BY <1>3, <1>4, <2>2
  <2>5. OfWholeLines(upTo[n])
    BY <2>2, <2>3, <2>4, LineEnded
  <2>6. Split(last, upTo[n])
    <3> HIDE DEF nl, before, last
    <3>0. nl \in Seq(Marks) /\ before \in Seq(Marks) /\ last \in Seq(Marks)
      BY <2>2, <2>3, <2>4 DEF Text
    <3>1. nl = nl \o <<>> /\ before \o (last \o nl) = (before \o last) \o nl
      BY <3>0, ConcatEmptySeq, ConcatAssociative
    <3>2. upTo[n] = (before \o last) \o (nl \o <<>>) /\ OfWholeLines(before)
      BY <1>9, <2>3, <2>4, <3>1 DEF before
    <3> QED
      BY <1>3, <2>3, <3>2 DEF nl
  <2>7. ASSUME NEW i \in 1..(n - 1) PROVE Split(strings[i], upTo[n])
    <3> DEFINE s == strings[i]
    <3>1. Split(s, before)
      BY <1>9
    <3>2. PICK a \in Text, b \in Text : OfWholeLines(a) /\ before = (a \o s) \o (nl \o b)
      BY <3>1
    <3>3. s \in Text
      BY <1>1 DEF N
    <3> HIDE DEF nl, before, last, s
    <3> DEFINE g == f[last]
    <3>4. g \in Text
      BY <2>4
    <3> HIDE DEF g
    <3>5. a \o s \in Text /\ nl \o b \in Text /\ b \o g \in Text
      BY <2>4, <3>2, <3>3, <3>4, TextFacts
    <3>6. ((a \o s) \o (nl \o b)) \o g = (a \o s) \o ((nl \o b) \o g)
      BY <3>4, <3>5, JoinedThrice
    <3>7. (nl \o b) \o g = nl \o (b \o g)
      BY <2>4, <3>2, <3>4, JoinedThrice
    <3>8. upTo[n] = (a \o s) \o (nl \o (b \o g))
      BY <2>3, <3>2, <3>6, <3>7 DEF g
    <3> QED
      BY <3>2, <3>5, <3>8 DEF nl, s
  <2>8. \A i \in 1..n : Split(strings[i], upTo[n])
    <3>1. \A i \in 1..n : i \in 1..(n - 1) \/ i = n
      OBVIOUS
    <3> HIDE DEF Split
    <3> QED
      BY <2>6, <2>7, <3>1
  <2> HIDE DEF Split
  <2> QED
    BY <2>1, <2>5, <2>8
<1>10. 0..N \subseteq H
  <2> HIDE DEF H
  <2> QED
    BY <1>1, <1>8, <1>9, UpInduction
<1>11. Holds(N)
  <2>1. N \in H
    <3> HIDE DEF H
    <3> QED
      BY <1>1, <1>10
  <2> HIDE DEF Holds
  <2> QED
    BY <2>1
<1>12. Split(x, upTo[N])
  <2> HIDE DEF Split
  <2> QED
    BY <1>2, <1>11
<1> QED
  BY <1>5, <1>7, <1>12 DEF BuiltUp, N

(* What the rules of DLP find in a string of a value they find in its text *)
(* of lines.                                                               *)
LEMMA FoundInLines ==
    ASSUME NEW pattern \in Pattern, OpenEnds(pattern),
           NEW v \in Value, NEW x \in ToSet(StringsOf[v]), Occurs(pattern, x)
    PROVE  Occurs(pattern, Lines(v))
<1> DEFINE nl == <<"newline">>
<1>1. PICK a \in Text, b \in Text : OfWholeLines(a) /\ Lines(v) = (a \o x) \o (nl \o b)
  BY LinesParts
<1>2. x \in Text
  <2>1. StringsOf[v] \in Seq(Text)
    BY StringsOfFacts
  <2> QED
    BY <2>1 DEF ToSet
<1>3. "newline" \in Marks
  BY JsonAssumption
<1> DEFINE c == nl \o b
           front == a \o x
           text == front \o c
<1>4. c \in Text /\ c[1] = "newline" /\ Len(c) = Len(b) + 1 /\ Len(b) \in Nat
  BY <1>3, Prepend DEF Text
<1> HIDE DEF c, nl
<1>5. /\ front \in Seq(Marks) /\ Len(front) = Len(a) + Len(x) /\ Len(a) \in Nat /\ Len(x) \in Nat
      /\ \A k \in 1..(Len(a) + Len(x)) : front[k] = IF k <= Len(a) THEN a[k] ELSE x[k - Len(a)]
  BY <1>2, ConcatProperties DEF Text
<1> HIDE DEF front
<1>0. front \in Text
  BY <1>5 DEF Text
<1>6. /\ text \in Seq(Marks) /\ Len(text) = Len(front) + Len(c)
      /\ \A k \in 1..(Len(front) + Len(c)) :
            text[k] = IF k <= Len(front) THEN front[k] ELSE c[k - Len(front)]
  BY <1>0, <1>4, JoinedFacts DEF Text
<1> HIDE DEF text
<1>7. DOMAIN text = 1..(Len(front) + Len(c))
  BY <1>6
<1>8. Neighbour(text, Len(a)) \in LineEnds
  <2>1. CASE Len(a) = 0
    BY <1>7, <2>1 DEF Neighbour, LineEnds
  <2>2. CASE Len(a) # 0
    <3>1. a[Len(a)] = "newline" /\ Len(a) \in 1..(Len(a) + Len(x)) /\ Len(a) \in 1..(Len(front) + Len(c))
      <4>1. a # <<>>
        BY <2>2
      <4> QED
        BY <1>1, <1>4, <1>5, <2>2, <4>1 DEF OfWholeLines
    <3>2. text[Len(a)] = "newline"
      BY <1>5, <1>6, <3>1
    <3> QED
      BY <1>7, <3>1, <3>2 DEF Neighbour, LineEnds
  <2> QED
    BY <2>1, <2>2
<1>9. Neighbour(text, Len(a) + Len(x) + 1) \in LineEnds
  <2>1. Len(front) + 1 \in 1..(Len(front) + Len(c)) /\ (Len(front) + 1) - Len(front) = 1
    BY <1>4, <1>5
  <2>2. text[Len(front) + 1] = "newline"
    BY <1>4, <1>5, <1>6, <2>1
  <2>3. Neighbour(text, Len(front) + 1) = "newline"
    BY <1>7, <2>1, <2>2 DEF Neighbour
  <2> QED
    BY <1>5, <2>3 DEF LineEnds
<1>10. text = (a \o x) \o c
  BY DEF text, front
<1>11. Occurs(pattern, (a \o x) \o c)
  BY <1>2, <1>4, <1>8, <1>9, <1>10, OccursInWhole
<1> QED
  BY <1>1, <1>11 DEF c

(* A match of a pattern without the mark lies on one side of it, if the    *)
(* mark ends a line.                                                       *)
LEMMA AcrossMark ==
    ASSUME NEW pattern \in Pattern, OpenEnds(pattern),
           NEW mark \in Marks, mark \in LineEnds, Lacks(pattern, mark),
           NEW a \in Text, NEW b \in Text, Occurs(pattern, a \o (<<mark>> \o b))
    PROVE  Occurs(pattern, a) \/ Occurs(pattern, b)
<1> DEFINE c == <<mark>> \o b
           text == a \o c
           n == Len(a)
<1>1. /\ a \in Seq(Marks) /\ b \in Seq(Marks) /\ c \in Seq(Marks) /\ Len(c) = Len(b) + 1
      /\ n \in Nat /\ Len(b) \in Nat /\ c[1] = mark /\ \A k \in 2..(Len(b) + 1) : c[k] = b[k - 1]
  BY Prepend DEF Text
<1> HIDE DEF c
<1>2. /\ text \in Seq(Marks) /\ Len(text) = n + Len(c)
      /\ \A k \in 1..(n + Len(c)) : text[k] = IF k <= n THEN a[k] ELSE c[k - n]
  BY <1>1, ConcatProperties
<1>3. PICK form \in pattern, i \in DOMAIN text : MatchesAt(form, text, i)
  BY DEF Occurs, c
<1> HIDE DEF text, n
<1> DEFINE m == Len(form.marks)
<1>4. m \in Nat \ {0} /\ DOMAIN form.marks = 1..m /\ mark \notin ToSet(form.marks)
  BY <1>3, FormFacts DEF Lacks
<1>5. /\ i \in 1..(n + Len(b) + 1) /\ i + m <= n + Len(b) + 2
      /\ \A k \in 1..m : text[i + k - 1] = form.marks[k]
      /\ Neighbour(text, i - 1) \notin form.left /\ Neighbour(text, i + m) \notin form.right
  BY <1>1, <1>2, <1>3, <1>4 DEF MatchesAt
<1>6. DOMAIN a = 1..n /\ DOMAIN b = 1..Len(b) /\ n = Len(a) /\ DOMAIN text = 1..(n + Len(b) + 1)
  BY <1>1, <1>2 DEF n
<1>7. \A k \in 1..n : text[k] = a[k]
  BY <1>1, <1>2
<1>8. text[n + 1] = mark
  BY <1>1, <1>2
<1>9. \A k \in 1..Len(b) : text[n + 1 + k] = b[k]
  <2> TAKE k \in 1..Len(b)
  <2>1. text[n + 1 + k] = c[(n + 1 + k) - n]
    BY <1>1, <1>2
  <2>2. c[k + 1] = b[k] /\ (n + 1 + k) - n = k + 1
    BY <1>1
  <2> QED
    BY <2>1, <2>2
<1>10. \A side \in {form.left, form.right} : mark \in side <=> "edge" \in side
  BY <1>3 DEF OpenEnds, LineEnds
<1>14. i \in Nat /\ n \in Nat /\ Len(b) \in Nat /\ m \in Nat
  BY <1>1, <1>4, <1>5
<1>15. Neighbour(text, n + 1) = mark
  BY <1>6, <1>8, <1>14 DEF Neighbour
<1>11. CASE i + m <= n + 1
  <2>1. \A k \in 1..m : i + k - 1 \in 1..n
    BY <1>5, <1>11, <1>14
  <2>2. \A k \in 1..m : a[i + k - 1] = form.marks[k]
    BY <1>5, <1>7, <2>1
  <2>3. i \in DOMAIN a
    BY <1>4, <1>5, <1>6, <1>11, <1>14
  <2>4. Neighbour(a, i - 1) \notin form.left
    <3>1. Neighbour(a, i - 1) = Neighbour(text, i - 1)
      BY <1>5, <1>6, <1>7, <1>11, <1>14, <2>3 DEF Neighbour
    <3> QED
      BY <1>5, <3>1
  <2>5. Neighbour(a, i + m) \notin form.right
    <3>1. CASE i + m = n + 1
      <4>1. Neighbour(a, i + m) = "edge" /\ Neighbour(text, i + m) = mark
        BY <1>6, <1>14, <1>15, <3>1 DEF Neighbour
      <4> QED
        BY <1>5, <1>10, <4>1
    <3>2. CASE i + m # n + 1
      <4>1. i + m \in 1..n
        BY <1>4, <1>5, <1>11, <1>14, <3>2
      <4>2. Neighbour(a, i + m) = a[i + m] /\ Neighbour(text, i + m) = text[i + m]
        BY <1>6, <1>14, <4>1 DEF Neighbour
      <4> QED
        BY <1>5, <1>7, <4>1, <4>2
    <3> QED
      BY <3>1, <3>2
  <2>6. MatchesAt(form, a, i)
    BY <1>6, <1>11, <2>2, <2>4, <2>5 DEF MatchesAt
  <2> QED
    BY <1>3, <2>3, <2>6 DEF Occurs
<1>12. CASE i <= n + 1 /\ n + 1 < i + m
  <2> DEFINE k == n + 2 - i
  <2>1. k \in 1..m /\ i + k - 1 = n + 1
    BY <1>5, <1>12, <1>14
  <2>2. form.marks[k] = mark
    <3> HIDE DEF k
    <3> QED
      BY <1>5, <1>8, <2>1
  <2>3. k \in DOMAIN form.marks
    BY <1>4, <2>1
  <2> QED
    BY <1>4, <2>2, <2>3 DEF ToSet
<1>13. CASE n + 1 < i
  <2> DEFINE j == i - (n + 1)
  <2>1. j \in 1..Len(b) /\ j + m <= Len(b) + 1
    BY <1>4, <1>5, <1>13, <1>14
  <2>2. ASSUME NEW k \in 1..m PROVE b[j + k - 1] = form.marks[k]
    <3>1. j + k - 1 \in 1..Len(b) /\ n + 1 + (j + k - 1) = i + k - 1
      <4> HIDE DEF m
      <4> QED
        BY <1>14, <2>1
    <3>2. text[n + 1 + (j + k - 1)] = b[j + k - 1]
      BY <1>9, <3>1
    <3> QED
      BY <1>5, <3>1, <3>2
  <2>3. Neighbour(b, j - 1) \notin form.left
    <3>1. CASE j = 1
      <4>1. Neighbour(b, j - 1) = "edge" /\ i - 1 = n + 1
        BY <1>6, <1>14, <3>1 DEF Neighbour
      <4> QED
        BY <1>5, <1>10, <1>15, <4>1
    <3>2. CASE j # 1
      <4> DEFINE k == j - 1
      <4>0. i <= n + Len(b) + 1
        BY <1>5, <1>14
      <4>1. k \in 1..Len(b) /\ n + 1 + k = i - 1 /\ i - 1 \in 1..(n + Len(b) + 1)
        BY <1>13, <1>14, <3>2, <4>0
      <4> HIDE DEF k
      <4>2. Neighbour(b, k) = b[k] /\ Neighbour(text, i - 1) = text[n + 1 + k]
        BY <1>6, <4>1 DEF Neighbour
      <4> QED
        BY <1>5, <1>9, <4>1, <4>2 DEF k
    <3> QED
      BY <3>1, <3>2
  <2>4. Neighbour(b, j + m) \notin form.right
    <3>1. CASE j + m = Len(b) + 1
      <4>1. Neighbour(b, j + m) = "edge" /\ Neighbour(text, i + m) = "edge"
        BY <1>6, <1>14, <2>1, <3>1 DEF Neighbour
      <4> QED
        BY <1>5, <4>1
    <3>2. CASE j + m # Len(b) + 1
      <4> DEFINE k == j + m
      <4>0. j \in 1..Len(b) /\ j + m <= Len(b) + 1 /\ j + m # Len(b) + 1
        BY <2>1, <3>2
      <4>1. k \in 1..Len(b) /\ n + 1 + k = i + m /\ i + m \in 1..(n + Len(b) + 1)
        <5> HIDE DEF m
        <5> QED
          BY <1>14, <4>0
      <4> HIDE DEF k
      <4>2. Neighbour(b, k) = b[k] /\ Neighbour(text, i + m) = text[n + 1 + k]
        BY <1>6, <4>1 DEF Neighbour
      <4> QED
        BY <1>5, <1>9, <4>1, <4>2 DEF k
    <3> QED
      BY <3>1, <3>2
  <2>5. MatchesAt(form, b, j)
    BY <2>1, <2>2, <2>3, <2>4 DEF MatchesAt
  <2> QED
    BY <1>3, <1>6, <2>1, <2>5 DEF Occurs
<1> QED
  BY <1>11, <1>12, <1>13, <1>14

(* No rule that blocks finds anything in the text.                         *)
Unblocked(rules, x) ==
    \A i \in DOMAIN rules : rules[i].action = "block" => ~Occurs(rules[i].pattern, x)

LEMMA FindingFacts ==
    ASSUME NEW rules \in Rules, NEW text
    PROVE  /\ DlpFinding(rules, text) \in {"block", "redact", "log_only", "pass"}
           /\ DlpFinding(rules, text) # "block" => Unblocked(rules, text)
           /\ DlpFinding(rules, text) \in {"log_only", "pass"} => Free(rules, text)
<1> DEFINE hit == {rules[i].action : i \in Found(rules, text)}
<1>1. DlpFinding(rules, text) = IF "block" \in hit THEN "block"
                                ELSE IF "redact" \in hit THEN "redact"
                                ELSE IF "log_only" \in hit THEN "log_only" ELSE "pass"
  BY DEF DlpFinding
<1>2. \A i \in DOMAIN rules : Occurs(rules[i].pattern, text) => rules[i].action \in hit
  BY DEF Found
<1>3. \A i \in DOMAIN rules : rules[i].action \in {"block", "redact", "log_only"}
  BY RuleType
<1> HIDE DEF hit
<1> QED
  BY <1>1, <1>2, <1>3 DEF Unblocked, Free, Acting

(* Rules none of which is made by the rules of another sequence; rules     *)
(* that take the end of a line for the end of the text.                    *)
RulesUnmade(rules, by) == \A i \in DOMAIN rules : Acting(rules, i) => UnmadeBy(rules[i].pattern, by)
RulesOpen(rules) == \A i \in DOMAIN rules : Acting(rules, i) => OpenEnds(rules[i].pattern)

(* A text the DLP rules let pass holds no match of a rule that redacts or  *)
(* blocks, nor one they rewrote: of no rule, whatever rules wrote over the *)
(* text before and after it (dlp.rs:64-97, 140-158).  Rules that follow    *)
(* make none either, such as those of the output sanitizer.                *)
THEOREM RedactTextLeavesNone ==
    ASSUME NEW rules \in Rules, NEW x \in Text
    PROVE  /\ DlpFinding(rules, x) \in {"log_only", "pass"} => Free(rules, x)
           /\ RulesUnmade(rules, rules) /\ Unblocked(rules, x) => Free(rules, RedactText(rules, x))
           /\ \A by \in Rules : RulesUnmade(rules, by) /\ Free(rules, x) => Free(rules, RedactText(by, x))
<1>1. ASSUME RulesUnmade(rules, rules), Unblocked(rules, x), NEW i \in DOMAIN rules, Acting(rules, i)
      PROVE  ~Occurs(rules[i].pattern, RedactText(rules, x))
  <2>1. rules[i].action \in {"block", "redact"} /\ rules[i].pattern \in Pattern
           /\ UnmadeBy(rules[i].pattern, rules)
    BY <1>1, RuleType DEF Acting, RulesUnmade
  <2>2. CASE rules[i].action = "redact"
    BY <2>1, <2>2, RedactTextFacts
  <2>3. CASE rules[i].action = "block"
    BY <1>1, <2>1, <2>3, RedactTextFacts DEF Unblocked
  <2> QED
    BY <2>1, <2>2, <2>3
<1>2. ASSUME NEW by \in Rules, RulesUnmade(rules, by), Free(rules, x),
             NEW i \in DOMAIN rules, Acting(rules, i)
      PROVE  ~Occurs(rules[i].pattern, RedactText(by, x))
  <2>1. rules[i].pattern \in Pattern /\ UnmadeBy(rules[i].pattern, by) /\ ~Occurs(rules[i].pattern, x)
    BY <1>2, RuleType DEF RulesUnmade, Free
  <2> QED
    BY <2>1, RedactTextFacts
<1> QED
  BY <1>1, <1>2, FindingFacts DEF Free

LEMMA RewrittenStrings ==
    ASSUME NEW rules \in Rules, NEW v \in Value, NEW x \in ToSet(StringsOf[DlpRedactValue(rules, v)])
    PROVE  \E s \in ToSet(StringsOf[v]) : s \in Text /\ x = RedactText(rules, s)
<1>1. PICK f : Rewrites(f, DlpRewrite(rules), Keys) /\ DlpRedactValue(rules, v) = f[v]
  BY DlpRedactRewrites
<1>2. PICK s \in ToSet(StringsOf[v]) : x = DlpRewrite(rules)[s]
  BY <1>1, RewriteStrings
<1>3. s \in Text
  <2>1. StringsOf[v] \in Seq(Text)
    BY StringsOfFacts
  <2> QED
    BY <1>2, <2>1 DEF ToSet
<1> QED
  BY <1>2, <1>3 DEF DlpRewrite

(* A request the DLP detector let pass, or rewrote, holds no match of a    *)
(* rule that redacts or blocks in any of its strings, although it is       *)
(* searched as one text and rewritten string by string (dlp.rs:44-62,      *)
(* 116): for rules that take the end of a line for that of a text, and     *)
(* make no match of one another.                                           *)
THEOREM DlpLeavesNone ==
    ASSUME NEW rules \in Rules, RulesOpen(rules), NEW v \in Value, DlpFinding(rules, Lines(v)) # "block"
    PROVE  /\ DlpFinding(rules, Lines(v)) # "redact" => \A x \in ToSet(StringsOf[v]) : Free(rules, x)
           /\ RulesUnmade(rules, rules) =>
                 \A x \in ToSet(StringsOf[DlpRedactValue(rules, v)]) : Free(rules, x)
<1>1. ASSUME NEW x \in ToSet(StringsOf[v]), NEW i \in DOMAIN rules, Acting(rules, i),
             Occurs(rules[i].pattern, x)
      PROVE  Occurs(rules[i].pattern, Lines(v))
  BY <1>1, RuleType, FoundInLines DEF RulesOpen
<1>2. Unblocked(rules, Lines(v)) /\ (DlpFinding(rules, Lines(v)) # "redact" => Free(rules, Lines(v)))
  BY FindingFacts
<1>3. DlpFinding(rules, Lines(v)) # "redact" => \A x \in ToSet(StringsOf[v]) : Free(rules, x)
  BY <1>1, <1>2 DEF Free
<1>4. ASSUME RulesUnmade(rules, rules), NEW x \in ToSet(StringsOf[DlpRedactValue(rules, v)])
      PROVE  Free(rules, x)
  <2>1. PICK s \in ToSet(StringsOf[v]) : s \in Text /\ x = RedactText(rules, s)
    BY <1>4, RewrittenStrings
  <2>2. Unblocked(rules, s)
    BY <1>1, <1>2, <2>1 DEF Unblocked, Acting
  <2> QED
    BY <1>4, <2>1, <2>2, RedactTextLeavesNone
<1> QED
  BY <1>3, <1>4

(* Patterns that are replaced, as rules.                                   *)
LEMMA ReplacingFacts ==
    ASSUME NEW patterns \in Seq(Pattern)
    PROVE  /\ Replacing(patterns) \in Rules /\ DOMAIN Replacing(patterns) = DOMAIN patterns
           /\ \A i \in DOMAIN patterns : Replacing(patterns)[i].pattern = patterns[i]
<1> DEFINE R == [pattern : Pattern, action : {"block", "redact", "log_only"}]
           rules == Replacing(patterns)
<1>1. Len(patterns) \in Nat /\ DOMAIN patterns = 1..Len(patterns)
  OBVIOUS
<1>2. \A i \in DOMAIN patterns : [pattern |-> patterns[i], action |-> "redact"] \in R
  BY <1>1
<1>3. rules = [i \in 1..Len(patterns) |-> [pattern |-> patterns[i], action |-> "redact"]]
  BY <1>1 DEF Replacing
<1>4. \A i \in 1..Len(patterns) : rules[i].pattern = patterns[i]
  BY <1>3
<1>5. rules \in [1..Len(patterns) -> R]
  <2> HIDE DEF R
  <2> QED
    BY <1>1, <1>2, <1>3
<1> HIDE DEF R, rules
<1>6. rules \in Seq(R) /\ DOMAIN rules = 1..Len(patterns)
  BY <1>1, <1>5
<1> QED
  BY <1>1, <1>4, <1>6 DEF rules, R, Rules

-----------------------------------------------------------------------------
(***************************************************************************)
(* The mandatory system prompt.                                            *)
(***************************************************************************)
Policy == Obj([role |-> Str(<<"system">>), content |-> Str(Prompt)])

LEMMA PolicyFacts ==
    ASSUME NEW n \in 1..MaxNesting
    PROVE  /\ Policy \in Json[n] /\ IsObject(Policy)
           /\ Get(Policy, "role") = Str(<<"system">>) /\ Get(Policy, "content") = Str(Prompt)
           /\ \A key \in Keys \ {"role", "content"} : Get(Policy, key) = Absent
<1> DEFINE fields == [role |-> Str(<<"system">>), content |-> Str(Prompt)]
           all == [k \in Keys |-> IF k \in DOMAIN fields THEN fields[k] ELSE Absent]
<1>1. n \in 0..MaxNesting /\ n > 0 /\ n - 1 \in 0..MaxNesting
  BY JsonAssumption
<1>2. <<"system">> \in Text /\ Prompt \in Text
  BY JsonAssumption, PromptAssumption, TextFacts
<1>3. Str(<<"system">>) \in Json[n - 1] /\ Str(Prompt) \in Json[n - 1] /\ Absent \in Json[n - 1]
  BY <1>1, <1>2, LevelBuilds
<1>4. {"role", "content"} \subseteq Keys
  BY KeysUsed
<1>5. /\ DOMAIN fields = {"role", "content"}
      /\ fields["role"] = Str(<<"system">>) /\ fields["content"] = Str(Prompt)
  OBVIOUS
<1> HIDE DEF fields
<1>6. /\ all \in [Keys -> Json[n - 1]]
      /\ all["role"] = Str(<<"system">>) /\ all["content"] = Str(Prompt)
      /\ \A key \in Keys \ {"role", "content"} : all[key] = Absent
  BY <1>3, <1>4, <1>5
<1>7. Policy = [kind |-> "object", fields |-> all]
  BY DEF Policy, Obj, fields
<1> HIDE DEF all
<1>8. Policy \in Json[n]
  BY <1>1, <1>6, <1>7, LevelBuilds
<1>9. IsObject(Policy) /\ Policy.fields = all
  BY <1>7 DEF IsObject
<1> QED
  BY <1>6, <1>8, <1>9 DEF Get

(* The two places the prompt is written to.                                *)
PromptWritten(body) ==
    IF IsArray(Get(body, "messages"))
    THEN Put(body, "messages", Arr(<<Policy>> \o Get(body, "messages").items))
    ELSE Put(body, "instructions", WriteInstructions(Get(body, "instructions")))

LEMMA WriteFacts ==
    ASSUME NEW n \in 0..MaxNesting, NEW existing \in Json[n]
    PROVE  /\ WriteInstructions(existing) \in Json[n] /\ IsString(WriteInstructions(existing))
           /\ \/ WriteInstructions(existing).text = Prompt
              \/ WriteInstructions(existing) = existing /\ ContainsPrompt(existing.text)
              \/ IsString(existing) /\ WriteInstructions(existing).text = (Prompt \o <<"blank">>) \o existing.text
           /\ IsString(existing) =>
                 \/ IsBlank(existing.text) \/ WriteInstructions(existing) = existing
                 \/ WriteInstructions(existing).text = (Prompt \o <<"blank">>) \o existing.text
<1>1. IsString(existing) => existing.text \in Text
  BY LevelForms
<1>2. Prompt \in Text /\ "blank" \in Marks /\ <<"blank">> \in Text
  BY JsonAssumption, PromptAssumption, TextFacts
<1>3. \A text \in Text : Str(text) \in Json[n] /\ IsString(Str(text)) /\ Str(text).text = text
  BY LevelBuilds DEF Str, IsString
<1>4. CASE IsString(existing) /\ ContainsPrompt(existing.text)
  BY <1>4 DEF WriteInstructions
<1>5. CASE IsString(existing) /\ ~ContainsPrompt(existing.text) /\ ~IsBlank(existing.text)
  <2> DEFINE text == (Prompt \o <<"blank">>) \o existing.text
  <2>1. text \in Text
    <3>1. Prompt \o <<"blank">> \in Text
      BY <1>2, TextFacts
    <3> QED
      BY <1>1, <1>5, <3>1, TextFacts
  <2>2. WriteInstructions(existing) = Str(text)
    BY <1>5 DEF WriteInstructions
  <2> HIDE DEF text
  <2> QED
    BY <1>3, <1>5, <2>1, <2>2 DEF text
<1>6. CASE ~IsString(existing) \/ (~ContainsPrompt(existing.text) /\ IsBlank(existing.text))
  <2>1. WriteInstructions(existing) = Str(Prompt)
    BY <1>6 DEF WriteInstructions
  <2> QED
    BY <1>2, <1>3, <1>6, <2>1
<1> QED
  BY <1>4, <1>5, <1>6

(* A body with the prompt inserted, and its fields.                        *)
Inserted(body, new) ==
    /\ new \in Value /\ IsObject(new)
    /\ IsArray(Get(body, "messages")) =>
          /\ IsArray(Get(new, "messages")) /\ Get(new, "messages").items \in Seq(Value)
          /\ Get(new, "messages").items = <<Policy>> \o Get(body, "messages").items
          /\ \A key \in Keys \ {"messages"} : Get(new, key) = Get(body, key)
    /\ ~IsArray(Get(body, "messages")) =>
          /\ Get(new, "instructions") = WriteInstructions(Get(body, "instructions"))
          /\ \A key \in Keys \ {"instructions"} : Get(new, key) = Get(body, key)

LEMMA InjectPromptFacts ==
    ASSUME NEW body \in Value, HasPromptSurface(body)
    PROVE  Inserted(body, InjectPrompt(body))
<1> DEFINE N == MaxNesting
           messages == Get(body, "messages")
<1>1. N \in 1..N /\ N \in 0..N /\ N - 1 \in 1..N /\ N - 1 \in 0..N /\ N - 2 \in 0..N /\ N - 2 \in 1..N
      /\ (N - 1) - 1 = N - 2 /\ N - 1 > 0
  BY JsonAssumption
<1>2. IsObject(body)
  BY DEF HasPromptSurface, Get, IsArray, Absent
<1>3. {"messages", "instructions", "input"} \subseteq Keys
  BY KeysUsed
<1>4. messages \in Json[N - 1] /\ Get(body, "instructions") \in Json[N - 1] /\ body \in Json[N]
  BY <1>1, <1>3, GetLevel DEF Value
<1>5. InjectPrompt(body) = PromptWritten(body)
  BY DEF InjectPrompt, PromptWritten, Policy
<1>6. CASE IsArray(messages)
  <2> DEFINE items == <<Policy>> \o messages.items
             P == Json[N - 2]
  <2>1. messages.items \in Seq(P) /\ Policy \in P
    BY <1>1, <1>4, <1>6, LevelForms, PolicyFacts
  <2>2. items \in Seq(P)
    <3> HIDE DEF P, messages
    <3> QED
      BY <2>1, Prepend
  <2>3. P \subseteq Value
    BY <1>1, JsonInValue
  <2> HIDE DEF items
  <2>4. Arr(items) \in Json[N - 1]
    BY <1>1, <2>2, LevelBuilds
  <2>5. InjectPrompt(body) = Put(body, "messages", Arr(items))
    BY <1>5, <1>6 DEF PromptWritten, items
  <2>6. /\ InjectPrompt(body) \in Json[N] /\ IsObject(InjectPrompt(body))
        /\ Get(InjectPrompt(body), "messages") = Arr(items)
        /\ \A key \in Keys \ {"messages"} : Get(InjectPrompt(body), key) = Get(body, key)
    BY <1>1, <1>2, <1>3, <1>4, <2>4, <2>5, PutFacts
  <2>7. IsArray(Arr(items)) /\ Arr(items).items = items /\ items \in Seq(Value)
    <3>1. items \in Seq(Value)
      <4> HIDE DEF P
      <4> QED
        BY <2>2, <2>3
    <3> QED
      BY <3>1 DEF Arr, IsArray
  <2> QED
    BY <1>6, <2>6, <2>7 DEF Inserted, Value, items
<1>7. CASE ~IsArray(messages)
  <2> DEFINE w == WriteInstructions(Get(body, "instructions"))
  <2>1. w \in Json[N - 1]
    BY <1>1, <1>4, WriteFacts
  <2>2. InjectPrompt(body) = Put(body, "instructions", w)
    BY <1>5, <1>7 DEF PromptWritten
  <2> HIDE DEF w
  <2>3. /\ InjectPrompt(body) \in Json[N] /\ IsObject(InjectPrompt(body))
        /\ Get(InjectPrompt(body), "instructions") = w
        /\ \A key \in Keys \ {"instructions"} : Get(InjectPrompt(body), key) = Get(body, key)
    BY <1>1, <1>2, <1>3, <1>4, <2>1, <2>2, PutFacts
  <2> QED
    BY <1>7, <2>3 DEF Inserted, Value, w
<1> QED
  BY <1>6, <1>7

LEMMA PromptContained ==
    ASSUME ~IsBlank(Prompt)
    PROVE  /\ ContainsPrompt(Prompt)
           /\ \A text \in Text : ContainsPrompt((Prompt \o <<"blank">>) \o text)
<1>1. Prompt \in Text /\ <<"blank">> \in Text /\ <<>> \in Text /\ DOMAIN Prompt = 1..Len(Prompt) /\ Len(Prompt) \in Nat
  BY JsonAssumption, PromptAssumption, TextFacts DEF Text
<1>2. 1 \in DOMAIN Prompt
  BY <1>1 DEF IsBlank
<1> DEFINE form == [marks |-> Prompt, left |-> {}, right |-> {}]
<1>3. MatchesAt(form, Prompt, 1)
  BY <1>1 DEF MatchesAt
<1>0. form \in Literally({Prompt})
  BY DEF Literally
<1> HIDE DEF form
<1>4. ContainsPrompt(Prompt)
  BY <1>0, <1>2, <1>3 DEF ContainsPrompt, Occurs
<1>5. ASSUME NEW text \in Text PROVE ContainsPrompt((Prompt \o <<"blank">>) \o text)
  <2> DEFINE blank == <<"blank">>
             whole == (Prompt \o blank) \o text
  <2>1. Prompt \o blank \in Text /\ whole \in Text /\ blank \o text \in Text
    <3> HIDE DEF blank
    <3>1. blank \in Text
      BY <1>1 DEF blank
    <3> QED
      BY <1>1, <3>1, TextFacts
  <2>2. whole = Prompt \o (blank \o text)
    <3> HIDE DEF blank
    <3>1. blank \in Text
      BY <1>1 DEF blank
    <3> QED
      BY <1>1, <3>1, ConcatAssociative DEF Text
  <2>3. /\ Len(whole) = Len(Prompt) + Len(blank \o text) /\ Len(blank \o text) \in Nat
        /\ \A k \in 1..Len(Prompt) : whole[k] = Prompt[k]
    <3> DEFINE rest == blank \o text
    <3>1. rest \in Seq(Marks) /\ Prompt \in Seq(Marks) /\ whole = Prompt \o rest
      BY <1>1, <2>1, <2>2 DEF Text
    <3> HIDE DEF rest, whole
    <3>2. Len(whole) = Len(Prompt) + Len(rest) /\ Len(rest) \in Nat
             /\ \A k \in 1..(Len(Prompt) + Len(rest)) : whole[k] = IF k <= Len(Prompt) THEN Prompt[k] ELSE rest[k - Len(Prompt)]
      BY <3>1, ConcatProperties
    <3>3. \A k \in 1..Len(Prompt) : whole[k] = Prompt[k]
      BY <1>1, <3>2
    <3> QED
      BY <3>2, <3>3 DEF rest
  <2> HIDE DEF whole, blank
  <2>4. MatchesAt(form, whole, 1)
    BY <1>1, <2>3 DEF MatchesAt, form
  <2>5. 1 \in DOMAIN whole
    BY <1>1, <1>2, <2>1, <2>3 DEF Text
  <2> QED
    BY <1>0, <2>4, <2>5 DEF ContainsPrompt, Occurs, whole, blank
<1> QED
  BY <1>4, <1>5

LEMMA ContentOfString ==
    ASSUME NEW text \in Text
    PROVE  /\ Str(text) \in Value /\ ContentStrings[Str(text)] = <<text>>
           /\ \A x : x \in ToSet(ContentStrings[Str(text)]) <=> x = text
<1>1. Str(text) \in Value
  BY LevelBuilds, JsonAssumption DEF Value
<1>2. IsString(Str(text)) /\ ~IsArray(Str(text)) /\ ~IsObject(Str(text)) /\ Str(text).text = text
  BY DEF IsString, IsArray, IsObject, Str
<1>3. ContentStrings[Str(text)] = ContentStep(ContentStrings, Str(text))
  BY <1>1, ContentStringsFacts
<1>4. ContentStep(ContentStrings, Str(text)) = PartStep(ContentStrings, Str(text))
  BY <1>1, <1>2 DEF ContentStep, PartSteps
<1>5. PartStep(ContentStrings, Str(text)) = <<text>>
  BY <1>2 DEF PartStep, TextOf
<1> QED
  BY <1>1, <1>3, <1>4, <1>5 DEF ToSet

(* A body the prompt was inserted into has it, wherever that was, if there *)
(* is a prompt (system_prompt.rs:30-68).                                   *)
THEOREM PromptInserted ==
    ASSUME NEW body \in Value, HasPromptSurface(body), ~IsBlank(Prompt)
    PROVE  HasRequiredPrompt(InjectPrompt(body))
<1> DEFINE new == InjectPrompt(body)
           input == Get(new, "input")
           policies == ItemsOf(Get(new, "messages")) \o ItemsOf(input)
<1>1. Inserted(body, new)
  BY InjectPromptFacts
<1> HIDE DEF new
<1>2. \A key \in {"messages", "input", "instructions"} : Get(new, key) \in Value /\ Get(body, key) \in Value
  BY <1>1, GetFacts, KeysUsed DEF Inserted
<1>3. Prompt \in Text
  BY PromptAssumption
<1>4. CASE IsArray(Get(body, "messages"))
  <2> DEFINE first == ItemsOf(Get(new, "messages"))
             rest == ItemsOf(input)
  <2>1. first = <<Policy>> \o Get(body, "messages").items
    BY <1>1, <1>4 DEF Inserted, ItemsOf
  <2>2. Policy \in Value /\ Get(body, "messages").items \in Seq(Value)
    BY <1>2, <1>4, PolicyFacts, PartsLower, JsonAssumption DEF Value
  <2>3. first \in Seq(Value) /\ Len(first) \in Nat /\ Len(first) >= 1 /\ first[1] = Policy
    <3> DEFINE items == Get(body, "messages").items
               single == <<Policy>>
    <3>1. first = single \o items
      BY <2>1
    <3>2. single \in Seq(Value) /\ Len(single) = 1 /\ single[1] = Policy /\ items \in Seq(Value)
      BY <2>2
    <3> HIDE DEF items, single, first
    <3>3. /\ single \o items \in Seq(Value) /\ Len(single \o items) = Len(single) + Len(items)
          /\ \A i \in 1..(Len(single) + Len(items)) :
                (single \o items)[i] = IF i <= Len(single) THEN single[i]
                                       ELSE items[i - Len(single)]
      BY <3>2, ConcatProperties
    <3>4. Len(items) \in Nat
      BY <3>2
    <3> QED
      BY <3>1, <3>2, <3>3, <3>4
  <2>4. rest \in Seq(Value) /\ Len(rest) \in Nat
    BY <1>2, ItemsOfFacts
  <2> HIDE DEF first, rest
  <2>5. 1 \in DOMAIN (first \o rest) /\ (first \o rest)[1] = Policy
    <3>1. /\ first \o rest \in Seq(Value) /\ Len(first \o rest) = Len(first) + Len(rest)
          /\ \A i \in 1..(Len(first) + Len(rest)) :
                (first \o rest)[i] = IF i <= Len(first) THEN first[i] ELSE rest[i - Len(first)]
      BY <2>3, <2>4, ConcatProperties
    <3> QED
      BY <2>3, <2>4, <3>1
  <2>6. PolicyMessage(Policy)
    <3>1. Get(Policy, "role") = Str(<<"system">>) /\ Get(Policy, "content") = Str(Prompt)
      BY PolicyFacts, JsonAssumption
    <3>2. ContentStrings[Str(Prompt)] = <<Prompt>>
      BY <1>3, ContentOfString
    <3>3. ContainsPrompt(Prompt)
      BY PromptContained
    <3> QED
      BY <3>1, <3>2, <3>3 DEF PolicyMessage
  <2>7. policies = first \o rest
    BY DEF first, rest
  <2> HIDE DEF policies, input
  <2>8. \E i \in DOMAIN policies : PolicyMessage(policies[i])
    BY <2>5, <2>6, <2>7
  <2> QED
    BY <2>8 DEF HasRequiredPrompt, policies, input, new
<1>5. CASE ~IsArray(Get(body, "messages"))
  <2> DEFINE existing == Get(body, "instructions")
  <2>1. Get(new, "instructions") = WriteInstructions(existing)
    BY <1>1, <1>5 DEF Inserted
  <2>2. existing \in Json[MaxNesting] /\ MaxNesting \in 0..MaxNesting
    BY <1>2, JsonAssumption DEF Value
  <2>3. IsString(existing) => existing.text \in Text
    BY <2>2, LevelForms
  <2> HIDE DEF existing
  <2>4. IsString(WriteInstructions(existing)) /\ ContainsPrompt(WriteInstructions(existing).text)
    BY <2>2, <2>3, WriteFacts, PromptContained
  <2> QED
    BY <2>1, <2>4 DEF HasRequiredPrompt, new
<1> QED
  BY <1>4, <1>5

(***************************************************************************)
(* What inserting the prompt adds to the strings of a body: the prompt,    *)
(* the role of its message, the prompt in front of the instructions.       *)
(***************************************************************************)
Behind(x, y) == x = (Prompt \o <<"blank">>) \o y

AddedTo(x, old) == x \in old \/ x \in {Prompt, <<"system">>} \/ \E y \in old : Behind(x, y)

LEMMA StringsAt ==
    ASSUME NEW v \in Value, NEW x
    PROVE  /\ IsObject(v) => (x \in ToSet(StringsOf[v])
                                <=> \E k \in Keys : x \in ToSet(StringsOf[Get(v, k)]))
           /\ IsArray(v) => (x \in ToSet(StringsOf[v])
                                <=> \E i \in 1..Len(v.items) : x \in ToSet(StringsOf[v.items[i]]))
           /\ IsString(v) => (x \in ToSet(StringsOf[v]) <=> x = v.text)
           /\ ~IsObject(v) /\ ~IsArray(v) /\ ~IsString(v) => x \notin ToSet(StringsOf[v])
<1>1. x \in ToSet(StringsOf[v]) <=> StringIn(x, v)
  BY StringsElements
<1> QED
  BY <1>1, OneKind DEF StringIn, Get

LEMMA PolicyStrings ==
    ASSUME NEW x \in ToSet(StringsOf[Policy])
    PROVE  x \in {Prompt, <<"system">>}
<1>1. /\ Policy \in Json[MaxNesting] /\ IsObject(Policy)
      /\ Get(Policy, "role") = Str(<<"system">>) /\ Get(Policy, "content") = Str(Prompt)
      /\ \A key \in Keys \ {"role", "content"} : Get(Policy, key) = Absent
  BY PolicyFacts, JsonAssumption
<1>2. PICK k \in Keys : x \in ToSet(StringsOf[Get(Policy, k)])
  BY <1>1, StringsAt DEF Value
<1>3. Get(Policy, k) \in Value
  BY <1>1, GetFacts DEF Value
<1>4. CASE k \in {"role", "content"}
  <2>1. Get(Policy, k) \in {Str(<<"system">>), Str(Prompt)}
    BY <1>1, <1>4
  <2>2. IsString(Get(Policy, k)) /\ Get(Policy, k).text \in {<<"system">>, Prompt}
    BY <2>1 DEF IsString, Str
  <2> QED
    BY <1>2, <1>3, <2>2, StringsAt
<1>5. CASE k \notin {"role", "content"}
  <2>1. ~IsObject(Get(Policy, k)) /\ ~IsArray(Get(Policy, k)) /\ ~IsString(Get(Policy, k))
    BY <1>1, <1>5 DEF IsObject, IsArray, IsString, Absent
  <2> QED
    BY <1>2, <1>3, <2>1, StringsAt
<1> QED
  BY <1>4, <1>5

LEMMA SurfaceIsObject ==
    ASSUME NEW body, HasPromptSurface(body)
    PROVE  IsObject(body)
BY DEF HasPromptSurface, Get, IsArray, Absent

LEMMA InsertedStrings ==
    ASSUME NEW body \in Value, HasPromptSurface(body),
           NEW x \in ToSet(StringsOf[InjectPrompt(body)])
    PROVE  AddedTo(x, ToSet(StringsOf[body]))
<1> DEFINE new == InjectPrompt(body)
<1>1. Inserted(body, new)
  BY InjectPromptFacts
<1>2. IsObject(body)
  BY SurfaceIsObject
<1>3. \A k \in Keys : x \in ToSet(StringsOf[Get(body, k)]) => x \in ToSet(StringsOf[body])
  BY <1>2, StringsAt
<1> HIDE DEF new
<1>4. new \in Value /\ IsObject(new)
  BY <1>1 DEF Inserted
<1>5. PICK k \in Keys : x \in ToSet(StringsOf[Get(new, k)])
  BY <1>4, StringsAt DEF new
<1>6. {"messages", "instructions"} \subseteq Keys
  BY KeysUsed
<1>7. \A key \in Keys : Get(new, key) \in Value /\ Get(body, key) \in Value
  BY <1>4, GetFacts
<1>8. CASE Get(new, k) = Get(body, k)
  BY <1>3, <1>5, <1>8 DEF AddedTo
<1>9. CASE IsArray(Get(body, "messages")) /\ k = "messages"
  <2> DEFINE old == Get(body, "messages")
             single == <<Policy>>
             items == old.items
  <2>1. /\ IsArray(Get(new, k)) /\ Get(new, k).items = single \o items
    BY <1>1, <1>9 DEF Inserted
  <2>2. items \in Seq(Value) /\ single \in Seq(Value) /\ Len(single) = 1 /\ single[1] = Policy
    <3>1. Policy \in Value
      BY PolicyFacts, JsonAssumption DEF Value
    <3>2. old \in Value /\ IsArray(old)
      BY <1>6, <1>7, <1>9
    <3> QED
      BY <3>1, <3>2, PartsLower
  <2> HIDE DEF single, items
  <2>3. /\ single \o items \in Seq(Value) /\ Len(single \o items) = Len(single) + Len(items)
        /\ \A i \in 1..(Len(single) + Len(items)) :
              (single \o items)[i] = IF i <= Len(single) THEN single[i]
                                     ELSE items[i - Len(single)]
    BY <2>2, ConcatProperties
  <2>4. PICK i \in 1..Len(Get(new, k).items) : x \in ToSet(StringsOf[Get(new, k).items[i]])
    BY <1>5, <1>7, <2>1, StringsAt
  <2>5. i \in 1..(Len(items) + 1) /\ Len(items) \in Nat
    BY <2>1, <2>2, <2>3, <2>4
  <2>6. CASE i = 1
    <3>1. x \in ToSet(StringsOf[Policy])
      BY <2>1, <2>2, <2>3, <2>4, <2>5, <2>6
    <3> QED
      BY <3>1, PolicyStrings DEF AddedTo
  <2>7. CASE i # 1
    <3>1. (single \o items)[i] = items[i - 1] /\ i - 1 \in 1..Len(items)
      BY <2>2, <2>3, <2>5, <2>7
    <3>2. x \in ToSet(StringsOf[items[i - 1]])
      BY <2>1, <2>4, <3>1
    <3>3. x \in ToSet(StringsOf[old])
      BY <1>6, <1>7, <1>9, <3>1, <3>2, StringsAt DEF items
    <3> QED
      BY <1>3, <1>6, <3>3 DEF AddedTo
  <2> QED
    BY <2>6, <2>7
<1>10. CASE ~IsArray(Get(body, "messages")) /\ k = "instructions"
  <2> DEFINE existing == Get(body, "instructions")
             written == WriteInstructions(existing)
  <2>1. Get(new, k) = written
    BY <1>1, <1>10 DEF Inserted
  <2>2. existing \in Json[MaxNesting] /\ existing \in Value
    BY <1>6, <1>7 DEF Value
  <2>3. /\ IsString(written)
        /\ \/ written.text = Prompt \/ written = existing
           \/ IsString(existing) /\ Behind(written.text, existing.text)
    <3>1. MaxNesting \in 0..MaxNesting
      BY JsonAssumption
    <3> HIDE DEF existing
    <3> QED
      BY <2>2, <3>1, WriteFacts DEF Behind
  <2>4. x = written.text
    BY <1>5, <1>7, <2>1, <2>3, StringsAt
  <2>5. IsString(existing) => existing.text \in ToSet(StringsOf[body])
    <3>1. IsString(existing) => existing.text \in ToSet(StringsOf[existing])
      BY <2>2, StringsAt
    <3> QED
      BY <3>1, <1>2, <1>6, StringsAt
  <2> HIDE DEF written, existing
  <2> QED
    BY <2>3, <2>4, <2>5 DEF AddedTo
<1> QED
  BY <1>1, <1>8, <1>9, <1>10 DEF Inserted

(* The same of the strings that count as prompt: only the prompt is new,   *)
(* and what stood there stands there, perhaps behind the prompt.           *)
LEMMA MessageIn ==
    ASSUME NEW messages \in Value, NEW i \in 1..Len(ItemsOf(messages)), NEW x,
           x \in ToSet(ContentStrings[Get(ItemsOf(messages)[i], "content")])
    PROVE  MessagesIn(x, messages)
BY DEF MessagesIn

LEMMA PolicyContent ==
    /\ Policy \in Value
    /\ \A x : x \in ToSet(ContentStrings[Get(Policy, "content")]) <=> x = Prompt
<1>1. Policy \in Value /\ Get(Policy, "content") = Str(Prompt)
  BY PolicyFacts, JsonAssumption DEF Value
<1> QED
  BY <1>1, ContentOfString, PromptAssumption

LEMMA InsertedMessages ==
    ASSUME NEW old \in Value, NEW new \in Value, IsArray(old), IsArray(new),
           new.items = <<Policy>> \o old.items
    PROVE  \A x : MessagesIn(x, new) <=> x = Prompt \/ MessagesIn(x, old)
<1> DEFINE single == <<Policy>>
           items == old.items
           longer == new.items
<1>1. items \in Seq(Value) /\ single \in Seq(Value) /\ Len(single) = 1 /\ single[1] = Policy
  BY PartsLower, PolicyContent
<1>2. longer = single \o items /\ ItemsOf(old) = items /\ ItemsOf(new) = longer
  BY DEF ItemsOf
<1> HIDE DEF single, items, longer
<1>3. /\ Len(single \o items) = Len(single) + Len(items)
      /\ \A i \in 1..(Len(single) + Len(items)) :
            (single \o items)[i] = IF i <= Len(single) THEN single[i]
                                   ELSE items[i - Len(single)]
  BY <1>1, ConcatProperties
<1>4. /\ Len(longer) = Len(items) + 1 /\ Len(items) \in Nat /\ longer[1] = Policy
      /\ \A i \in 1..Len(items) : longer[i + 1] = items[i]
      /\ \A i \in 2..Len(longer) : i - 1 \in 1..Len(items) /\ longer[i] = items[i - 1]
  BY <1>1, <1>2, <1>3
<1>5. ASSUME NEW x, MessagesIn(x, new) PROVE x = Prompt \/ MessagesIn(x, old)
  <2>1. PICK i \in 1..Len(longer) : x \in ToSet(ContentStrings[Get(longer[i], "content")])
    BY <1>2, <1>5 DEF MessagesIn
  <2>2. CASE i = 1
    BY <1>4, <2>1, <2>2, PolicyContent
  <2>3. CASE i # 1
    <3>1. i \in 2..Len(longer)
      BY <1>4, <2>1, <2>3
    <3> QED
      BY <1>2, <1>4, <2>1, <3>1 DEF MessagesIn
  <2> QED
    BY <2>2, <2>3
<1>6. ASSUME NEW x, x = Prompt \/ MessagesIn(x, old) PROVE MessagesIn(x, new)
  <2>1. CASE x = Prompt
    <3>1. 1 \in 1..Len(longer) /\ x \in ToSet(ContentStrings[Get(longer[1], "content")])
      BY <1>4, <2>1, PolicyContent
    <3> QED
      BY <1>2, <3>1 DEF MessagesIn
  <2>2. CASE MessagesIn(x, old)
    <3>1. PICK i \in 1..Len(items) : x \in ToSet(ContentStrings[Get(items[i], "content")])
      BY <1>2, <2>2 DEF MessagesIn
    <3>2. i + 1 \in 1..Len(longer) /\ longer[i + 1] = items[i]
      BY <1>4
    <3> QED
      BY <1>2, <3>1, <3>2 DEF MessagesIn
  <2> QED
    BY <1>6, <2>1, <2>2
<1> QED
  BY <1>5, <1>6

LEMMA InsertedPrompts ==
    ASSUME NEW body \in Value, HasPromptSurface(body)
    PROVE  /\ \A x : PromptIn(x, InjectPrompt(body)) =>
                 \/ PromptIn(x, body) \/ x = Prompt
                 \/ \E y \in Text : PromptIn(y, body) /\ Behind(x, y)
           /\ \A y : PromptIn(y, body) =>
                 \/ IsBlank(y) \/ PromptIn(y, InjectPrompt(body))
                 \/ y \in Text /\ PromptIn((Prompt \o <<"blank">>) \o y, InjectPrompt(body))
<1> DEFINE new == InjectPrompt(body)
           existing == Get(body, "instructions")
           written == WriteInstructions(existing)
<1>1. Inserted(body, new)
  BY InjectPromptFacts
<1> HIDE DEF new
<1>2. \A key \in {"messages", "input", "instructions"} : Get(new, key) \in Value /\ Get(body, key) \in Value
  BY <1>1, GetFacts, KeysUsed DEF Inserted
<1>3. {"messages", "input", "instructions"} \subseteq Keys
  BY KeysUsed
<1>4. CASE IsArray(Get(body, "messages"))
  <2>1. Get(new, "input") = Get(body, "input") /\ Get(new, "instructions") = Get(body, "instructions")
    BY <1>1, <1>3, <1>4 DEF Inserted
  <2>2. \A x : MessagesIn(x, Get(new, "messages")) <=> x = Prompt \/ MessagesIn(x, Get(body, "messages"))
    BY <1>1, <1>2, <1>4, InsertedMessages DEF Inserted
  <2>3. \A x : PromptIn(x, new) <=> x = Prompt \/ PromptIn(x, body)
    BY <2>1, <2>2 DEF PromptIn
  <2> QED
    BY <2>3 DEF new
<1>5. CASE ~IsArray(Get(body, "messages"))
  <2>1. Get(new, "input") = Get(body, "input") /\ Get(new, "messages") = Get(body, "messages")
        /\ Get(new, "instructions") = written
    BY <1>1, <1>3, <1>5 DEF Inserted
  <2>2. existing \in Json[MaxNesting] /\ existing \in Value /\ MaxNesting \in 0..MaxNesting
    BY <1>2, JsonAssumption DEF Value
  <2> HIDE DEF existing
  <2>3. /\ written \in Json[MaxNesting] /\ IsString(written)
        /\ \/ written.text = Prompt \/ written = existing
           \/ IsString(existing) /\ Behind(written.text, existing.text)
        /\ IsString(existing) =>
              \/ IsBlank(existing.text) \/ written = existing
              \/ Behind(written.text, existing.text)
    BY <2>2, WriteFacts DEF Behind
  <2> HIDE DEF written
  <2>4. /\ \A x : x \in ToSet(TextOf(written)) <=> x = written.text
        /\ \A x : x \in ToSet(TextOf(existing)) <=> IsString(existing) /\ x = existing.text
        /\ IsString(existing) => existing.text \in Text
    <3>1. written \in Value
      BY <2>3 DEF Value
    <3> QED
      BY <2>2, <2>3, <3>1, TextOfFacts, PartsLower
  <2> DEFINE Else(x) == MessagesIn(x, Get(body, "messages")) \/ InputIn(x, Get(body, "input"))
  <2>5. /\ \A x : PromptIn(x, new) <=> Else(x) \/ x = written.text
        /\ \A x : PromptIn(x, body) <=> Else(x) \/ (IsString(existing) /\ x = existing.text)
    BY <2>1, <2>4 DEF PromptIn, existing
  <2> HIDE DEF Else
  <2>6. ASSUME NEW x, PromptIn(x, new)
        PROVE  \/ PromptIn(x, body) \/ x = Prompt
               \/ \E y \in Text : PromptIn(y, body) /\ Behind(x, y)
    <3>1. CASE Else(x)
      BY <2>5, <3>1
    <3>2. CASE x = written.text
      <4>1. CASE written = existing
        BY <2>3, <2>5, <3>2, <4>1
      <4>2. CASE IsString(existing) /\ Behind(written.text, existing.text)
        <5>1. existing.text \in Text /\ PromptIn(existing.text, body)
          BY <2>4, <2>5, <4>2
        <5> QED
          BY <3>2, <4>2, <5>1
      <4> QED
        BY <2>3, <3>2, <4>1, <4>2
    <3> QED
      BY <2>5, <2>6, <3>1, <3>2
  <2>7. ASSUME NEW y, PromptIn(y, body)
        PROVE  \/ IsBlank(y) \/ PromptIn(y, new)
               \/ y \in Text /\ PromptIn((Prompt \o <<"blank">>) \o y, new)
    BY <2>3, <2>4, <2>5, <2>7 DEF Behind
  <2> QED
    BY <2>6, <2>7 DEF new
<1> QED
  BY <1>4, <1>5

LEMMA SuffixOfConcat ==
    ASSUME NEW S, NEW a \in Seq(S), NEW b \in Seq(S)
    PROVE  IsSuffix(b, a \o b) /\ IsSuffix(b, b)
<1> DEFINE whole == a \o b
<1>1. /\ whole \in Seq(S) /\ Len(whole) = Len(a) + Len(b) /\ Len(a) \in Nat /\ Len(b) \in Nat
      /\ \A i \in 1..Len(b) : whole[(Len(whole) - i) + 1] = b[(Len(b) - i) + 1]
  <2>1. /\ whole \in Seq(S) /\ Len(whole) = Len(a) + Len(b)
        /\ \A i \in 1..(Len(a) + Len(b)) : whole[i] = IF i <= Len(a) THEN a[i] ELSE b[i - Len(a)]
    BY ConcatProperties
  <2>2. ASSUME NEW i \in 1..Len(b)
        PROVE  whole[(Len(whole) - i) + 1] = b[(Len(b) - i) + 1]
    <3> HIDE DEF whole
    <3> QED
      BY <2>1
  <2> QED
    BY <2>1, <2>2
<1> HIDE DEF whole
<1>2. ASSUME NEW t \in Seq(S), Len(b) <= Len(t),
             \A i \in 1..Len(b) : t[(Len(t) - i) + 1] = b[(Len(b) - i) + 1]
      PROVE  IsSuffix(b, t)
  <2>1. /\ Len(Reverse(b)) = Len(b) /\ Len(Reverse(t)) = Len(t)
        /\ \A i \in 1..Len(b) : Reverse(b)[i] = b[(Len(b) - i) + 1]
        /\ \A i \in 1..Len(t) : Reverse(t)[i] = t[(Len(t) - i) + 1]
        /\ Reverse(b) \in Seq(S) /\ Reverse(t) \in Seq(S)
    BY <1>2 DEF Reverse
  <2>2. \A i \in 1..Len(b) : Reverse(b)[i] = Reverse(t)[i]
    <3> TAKE i \in 1..Len(b)
    <3>1. i \in 1..Len(t)
      BY <1>1, <1>2
    <3>2. Reverse(b)[i] = b[(Len(b) - i) + 1] /\ Reverse(t)[i] = t[(Len(t) - i) + 1]
      BY <2>1, <3>1
    <3> QED
      BY <1>2, <3>2
  <2> DEFINE rb == Reverse(b)
             rt == Reverse(t)
  <2> HIDE DEF rb, rt
  <2>3. SubSeq(rb, 1, Len(rb)) = SubSeq(rt, 1, Len(rb))
    <3>1. Len(rb) = Len(b) /\ Len(rt) = Len(t) /\ rb \in Seq(S) /\ rt \in Seq(S)
          /\ \A i \in 1..Len(b) : rb[i] = rt[i]
      BY <2>1, <2>2 DEF rb, rt
    <3>2. /\ SubSeq(rb, 1, Len(b)) \in Seq(S) /\ SubSeq(rt, 1, Len(b)) \in Seq(S)
          /\ Len(SubSeq(rb, 1, Len(b))) = Len(b) /\ Len(SubSeq(rt, 1, Len(b))) = Len(b)
          /\ \A i \in 1..Len(b) : SubSeq(rb, 1, Len(b))[i] = rb[i]
          /\ \A i \in 1..Len(b) : SubSeq(rt, 1, Len(b))[i] = rt[i]
      BY <1>1, <1>2, <3>1
    <3> QED
      BY <3>1, <3>2
  <2> QED
    BY <1>2, <2>1, <2>3 DEF IsSuffix, IsPrefix, rb, rt
<1>3. IsSuffix(b, whole)
  <2>1. Len(b) <= Len(whole)
    BY <1>1
  <2> QED
    BY <1>1, <1>2, <2>1
<1>4. IsSuffix(b, b)
  <2>1. Len(b) <= Len(b) /\ \A i \in 1..Len(b) : b[(Len(b) - i) + 1] = b[(Len(b) - i) + 1]
    BY <1>1
  <2> QED
    BY <1>2, <2>1
<1> QED
  BY <1>3, <1>4 DEF whole

(* Inserting the prompt leaves each prompt string that is not blank at the *)
(* end of one of the new ones (system_prompt.rs:125-158).                  *)
THEOREM PromptsStay ==
    ASSUME NEW body \in Value, HasPromptSurface(body), NEW i \in DOMAIN PromptStrings(body)
    PROVE  \/ IsBlank(PromptStrings(body)[i])
           \/ \E j \in DOMAIN PromptStrings(InjectPrompt(body)) :
                 IsSuffix(PromptStrings(body)[i], PromptStrings(InjectPrompt(body))[j])
<1> DEFINE olds == PromptStrings(body)
           new == InjectPrompt(body)
           news == PromptStrings(new)
           old == olds[i]
<1>1. new \in Value
  BY InjectPromptFacts DEF Inserted
<1> HIDE DEF new
<1>2. old \in Text /\ PromptIn(old, body)
  <2>1. olds \in Seq(Text) /\ old \in ToSet(olds)
    BY PromptElements DEF ToSet
  <2> QED
    BY <2>1, PromptElements, PromptInText
<1>3. \A x : PromptIn(x, new) => \E j \in DOMAIN news : news[j] = x
  BY <1>1, PromptElements DEF ToSet
<1> HIDE DEF olds, news, old
<1>4. \/ IsBlank(old) \/ PromptIn(old, new) \/ PromptIn((Prompt \o <<"blank">>) \o old, new)
  BY <1>2, InsertedPrompts DEF new
<1>5. Prompt \o <<"blank">> \in Text
  BY TextFacts, JsonAssumption, PromptAssumption
<1>6. IsSuffix(old, old) /\ IsSuffix(old, (Prompt \o <<"blank">>) \o old)
  BY <1>2, <1>5, SuffixOfConcat DEF Text
<1>7. IsBlank(old) \/ \E j \in DOMAIN news : IsSuffix(old, news[j])
  BY <1>3, <1>4, <1>6
<1> QED
  BY <1>7 DEF olds, news, old, new

LEMMA BehindPrompt ==
    ASSUME NEW pattern \in Pattern, Lacks(pattern, "blank"), OpenEnds(pattern), NEW y \in Text,
           Occurs(pattern, (Prompt \o <<"blank">>) \o y)
    PROVE  Occurs(pattern, Prompt) \/ Occurs(pattern, y)
<1>1. Prompt \in Text /\ <<"blank">> \in Text /\ "blank" \in Marks
  BY TextFacts, JsonAssumption, PromptAssumption
<1> DEFINE blank == <<"blank">>
<1>2. (Prompt \o blank) \o y = Prompt \o (blank \o y)
  <2> HIDE DEF blank
  <2> QED
    BY <1>1 DEF Text, blank
<1> QED
  BY <1>1, <1>2, AcrossMark DEF LineEnds

(* Inserting the prompt makes no injection, if neither the prompt nor a    *)
(* place where it was put together with another text holds a match.        *)
THEOREM PromptMakesNoInjection ==
    ASSUME NEW body \in Value, HasPromptSurface(body), Lacks(InjectionPattern, "blank"),
           ~Occurs(InjectionPattern, Prompt), ~HasInjection(body)
    PROVE  ~HasInjection(InjectPrompt(body))
<1>1. InjectPrompt(body) \in Value
  BY InjectPromptFacts DEF Inserted
<1>2. SUFFICES ASSUME NEW x, PromptIn(x, InjectPrompt(body)), Occurs(InjectionPattern, x)
               PROVE  FALSE
  BY <1>1, InjectionFound
<1>3. \A y : PromptIn(y, body) => ~Occurs(InjectionPattern, y)
  BY InjectionFound
<1>4. PICK y \in Text : PromptIn(y, body) /\ Behind(x, y)
  BY <1>2, <1>3, InsertedPrompts
<1> QED
  BY <1>2, <1>3, <1>4, BehindPrompt, InjectionLiteral DEF Behind

(* The same of what the DLP rules redact or block, in any string.          *)
THEOREM PromptLeavesNone ==
    ASSUME NEW body \in Value, HasPromptSurface(body), NEW rules \in Rules, RulesLack(rules, "blank"), RulesOpen(rules),
           Free(rules, Prompt), Free(rules, <<"system">>), \A x \in ToSet(StringsOf[body]) : Free(rules, x)
    PROVE  \A x \in ToSet(StringsOf[InjectPrompt(body)]) : Free(rules, x)
<1> SUFFICES ASSUME NEW x \in ToSet(StringsOf[InjectPrompt(body)]), NEW i \in DOMAIN rules,
                    Acting(rules, i), Occurs(rules[i].pattern, x)
             PROVE  FALSE
  BY DEF Free
<1>1. PICK y \in ToSet(StringsOf[body]) : Behind(x, y)
  BY InsertedStrings DEF AddedTo, Free
<1>2. y \in Text
  BY StringsOfFacts DEF ToSet
<1>3. rules[i].pattern \in Pattern /\ Lacks(rules[i].pattern, "blank") /\ OpenEnds(rules[i].pattern)
  BY RuleType DEF RulesLack, RulesOpen
<1>4. ~Occurs(rules[i].pattern, Prompt) /\ ~Occurs(rules[i].pattern, y)
  BY DEF Free
<1> QED
  BY <1>1, <1>2, <1>3, <1>4, BehindPrompt DEF Behind

(***************************************************************************)
(* Previews: what is cut was sanitized.                                    *)
(***************************************************************************)
LEMMA PreviewFacts ==
    ASSUME NEW text \in Text, NEW limit \in Nat
    PROVE  ToSet(Preview(text, limit)) \subseteq ToSet(Sanitized(text))
<1> DEFINE clean == Sanitized(text)
           cut == Preview(text, limit)
<1>1. clean \in Text
  BY RedactTextFacts, ReplacingFacts, RulesAssumption DEF Sanitized
<1>2. PICK n \in 0..Len(clean) : cut = SubSeq(clean, 1, n)
  <2>1. Len(clean) \in Nat
    BY <1>1 DEF Text
  <2>2. cut = SubSeq(clean, 1, IF Len(clean) < limit THEN Len(clean) ELSE limit)
    BY DEF Preview, Cut
  <2> HIDE DEF clean, cut
  <2> QED
    BY <2>1, <2>2
<1> HIDE DEF clean, cut
<1>3. /\ cut \in Text /\ Len(cut) = n /\ DOMAIN cut = 1..n /\ n \in Nat
      /\ DOMAIN clean = 1..Len(clean) /\ Len(clean) \in Nat
      /\ \A i \in 1..n : cut[i] = clean[i]
  BY <1>1, <1>2 DEF Text
<1>4. ToSet(cut) \subseteq ToSet(clean)
  BY <1>2, <1>3 DEF ToSet
<1> QED
  BY <1>4 DEF clean, cut

(***************************************************************************)
(* Validity.  What strict validation looks at, down to the parts of a      *)
(* content: a value Same as another there is as valid.                     *)
(***************************************************************************)
SameLeaf(new, old) ==
    /\ new.kind = old.kind
    /\ NonBlank(old) => NonBlank(new)
    /\ old = Absent => new = Absent

SamePart(new, old) ==
    /\ SameLeaf(new, old)
    /\ \A key \in {"type", "text", "name"} : SameLeaf(Get(new, key), Get(old, key))

SameContent(new, old) ==
    /\ SameLeaf(new, old)
    /\ Len(ItemsOf(new)) = Len(ItemsOf(old))
    /\ \A i \in 1..Len(ItemsOf(old)) : SamePart(ItemsOf(new)[i], ItemsOf(old)[i])

SameItem(new, old) ==
    /\ SameLeaf(new, old)
    /\ \A key \in {"role", "type"} : SameLeaf(Get(new, key), Get(old, key))
    /\ \A key \in {"content", "output"} : SameContent(Get(new, key), Get(old, key))

SameItems(new, old) ==
    /\ SameLeaf(new, old)
    /\ Len(ItemsOf(new)) = Len(ItemsOf(old))
    /\ \A i \in 1..Len(ItemsOf(old)) : SameItem(ItemsOf(new)[i], ItemsOf(old)[i])

SameBody(new, old) ==
    /\ SameLeaf(new, old)
    /\ \A key \in {"model", "instructions"} : SameLeaf(Get(new, key), Get(old, key))
    /\ \A key \in {"messages", "input"} : SameItems(Get(new, key), Get(old, key))
    /\ SameContent(Get(new, "tools"), Get(old, "tools"))

LEMMA SameSelf ==
    \A v : SameLeaf(v, v) /\ SamePart(v, v) /\ SameContent(v, v) /\ SameItem(v, v) /\ SameItems(v, v)
<1>1. \A v : SameLeaf(v, v)
  BY DEF SameLeaf
<1>2. \A v : SamePart(v, v)
  BY <1>1 DEF SamePart
<1>3. \A v : SameContent(v, v)
  BY <1>1, <1>2 DEF SameContent
<1>4. \A v : SameItem(v, v)
  BY <1>1, <1>3 DEF SameItem
<1>5. \A v : SameItems(v, v)
  BY <1>1, <1>4 DEF SameItems
<1> QED
  BY <1>1, <1>2, <1>3, <1>4, <1>5

LEMMA SameKind ==
    ASSUME NEW new, NEW old, SameLeaf(new, old)
    PROVE  /\ IsObject(new) <=> IsObject(old)
           /\ IsArray(new) <=> IsArray(old)
           /\ IsString(new) <=> IsString(old)
BY DEF SameLeaf, IsObject, IsArray, IsString

LEMMA ItemsPresent ==
    ASSUME NEW v \in Value
    PROVE  ItemsOf(v) # <<>> <=> Len(ItemsOf(v)) > 0
<1> DEFINE items == ItemsOf(v)
<1>1. items \in Seq(Value)
  BY ItemsOfFacts
<1> HIDE DEF items
<1>2. items # <<>> <=> Len(items) > 0
  BY <1>1
<1> QED
  BY <1>2 DEF items

LEMMA SameMessageValid ==
    ASSUME NEW new, NEW old, SameItem(new, old), ValidMessage(old),
           NEW content \in Value, NEW was \in Value,
           content = Get(new, "content"), was = Get(old, "content")
    PROVE  ValidMessage(new)
<1>1. IsObject(new) /\ NonBlank(Get(new, "role"))
  BY SameKind DEF SameItem, SameLeaf, ValidMessage
<1>2. SameContent(content, was)
  BY DEF SameItem
<1>3. TextOrParts(was, IsObject)
  BY DEF ValidMessage
<1>4. content.kind = was.kind /\ (IsArray(content) <=> IsArray(was))
  BY <1>2, SameKind DEF SameContent, SameLeaf
<1>5. DOMAIN ItemsOf(content) = 1..Len(ItemsOf(content)) /\ DOMAIN ItemsOf(was) = 1..Len(ItemsOf(was))
  BY ItemsOfFacts
<1>6. ASSUME IsArray(was), AllItems(IsObject, was) PROVE AllItems(IsObject, content)
  <2>1. ASSUME NEW i \in 1..Len(ItemsOf(was)) PROVE IsObject(ItemsOf(content)[i])
    <3>1. SameLeaf(ItemsOf(content)[i], ItemsOf(was)[i])
      BY <1>2 DEF SameContent, SamePart
    <3>2. IsObject(ItemsOf(was)[i])
      BY <1>5, <1>6 DEF AllItems
    <3> QED
      BY <3>1, <3>2, SameKind
  <2>2. Len(ItemsOf(content)) = Len(ItemsOf(was))
    BY <1>2 DEF SameContent
  <2> QED
    BY <1>5, <2>1, <2>2 DEF AllItems
<1>7. TextOrParts(content, IsObject)
  BY <1>3, <1>4, <1>6 DEF TextOrParts
<1> QED
  BY <1>1, <1>7 DEF ValidMessage

LEMMA SamePartValid ==
    ASSUME NEW new, NEW old, SamePart(new, old)
    PROVE  /\ ValidPart(old) => ValidPart(new)
           /\ ValidTool(old) => ValidTool(new)
<1>1. IsObject(new) <=> IsObject(old)
  BY SameKind DEF SamePart
<1>2. \A key \in {"type", "text", "name"} :
         /\ Get(new, key).kind = Get(old, key).kind
         /\ NonBlank(Get(old, key)) => NonBlank(Get(new, key))
         /\ Get(old, key) = Absent => Get(new, key) = Absent
  BY DEF SamePart, SameLeaf
<1> QED
  BY <1>1, <1>2 DEF ValidPart, ValidTool

LEMMA SameItemValid ==
    ASSUME NEW new \in Value, NEW old \in Value, SameItem(new, old), ValidInputItem(old)
    PROVE  ValidInputItem(new)
<1>1. IsObject(new)
  BY SameKind DEF SameItem, ValidInputItem
<1>2. NonBlank(Get(new, "role")) \/ NonBlank(Get(new, "type"))
  BY DEF SameItem, SameLeaf, ValidInputItem
<1>3. ASSUME NEW key \in {"content", "output"}
      PROVE  TextOrParts(Get(new, key), ValidPart)
  <2> DEFINE content == Get(new, key)
             was == Get(old, key)
  <2>1. SameContent(content, was) /\ TextOrParts(was, ValidPart)
    BY DEF SameItem, ValidInputItem
  <2>2. content \in Value /\ was \in Value
    BY GetFacts, KeysUsed
  <2> HIDE DEF content, was
  <2>3. content.kind = was.kind /\ (IsArray(content) <=> IsArray(was))
    BY <2>1, SameKind DEF SameContent, SameLeaf
  <2>4. DOMAIN ItemsOf(content) = 1..Len(ItemsOf(content)) /\ DOMAIN ItemsOf(was) = 1..Len(ItemsOf(was))
    BY <2>2, ItemsOfFacts
  <2>5. ASSUME IsArray(was), AllItems(ValidPart, was) PROVE AllItems(ValidPart, content)
    <3>1. ASSUME NEW i \in 1..Len(ItemsOf(was)) PROVE ValidPart(ItemsOf(content)[i])
      <4>1. SamePart(ItemsOf(content)[i], ItemsOf(was)[i])
        BY <2>1 DEF SameContent
      <4>2. ValidPart(ItemsOf(was)[i])
        BY <2>4, <2>5 DEF AllItems
      <4> QED
        BY <4>1, <4>2, SamePartValid
    <3>2. Len(ItemsOf(content)) = Len(ItemsOf(was))
      BY <2>1 DEF SameContent
    <3> QED
      BY <2>4, <3>1, <3>2 DEF AllItems
  <2>6. TextOrParts(content, ValidPart)
    BY <2>1, <2>3, <2>5 DEF TextOrParts
  <2> QED
    BY <2>6 DEF content
<1> QED
  BY <1>1, <1>2, <1>3 DEF ValidInputItem

LEMMA SameChatValid ==
    ASSUME NEW new \in Value, NEW old \in Value, SameBody(new, old), ValidChatBody(old)
    PROVE  ValidChatBody(new)
<1> DEFINE messages == Get(new, "messages")
           was == Get(old, "messages")
<1>1. IsObject(new) /\ NonBlank(Get(new, "model"))
  BY SameKind DEF SameBody, SameLeaf, ValidChatBody
<1>2. SameItems(messages, was) /\ ItemsOf(was) # <<>> /\ AllItems(ValidMessage, was)
  BY DEF SameBody, ValidChatBody
<1>3. messages \in Value /\ was \in Value
  BY GetFacts, KeysUsed
<1> HIDE DEF messages, was
<1>4. /\ DOMAIN ItemsOf(messages) = 1..Len(ItemsOf(messages))
      /\ DOMAIN ItemsOf(was) = 1..Len(ItemsOf(was))
      /\ \A i \in 1..Len(ItemsOf(messages)) : ItemsOf(messages)[i] \in Value
      /\ \A i \in 1..Len(ItemsOf(was)) : ItemsOf(was)[i] \in Value
  BY <1>3, ItemsOfFacts
<1>5. Len(ItemsOf(messages)) = Len(ItemsOf(was))
  BY <1>2 DEF SameItems
<1>6. ItemsOf(messages) # <<>>
  BY <1>2, <1>3, <1>5, ItemsPresent
<1>7. ASSUME NEW i \in 1..Len(ItemsOf(was)) PROVE ValidMessage(ItemsOf(messages)[i])
  <2> DEFINE m == ItemsOf(messages)[i]
             w == ItemsOf(was)[i]
  <2>1. SameItem(m, w) /\ ValidMessage(w)
    BY <1>2, <1>4 DEF SameItems, AllItems
  <2>2. m \in Value /\ w \in Value
    BY <1>4, <1>5
  <2> HIDE DEF m, w
  <2>3. Get(m, "content") \in Value /\ Get(w, "content") \in Value
    BY <2>2, GetFacts, KeysUsed
  <2>4. ValidMessage(m)
    BY <2>1, <2>3, SameMessageValid
  <2> QED
    BY <2>4 DEF m
<1> QED
  BY <1>1, <1>4, <1>5, <1>6, <1>7 DEF ValidChatBody, AllItems, messages

LEMMA SameInputValid ==
    ASSUME NEW new \in Value, NEW old \in Value, SameItems(new, old), ValidInput(old)
    PROVE  ValidInput(new)
<1>1. NonBlank(old) => NonBlank(new)
  BY DEF SameItems, SameLeaf
<1>2. ASSUME ItemsOf(old) # <<>>, AllItems(ValidInputItem, old)
      PROVE  ItemsOf(new) # <<>> /\ AllItems(ValidInputItem, new)
  <2>1. /\ DOMAIN ItemsOf(new) = 1..Len(ItemsOf(new)) /\ DOMAIN ItemsOf(old) = 1..Len(ItemsOf(old))
        /\ \A i \in 1..Len(ItemsOf(new)) : ItemsOf(new)[i] \in Value
        /\ \A i \in 1..Len(ItemsOf(old)) : ItemsOf(old)[i] \in Value
    BY ItemsOfFacts
  <2>2. Len(ItemsOf(new)) = Len(ItemsOf(old))
    BY DEF SameItems
  <2>3. ASSUME NEW i \in 1..Len(ItemsOf(old)) PROVE ValidInputItem(ItemsOf(new)[i])
    <3>1. SameItem(ItemsOf(new)[i], ItemsOf(old)[i])
      BY DEF SameItems
    <3>2. ValidInputItem(ItemsOf(old)[i])
      BY <1>2, <2>1 DEF AllItems
    <3>3. ItemsOf(new)[i] \in Value /\ ItemsOf(old)[i] \in Value
      BY <2>1, <2>2
    <3> QED
      BY <3>1, <3>2, <3>3, SameItemValid
  <2>4. ItemsOf(new) # <<>>
    BY <1>2, <2>2, ItemsPresent
  <2> QED
    BY <2>1, <2>2, <2>3, <2>4 DEF AllItems
<1> QED
  BY <1>1, <1>2 DEF ValidInput

LEMMA SameResponsesValid ==
    ASSUME NEW new \in Value, NEW old \in Value, SameBody(new, old), ValidResponsesBody(old)
    PROVE  ValidResponsesBody(new)
<1>1. IsObject(new) /\ NonBlank(Get(new, "model"))
      /\ Get(new, "instructions").kind \in {"absent", "string", "null"}
  BY SameKind DEF SameBody, SameLeaf, ValidResponsesBody
<1>2. ValidInput(Get(new, "input"))
  <2>1. Get(new, "input") \in Value /\ Get(old, "input") \in Value
    BY GetFacts, KeysUsed
  <2>2. SameItems(Get(new, "input"), Get(old, "input")) /\ ValidInput(Get(old, "input"))
    BY DEF SameBody, ValidResponsesBody
  <2> QED
    BY <2>1, <2>2, SameInputValid
<1> DEFINE tools == Get(new, "tools")
           was == Get(old, "tools")
<1>3. tools \in Value /\ was \in Value
  BY GetFacts, KeysUsed
<1>4. SameContent(tools, was) /\ (was = Absent \/ (IsArray(was) /\ AllItems(ValidTool, was)))
  BY DEF SameBody, ValidResponsesBody
<1> HIDE DEF tools, was
<1>5. (was = Absent => tools = Absent) /\ (IsArray(was) => IsArray(tools))
  BY <1>4, SameKind DEF SameContent, SameLeaf
<1>6. ASSUME AllItems(ValidTool, was) PROVE AllItems(ValidTool, tools)
  <2>1. /\ DOMAIN ItemsOf(tools) = 1..Len(ItemsOf(tools)) /\ DOMAIN ItemsOf(was) = 1..Len(ItemsOf(was))
    BY <1>3, ItemsOfFacts
  <2>2. ASSUME NEW i \in 1..Len(ItemsOf(was)) PROVE ValidTool(ItemsOf(tools)[i])
    <3>1. SamePart(ItemsOf(tools)[i], ItemsOf(was)[i]) /\ ValidTool(ItemsOf(was)[i])
      BY <1>4, <1>6, <2>1 DEF SameContent, AllItems
    <3> QED
      BY <3>1, SamePartValid
  <2>3. Len(ItemsOf(tools)) = Len(ItemsOf(was))
    BY <1>4 DEF SameContent
  <2> QED
    BY <2>1, <2>2, <2>3 DEF AllItems
<1>7. tools = Absent \/ (IsArray(tools) /\ AllItems(ValidTool, tools))
  BY <1>4, <1>5, <1>6
<1> QED
  BY <1>1, <1>2, <1>7 DEF ValidResponsesBody, tools

LEMMA SameBodyValid ==
    ASSUME NEW new \in Value, NEW old \in Value, SameBody(new, old), NEW path, ValidBody(path, old)
    PROVE  ValidBody(path, new)
BY SameChatValid, SameResponsesValid DEF ValidBody

(* Rewriting the strings of a value keeps what validation looks at, if no  *)
(* string becomes blank by it.                                             *)
KeepsMarks(h) == \A text \in Text : ~IsBlank(text) => ~IsBlank(h[text])

LEMMA RewriteLeaf ==
    ASSUME NEW f, NEW h, NEW K, Rewrites(f, h, K), KeepsMarks(h), NEW v \in Value
    PROVE  SameLeaf(f[v], v)
<1>1. InPlace(f, h, K, v)
  BY RewriteInPlace
<1>2. v.kind # "string" => ~NonBlank(v)
  BY DEF NonBlank, IsString
<1>3. ASSUME NonBlank(v) PROVE NonBlank(f[v])
  <2>1. IsString(v) /\ v.text \in Text /\ ~IsBlank(v.text)
    BY <1>3, PartsLower DEF NonBlank
  <2>2. IsString(f[v]) /\ f[v].text = h[v.text]
    BY <1>1, <2>1 DEF InPlace
  <2> QED
    BY <2>1, <2>2 DEF NonBlank, KeepsMarks
<1>4. v = Absent => f[v] = Absent
  BY <1>1 DEF InPlace, Absent, IsArray, IsObject, IsString
<1> QED
  BY <1>1, <1>3, <1>4 DEF SameLeaf, InPlace

LEMMA RewriteLeafAt ==
    ASSUME NEW f, NEW h, NEW K, Rewrites(f, h, K), KeepsMarks(h), NEW v \in Value, NEW key \in Keys
    PROVE  SameLeaf(Get(f[v], key), Get(v, key))
<1>1. Get(f[v], key) = IF key \in K THEN f[Get(v, key)] ELSE Get(v, key)
  BY RewriteGet
<1>2. Get(v, key) \in Value
  BY GetFacts
<1> DEFINE old == Get(v, key)
<1> HIDE DEF old
<1>3. old \in Value /\ Get(f[v], key) \in {f[old], old}
  BY <1>1, <1>2 DEF old
<1>4. SameLeaf(f[old], old) /\ SameLeaf(old, old)
  BY <1>3, RewriteLeaf, SameSelf
<1> QED
  BY <1>3, <1>4 DEF old

LEMMA RewriteSamePart ==
    ASSUME NEW f, NEW h, NEW K, Rewrites(f, h, K), KeepsMarks(h), NEW v \in Value
    PROVE  SamePart(f[v], v)
<1>1. \A key \in {"type", "text", "name"} : key \in Keys
  BY KeysUsed
<1> QED
  BY <1>1, RewriteLeaf, RewriteLeafAt DEF SamePart

LEMMA RewriteItems ==
    ASSUME NEW f, NEW h, NEW K, Rewrites(f, h, K), NEW v \in Value
    PROVE  /\ Len(ItemsOf(f[v])) = Len(ItemsOf(v))
           /\ \A i \in 1..Len(ItemsOf(v)) :
                 ItemsOf(v)[i] \in Value /\ ItemsOf(f[v])[i] = f[ItemsOf(v)[i]]
<1>1. InPlace(f, h, K, v)
  BY RewriteInPlace
<1>2. \A i \in 1..Len(ItemsOf(v)) : ItemsOf(v)[i] \in Value
  BY ItemsOfFacts
<1>3. CASE IsArray(v)
  <2>1. ItemsOf(v) = v.items /\ ItemsOf(f[v]) = f[v].items
    BY <1>1, <1>3 DEF ItemsOf, InPlace
  <2>2. Len(f[v].items) = Len(v.items) /\ \A i \in 1..Len(v.items) : f[v].items[i] = f[v.items[i]]
    BY <1>1, <1>3 DEF InPlace
  <2> QED
    BY <1>2, <2>1, <2>2
<1>4. CASE ~IsArray(v)
  <2>1. ItemsOf(v) = <<>> /\ ItemsOf(f[v]) = <<>> /\ Len(<<>>) = 0
    BY <1>1, <1>4 DEF ItemsOf, InPlace
  <2> QED
    BY <2>1
<1> QED
  BY <1>3, <1>4

LEMMA RewriteSameContent ==
    ASSUME NEW f, NEW h, NEW K, Rewrites(f, h, K), KeepsMarks(h), NEW v \in Value
    PROVE  SameContent(f[v], v)
<1>1. /\ Len(ItemsOf(f[v])) = Len(ItemsOf(v))
      /\ \A i \in 1..Len(ItemsOf(v)) :
            ItemsOf(v)[i] \in Value /\ ItemsOf(f[v])[i] = f[ItemsOf(v)[i]]
  BY RewriteItems
<1>2. \A part \in Value : SamePart(f[part], part)
  BY RewriteSamePart
<1> QED
  BY <1>1, <1>2, RewriteLeaf DEF SameContent

LEMMA RewriteSameItem ==
    ASSUME NEW f, NEW h, NEW K, Rewrites(f, h, K), KeepsMarks(h), NEW v \in Value
    PROVE  SameItem(f[v], v)
<1>1. {"role", "type", "content", "output"} \subseteq Keys
  BY KeysUsed
<1>2. \A key \in {"role", "type"} : SameLeaf(Get(f[v], key), Get(v, key))
  BY <1>1, RewriteLeafAt
<1>3. ASSUME NEW key \in {"content", "output"}
      PROVE  SameContent(Get(f[v], key), Get(v, key))
  <2> DEFINE old == Get(v, key)
  <2>1. old \in Value /\ Get(f[v], key) \in {f[old], old}
    BY <1>1, GetFacts, RewriteGet
  <2> HIDE DEF old
  <2>2. SameContent(f[old], old) /\ SameContent(old, old)
    BY <2>1, RewriteSameContent, SameSelf
  <2> QED
    BY <2>1, <2>2 DEF old
<1> QED
  BY <1>2, <1>3, RewriteLeaf DEF SameItem

LEMMA RewriteSameItems ==
    ASSUME NEW f, NEW h, NEW K, Rewrites(f, h, K), KeepsMarks(h), NEW v \in Value
    PROVE  SameItems(f[v], v)
<1>1. /\ Len(ItemsOf(f[v])) = Len(ItemsOf(v))
      /\ \A i \in 1..Len(ItemsOf(v)) :
            ItemsOf(v)[i] \in Value /\ ItemsOf(f[v])[i] = f[ItemsOf(v)[i]]
  BY RewriteItems
<1>2. \A item \in Value : SameItem(f[item], item)
  BY RewriteSameItem
<1> QED
  BY <1>1, <1>2, RewriteLeaf DEF SameItems

LEMMA RewriteSameBody ==
    ASSUME NEW f, NEW h, Rewrites(f, h, Keys), KeepsMarks(h), NEW body \in Value
    PROVE  SameBody(f[body], body)
<1>1. {"model", "instructions", "messages", "input", "tools"} \subseteq Keys
  BY KeysUsed
<1>2. \A key \in {"model", "instructions"} : SameLeaf(Get(f[body], key), Get(body, key))
  BY <1>1, RewriteLeafAt
<1>3. \A key \in {"messages", "input", "tools"} :
         Get(body, key) \in Value /\ Get(f[body], key) = f[Get(body, key)]
  BY <1>1, GetFacts, RewriteGet
<1>4. \A key \in {"messages", "input"} : SameItems(Get(f[body], key), Get(body, key))
  BY <1>3, RewriteSameItems
<1>5. SameContent(Get(f[body], "tools"), Get(body, "tools"))
  BY <1>3, RewriteSameContent
<1> QED
  BY <1>2, <1>4, <1>5, RewriteLeaf DEF SameBody

(* A valid request is still valid after the DLP rules rewrote it           *)
(* (dlp.rs:64-97).                                                         *)
THEOREM DlpKeepsValid ==
    ASSUME NEW rules \in Rules, NEW body \in Value, NEW path, ValidBody(path, body)
    PROVE  ValidBody(path, DlpRedactValue(rules, body))
<1>1. PICK f : /\ Rewrites(f, DlpRewrite(rules), Keys)
               /\ \A v \in Value : DlpRedactValue(rules, v) = f[v]
  BY DlpRedactRewrites
<1>2. KeepsMarks(DlpRewrite(rules))
  BY RedactTextFacts DEF KeepsMarks, DlpRewrite
<1>3. SameBody(f[body], body)
  BY <1>1, <1>2, RewriteSameBody
<1>4. DlpRedactValue(rules, body) = f[body] /\ DlpRedactValue(rules, body) \in Value
  BY <1>1, DlpRedactType
<1> QED
  BY <1>3, <1>4, SameBodyValid

LEMMA InjectionKeepsMarks == KeepsMarks(InjectionRewrite)
BY RedactedFacts, InjectionLiteral DEF KeepsMarks, InjectionRewrite

LEMMA RedactedMessageSame ==
    ASSUME NEW message \in Value
    PROVE  SameItem(RedactMessage(message), message)
<1> DEFINE new == RedactMessage(message)
<1>1. /\ Get(new, "content") = RedactContent[Get(message, "content")]
      /\ ~IsObject(message) => new = message
      /\ IsObject(message) =>
            /\ IsObject(new)
            /\ \A key \in Keys \ {"content"} : Get(new, key) = Get(message, key)
  BY RedactMessageFacts
<1> HIDE DEF new
<1>2. Get(message, "content") \in Value
  BY GetFacts, KeysUsed
<1>3. SameContent(Get(new, "content"), Get(message, "content"))
  BY <1>1, <1>2, RedactContentRewrites, InjectionKeepsMarks, RewriteSameContent
<1>4. {"role", "type", "output"} \subseteq Keys \ {"content"}
  BY KeysUsed
<1>5. CASE IsObject(message)
  <2>1. SameLeaf(new, message)
    BY <1>1, <1>5 DEF SameLeaf, IsObject, NonBlank, IsString, Absent
  <2>2. \A key \in {"role", "type", "output"} : Get(new, key) = Get(message, key)
    BY <1>1, <1>4, <1>5
  <2> QED
    BY <1>3, <2>1, <2>2, SameSelf DEF SameItem, new
<1>6. CASE ~IsObject(message)
  BY <1>1, <1>6, SameSelf DEF new
<1> QED
  BY <1>5, <1>6

LEMMA RedactedItemSame ==
    ASSUME NEW item \in Value
    PROVE  SameItem(RedactInputItem(item), item)
BY RedactContentRewrites, InjectionKeepsMarks, RewriteSameItem, SameSelf DEF RedactInputItem

(* The same after the injection detector rewrote it (injection.rs:99-161). *)
THEOREM InjectionKeepsValid ==
    ASSUME NEW body \in Value, NEW path, ValidBody(path, body)
    PROVE  ValidBody(path, RedactPromptFields(body))
<1> DEFINE new == RedactPromptFields(body)
<1>1. /\ new \in Value
      /\ \A key \in Keys : Get(new, key) =
            IF IsObject(body) THEN RedactField(key, Get(body, key)) ELSE Absent
      /\ IsObject(new) = IsObject(body)
  BY RedactedBodyType, RedactedBodyFields
<1>2. ~IsObject(body) => new = body
  BY DEF RedactPromptFields
<1> HIDE DEF new
<1>3. ASSUME IsObject(body) PROVE SameBody(new, body)
  <2>1. SameLeaf(new, body)
    BY <1>1, <1>3 DEF SameLeaf, IsObject, NonBlank, IsString, Absent
  <2>2. {"model", "instructions", "messages", "input", "tools"} \subseteq Keys
    BY KeysUsed
  <2>3. \A key \in {"model", "instructions", "messages", "input", "tools"} :
           Get(body, key) \in Value /\ Get(new, key) = RedactField(key, Get(body, key))
    BY <1>1, <1>3, <2>2, GetFacts
  <2>4. /\ Get(new, "model") = Get(body, "model")
        /\ Get(new, "tools") = Get(body, "tools")
        /\ Get(new, "instructions") = RedactContent[Get(body, "instructions")]
    BY <2>3 DEF RedactField
  <2>5. SameLeaf(Get(new, "instructions"), Get(body, "instructions"))
    BY <2>3, <2>4, RedactContentRewrites, InjectionKeepsMarks, RewriteLeaf
  <2>6. SameItems(Get(new, "messages"), Get(body, "messages"))
    <3> DEFINE was == Get(body, "messages")
               now == Get(new, "messages")
    <3>1. was \in Value /\ now = RedactedMessages(was)
      BY <2>3 DEF RedactedMessages
    <3> HIDE DEF was, now
    <3>2. /\ IsArray(now) = IsArray(was)
          /\ Len(ItemsOf(now)) = Len(ItemsOf(was))
          /\ \A i \in 1..Len(ItemsOf(was)) : ItemsOf(now)[i] = RedactMessage(ItemsOf(was)[i])
      BY <3>1, RedactedMessagesFacts
    <3>3. \A i \in 1..Len(ItemsOf(was)) : ItemsOf(was)[i] \in Value
      BY <3>1, ItemsOfFacts
    <3>4. \A i \in 1..Len(ItemsOf(was)) : SameItem(ItemsOf(now)[i], ItemsOf(was)[i])
      BY <3>2, <3>3, RedactedMessageSame
    <3>5. SameLeaf(now, was)
      <4>1. CASE IsArray(was)
        BY <3>2, <4>1 DEF SameLeaf, IsArray, NonBlank, IsString, Absent
      <4>2. CASE ~IsArray(was)
        <5>1. now = was
          BY <3>1, <4>2 DEF RedactedMessages, RedactField
        <5> QED
          BY <5>1, SameSelf
      <4> QED
        BY <4>1, <4>2
    <3>6. SameItems(now, was)
      BY <3>2, <3>4, <3>5 DEF SameItems
    <3> QED
      BY <3>6 DEF now, was
  <2>7. SameItems(Get(new, "input"), Get(body, "input"))
    <3> DEFINE was == Get(body, "input")
               now == Get(new, "input")
    <3>1. was \in Value /\ now = RedactedInput(was)
      BY <2>3 DEF RedactedInput
    <3> HIDE DEF was, now
    <3>2. /\ IsArray(now) = IsArray(was)
          /\ IsArray(was) => /\ Len(now.items) = Len(was.items)
                             /\ \A i \in 1..Len(was.items) : now.items[i] = RedactInputItem(was.items[i])
          /\ ~IsArray(was) => now = RedactContent[was]
      BY <3>1, RedactedInputFacts
    <3>3. ASSUME IsArray(was) PROVE SameItems(now, was)
      <4>1. ItemsOf(now) = now.items /\ ItemsOf(was) = was.items
        BY <3>2, <3>3 DEF ItemsOf
      <4>2. \A i \in 1..Len(ItemsOf(was)) : ItemsOf(was)[i] \in Value
        BY <3>1, ItemsOfFacts
      <4>3. \A i \in 1..Len(ItemsOf(was)) : SameItem(ItemsOf(now)[i], ItemsOf(was)[i])
        BY <3>2, <3>3, <4>1, <4>2, RedactedItemSame
      <4>4. SameLeaf(now, was)
        BY <3>2, <3>3 DEF SameLeaf, IsArray, NonBlank, IsString, Absent
      <4> QED
        BY <3>2, <3>3, <4>1, <4>3, <4>4 DEF SameItems
    <3>4. ASSUME ~IsArray(was) PROVE SameItems(now, was)
      BY <3>1, <3>2, <3>4, RedactContentRewrites, InjectionKeepsMarks, RewriteSameItems
    <3>5. SameItems(now, was)
      BY <3>3, <3>4
    <3> QED
      BY <3>5 DEF now, was
  <2> QED
    BY <2>1, <2>4, <2>5, <2>6, <2>7, SameSelf DEF SameBody
<1>4. CASE IsObject(body)
  BY <1>1, <1>3, <1>4, SameBodyValid DEF new
<1>5. CASE ~IsObject(body)
  BY <1>2, <1>5 DEF new
<1> QED
  BY <1>4, <1>5

(* And after the prompt was inserted (system_prompt.rs:125-158).           *)
THEOREM PromptKeepsValid ==
    ASSUME NEW body \in Value, HasPromptSurface(body), NEW path, ValidBody(path, body)
    PROVE  ValidBody(path, InjectPrompt(body))
<1> DEFINE new == InjectPrompt(body)
<1>1. Inserted(body, new)
  BY InjectPromptFacts
<1> HIDE DEF new
<1>2. new \in Value /\ IsObject(new)
  BY <1>1 DEF Inserted
<1>3. {"model", "instructions", "messages", "input", "tools"} \subseteq Keys
  BY KeysUsed
<1>4. \A key \in {"model", "input", "tools"} : Get(new, key) = Get(body, key)
  BY <1>1, <1>3 DEF Inserted
<1>5. ASSUME ValidChatBody(body) PROVE ValidChatBody(new)
  <2> DEFINE was == Get(body, "messages")
             now == Get(new, "messages")
             single == <<Policy>>
             items == was.items
  <2>1. was \in Value /\ now \in Value
    BY <1>2, <1>3, GetFacts
  <2>2. ItemsOf(was) # <<>> /\ AllItems(ValidMessage, was)
    BY <1>5 DEF ValidChatBody
  <2>3. IsArray(was)
    BY <2>2 DEF ItemsOf
  <2>4. IsArray(now) /\ now.items = single \o items
    BY <1>1, <2>3 DEF Inserted
  <2>5. items \in Seq(Value) /\ single \in Seq(Value) /\ Len(single) = 1 /\ single[1] = Policy
    BY <2>1, <2>3, PartsLower, PolicyContent
  <2>6. ItemsOf(was) = items /\ ItemsOf(now) = now.items
    BY <2>3, <2>4 DEF ItemsOf
  <2> HIDE DEF single, items
  <2>7. /\ single \o items \in Seq(Value) /\ Len(single \o items) = Len(single) + Len(items)
        /\ \A i \in 1..(Len(single) + Len(items)) :
              (single \o items)[i] = IF i <= Len(single) THEN single[i]
                                     ELSE items[i - Len(single)]
    BY <2>5, ConcatProperties
  <2>8. ValidMessage(Policy)
    <3>1. /\ IsObject(Policy) /\ Get(Policy, "role") = Str(<<"system">>)
          /\ Get(Policy, "content") = Str(Prompt)
      BY PolicyFacts, JsonAssumption
    <3>2. NonBlank(Str(<<"system">>))
      <4>1. <<"system">>[1] = "system" /\ 1 \in DOMAIN <<"system">>
        OBVIOUS
      <4> QED
        BY <4>1 DEF NonBlank, IsString, Str, IsBlank
    <3>3. TextOrParts(Str(Prompt), IsObject)
      BY DEF TextOrParts, Str
    <3> QED
      BY <3>1, <3>2, <3>3 DEF ValidMessage
  <2>9. \A i \in 1..Len(items) : ValidMessage(items[i])
    BY <2>2, <2>5, <2>6 DEF AllItems
  <2>10. ASSUME NEW i \in DOMAIN (single \o items) PROVE ValidMessage((single \o items)[i])
    <3>1. i \in 1..(Len(items) + 1) /\ Len(items) \in Nat
      BY <2>5, <2>7
    <3>2. CASE i = 1
      BY <2>5, <2>7, <2>8, <3>1, <3>2
    <3>3. CASE i # 1
      <4>1. (single \o items)[i] = items[i - 1] /\ i - 1 \in 1..Len(items)
        BY <2>5, <2>7, <3>1, <3>3
      <4> QED
        BY <2>9, <4>1
    <3> QED
      BY <3>2, <3>3
  <2>11. single \o items # <<>>
    BY <2>5, <2>7
  <2>12. ItemsOf(now) # <<>> /\ AllItems(ValidMessage, now)
    BY <2>4, <2>6, <2>10, <2>11 DEF AllItems
  <2>13. NonBlank(Get(new, "model"))
    BY <1>4, <1>5 DEF ValidChatBody
  <2> QED
    BY <1>2, <2>12, <2>13 DEF ValidChatBody, now
<1>6. ASSUME ValidResponsesBody(body) PROVE ValidResponsesBody(new)
  <2>1. Get(new, "instructions").kind \in {"absent", "string", "null"}
    <3>1. CASE IsArray(Get(body, "messages"))
      BY <1>1, <1>3, <1>6, <3>1 DEF Inserted, ValidResponsesBody
    <3>2. CASE ~IsArray(Get(body, "messages"))
      <4>1. Get(new, "instructions") = WriteInstructions(Get(body, "instructions"))
        BY <1>1, <3>2 DEF Inserted
      <4>2. Get(body, "instructions") \in Json[MaxNesting] /\ MaxNesting \in 0..MaxNesting
        BY <1>3, GetFacts, JsonAssumption DEF Value
      <4>3. IsString(WriteInstructions(Get(body, "instructions")))
        BY <4>2, WriteFacts
      <4> QED
        BY <4>1, <4>3 DEF IsString
    <3> QED
      BY <3>1, <3>2
  <2> QED
    BY <1>2, <1>4, <1>6, <2>1 DEF ValidResponsesBody
<1> QED
  BY <1>5, <1>6 DEF ValidBody, new
====
