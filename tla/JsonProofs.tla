----------------------------- MODULE JsonProofs -----------------------------
(* Theorems about the parser on strings and numbers of any length: it takes  *)
(* those of the grammar, no other string, and gives back a string that was   *)
(* escaped.  A string is read by a recursive function of the place in the    *)
(* word; that there is one, and what it comes to, is shown from the end of   *)
(* the word on, by the last place where it would fail.                       *)
EXTENDS JsonWords, SequenceTheorems, FiniteSetTheorems, NaturalsInduction, WellFoundedInduction, TLAPS

\* What stands in for induction over numbers: a set of them has a least one.
LEMMA Least ==
  ASSUME NEW S \in SUBSET Nat, S # {}
  PROVE  \E m \in S : \A k \in S : m <= k
<1>1. PICK m \in S : \A k \in S : ~ (<<k, m>> \in OpToRel(<, Nat))
  BY NatLessThanWellFounded, WFMin
<1>2. \A k \in S : ~ (k < m)
  BY <1>1 DEF OpToRel
<1> QED BY <1>2

\* And a bounded one has a greatest.
LEMMA Greatest ==
  ASSUME NEW n \in Nat, NEW S \in SUBSET (0..n), S # {}
  PROVE  \E m \in S : \A k \in S : k <= m
<1> DEFINE T == {n - k : k \in S}
<1>1. T \in SUBSET Nat /\ T # {}
  <2>1. \A k \in S : n - k \in Nat
    OBVIOUS
  <2>2. PICK k \in S : TRUE
    OBVIOUS
  <2>3. n - k \in T
    OBVIOUS
  <2> QED BY <2>1, <2>3
<1>2. PICK t \in T : \A k \in T : t <= k
  <2> HIDE DEF T
  <2> QED BY <1>1, Least
<1>3. PICK m \in S : t = n - m
  OBVIOUS
<1>4. \A k \in S : n - m <= n - k
  BY <1>2, <1>3
<1>5. \A k \in S : k <= m
  BY <1>4
<1> QED BY <1>5

--------------------------------------------------------------------------
(* Words *)

\* What words of strings and their escapes are made of.
Tokens == Family["strings"] \cup {"pair", "high", "low", "bmp"}
Words == Seq(Tokens)

LEMMA TokenFacts ==
  /\ Tokens = {"quote", "backslash", "n", "ctl", "u_high", "u_low", "u_bmp",
               "pair", "high", "low", "bmp"}
  /\ "end" \notin Tokens /\ "ws" \notin Tokens
BY DEF Tokens, Family

LEMMA PeekFacts ==
  ASSUME NEW w \in Words, NEW i \in Nat \ {0}
  PROVE  /\ Len(w) \in Nat
         /\ Peek(w, i) = "end" <=> i > Len(w)
         /\ i <= Len(w) => Peek(w, i) = w[i] /\ w[i] \in Tokens
BY TokenFacts DEF Peek, Words

\* A character ends inside the word.
LEMMA WidthInside ==
  ASSUME NEW w \in Words, NEW i \in 1..Len(w), w[i] = "backslash" => Peek(w, i + 1) \in Escapes
  PROVE  Width(w, i) \in {1, 2} /\ i + Width(w, i) \in (i + 1)..(Len(w) + 1)
<1>1. Len(w) \in Nat /\ i + 1 \in Nat \ {0}
  BY PeekFacts
<1>2. "end" \notin Escapes
  BY DEF Escapes
<1>3. Width(w, i) = 2 => i + 1 <= Len(w)
  BY <1>1, <1>2, PeekFacts DEF Width, IsPair
<1> QED BY <1>1, <1>3 DEF Width

\* What StringStep makes of a place depends on what comes behind it only.
LEMMA StepLooksAhead ==
  ASSUME NEW w \in Words, NEW i \in 1..(Len(w) + 1), NEW f, NEW g,
         \A j \in (i + 1)..(Len(w) + 1) : f[j] = g[j]
  PROVE  StringStep(w, f, i) = StringStep(w, g, i)
<1>1. Len(w) \in Nat /\ i \in Nat \ {0}
  BY PeekFacts
<1>2. CASE Peek(w, i) \in {"end", "quote"} \/ (Peek(w, i) = "backslash" /\ Peek(w, i + 1) \notin Escapes)
  BY <1>2 DEF StringStep
<1>3. CASE ~ (Peek(w, i) \in {"end", "quote"} \/ (Peek(w, i) = "backslash" /\ Peek(w, i + 1) \notin Escapes))
  <2>1. i \in 1..Len(w) /\ Peek(w, i) = w[i]
    BY <1>1, <1>3, PeekFacts
  <2>2. i + Width(w, i) \in (i + 1)..(Len(w) + 1)
    BY <1>3, <2>1, WidthInside
  <2>3. f[i + Width(w, i)] = g[i + Width(w, i)]
    BY <2>2
  <2>4. /\ StringStep(w, f, i) = WithChar(CharAt(w, i), f[i + Width(w, i)])
        /\ StringStep(w, g, i) = WithChar(CharAt(w, i), g[i + Width(w, i)])
    BY <1>3 DEF StringStep
  <2> QED BY <2>3, <2>4
<1> QED BY <1>2, <1>3

\* There is a function as StringsOf describes it.
LEMMA StringsExist ==
  ASSUME NEW w \in Words
  PROVE  \E f : f = [i \in 1..(Len(w) + 1) |-> StringStep(w, f, i)]
<1> DEFINE D == 1..(Len(w) + 1)
           Good(f, k) == /\ f = [i \in D |-> f[i]]
                         /\ \A i \in k..(Len(w) + 1) : f[i] = StringStep(w, f, i)
           S == {k \in 1..(Len(w) + 2) : \E f : Good(f, k)}
<1>1. Len(w) \in Nat
  BY PeekFacts
<1>2. Len(w) + 2 \in S
  <2>1. Good([i \in D |-> i], Len(w) + 2)
    BY <1>1
  <2> HIDE DEF Good
  <2>2. \E f : Good(f, Len(w) + 2)
    BY <2>1
  <2> QED BY <1>1, <2>2
<1>3. S \in SUBSET Nat /\ S # {}
  BY <1>1, <1>2
<1>4. PICK m \in S : \A k \in S : m <= k
  <2> HIDE DEF S
  <2> QED BY <1>3, Least
<1>5. PICK f : Good(f, m)
  BY <1>4
<1>6. m = 1
  <2> SUFFICES ASSUME m # 1 PROVE FALSE
    OBVIOUS
  <2> DEFINE p == m - 1
             g == [i \in D |-> IF i = p THEN StringStep(w, f, p) ELSE f[i]]
  <2>1. p \in D /\ m \in 2..(Len(w) + 2) /\ p + 1 = m
    BY <1>1, <1>4
  <2>2. g = [i \in D |-> g[i]] /\ \A i \in D : g[i] = IF i = p THEN StringStep(w, f, p) ELSE f[i]
    OBVIOUS
  <2> HIDE DEF g
  <2>3. ASSUME NEW i \in p..(Len(w) + 1) PROVE g[i] = StringStep(w, g, i)
    <3>1. i \in D /\ \A j \in (i + 1)..(Len(w) + 1) : f[j] = g[j]
      BY <1>1, <2>1, <2>2
    <3>2. StringStep(w, f, i) = StringStep(w, g, i)
      BY <3>1, StepLooksAhead
    <3>3. i # p => i \in m..(Len(w) + 1)
      BY <1>1, <2>1
    <3> QED BY <1>5, <2>2, <3>1, <3>2, <3>3
  <2>4. Good(g, p)
    BY <2>2, <2>3
  <2>5. p \in S
    <3> HIDE DEF Good
    <3>1. \E h : Good(h, p)
      BY <2>4
    <3>2. p \in 1..(Len(w) + 2)
      BY <1>1, <2>1
    <3> HIDE DEF p
    <3> QED BY <3>1, <3>2
  <2> QED BY <1>4, <2>1, <2>5
<1> QED BY <1>5, <1>6

LEMMA StringsAre ==
  ASSUME NEW w \in Words, NEW i \in 1..(Len(w) + 1)
  PROVE  StringsOf(w)[i] = StringStep(w, StringsOf(w), i)
<1> DEFINE Step(f) == [j \in 1..(Len(w) + 1) |-> StringStep(w, f, j)]
           from == CHOOSE f : f = Step(f)
<1>1. from = Step(from)
  BY StringsExist
<1>2. StringsOf(w) = from
  BY DEF StringsOf
<1> HIDE DEF from
<1> QED BY <1>1, <1>2

--------------------------------------------------------------------------
(* What a string is read as *)

Plain == {"n", "ctl", "pair", "high", "low", "bmp"}
Chars == {<<"escaped", e>> : e \in Escapes} \cup {<<t>> : t \in Plain}

LEMMA CharRead ==
  ASSUME NEW w \in Words, NEW i \in 1..Len(w), w[i] # "quote",
         w[i] = "backslash" => Peek(w, i + 1) \in Escapes
  PROVE  CharAt(w, i) \in Chars
<1>1. Len(w) \in Nat /\ i \in Nat \ {0} /\ w[i] \in Tokens
  BY PeekFacts
<1>2. CASE w[i] = "backslash"
  <2>1. "end" \notin Escapes
    BY DEF Escapes
  <2>2. w[i + 1] = Peek(w, i + 1)
    BY <1>1, <1>2, <2>1 DEF Peek
  <2> QED BY <1>2, <2>2 DEF CharAt, Chars, Plain
<1>3. CASE w[i] # "backslash"
  <2>1. w[i] \in {"u_high", "u_low", "u_bmp"} => Decoded[w[i]] \in {<<"high">>, <<"low">>, <<"bmp">>}
    BY DEF Decoded
  <2>2. w[i] \in DOMAIN Decoded <=> w[i] \in {"u_high", "u_low", "u_bmp"}
    BY DEF Decoded
  <2>3. CharAt(w, i) \in {<<"pair">>, <<"high">>, <<"low">>, <<"bmp">>, <<w[i]>>}
    BY <1>3, <2>1, <2>2 DEF CharAt
  <2>4. w[i] \notin DOMAIN Decoded => w[i] \in Plain
    BY <1>1, <1>3, <2>2, TokenFacts DEF Plain
  <2>5. CASE w[i] \notin DOMAIN Decoded
    <3>1. <<w[i]>> \in Chars /\ \A t \in {"pair", "high", "low", "bmp"} : <<t>> \in Chars
      BY <2>4, <2>5 DEF Chars, Plain
    <3> QED BY <2>3, <3>1
  <2>6. CASE w[i] \in DOMAIN Decoded
    <3>1. CharAt(w, i) \in {<<"pair">>, <<"high">>, <<"low">>, <<"bmp">>}
      BY <1>3, <2>1, <2>2, <2>6 DEF CharAt
    <3> QED BY <3>1 DEF Chars, Plain
  <2> QED BY <2>5, <2>6
<1> QED BY <1>2, <1>3

LEMMA TextReplaced ==
  ASSUME NEW a, NEW v, NEW x, a = Atom("string", v)
  PROVE  [a EXCEPT !.v = x] = Atom("string", x)
BY DEF Atom

LEMMA ValReplaced ==
  ASSUME NEW r, NEW v, NEW i, NEW x, r = Value(v, i)
  PROVE  [r EXCEPT !.val = x] = Value(x, i)
<1>1. PICK t : t = TRUE
  OBVIOUS
<1>2. Value(v, i) = [ok |-> t, val |-> v, at |-> i]
  BY <1>1, Zenon DEF Value
<1>3. Value(x, i) = [ok |-> t, val |-> x, at |-> i]
  BY <1>1, Zenon DEF Value
<1>4. r = [ok |-> t, val |-> v, at |-> i]
  BY <1>2
<1>5. [r EXCEPT !.val = x] = [ok |-> t, val |-> x, at |-> i]
  BY <1>4
<1> QED BY <1>3, <1>5

LEMMA AtReplaced ==
  ASSUME NEW r, NEW v, NEW i, NEW x, r = Value(v, i)
  PROVE  [r EXCEPT !.at = x] = Value(v, x)
<1>1. PICK t : t = TRUE
  OBVIOUS
<1>2. Value(v, i) = [ok |-> t, val |-> v, at |-> i]
  BY <1>1, Zenon DEF Value
<1>3. Value(v, x) = [ok |-> t, val |-> v, at |-> x]
  BY <1>1, Zenon DEF Value
<1>4. r = [ok |-> t, val |-> v, at |-> i]
  BY <1>2
<1>5. [r EXCEPT !.at = x] = [ok |-> t, val |-> v, at |-> x]
  BY <1>4
<1> QED BY <1>3, <1>5

LEMMA WithCharFacts ==
  ASSUME NEW c, NEW v, NEW i
  PROVE  /\ WithChar(c, Value(Atom("string", v), i)) = Value(Atom("string", <<c>> \o v), i)
         /\ WithChar(c, Failed(i)) = Failed(i)
<1> DEFINE r == Value(Atom("string", v), i)
           a == Atom("string", v)
<1>1. r.ok /\ r.val = a /\ a.v = v
  BY DEF Value, Atom
<1>2. WithChar(c, r) = [r EXCEPT !.val = [a EXCEPT !.v = <<c>> \o v]]
  BY <1>1 DEF WithChar
<1>3. [a EXCEPT !.v = <<c>> \o v] = Atom("string", <<c>> \o v)
  BY TextReplaced
<1>4. [r EXCEPT !.val = Atom("string", <<c>> \o v)] = Value(Atom("string", <<c>> \o v), i)
  BY ValReplaced
<1>5. WithChar(c, Failed(i)) = Failed(i)
  BY DEF WithChar, Failed
<1> HIDE DEF r, a
<1> QED BY <1>2, <1>3, <1>4, <1>5 DEF r

\* A string of characters and the place behind its closing quote, or a failure.
ReadAs(w, i, r) ==
  \/ \E v \in Seq(Chars), j \in (i + 1)..(Len(w) + 1) : r = Value(Atom("string", v), j)
  \/ \E j \in Nat : r = Failed(j)

LEMMA ReadStep ==
  ASSUME NEW w \in Words, NEW i \in 1..(Len(w) + 1), NEW f,
         \A j \in (i + 1)..(Len(w) + 1) : ReadAs(w, j, f[j])
  PROVE  ReadAs(w, i, StringStep(w, f, i))
<1>1. Len(w) \in Nat /\ i \in Nat \ {0}
  BY PeekFacts
<1>2. CASE Peek(w, i) = "end"
  <2>1. StringStep(w, f, i) = Failed(i)
    BY <1>2 DEF StringStep
  <2> QED BY <1>1, <2>1 DEF ReadAs
<1>3. CASE Peek(w, i) = "quote"
  <2>1. StringStep(w, f, i) = Value(Atom("string", <<>>), i + 1) /\ i <= Len(w)
    BY <1>1, <1>3, PeekFacts DEF StringStep
  <2>2. <<>> \in Seq(Chars) /\ i + 1 \in (i + 1)..(Len(w) + 1)
    BY <1>1, <2>1
  <2> QED BY <2>1, <2>2 DEF ReadAs
<1>4. CASE Peek(w, i) = "backslash" /\ Peek(w, i + 1) \notin Escapes
  <2>1. StringStep(w, f, i) = Failed(i + 1) /\ i + 1 \in Nat
    BY <1>1, <1>4 DEF StringStep
  <2> QED BY <2>1 DEF ReadAs
<1>5. CASE ~ (Peek(w, i) \in {"end", "quote"} \/ (Peek(w, i) = "backslash" /\ Peek(w, i + 1) \notin Escapes))
  <2>1. i \in 1..Len(w) /\ Peek(w, i) = w[i]
    BY <1>1, <1>5, PeekFacts
  <2>2. CharAt(w, i) \in Chars
    BY <1>5, <2>1, CharRead
  <2> DEFINE j == i + Width(w, i)
  <2>3. j \in (i + 1)..(Len(w) + 1)
    BY <1>5, <2>1, WidthInside
  <2>4. StringStep(w, f, i) = WithChar(CharAt(w, i), f[j])
    BY <1>5 DEF StringStep
  <2> HIDE DEF j
  <2>5. ReadAs(w, j, f[j])
    BY <2>3
  <2>6. ASSUME NEW v \in Seq(Chars), NEW k \in (j + 1)..(Len(w) + 1), f[j] = Value(Atom("string", v), k)
        PROVE  ReadAs(w, i, StringStep(w, f, i))
    <3>1. StringStep(w, f, i) = Value(Atom("string", <<CharAt(w, i)>> \o v), k)
      BY <2>4, <2>6, WithCharFacts
    <3>2. <<CharAt(w, i)>> \o v \in Seq(Chars)
      BY <2>2
    <3>3. k \in (i + 1)..(Len(w) + 1)
      BY <1>1, <2>3
    <3> QED BY <3>1, <3>2, <3>3 DEF ReadAs
  <2>7. ASSUME NEW k \in Nat, f[j] = Failed(k)
        PROVE  ReadAs(w, i, StringStep(w, f, i))
    <3>1. StringStep(w, f, i) = Failed(k)
      BY <2>4, <2>7, WithCharFacts
    <3> QED BY <3>1 DEF ReadAs
  <2> QED BY <2>5, <2>6, <2>7 DEF ReadAs
<1> QED BY <1>2, <1>3, <1>4, <1>5

\* By the last place that would be read otherwise.
LEMMA StringsRead ==
  ASSUME NEW w \in Words
  PROVE  \A i \in 1..(Len(w) + 1) : ReadAs(w, i, StringsOf(w)[i])
<1> DEFINE S == {i \in 1..(Len(w) + 1) : ~ ReadAs(w, i, StringsOf(w)[i])}
<1> SUFFICES ASSUME S # {} PROVE FALSE
  OBVIOUS
<1>1. Len(w) + 1 \in Nat
  BY PeekFacts
<1>2. S \in SUBSET (0..(Len(w) + 1))
  BY <1>1
<1>3. PICK m \in S : \A k \in S : k <= m
  <2> HIDE DEF S
  <2> QED BY <1>1, <1>2, Greatest
<1>4. m \in 1..(Len(w) + 1) /\ ~ ReadAs(w, m, StringsOf(w)[m])
  OBVIOUS
<1>5. \A j \in (m + 1)..(Len(w) + 1) : ReadAs(w, j, StringsOf(w)[j])
  BY <1>1, <1>3, <1>4
<1>6. ReadAs(w, m, StringStep(w, StringsOf(w), m))
  BY <1>4, <1>5, ReadStep
<1> QED BY <1>4, <1>6, StringsAre

--------------------------------------------------------------------------
(* What a string is written as *)

\* FlattenSeq() puts one sequence after the other behind the first.
LEMMA Flattened ==
  ASSUME NEW T, NEW seqs \in Seq(Seq(T)), seqs # <<>>
  PROVE  \E F \in [1..Len(seqs) -> Seq(T)] :
           /\ F[1] = seqs[1] /\ FlattenSeq(seqs) = F[Len(seqs)]
           /\ \A k \in 2..Len(seqs) : F[k] = F[k - 1] \o seqs[k]
<1> DEFINE n == Len(seqs)
           Joined(f, i) == IF i = 1 THEN seqs[i] ELSE f[i - 1] \o seqs[i]
           Builds(f, k) == f \in [1..k -> Seq(T)] /\ \A i \in 1..k : f[i] = Joined(f, i)
           S == {k \in 1..n : \E f : Builds(f, k)}
           flatten == CHOOSE f : f = [i \in 1..n |-> Joined(f, i)]
<1>1. n \in Nat \ {0} /\ \A k \in 1..n : seqs[k] \in Seq(T)
  OBVIOUS
<1>2. 1 \in S
  <2>1. Builds([i \in 1..1 |-> seqs[1]], 1)
    BY <1>1
  <2> HIDE DEF Builds
  <2>2. \E f : Builds(f, 1)
    BY <2>1
  <2> QED BY <1>1, <2>2
<1>3. PICK m \in S : \A k \in S : k <= m
  <2>1. S \in SUBSET (0..n) /\ S # {}
    <3>1. 1..n \subseteq 0..n
      BY <1>1
    <3> HIDE DEF Builds, n
    <3>2. S \subseteq 1..n
      OBVIOUS
    <3> QED BY <1>2, <3>1, <3>2
  <2> HIDE DEF S
  <2> QED BY <1>1, <2>1, Greatest
<1>4. PICK f : Builds(f, m)
  BY <1>3
<1>5. m = n
  <2> SUFFICES ASSUME m # n PROVE FALSE
    OBVIOUS
  <2> DEFINE g == [i \in 1..(m + 1) |-> IF i = m + 1 THEN f[m] \o seqs[i] ELSE f[i]]
  <2>1. m \in 1..(n - 1)
    BY <1>1, <1>3
  <2>2. f[m] \o seqs[m + 1] \in Seq(T)
    BY <1>1, <1>4, <2>1
  <2>3. Builds(g, m + 1)
    <3>1. g \in [1..(m + 1) -> Seq(T)]
      BY <1>4, <2>1, <2>2
    <3>2. \A i \in 1..(m + 1) : g[i] = IF i = m + 1 THEN f[m] \o seqs[i] ELSE f[i]
      OBVIOUS
    <3> HIDE DEF g
    <3>3. ASSUME NEW i \in 1..(m + 1) PROVE g[i] = Joined(g, i)
      <4>1. CASE i = m + 1
        <5>1. m \in 1..(m + 1) /\ m # m + 1 /\ i # 1 /\ i - 1 = m
          BY <2>1, <4>1
        <5>2. g[m] = f[m]
          BY <3>2, <5>1
        <5>3. g[i] = f[m] \o seqs[i]
          BY <3>2, <4>1
        <5> QED BY <5>1, <5>2, <5>3
      <4>2. CASE i # m + 1
        <5>1. i \in 1..m /\ i - 1 # m + 1 /\ (i # 1 => i - 1 \in 1..(m + 1))
          BY <2>1, <4>2
        <5>2. f[i] = Joined(f, i)
          BY <1>4, <5>1
        <5> QED BY <3>2, <4>2, <5>1, <5>2
      <4> QED BY <4>1, <4>2
    <3> QED BY <3>1, <3>3
  <2> HIDE DEF Builds, g
  <2>4. \E h : Builds(h, m + 1)
    BY <2>3
  <2>5. m + 1 \in S
    BY <1>1, <2>1, <2>4
  <2> QED BY <1>3, <2>1, <2>5
<1>6. f = [i \in 1..n |-> Joined(f, i)]
  BY <1>4, <1>5
<1>7. flatten = [i \in 1..n |-> Joined(flatten, i)]
  <2> HIDE DEF Joined
  <2> QED BY <1>6
<1>8. FlattenSeq(seqs) = flatten[n]
  BY <1>1 DEF FlattenSeq
<1> HIDE DEF flatten
<1>9. \A i \in 1..n : flatten[i] = Joined(flatten, i)
  <2> HIDE DEF Joined
  <2> QED BY <1>7
<1>10. \A i \in 1..n : flatten[i] \in Seq(T)
  <2> DEFINE B == {i \in 1..n : flatten[i] \notin Seq(T)}
  <2> SUFFICES ASSUME B # {} PROVE FALSE
    OBVIOUS
  <2>1. PICK b \in B : \A k \in B : b <= k
    <3>1. B \in SUBSET Nat
      BY <1>1
    <3> HIDE DEF B
    <3> QED BY <3>1, Least
  <2>2. b \in 1..n /\ flatten[b] \notin Seq(T)
    BY <2>1
  <2>3. CASE b = 1
    BY <1>1, <1>9, <2>2, <2>3
  <2>4. CASE b # 1
    <3>1. b - 1 \in 1..n /\ b - 1 \notin B
      BY <1>1, <2>1, <2>2, <2>4
    <3>2. flatten[b - 1] \in Seq(T)
      BY <3>1
    <3>3. flatten[b] = flatten[b - 1] \o seqs[b]
      BY <1>9, <2>2, <2>4
    <3> QED BY <1>1, <2>2, <3>2, <3>3
  <2> QED BY <2>3, <2>4
<1>11. flatten \in [1..n -> Seq(T)]
  <2> HIDE DEF Joined
  <2> QED BY <1>7, <1>10
<1>12. flatten[1] = seqs[1] /\ \A k \in 2..n : flatten[k] = flatten[k - 1] \o seqs[k]
  <2>1. 1 \in 1..n
    BY <1>1
  <2>2. ASSUME NEW k \in 2..n PROVE flatten[k] = flatten[k - 1] \o seqs[k]
    <3>1. k \in 1..n /\ k # 1
      BY <1>1
    <3> QED BY <1>9, <3>1
  <2> QED BY <1>9, <2>1, <2>2
<1> QED BY <1>8, <1>11, <1>12

\* Where each of the sequences starts.
LEMMA Placed ==
  ASSUME NEW T, NEW seqs \in Seq(Seq(T))
  PROVE  /\ FlattenSeq(seqs) \in Seq(T)
         /\ \E at \in [1..(Len(seqs) + 1) -> Nat] :
              /\ at[1] = 0 /\ at[Len(seqs) + 1] = Len(FlattenSeq(seqs))
              /\ \A k \in 1..Len(seqs) :
                   /\ at[k + 1] = at[k] + Len(seqs[k]) /\ at[k + 1] <= Len(FlattenSeq(seqs))
                   /\ \A j \in 1..Len(seqs[k]) : FlattenSeq(seqs)[at[k] + j] = seqs[k][j]
<1>1. CASE seqs = <<>>
  <2>1. FlattenSeq(seqs) = <<>> /\ Len(seqs) = 0
    BY <1>1 DEF FlattenSeq
  <2>2. FlattenSeq(seqs) \in Seq(T) /\ Len(FlattenSeq(seqs)) = 0
    BY <2>1
  <2> DEFINE at == [k \in 1..1 |-> 0]
  <2>3. at \in [1..(Len(seqs) + 1) -> Nat] /\ at[1] = 0 /\ at[Len(seqs) + 1] = 0
    BY <2>1
  <2> HIDE DEF at
  <2> QED BY <2>1, <2>2, <2>3
<1>2. CASE seqs # <<>>
  <2>1. PICK n \in Nat \ {0} : n = Len(seqs)
    BY <1>2
  <2> DEFINE flat == FlattenSeq(seqs)
  <2> HIDE DEF flat
  <2>2. PICK F \in [1..n -> Seq(T)] : /\ F[1] = seqs[1] /\ flat = F[n]
                                      /\ \A k \in 2..n : F[k] = F[k - 1] \o seqs[k]
    <3>1. \E F \in [1..Len(seqs) -> Seq(T)] :
            /\ F[1] = seqs[1] /\ FlattenSeq(seqs) = F[Len(seqs)]
            /\ \A k \in 2..Len(seqs) : F[k] = F[k - 1] \o seqs[k]
      BY <1>2, Flattened
    <3> QED BY <2>1, <3>1 DEF flat
  <2>3. \A k \in 1..n : /\ F[k] \in Seq(T) /\ Len(F[k]) \in Nat
                         /\ seqs[k] \in Seq(T) /\ Len(seqs[k]) \in Nat
    BY <2>1
  <2>4. flat \in Seq(T) /\ Len(flat) \in Nat /\ n \in 1..n
    BY <2>2
  <2>5. ASSUME NEW k \in 2..n
        PROVE  /\ k - 1 \in 1..n /\ k \in 1..n /\ Len(F[k]) = Len(F[k - 1]) + Len(seqs[k])
               /\ \A j \in 1..Len(F[k - 1]) : F[k][j] = F[k - 1][j]
               /\ \A j \in 1..Len(seqs[k]) : F[k][Len(F[k - 1]) + j] = seqs[k][j]
    <3>1. k - 1 \in 1..n /\ k \in 1..n
      OBVIOUS
    <3>2. F[k - 1] \in Seq(T) /\ seqs[k] \in Seq(T) /\ F[k] = F[k - 1] \o seqs[k]
      BY <2>2, <2>3, <3>1
    <3> QED BY <3>1, <3>2
  <2> DEFINE Starts(k) == Len(F[k]) <= Len(flat) /\ \A j \in 1..Len(F[k]) : flat[j] = F[k][j]
             B == {k \in 1..n : ~ Starts(k)}
  <2>6. \A k \in 1..n : Starts(k)
    <3> SUFFICES ASSUME B # {} PROVE FALSE
      <4> HIDE DEF Starts
      <4> QED OBVIOUS
    <3>1. PICK b \in B : \A k \in B : k <= b
      <4>1. 1..n \subseteq 0..n
        OBVIOUS
      <4>2. B \subseteq 1..n
        <5> HIDE DEF Starts
        <5> QED OBVIOUS
      <4> HIDE DEF B
      <4> QED BY <4>1, <4>2, Greatest
    <3>2. b \in 1..n /\ ~ Starts(b)
      BY <3>1
    <3>3. b # n
      BY <2>2, <2>3, <3>2
    <3>4. PICK c \in 2..n : c = b + 1
      BY <3>2, <3>3
    <3>5. b = c - 1 /\ c \in 1..n /\ ~ (c <= b)
      BY <3>2, <3>4
    <3>6. Starts(c)
      <4> HIDE DEF Starts
      <4> QED BY <3>1, <3>5
    <3>7. Len(F[c]) = Len(F[b]) + Len(seqs[c]) /\ \A j \in 1..Len(F[b]) : F[c][j] = F[b][j]
      BY <2>5, <3>5
    <3>8. Len(F[b]) \in Nat /\ Len(F[c]) \in Nat /\ Len(seqs[c]) \in Nat
      BY <2>3, <3>2, <3>5
    <3>9. Len(F[b]) <= Len(flat)
      BY <2>4, <3>6, <3>7, <3>8
    <3>10. \A j \in 1..Len(F[b]) : flat[j] = F[b][j]
      <4>1. \A j \in 1..Len(F[b]) : j \in 1..Len(F[c])
        BY <3>7, <3>8
      <4> QED BY <3>6, <3>7, <4>1
    <3> QED BY <3>2, <3>9, <3>10
  <2> DEFINE at == [k \in 1..(n + 1) |-> IF k = 1 THEN 0 ELSE Len(F[k - 1])]
  <2>7. \A k \in 2..(n + 1) : k - 1 \in 1..n /\ k \in 1..(n + 1) /\ k # 1
    OBVIOUS
  <2>8. \A k \in 1..(n + 1) : (IF k = 1 THEN 0 ELSE Len(F[k - 1])) \in Nat
    <3>1. \A k \in 1..(n + 1) : k # 1 => k \in 2..(n + 1)
      OBVIOUS
    <3> QED BY <2>3, <2>7, <3>1
  <2>9. /\ at \in [1..(n + 1) -> Nat] /\ at[1] = 0
        /\ \A k \in 2..(n + 1) : at[k] = Len(F[k - 1])
    <3>1. 1 \in 1..(n + 1)
      OBVIOUS
    <3> QED BY <2>7, <2>8, <3>1
  <2> HIDE DEF at
  <2>10. at[n + 1] = Len(flat)
    <3>1. n + 1 \in 2..(n + 1) /\ (n + 1) - 1 = n
      OBVIOUS
    <3> QED BY <2>2, <2>9, <3>1
  <2>11. ASSUME NEW k \in 1..n
         PROVE  /\ at[k + 1] = at[k] + Len(seqs[k]) /\ at[k + 1] <= Len(flat)
                /\ \A j \in 1..Len(seqs[k]) : flat[at[k] + j] = seqs[k][j]
    <3>1. k + 1 \in 2..(n + 1) /\ (k + 1) - 1 = k
      OBVIOUS
    <3>2. at[k + 1] = Len(F[k])
      BY <2>9, <3>1
    <3>3. /\ at[k] \in Nat /\ Len(F[k]) = at[k] + Len(seqs[k])
          /\ \A j \in 1..Len(seqs[k]) : F[k][at[k] + j] = seqs[k][j]
      <4>1. CASE k = 1
        <5>1. at[k] = 0 /\ F[k] = seqs[k]
          BY <2>2, <2>9, <4>1
        <5> QED BY <2>3, <5>1
      <4>2. CASE k # 1
        <5>1. k \in 2..n /\ k \in 2..(n + 1) /\ k - 1 \in 1..n
          BY <4>2
        <5>2. at[k] = Len(F[k - 1])
          BY <2>9, <5>1
        <5> QED BY <2>3, <2>5, <5>1, <5>2
      <4> QED BY <4>1, <4>2
    <3>4. ASSUME NEW j \in 1..Len(seqs[k]) PROVE flat[at[k] + j] = seqs[k][j]
      <4>1. PICK p \in Nat : p = at[k] + j
        BY <2>3, <3>3
      <4>2. p \in 1..Len(F[k])
        BY <2>3, <3>3, <4>1
      <4> QED BY <2>6, <3>3, <4>1, <4>2
    <3> QED BY <2>6, <3>2, <3>3, <3>4
  <2> QED BY <2>1, <2>4, <2>9, <2>10, <2>11 DEF flat
<1> QED BY <1>1, <1>2

\* A character is written as one token, or as two behind a backslash.
LEMMA EscapedFacts ==
  ASSUME NEW c \in Chars
  PROVE  /\ Escaped(c) \in Words /\ Len(Escaped(c)) \in {1, 2}
         /\ Len(Escaped(c)) = 2 => /\ Escaped(c)[1] = "backslash" /\ Escaped(c)[2] \in Escapes
                                   /\ c = <<"escaped", Escaped(c)[2]>>
         /\ Len(Escaped(c)) = 1 => /\ Escaped(c)[1] \in Plain
                                   /\ c = <<Escaped(c)[1]>>
<1>1. CASE c \in {<<"escaped", e>> : e \in Escapes}
  <2>1. PICK e \in Escapes : c = <<"escaped", e>>
    BY <1>1
  <2>2. Escaped(c) = <<"backslash", e>>
    BY <2>1 DEF Escaped
  <2>3. e \in Tokens /\ "backslash" \in Tokens
    BY TokenFacts DEF Escapes
  <2>4. <<"backslash", e>> \in Words /\ Len(<<"backslash", e>>) = 2
    BY <2>3 DEF Words
  <2>5. Escaped(c)[1] = "backslash" /\ Escaped(c)[2] = e
    BY <2>2
  <2> HIDE DEF Words
  <2> QED BY <2>1, <2>2, <2>4, <2>5
<1>2. CASE c \in {<<t>> : t \in Plain}
  <2>1. PICK t \in Plain : c = <<t>>
    BY <1>2
  <2>2. Escaped(c) = <<t>>
    BY <2>1 DEF Escaped
  <2>3. t \in Tokens
    BY TokenFacts DEF Plain
  <2>4. <<t>> \in Words /\ Len(<<t>>) = 1
    BY <2>3 DEF Words
  <2>5. Escaped(c)[1] = t
    BY <2>2
  <2> QED BY <2>1, <2>2, <2>4, <2>5
<1> QED BY <1>1, <1>2 DEF Chars

\* Where each character of a string starts when it is escaped.
LEMMA EscapeLayout ==
  ASSUME NEW chars \in Seq(Chars)
  PROVE  /\ Escape(chars) \in Words /\ Len(Escape(chars)) >= 2
         /\ Escape(chars)[1] = "quote" /\ Escape(chars)[Len(Escape(chars))] = "quote"
         /\ \E start \in [1..(Len(chars) + 1) -> Nat] :
              /\ start[1] = 2 /\ start[Len(chars) + 1] = Len(Escape(chars))
              /\ \A k \in 1..Len(chars) :
                   /\ start[k + 1] = start[k] + Len(Escaped(chars[k]))
                   /\ start[k + 1] <= Len(Escape(chars)) /\ start[k] >= 2
                   /\ \A j \in 1..Len(Escaped(chars[k])) :
                        Escape(chars)[start[k] + j - 1] = Escaped(chars[k])[j]
<1> DEFINE n == Len(chars)
           seqs == [k \in DOMAIN chars |-> Escaped(chars[k])]
           flat == FlattenSeq(seqs)
           w == Escape(chars)
<1>1. n \in Nat /\ DOMAIN chars = 1..n /\ \A k \in 1..n : chars[k] \in Chars
  OBVIOUS
<1>2. seqs \in Seq(Words) /\ Len(seqs) = n /\ seqs \in [1..n -> Words] /\ \A k \in 1..n : seqs[k] = Escaped(chars[k])
  <2>1. seqs \in [1..n -> Words] /\ \A k \in 1..n : seqs[k] = Escaped(chars[k])
    BY <1>1, EscapedFacts
  <2> HIDE DEF seqs
  <2> QED BY <1>1, <2>1
<1>3. w = <<"quote">> \o flat \o <<"quote">>
  BY DEF Escape
<1> HIDE DEF w, seqs, flat
<1>4. ASSUME flat \in Words
      PROVE  /\ w \in Words /\ Len(w) = Len(flat) + 2 /\ w[1] = "quote" /\ w[Len(w)] = "quote"
             /\ \A j \in 1..Len(flat) : w[j + 1] = flat[j]
  <2>1. "quote" \in Tokens
    BY TokenFacts
  <2>2. flat \in Seq(Tokens)
    BY <1>4 DEF Words
  <2>3. w \in Seq(Tokens) /\ Len(w) = Len(flat) + 2
    BY <1>3, <2>1, <2>2
  <2> QED BY <1>3, <2>1, <2>2, <2>3 DEF Words
<1>5. /\ flat \in Words
      /\ \E at \in [1..(n + 1) -> Nat] :
           /\ at[1] = 0 /\ at[n + 1] = Len(flat)
           /\ \A k \in 1..n : /\ at[k + 1] = at[k] + Len(seqs[k]) /\ at[k + 1] <= Len(flat)
                              /\ \A j \in 1..Len(seqs[k]) : flat[at[k] + j] = seqs[k][j]
  <2> HIDE DEF n
  <2>1. seqs \in Seq(Seq(Tokens)) /\ Len(seqs) = n
    BY <1>2 DEF Words
  <2>2. /\ FlattenSeq(seqs) \in Seq(Tokens)
        /\ \E at \in [1..(Len(seqs) + 1) -> Nat] :
             /\ at[1] = 0 /\ at[Len(seqs) + 1] = Len(FlattenSeq(seqs))
             /\ \A k \in 1..Len(seqs) :
                  /\ at[k + 1] = at[k] + Len(seqs[k]) /\ at[k + 1] <= Len(FlattenSeq(seqs))
                  /\ \A j \in 1..Len(seqs[k]) : FlattenSeq(seqs)[at[k] + j] = seqs[k][j]
    BY <2>1, Placed
  <2> QED BY <2>1, <2>2 DEF Words, flat
<1>6. PICK at \in [1..(n + 1) -> Nat] :
        /\ at[1] = 0 /\ at[n + 1] = Len(flat)
        /\ \A k \in 1..n : /\ at[k + 1] = at[k] + Len(seqs[k]) /\ at[k + 1] <= Len(flat)
                           /\ \A j \in 1..Len(seqs[k]) : flat[at[k] + j] = seqs[k][j]
  BY <1>5
<1>7. /\ w \in Words /\ Len(w) = Len(flat) + 2 /\ w[1] = "quote" /\ w[Len(w)] = "quote"
      /\ \A j \in 1..Len(flat) : w[j + 1] = flat[j]
  BY <1>4, <1>5
<1>8. Len(flat) \in Nat
  BY <1>5, PeekFacts DEF Words
<1> DEFINE start == [k \in 1..(n + 1) |-> at[k] + 2]
<1>9. start \in [1..(n + 1) -> Nat] /\ \A k \in 1..(n + 1) : start[k] = at[k] + 2
  <2>1. \A k \in 1..(n + 1) : at[k] + 2 \in Nat
    OBVIOUS
  <2> QED BY <2>1
<1> HIDE DEF start
<1>10. start[1] = 2 /\ start[n + 1] = Len(w)
  <2>1. 1 \in 1..(n + 1) /\ n + 1 \in 1..(n + 1)
    BY <1>1
  <2> QED BY <1>6, <1>7, <1>9, <2>1
<1>11. ASSUME NEW k \in 1..n
       PROVE  /\ start[k + 1] = start[k] + Len(Escaped(chars[k]))
              /\ start[k + 1] <= Len(w) /\ start[k] >= 2
              /\ \A j \in 1..Len(Escaped(chars[k])) : w[start[k] + j - 1] = Escaped(chars[k])[j]
  <2>1. PICK s \in Words : s = Escaped(chars[k]) /\ s = seqs[k] /\ Len(s) \in {1, 2}
    BY <1>1, <1>2, EscapedFacts
  <2>2. k \in 1..(n + 1) /\ k + 1 \in 1..(n + 1)
    BY <1>1
  <2>3. at[k] \in Nat /\ at[k + 1] = at[k] + Len(s) /\ at[k + 1] <= Len(flat)
    BY <1>6, <2>1, <2>2
  <2>4. start[k] = at[k] + 2 /\ start[k + 1] = at[k + 1] + 2
    BY <1>9, <2>2
  <2>5. PICK a \in Nat, b \in Nat, l \in 1..2, m \in Nat : a = at[k] /\ b = at[k + 1] /\ l = Len(s) /\ m = Len(flat)
    BY <1>8, <2>1, <2>2, <2>3
  <2>6. ASSUME NEW j \in 1..Len(s) PROVE w[start[k] + j - 1] = s[j]
    <3>1. at[k] + j \in 1..Len(flat) /\ start[k] + j - 1 = (at[k] + j) + 1
      <4>1. j \in 1..l /\ b = a + l /\ b <= m /\ start[k] = a + 2
        BY <2>3, <2>4, <2>5
      <4>2. a + j \in 1..m /\ (a + 2) + j - 1 = (a + j) + 1
        BY <4>1
      <4> QED BY <2>5, <4>1, <4>2
    <3>2. flat[at[k] + j] = s[j]
      BY <1>6, <2>1
    <3> QED BY <1>7, <3>1, <3>2
  <2>7. start[k + 1] = start[k] + Len(s) /\ start[k + 1] <= Len(w) /\ start[k] >= 2
    <3>1. start[k + 1] = b + 2 /\ start[k] = a + 2 /\ b = a + l /\ b <= m /\ Len(w) = m + 2 /\ l = Len(s)
      BY <1>7, <2>3, <2>4, <2>5
    <3>2. b + 2 = (a + 2) + l /\ b + 2 <= m + 2 /\ a + 2 >= 2
      BY <3>1
    <3> QED BY <3>1, <3>2
  <2> QED BY <2>1, <2>6, <2>7
<1>12. Len(w) >= 2
  BY <1>7, <1>8
<1> QED BY <1>7, <1>9, <1>10, <1>11, <1>12 DEF w

LEMMA FirstOf ==
  ASSUME NEW T, NEW s \in Seq(T), NEW k \in 1..Len(s)
  PROVE  <<s[k]>> \o SubSeq(s, k + 1, Len(s)) = SubSeq(s, k, Len(s))
<1> DEFINE l == <<s[k]>> \o SubSeq(s, k + 1, Len(s))
           r == SubSeq(s, k, Len(s))
<1>1. /\ SubSeq(s, k + 1, Len(s)) \in Seq(T) /\ Len(SubSeq(s, k + 1, Len(s))) = Len(s) - k
      /\ \A j \in 1..(Len(s) - k) : SubSeq(s, k + 1, Len(s))[j] = s[k + j]
  OBVIOUS
<1>2. r \in Seq(T) /\ Len(r) = Len(s) - k + 1 /\ \A j \in 1..(Len(s) - k + 1) : r[j] = s[k + j - 1]
  OBVIOUS
<1>3. <<s[k]>> \in Seq(T) /\ Len(<<s[k]>>) = 1 /\ <<s[k]>>[1] = s[k]
  OBVIOUS
<1>4. l \in Seq(T) /\ Len(l) = Len(s) - k + 1
  BY <1>1, <1>3
<1>5. ASSUME NEW j \in 1..(Len(s) - k + 1) PROVE l[j] = r[j]
  <2>1. CASE j = 1
    <3>1. l[j] = s[k]
      BY <1>1, <1>3, <2>1
    <3>2. r[j] = s[k]
      BY <1>2, <2>1
    <3> QED BY <3>1, <3>2
  <2>2. CASE j # 1
    <3>1. j - 1 \in 1..(Len(s) - k) /\ k + (j - 1) = k + j - 1
      BY <2>2
    <3>2. l[j] = SubSeq(s, k + 1, Len(s))[j - 1]
      BY <1>1, <1>3, <2>2, <3>1
    <3> QED BY <1>1, <1>2, <3>1, <3>2
  <2> QED BY <2>1, <2>2
<1> HIDE DEF l, r
<1>6. l = r
  BY <1>2, <1>4, <1>5, SeqEqual
<1> QED BY <1>6 DEF l, r

\* The string that was escaped is read again, by the last character that would not be.
LEMMA EscapeRead ==
  ASSUME NEW chars \in Seq(Chars)
  PROVE  StringsOf(Escape(chars))[2] = Value(Atom("string", chars), Len(Escape(chars)) + 1)
<1> DEFINE n == Len(chars)
           w == Escape(chars)
           from == StringsOf(w)
           Rest(k) == Value(Atom("string", SubSeq(chars, k, n)), Len(w) + 1)
<1>1. w \in Words /\ Len(w) \in Nat /\ Len(w) >= 2 /\ w[Len(w)] = "quote" /\ n \in Nat
  BY EscapeLayout, PeekFacts
<1>2. PICK start \in [1..(n + 1) -> Nat] :
        /\ start[1] = 2 /\ start[n + 1] = Len(w)
        /\ \A k \in 1..n : /\ start[k + 1] = start[k] + Len(Escaped(chars[k]))
                           /\ start[k + 1] <= Len(w) /\ start[k] >= 2
                           /\ \A j \in 1..Len(Escaped(chars[k])) :
                                w[start[k] + j - 1] = Escaped(chars[k])[j]
  BY EscapeLayout
<1> HIDE DEF w
<1>3. \A i \in 1..(Len(w) + 1) : from[i] = StringStep(w, from, i)
  BY <1>1, StringsAre
<1> HIDE DEF from
<1> DEFINE B == {k \in 1..(n + 1) : from[start[k]] # Rest(k)}
<1>4. B = {}
  <2> SUFFICES ASSUME B # {} PROVE FALSE
    OBVIOUS
  <2>1. PICK b \in B : \A k \in B : k <= b
    <3>1. n + 1 \in Nat /\ 1..(n + 1) \subseteq 0..(n + 1)
      BY <1>1
    <3>2. B \subseteq 1..(n + 1)
      <4> HIDE DEF n, Rest
      <4> QED OBVIOUS
    <3> HIDE DEF B, n
    <3> QED BY <3>1, <3>2, Greatest
  <2>2. b \in 1..(n + 1) /\ from[start[b]] # Rest(b)
    BY <2>1
  <2>3. CASE b = n + 1
    <3>1. Len(w) \in 1..(Len(w) + 1) /\ Peek(w, Len(w)) = "quote"
      BY <1>1 DEF Peek
    <3>2. from[Len(w)] = Value(Atom("string", <<>>), Len(w) + 1)
      BY <1>3, <3>1 DEF StringStep
    <3>3. SubSeq(chars, n + 1, n) = <<>>
      BY <1>1
    <3> QED BY <1>2, <2>2, <2>3, <3>2, <3>3
  <2>4. CASE b # n + 1
    <3>1. b \in 1..n /\ b + 1 \in 1..(n + 1) /\ b + 1 > b
      BY <1>1, <2>2, <2>4
    <3>2. from[start[b + 1]] = Rest(b + 1)
      <4> HIDE DEF Rest
      <4> QED BY <2>1, <3>1
    <3> DEFINE c == chars[b]
               p == start[b]
    <3>3. /\ c \in Chars /\ p \in Nat /\ start[b + 1] = p + Len(Escaped(c)) /\ p + Len(Escaped(c)) <= Len(w)
          /\ p >= 2 /\ \A j \in 1..Len(Escaped(c)) : w[p + j - 1] = Escaped(c)[j]
      BY <1>2, <2>2, <3>1
    <3> HIDE DEF c, p
    <3>4. StringStep(w, from, p) = WithChar(c, from[start[b + 1]])
      <4>1. CASE Len(Escaped(c)) = 2
        <5>1. /\ Escaped(c)[1] = "backslash" /\ Escaped(c)[2] \in Escapes /\ c = <<"escaped", Escaped(c)[2]>>
          BY <3>3, <4>1, EscapedFacts
        <5>2. w[p] = "backslash" /\ w[p + 1] = Escaped(c)[2]
          <6>1. w[p + 1 - 1] = Escaped(c)[1] /\ w[p + 2 - 1] = Escaped(c)[2]
            BY <3>3, <4>1
          <6>2. p + 1 - 1 = p /\ p + 2 - 1 = p + 1
            BY <3>3
          <6> QED BY <5>1, <6>1, <6>2
        <5>3. Peek(w, p) = "backslash" /\ Peek(w, p + 1) = w[p + 1]
          BY <1>1, <3>3, <4>1, <5>2 DEF Peek
        <5>4. Width(w, p) = 2 /\ CharAt(w, p) = c
          BY <5>1, <5>2 DEF Width, CharAt
        <5> QED BY <3>3, <4>1, <5>1, <5>2, <5>3, <5>4 DEF StringStep
      <4>2. CASE Len(Escaped(c)) = 1
        <5>1. Escaped(c)[1] \in Plain /\ c = <<Escaped(c)[1]>>
          BY <3>3, <4>2, EscapedFacts
        <5>2. w[p] = Escaped(c)[1]
          <6>1. w[p + 1 - 1] = Escaped(c)[1]
            BY <3>3, <4>2
          <6>2. p + 1 - 1 = p
            BY <3>3
          <6> QED BY <6>1, <6>2
        <5>3. Peek(w, p) = w[p]
          BY <1>1, <3>3, <4>2 DEF Peek
        <5>4. w[p] \notin DOMAIN Decoded
          BY <5>1, <5>2 DEF Decoded, Plain
        <5>5. Width(w, p) = 1 /\ CharAt(w, p) = c
          BY <5>1, <5>2, <5>3, <5>4 DEF Width, CharAt, IsPair, Plain
        <5> QED BY <3>3, <4>2, <5>1, <5>2, <5>3, <5>5 DEF StringStep, Plain
      <4> QED BY <3>3, <4>1, <4>2, EscapedFacts
    <3>5. p \in 1..(Len(w) + 1)
      <4>1. Len(Escaped(c)) \in {1, 2}
        BY <3>3, EscapedFacts
      <4> QED BY <1>1, <3>3, <4>1
    <3>6. from[p] = Value(Atom("string", <<c>> \o SubSeq(chars, b + 1, n)), Len(w) + 1)
      BY <1>3, <3>2, <3>4, <3>5, WithCharFacts
    <3>7. <<c>> \o SubSeq(chars, b + 1, n) = SubSeq(chars, b, n)
      BY <3>1, FirstOf DEF c
    <3> QED BY <2>2, <3>6, <3>7 DEF p
  <2> QED BY <2>3, <2>4
<1>5. from[start[1]] = Rest(1)
  <2>1. 1 \in 1..(n + 1)
    BY <1>1
  <2> HIDE DEF Rest
  <2> QED BY <1>4, <2>1
<1>6. SubSeq(chars, 1, n) = chars
  OBVIOUS
<1> QED BY <1>2, <1>5, <1>6 DEF w, from

--------------------------------------------------------------------------
(* Whole words *)

\* What Past() stands for: the place is the only one of its kind.
LEMMA PastIs ==
  ASSUME NEW w, Len(w) \in Nat, NEW ts, NEW i \in Nat \ {0}, NEW j \in i..(Len(w) + 1),
         \A k \in i..(j - 1) : w[k] \in ts, Peek(w, j) \notin ts
  PROVE  Past(w, i, ts) = j
<1> DEFINE Is(p) == Peek(w, p) \notin ts /\ \A k \in i..(p - 1) : w[k] \in ts
<1>1. ASSUME NEW p \in i..(Len(w) + 1), Is(p) PROVE p = j
  <2>1. CASE p < j
    <3>1. p \in i..(j - 1) /\ Peek(w, p) = w[p]
      BY <2>1 DEF Peek
    <3> QED BY <1>1, <3>1
  <2>2. CASE p > j
    <3>1. j \in i..(p - 1) /\ Peek(w, j) = w[j]
      BY <2>2 DEF Peek
    <3> QED BY <1>1, <3>1
  <2> QED BY <2>1, <2>2
<1>2. Is(j)
  OBVIOUS
<1>3. Past(w, i, ts) = CHOOSE p \in i..(Len(w) + 1) : Is(p)
  BY DEF Past
<1> HIDE DEF Is
<1> QED BY <1>1, <1>2, <1>3

LEMMA NothingSkipped ==
  ASSUME NEW T, NEW w \in Seq(T), "ws" \notin T, NEW i \in 1..(Len(w) + 1)
  PROVE  SkipWs(w, i) = i
<1>1. Peek(w, i) \notin {"ws"} /\ i \in i..(Len(w) + 1) /\ i..(i - 1) = {}
  BY DEF Peek
<1>2. Past(w, i, {"ws"}) = i
  BY <1>1, PastIs
<1> QED BY <1>2 DEF SkipWs

LEMMA NamesFacts ==
  \A t \in Digits \cup Escapes \cup Keywords
      \cup {"ctl", "u_high", "u_low", "u_bmp", "-", "+", "point", "e", "end"} :
    t \notin Names
<1>1. {"u_high", "u_low", "u_bmp"} \subseteq DOMAIN Decoded
  BY DEF Decoded
<1> QED BY <1>1, NamesAssumption, Zenon DEF Marks

\* A word that begins with a quote is read as a string, and nothing may follow it.
LEMMA StringParsed ==
  ASSUME NEW w \in Words, w # <<>>, w[1] = "quote"
  PROVE  json_parse_n(w) = Whole(w, StringsOf(w)[2])
<1> DEFINE nested == NestedIn(w)
           r == StringsOf(w)[2]
<1> HIDE DEF nested
<1>1. Len(w) \in Nat \ {0} /\ Peek(w, 1) = "quote"
  BY DEF Words, Peek
<1>2. \A i \in 1..(Len(w) + 1) : SkipWs(w, i) = i
  BY TokenFacts, NothingSkipped DEF Words
<1>3. ParseString(w, 1) = r
  <2>1. "quote" \notin Names
    BY NamesFacts DEF Escapes
  <2> QED BY <1>1, <2>1 DEF ParseString
<1>4. ParseAt(w, nested, 1) = r
  <2>1. /\ Peek(w, 1) \in Names \cup {"quote"} /\ Peek(w, 1) \notin {"[", "{"}
        /\ Peek(w, 1) \notin Digits \cup {"-"} /\ Peek(w, 1) \notin Keywords
    BY <1>1 DEF Digits, Keywords
  <2> QED BY <1>3, <2>1 DEF ParseAt
<1>5. Spaced(w, r) = r
  <2>1. ReadAs(w, 2, r)
    BY <1>1, StringsRead
  <2>2. ASSUME NEW v \in Seq(Chars), NEW j \in (2 + 1)..(Len(w) + 1), r = Value(Atom("string", v), j)
        PROVE  Spaced(w, r) = r
    <3>1. r.ok /\ r.at = j /\ SkipWs(w, j) = j
      BY <1>2, <2>2 DEF Value
    <3>2. Spaced(w, r) = [r EXCEPT !.at = j]
      BY <3>1 DEF Spaced
    <3>3. [r EXCEPT !.at = j] = Value(Atom("string", v), j)
      BY <2>2, AtReplaced
    <3> QED BY <2>2, <3>2, <3>3
  <2>3. ASSUME NEW j \in Nat, r = Failed(j) PROVE Spaced(w, r) = r
    BY <2>3 DEF Spaced, Failed
  <2> QED BY <2>1, <2>2, <2>3 DEF ReadAs
<1>6. Parse(w, nested, 1) = r
  BY <1>1, <1>2, <1>4, <1>5 DEF Parse
<1> QED BY <1>6 DEF json_parse_n, nested

\* The first token decides; a word of one of the other two families is empty, or no string.
LEMMA NothingParsed ==
  ASSUME NEW T, NEW w \in Seq(T), "ws" \notin T,
         Peek(w, 1) \in {"end", "backslash", "n", "ctl", "u_high", "u_low", "u_bmp", "+", "point", "e"}
  PROVE  json_parse_n(w) = Failed(1)
<1> DEFINE nested == NestedIn(w)
<1> HIDE DEF nested
<1>1. SkipWs(w, 1) = 1
  BY NothingSkipped
<1>2. Peek(w, 1) \notin Names \cup {"quote", "[", "{", "-"} \cup Digits \cup Keywords
  BY NamesFacts DEF Escapes, Digits, Keywords
<1>3. ParseAt(w, nested, 1) = Failed(1)
  BY <1>2 DEF ParseAt
<1>4. Parse(w, nested, 1) = Failed(1)
  <2>1. ~ Failed(1).ok
    BY DEF Failed
  <2> QED BY <1>1, <1>3, <2>1 DEF Parse, Spaced
<1>5. Whole(w, Failed(1)) = Failed(1)
  BY DEF Whole, Failed
<1> QED BY <1>4, <1>5 DEF json_parse_n, nested

LEMMA WholeFacts ==
  /\ \A w, j : ~ Whole(w, Failed(j)).ok
  /\ \A w, v, j : Len(w) \in Nat /\ j \in Nat =>
       /\ Whole(w, Value(v, j)).ok <=> j > Len(w)
       /\ j > Len(w) => Whole(w, Value(v, j)) = Value(v, j)
<1>1. ASSUME NEW w, NEW j PROVE ~ Whole(w, Failed(j)).ok
  BY DEF Whole, Failed
<1>2. ASSUME NEW w, NEW v, NEW j, Len(w) \in Nat, j \in Nat
      PROVE  /\ Whole(w, Value(v, j)).ok <=> j > Len(w)
             /\ j > Len(w) => Whole(w, Value(v, j)) = Value(v, j)
  <2>1. Value(v, j).ok /\ Value(v, j).at = j
    BY DEF Value
  <2>2. Whole(w, Value(v, j)) = IF j <= Len(w) THEN Failed(j) ELSE Value(v, j)
    BY <2>1 DEF Whole
  <2>3. ~ Failed(j).ok
    BY DEF Failed
  <2>4. CASE j <= Len(w)
    BY <1>2, <2>2, <2>3, <2>4
  <2>5. CASE j > Len(w)
    BY <1>2, <2>1, <2>2, <2>5
  <2> QED BY <1>2, <2>4, <2>5
<1> QED BY <1>1, <1>2

LEMMA StringWords ==
  ASSUME NEW w \in Seq(Family["strings"])
  PROVE  /\ w \in Words /\ Len(w) \in Nat /\ \A i \in 1..Len(w) : w[i] \in Family["strings"]
         /\ (w # <<>> /\ w[1] = "quote") \/ json_parse_n(w) = Failed(1)
         /\ json_parse_n(w).ok => w # <<>> /\ w[1] = "quote"
<1>1. Family["strings"] = {"quote", "backslash", "n", "ctl", "u_high", "u_low", "u_bmp"}
  BY DEF Family
<1> DEFINE T == Family["strings"]
<1>2. w \in Seq(T) /\ T \subseteq Tokens
  BY DEF Tokens
<1> HIDE DEF T
<1>3. w \in Words /\ Len(w) \in Nat /\ \A i \in 1..Len(w) : w[i] \in T
  BY <1>2 DEF Words
<1>4. ASSUME ~ (w # <<>> /\ w[1] = "quote") PROVE json_parse_n(w) = Failed(1)
  <2>1. Peek(w, 1) = "end" \/ (Peek(w, 1) \in T /\ Peek(w, 1) # "quote")
    BY <1>2, <1>3, <1>4 DEF Peek
  <2>2. Peek(w, 1) \in {"end", "backslash", "n", "ctl", "u_high", "u_low", "u_bmp", "+", "point", "e"}
    BY <1>1, <2>1 DEF T
  <2>3. "ws" \notin T
    BY <1>1 DEF T
  <2> QED BY <1>2, <2>2, <2>3, NothingParsed
<1>5. ~ Failed(1).ok
  BY DEF Failed
<1> QED BY <1>3, <1>4, <1>5 DEF T

\* A word that was parsed comes to the string it was read as.
LEMMA StringValue ==
  ASSUME NEW w \in Seq(Family["strings"]), json_parse_n(w).ok
  PROVE  \E v \in Seq(Chars) : json_parse_n(w) = Value(Atom("string", v), Len(w) + 1)
<1>1. w \in Words /\ Len(w) \in Nat \ {0} /\ w # <<>> /\ w[1] = "quote"
  BY StringWords DEF Words
<1> DEFINE r == StringsOf(w)[2]
<1>2. json_parse_n(w) = Whole(w, r) /\ ReadAs(w, 2, r)
  BY <1>1, StringParsed, StringsRead
<1> HIDE DEF r
<1>3. \A j : r # Failed(j)
  BY <1>2, WholeFacts
<1>4. PICK v \in Seq(Chars), j \in (2 + 1)..(Len(w) + 1) : r = Value(Atom("string", v), j)
  BY <1>2, <1>3 DEF ReadAs
<1>5. j \in Nat /\ (j > Len(w) => j = Len(w) + 1)
  BY <1>1
<1>6. j > Len(w)
  BY <1>1, <1>2, <1>4, <1>5, WholeFacts
<1> QED BY <1>1, <1>2, <1>4, <1>5, <1>6, WholeFacts

LEMMA EscapeParsed ==
  ASSUME NEW chars \in Seq(Chars)
  PROVE  json_parse_n(Escape(chars)) = Value(Atom("string", chars), Len(Escape(chars)) + 1)
<1> DEFINE w == Escape(chars)
<1>1. w \in Words /\ w[1] = "quote" /\ Len(w) \in Nat \ {0} /\ w # <<>>
  <2>1. w \in Words /\ w[1] = "quote" /\ Len(w) >= 2
    BY EscapeLayout
  <2> HIDE DEF w
  <2> QED BY <2>1 DEF Words
<1>2. StringsOf(w)[2] = Value(Atom("string", chars), Len(w) + 1)
  BY EscapeRead
<1> HIDE DEF w
<1>3. json_parse_n(w) = Whole(w, Value(Atom("string", chars), Len(w) + 1))
  BY <1>1, <1>2, StringParsed
<1>4. json_parse_n(w) = Value(Atom("string", chars), Len(w) + 1)
  BY <1>1, <1>3, WholeFacts
<1> QED BY <1>4 DEF w

--------------------------------------------------------------------------
(* The grammar of strings *)

LEMMA BackslashStep ==
  ASSUME NEW s, Len(s) \in Nat
  PROVE  /\ Backslashes(s, 1) = 0
         /\ \A i \in 1..Len(s) :
              /\ Backslashes(s, i) \in Nat
              /\ Backslashes(s, i + 1) = IF s[i] = "backslash" THEN Backslashes(s, i) + 1 ELSE 0
<1> DEFINE K(i) == {k \in 1..(i - 1) : \A j \in k..(i - 1) : s[j] = "backslash"}
<1>1. \A i : Backslashes(s, i) = Cardinality(K(i))
  BY DEF Backslashes
<1>2. K(1) = {}
  OBVIOUS
<1>3. ASSUME NEW i \in 1..Len(s)
      PROVE  /\ IsFiniteSet(K(i))
             /\ K(i + 1) = (IF s[i] = "backslash" THEN K(i) \cup {i} ELSE {}) /\ i \notin K(i)
  <2>1. IsFiniteSet(1..(i - 1))
    BY FS_Interval
  <2>2. K(i) \subseteq 1..(i - 1)
    OBVIOUS
  <2>3. IsFiniteSet(K(i))
    <3> HIDE DEF K
    <3> QED BY <2>1, <2>2, FS_Subset
  <2>4. i \notin K(i)
    BY <2>2
  <2>5. K(i + 1) = {k \in 1..i : \A j \in k..i : s[j] = "backslash"}
    OBVIOUS
  <2>6. CASE s[i] = "backslash"
    <3>1. ASSUME NEW k \in 1..i, k # i
          PROVE  (\A j \in k..i : s[j] = "backslash") <=> \A j \in k..(i - 1) : s[j] = "backslash"
      <4>1. \A j \in k..i : j = i \/ j \in k..(i - 1)
        OBVIOUS
      <4>2. \A j \in k..(i - 1) : j \in k..i
        OBVIOUS
      <4> QED BY <2>6, <4>1, <4>2
    <3>2. \A j \in i..i : s[j] = "backslash"
      BY <2>6
    <3>3. \A k : k \in 1..i <=> k = i \/ (k \in 1..(i - 1) /\ k # i)
      OBVIOUS
    <3>4. K(i + 1) = K(i) \cup {i}
      BY <2>5, <3>1, <3>2, <3>3
    <3> QED BY <2>3, <2>4, <2>6, <3>4
  <2>7. CASE s[i] # "backslash"
    <3>1. \A k \in 1..i : i \in k..i
      OBVIOUS
    <3>2. K(i + 1) = {}
      BY <2>5, <2>7, <3>1
    <3> QED BY <2>3, <2>4, <2>7, <3>2
  <2> QED BY <2>6, <2>7
<1> HIDE DEF K
<1>4. ASSUME NEW i \in 1..Len(s)
      PROVE  /\ Backslashes(s, i) \in Nat
             /\ Backslashes(s, i + 1) = IF s[i] = "backslash" THEN Backslashes(s, i) + 1 ELSE 0
  <2>1. Cardinality(K(i)) \in Nat /\ Cardinality(K(i) \cup {i}) = Cardinality(K(i)) + 1
    BY <1>3, FS_CardinalityType, FS_AddElement
  <2> QED BY <1>1, <1>3, <2>1, FS_EmptySet
<1> QED BY <1>1, <1>2, <1>4, FS_EmptySet

\* A place of a word may stand there, where odd says whether the backslashes before it are.
Fine(w, odd, i) ==
  IF i = Len(w) \/ w[i] = "quote" THEN odd[i] = (IF i = Len(w) THEN 0 ELSE 1)
  ELSE odd[i] = 1 => w[i] \in Escapes
Oddness(w, odd) ==
  /\ odd \in [2..Len(w) -> {0, 1}] /\ (Len(w) >= 2 => odd[2] = 0)
  /\ \A i \in 2..(Len(w) - 1) : odd[i + 1] = IF w[i] = "backslash" THEN 1 - odd[i] ELSE 0

LEMMA IsQuotedFine ==
  ASSUME NEW w \in Words, Len(w) >= 2
  PROVE  \E odd : /\ Oddness(w, odd)
                  /\ IsQuoted(w) <=> /\ w[1] = "quote" /\ w[Len(w)] = "quote"
                                     /\ \A i \in 2..Len(w) : Fine(w, odd, i)
<1> DEFINE n == Len(w)
           in == SubSeq(w, 2, n - 1)
           odd == [i \in 2..n |-> Backslashes(in, i - 1) % 2]
<1>1. n \in Nat /\ Len(in) = n - 2 /\ \A i \in 1..(n - 2) : in[i] = w[i + 1]
  <2>1. n \in Nat /\ Len(in) = n - 2
    BY DEF Words
  <2>2. ASSUME NEW i \in 1..(n - 2) PROVE in[i] = w[i + 1]
    <3>1. in[i] = w[2 + i - 1] /\ 2 + i - 1 = i + 1
      BY <2>1 DEF Words
    <3> QED BY <3>1
  <2> QED BY <2>1, <2>2
<1> HIDE DEF in
<1>2. /\ Backslashes(in, 1) = 0
      /\ \A i \in 1..(n - 2) : /\ Backslashes(in, i) \in Nat
                               /\ Backslashes(in, i + 1) = IF in[i] = "backslash" THEN Backslashes(in, i) + 1 ELSE 0
  BY <1>1, BackslashStep
<1>3. \A m \in Nat : m % 2 \in {0, 1} /\ (m + 1) % 2 = 1 - (m % 2) /\ 0 % 2 = 0
  OBVIOUS
<1>4. \A i \in 1..(n - 1) : Backslashes(in, i) \in Nat
  <2> SUFFICES ASSUME NEW i \in 1..(n - 1), i # 1 PROVE Backslashes(in, i) \in Nat
    BY <1>2
  <2>1. PICK m \in 1..(n - 2) : i = m + 1
    <3>1. i - 1 \in 1..(n - 2) /\ i = (i - 1) + 1
      BY <1>1
    <3> QED BY <3>1
  <2>2. PICK b \in Nat : b = Backslashes(in, m)
    BY <1>2
  <2>3. Backslashes(in, m + 1) \in {b + 1, 0} /\ b + 1 \in Nat
    BY <1>2, <2>2
  <2> QED BY <2>1, <2>3
<1>5. \A i \in 2..n : i - 1 \in 1..(n - 1) /\ odd[i] = Backslashes(in, i - 1) % 2
  BY <1>1
<1>6. odd \in [2..n -> {0, 1}]
  BY <1>3, <1>4, <1>5
<1> HIDE DEF odd
<1>7. odd[2] = 0
  <2>1. 2 \in 2..n /\ 2 - 1 = 1
    BY <1>1
  <2> QED BY <1>2, <1>3, <1>5, <2>1
<1>8. ASSUME NEW i \in 2..(n - 1)
      PROVE  odd[i + 1] = IF w[i] = "backslash" THEN 1 - odd[i] ELSE 0
  <2>1. i - 1 \in 1..(n - 2) /\ (i - 1) + 1 = i /\ i \in 2..n /\ i + 1 \in 2..n /\ (i + 1) - 1 = i
    BY <1>1
  <2>2. /\ Backslashes(in, i - 1) \in Nat
        /\ Backslashes(in, i) = IF w[i] = "backslash" THEN Backslashes(in, i - 1) + 1 ELSE 0
    BY <1>1, <1>2, <2>1
  <2>3. odd[i] = Backslashes(in, i - 1) % 2 /\ odd[i + 1] = Backslashes(in, i) % 2
    BY <1>5, <2>1
  <2> QED BY <1>3, <2>2, <2>3
<1>9. Oddness(w, odd)
  BY <1>6, <1>7, <1>8 DEF Oddness
<1> DEFINE Inner(i) == IF i > Len(in) \/ in[i] = "quote"
                       THEN Backslashes(in, i) % 2 = (IF i > Len(in) THEN 0 ELSE 1)
                       ELSE Backslashes(in, i) % 2 = 1 => in[i] \in Escapes
<1>10. IsQuoted(w) <=> w[1] = "quote" /\ w[n] = "quote" /\ \A i \in 1..(Len(in) + 1) : Inner(i)
  <2>1. n # 1 /\ n > 1
    BY <1>1
  <2> QED BY <2>1 DEF IsQuoted, in
<1>11. ASSUME NEW i \in 2..n PROVE Inner(i - 1) <=> Fine(w, odd, i)
  <2>1. odd[i] = Backslashes(in, i - 1) % 2
    BY <1>5
  <2>2. CASE i = n
    <3>1. i - 1 > Len(in)
      BY <1>1, <2>2
    <3> QED BY <2>1, <2>2, <3>1 DEF Fine
  <2>3. CASE i # n
    <3>1. i - 1 \in 1..(n - 2) /\ ~ (i - 1 > Len(in)) /\ (i - 1) + 1 = i
      BY <1>1, <2>3
    <3>2. in[i - 1] = w[i]
      BY <1>1, <3>1
    <3> QED BY <2>1, <2>3, <3>1, <3>2 DEF Fine
  <2> QED BY <2>2, <2>3
<1>12. (\A i \in 1..(Len(in) + 1) : Inner(i)) <=> \A i \in 2..n : Fine(w, odd, i)
  <2>1. \A i \in 2..n : i - 1 \in 1..(Len(in) + 1)
    BY <1>1
  <2>2. \A i \in 1..(Len(in) + 1) : i + 1 \in 2..n /\ (i + 1) - 1 = i
    BY <1>1
  <2> HIDE DEF Inner
  <2> QED BY <1>11, <2>1, <2>2
<1> HIDE DEF Inner
<1> QED BY <1>9, <1>10, <1>12

LEMMA WholeWithChar ==
  ASSUME NEW w \in Words, NEW i \in Nat, NEW r, ReadAs(w, i, r), NEW c
  PROVE  Whole(w, WithChar(c, r)).ok <=> Whole(w, r).ok
<1>1. Len(w) \in Nat
  BY PeekFacts
<1>2. ASSUME NEW v, NEW j \in (i + 1)..(Len(w) + 1), r = Value(Atom("string", v), j)
      PROVE  Whole(w, WithChar(c, r)).ok <=> Whole(w, r).ok
  <2>1. WithChar(c, r) = Value(Atom("string", <<c>> \o v), j)
    BY <1>2, WithCharFacts
  <2>2. j \in Nat
    BY <1>1
  <2> QED BY <1>1, <1>2, <2>1, <2>2, WholeFacts
<1>3. ASSUME NEW j, r = Failed(j)
      PROVE  Whole(w, WithChar(c, r)).ok <=> Whole(w, r).ok
  BY <1>3, WithCharFacts
<1> QED BY <1>2, <1>3 DEF ReadAs

\* From a place that no backslash claims on, the word is read to its end exactly when the rest
\* of it is fine: by the last such place where the two would differ.
LEMMA StringAccepted ==
  ASSUME NEW w \in Words, Len(w) >= 2, NEW odd, Oddness(w, odd)
  PROVE  \A i \in 2..Len(w) :
           odd[i] = 0 =>
             (Whole(w, StringsOf(w)[i]).ok <=>
               w[Len(w)] = "quote" /\ \A j \in i..Len(w) : Fine(w, odd, j))
<1> DEFINE n == Len(w)
           from == StringsOf(w)
           Ok(i) == Whole(w, from[i]).ok
           Rest(i) == w[n] = "quote" /\ \A j \in i..n : Fine(w, odd, j)
           Claim(i) == odd[i] = 0 => (Ok(i) <=> Rest(i))
           B == {i \in 2..n : ~ Claim(i)}
<1>1. n \in Nat
  BY PeekFacts
<1>2. \A i \in 1..(n + 1) : from[i] = StringStep(w, from, i) /\ ReadAs(w, i, from[i])
  BY StringsAre, StringsRead
<1> HIDE DEF from
<1>3. \A i \in 2..n : i \in 1..n /\ i \in 1..(n + 1) /\ i \in Nat \ {0} /\ w[i] \in Tokens /\ Peek(w, i) = w[i]
  BY <1>1, PeekFacts
<1>4. ~ Ok(n + 1)
  <2>1. n + 1 \in 1..(n + 1) /\ Peek(w, n + 1) = "end"
    BY <1>1 DEF Peek
  <2>2. from[n + 1] = Failed(n + 1)
    BY <1>2, <2>1 DEF StringStep
  <2> QED BY <2>2, WholeFacts
<1> SUFFICES ASSUME B # {} PROVE FALSE
  <2>1. B = {} => \A i \in 2..n : Claim(i)
    <3> HIDE DEF Claim
    <3> QED OBVIOUS
  <2> QED BY <2>1 DEF from
<1>5. PICK b \in B : \A i \in B : i <= b
  <2>1. B \subseteq 0..n
    <3>1. 2..n \subseteq 0..n
      OBVIOUS
    <3> HIDE DEF Claim
    <3> QED BY <3>1
  <2> HIDE DEF B
  <2> QED BY <1>1, <2>1, Greatest
<1>6. b \in 2..n /\ odd[b] = 0 /\ ~ (Ok(b) <=> Rest(b))
  BY <1>5
<1>7. \A i \in (b + 1)..n : odd[i] = 0 => (Ok(i) <=> Rest(i))
  <2>1. \A i \in (b + 1)..n : i \in 2..n /\ i \notin B
    <3> HIDE DEF Claim
    <3> QED BY <1>1, <1>5, <1>6
  <2> HIDE DEF Ok, Rest
  <2> QED BY <2>1
<1> HIDE DEF B, Claim
<1>8. /\ b \in 1..n /\ b \in 1..(n + 1) /\ b \in Nat \ {0} /\ w[b] \in Tokens /\ Peek(w, b) = w[b]
      /\ w[b] # "end"
  BY <1>3, <1>6, TokenFacts
<1>9. CASE w[b] = "quote"
  <2>1. from[b] = Value(Atom("string", <<>>), b + 1)
    BY <1>2, <1>8, <1>9 DEF StringStep
  <2>2. Ok(b) <=> b = n
    <3>1. Ok(b) <=> b + 1 > n
      BY <1>1, <1>8, <2>1, WholeFacts
    <3> QED BY <1>1, <1>6, <3>1
  <2>3. Fine(w, odd, b) <=> b = n
    BY <1>6, <1>9 DEF Fine
  <2>4. Rest(b) <=> b = n
    <3>1. b \in b..n
      BY <1>1, <1>6
    <3>2. b = n => \A j \in b..n : j = b
      BY <1>1
    <3> QED BY <1>9, <2>3, <3>1, <3>2
  <2> QED BY <1>6, <2>2, <2>4
<1>10. CASE w[b] # "quote" /\ b = n
  <2>1. ~ Rest(b)
    BY <1>10
  <2>2. CASE w[b] = "backslash"
    <3>1. Peek(w, b + 1) \notin Escapes
      BY <1>1, <1>10 DEF Peek, Escapes
    <3>2. from[b] = Failed(b + 1)
      BY <1>2, <1>8, <1>10, <2>2, <3>1 DEF StringStep
    <3> QED BY <1>6, <2>1, <3>2, WholeFacts
  <2>3. CASE w[b] # "backslash"
    <3>1. Peek(w, b + 1) = "end"
      BY <1>1, <1>10 DEF Peek
    <3>2. Width(w, b) = 1
      BY <2>3, <3>1 DEF Width, IsPair
    <3>3. from[b] = WithChar(CharAt(w, b), from[n + 1])
      BY <1>2, <1>8, <1>10, <2>3, <3>2 DEF StringStep
    <3>4. n + 1 \in Nat /\ ReadAs(w, n + 1, from[n + 1])
      BY <1>1, <1>2
    <3>5. Ok(b) <=> Ok(n + 1)
      BY <3>3, <3>4, WholeWithChar
    <3> QED BY <1>4, <1>6, <2>1, <3>5
  <2> QED BY <2>2, <2>3
<1>11. CASE w[b] # "quote" /\ b # n
  <2>1. /\ b \in 2..(n - 1) /\ b + 1 \in 2..n /\ b + 1 \in (b + 1)..n
        /\ b + 2 \in 1..(n + 1) /\ b + 2 \in Nat /\ b + 1 \in 1..(n + 1) /\ b + 1 \in Nat
    BY <1>1, <1>6, <1>11
  <2>2. odd[b + 1] = (IF w[b] = "backslash" THEN 1 ELSE 0) /\ Fine(w, odd, b)
    <3>1. odd[b + 1] = IF w[b] = "backslash" THEN 1 - odd[b] ELSE 0
      BY <2>1 DEF Oddness
    <3> QED BY <1>6, <1>11, <3>1 DEF Fine
  <2>3. Rest(b) <=> Rest(b + 1)
    <3>1. \A j \in b..n : j = b \/ j \in (b + 1)..n
      BY <1>1, <1>6
    <3>2. \A j \in (b + 1)..n : j \in b..n
      BY <1>1, <1>6
    <3> QED BY <2>2, <3>1, <3>2
  <2>4. ASSUME b + 1 # n
        PROVE  /\ b + 1 \in 2..(n - 1) /\ b + 2 \in 2..n /\ b + 2 \in (b + 1)..n
               /\ Fine(w, odd, b + 1) => (Rest(b + 1) <=> Rest(b + 2))
               /\ ~ Fine(w, odd, b + 1) => ~ Rest(b + 1)
    <3>1. b + 1 \in 2..(n - 1) /\ b + 2 \in 2..n /\ b + 2 \in (b + 1)..n
      BY <1>1, <2>1, <2>4
    <3>2. \A j \in (b + 1)..n : j = b + 1 \/ j \in (b + 2)..n
      BY <1>1, <1>6
    <3>3. \A j \in (b + 2)..n : j \in (b + 1)..n
      BY <1>1, <1>6
    <3> QED BY <2>1, <3>1, <3>2, <3>3
  <2>5. Peek(w, b + 1) = w[b + 1] /\ w[b + 1] \in Tokens
    BY <1>3, <2>1
  <2>6. ASSUME NEW c, from[b] = WithChar(c, from[b + 2]),
               \/ odd[b + 1] = 1 /\ w[b + 1] \in Escapes
               \/ odd[b + 1] = 0 /\ w[b + 1] \notin {"quote", "backslash"}
        PROVE  FALSE
    <3>1. Ok(b) <=> Ok(b + 2)
      <4>1. ReadAs(w, b + 2, from[b + 2])
        BY <1>2, <2>1
      <4> QED BY <2>1, <2>6, <4>1, WholeWithChar
    <3>2. CASE b + 1 = n
      <4>1. ~ Ok(b) 
        <5>1. b + 2 = n + 1
          BY <1>1, <1>6, <3>2
        <5> QED BY <1>4, <3>1, <5>1
      <4>2. ~ Rest(b + 1)
        <5>1. odd[b + 1] = 1 => ~ Fine(w, odd, b + 1)
          BY <3>2 DEF Fine
        <5> QED BY <2>1, <2>6, <3>2, <5>1
      <4> QED BY <1>6, <2>3, <4>1, <4>2
    <3>3. CASE b + 1 # n
      <4>1. Fine(w, odd, b + 1)
        BY <2>6, <3>3 DEF Fine
      <4>2. odd[b + 2] = 0
        <5>1. odd[(b + 1) + 1] = IF w[b + 1] = "backslash" THEN 1 - odd[b + 1] ELSE 0
          BY <2>4, <3>3 DEF Oddness
        <5>2. (b + 1) + 1 = b + 2
          BY <1>6
        <5> QED BY <2>6, <5>1, <5>2
      <4>3. Ok(b + 2) <=> Rest(b + 2)
        <5> HIDE DEF Ok, Rest
        <5> QED BY <1>7, <2>4, <3>3, <4>2
      <4> HIDE DEF Ok, Rest
      <4> QED BY <1>6, <2>3, <2>4, <3>1, <3>3, <4>1, <4>3
    <3> QED BY <3>2, <3>3
  <2>7. CASE w[b] = "backslash" /\ w[b + 1] \notin Escapes
    <3>1. from[b] = Failed(b + 1)
      BY <1>2, <1>8, <2>5, <2>7 DEF StringStep
    <3>2. ~ Ok(b)
      BY <3>1, WholeFacts
    <3>3. ~ Fine(w, odd, b + 1)
      <4>1. odd[b + 1] = 1 /\ w[b + 1] # "quote"
        BY <2>2, <2>7 DEF Escapes
      <4> QED BY <2>7, <4>1 DEF Fine
    <3>4. ~ Rest(b + 1)
      BY <2>1, <3>3
    <3> QED BY <1>6, <2>3, <3>2, <3>4
  <2>8. CASE w[b] = "backslash" /\ w[b + 1] \in Escapes
    <3>1. Width(w, b) = 2
      BY <2>8 DEF Width
    <3>2. from[b] = WithChar(CharAt(w, b), from[b + 2])
      BY <1>2, <1>8, <2>5, <2>8, <3>1 DEF StringStep
    <3> QED BY <2>2, <2>6, <2>8, <3>2
  <2>9. CASE w[b] # "backslash" /\ IsPair(w, b)
    <3>1. Width(w, b) = 2 /\ w[b + 1] = "u_low"
      BY <2>5, <2>9 DEF Width, IsPair
    <3>2. from[b] = WithChar(CharAt(w, b), from[b + 2])
      BY <1>2, <1>8, <1>11, <2>9, <3>1 DEF StringStep
    <3> QED BY <2>2, <2>6, <2>9, <3>1, <3>2
  <2>10. CASE w[b] # "backslash" /\ ~ IsPair(w, b)
    <3>1. Width(w, b) = 1
      BY <2>10 DEF Width
    <3>2. from[b] = WithChar(CharAt(w, b), from[b + 1])
      BY <1>2, <1>8, <1>11, <2>10, <3>1 DEF StringStep
    <3>3. ReadAs(w, b + 1, from[b + 1])
      BY <1>2, <2>1
    <3>4. Ok(b) <=> Ok(b + 1)
      BY <2>1, <3>2, <3>3, WholeWithChar
    <3>5. Ok(b + 1) <=> Rest(b + 1)
      <4> HIDE DEF Ok, Rest
      <4> QED BY <1>7, <2>1, <2>2, <2>10
    <3> QED BY <1>6, <2>3, <3>4, <3>5
  <2> QED BY <2>7, <2>8, <2>9, <2>10
<1> QED BY <1>9, <1>10, <1>11

LEMMA OkIsBoolean ==
  ASSUME NEW w \in Seq(Family["strings"])
  PROVE  json_parse_n(w).ok \in BOOLEAN
<1>1. \A j : Failed(j).ok \in BOOLEAN
  BY DEF Failed
<1>2. \A v, j : Value(v, j).ok \in BOOLEAN
  BY DEF Value
<1>3. CASE json_parse_n(w) = Failed(1)
  BY <1>1, <1>3
<1>4. CASE w # <<>> /\ w[1] = "quote"
  <2>1. w \in Words /\ 2 \in 1..(Len(w) + 1)
    <3>1. w \in Words /\ Len(w) \in Nat /\ Len(w) # 0
      BY <1>4, StringWords
    <3> QED BY <3>1
  <2> DEFINE r == StringsOf(w)[2]
  <2>2. json_parse_n(w) = Whole(w, r) /\ ReadAs(w, 2, r)
    BY <1>4, <2>1, StringParsed, StringsRead
  <2> HIDE DEF r
  <2>3. r.ok \in BOOLEAN
    BY <1>1, <1>2, <2>2 DEF ReadAs
  <2>4. Whole(w, r) = r \/ Whole(w, r) = Failed(r.at)
    BY DEF Whole
  <2> QED BY <1>1, <2>2, <2>3, <2>4
<1> QED BY <1>3, <1>4, StringWords

LEMMA StringsAccepted ==
  ASSUME NEW w \in Seq(Family["strings"])
  PROVE  json_parse_n(w).ok <=> IsQuoted(w)
<1>1. w \in Words /\ Len(w) \in Nat /\ (json_parse_n(w).ok => w # <<>> /\ w[1] = "quote")
  BY StringWords
<1>2. ASSUME Len(w) < 2 PROVE ~ json_parse_n(w).ok /\ ~ IsQuoted(w)
  <2>1. ~ IsQuoted(w)
    <3>1. Len(w) = 1 => w[1] \notin Names
      <4>1. Len(w) = 1 => w[1] \in Family["strings"]
        BY StringWords
      <4>2. \A t \in Family["strings"] : t \notin Names
        BY NamesFacts DEF Family, Escapes
      <4> QED BY <4>1, <4>2
    <3> QED BY <1>1, <1>2, <3>1 DEF IsQuoted
  <2>2. ASSUME json_parse_n(w).ok PROVE FALSE
    <3>1. w # <<>> /\ w[1] = "quote" /\ Len(w) = 1
      <4>1. w # <<>> /\ w[1] = "quote"
        BY <1>1, <2>2
      <4>2. Len(w) # 0
        BY <4>1
      <4>3. Len(w) \in Nat /\ Len(w) < 2
        BY <1>1, <1>2
      <4>4. Len(w) = 1
        <5>1. \A l \in Nat : l < 2 /\ l # 0 => l = 1
          OBVIOUS
        <5> QED BY <4>2, <4>3, <5>1, Zenon
      <4> QED BY <4>1, <4>4
    <3>2. StringsOf(w)[2] = Failed(2)
      <4>1. 2 \in 1..(Len(w) + 1) /\ Peek(w, 2) = "end"
        BY <3>1 DEF Peek
      <4> QED BY <1>1, <4>1, StringsAre DEF StringStep
    <3>3. json_parse_n(w) = Whole(w, Failed(2))
      BY <1>1, <3>1, <3>2, StringParsed
    <3> QED BY <2>2, <3>3, WholeFacts
  <2> QED BY <2>1, <2>2
<1>3. ASSUME Len(w) >= 2 PROVE json_parse_n(w).ok <=> IsQuoted(w)
  <2>1. PICK odd : /\ Oddness(w, odd)
                   /\ IsQuoted(w) <=> /\ w[1] = "quote" /\ w[Len(w)] = "quote"
                                      /\ \A i \in 2..Len(w) : Fine(w, odd, i)
    BY <1>1, <1>3, IsQuotedFine
  <2>2. 2 \in 2..Len(w) /\ odd[2] = 0 /\ w # <<>>
    BY <1>1, <1>3, <2>1 DEF Oddness
  <2>3. Whole(w, StringsOf(w)[2]).ok <=> w[Len(w)] = "quote" /\ \A i \in 2..Len(w) : Fine(w, odd, i)
    BY <1>1, <1>3, <2>1, <2>2, StringAccepted
  <2>4. w[1] = "quote" => json_parse_n(w) = Whole(w, StringsOf(w)[2])
    BY <1>1, <2>2, StringParsed
  <2> QED BY <1>1, <2>1, <2>3, <2>4
<1> QED BY <1>1, <1>2, <1>3

--------------------------------------------------------------------------
(* The grammar of words without brackets *)

Openers == {"[", "{"}
Closers == {"]", "}"}
Comma == ","
Colon == ":"

LEMMA BracketFacts ==
  \A a, b : <<a, b>> \in Brackets <=> a \in Openers /\ b = Closing(a)
BY Zenon DEF Brackets, Openers, Closing

LEMMA TrimmedFacts ==
  \A w, i, j, s : s \in Trimmed(w, i, j) <=>
    /\ s = <<s[1], s[2]>> /\ s[1] \in i..j /\ s[2] \in i..j /\ s[1] < s[2]
    /\ Blank(w, i, s[1]) /\ Blank(w, s[2], j)
BY DEF Trimmed

\* Without white space and brackets, a text is a number or a string.
LEMMA FlatTexts ==
  ASSUME NEW T, NEW w \in Seq(T), "ws" \notin T, T \cap Openers = {}, T \cap Keywords = {}
  PROVE  /\ IsText(w) <=> IsNumber(w) \/ IsString(w)
         /\ ~ Hollow(w)
<1>1. Len(w) \in Nat /\ DOMAIN w = 1..Len(w)
      /\ \A i \in 1..Len(w) : w[i] # "ws" /\ w[i] \notin Openers /\ w[i] \notin Keywords
  OBVIOUS
<1>2. SubSeq(w, 1, Len(w)) = w
  OBVIOUS
<1>3. ASSUME NEW s \in Trimmed(w, 1, Len(w) + 1) PROVE s[1] = 1 /\ s[2] = Len(w) + 1 /\ Len(w) >= 1
  <2>1. /\ s[1] \in 1..(Len(w) + 1) /\ s[2] \in 1..(Len(w) + 1) /\ s[1] < s[2]
        /\ Blank(w, 1, s[1]) /\ Blank(w, s[2], Len(w) + 1)
    BY TrimmedFacts
  <2>2. s[1] # 1 => 1 \in 1..(s[1] - 1) /\ 1 \in 1..Len(w)
    BY <1>1, <2>1
  <2>3. s[2] # Len(w) + 1 => s[2] \in s[2]..(Len(w) + 1 - 1) /\ s[2] \in 1..Len(w)
    BY <1>1, <2>1
  <2> QED BY <1>1, <2>1, <2>2, <2>3 DEF Blank
<1>4. ASSUME IsText(w) PROVE IsNumber(w) \/ IsString(w)
  <2>1. PICK s \in Trimmed(w, 1, Len(w) + 1) :
          LET text == SubSeq(w, s[1], s[2] - 1)
          IN  \/ Len(text) = 1 /\ text[1] \in Keywords
              \/ IsNumber(text) \/ IsString(text)
              \/ /\ <<w[s[1]], w[s[2] - 1]>> \in Brackets
                 /\ Blank(w, s[1] + 1, s[2] - 1) \/ Lists(w)[<<w[s[1]], s[1] + 1, s[2] - 1>>]
    BY <1>4 DEF IsText, IsTextIn
  <2>2. SubSeq(w, s[1], s[2] - 1) = w /\ s[1] = 1
    BY <1>1, <1>2, <1>3
  <2>3. <<w[s[1]], w[s[2] - 1]>> \notin Brackets
    BY <1>1, <1>3, BracketFacts
  <2>4. ~ (Len(w) = 1 /\ w[1] \in Keywords)
    BY <1>1
  <2> QED BY <2>1, <2>2, <2>3, <2>4
<1>5. ASSUME IsNumber(w) \/ IsString(w) PROVE IsText(w)
  <2>1. Len(w) >= 1
    BY <1>1, <1>5 DEF IsNumber, IsString, IsQuoted
  <2> DEFINE s == <<1, Len(w) + 1>>
  <2>2. s \in Trimmed(w, 1, Len(w) + 1)
    BY <1>1, <2>1 DEF Trimmed, Blank
  <2>3. SubSeq(w, s[1], s[2] - 1) = w
    BY <1>1, <1>2
  <2> HIDE DEF s
  <2> QED BY <1>5, <2>2, <2>3 DEF IsText, IsTextIn
<1>6. ~ Hollow(w)
  BY <1>1, BracketFacts DEF Hollow
<1> QED BY <1>4, <1>5, <1>6

\* A number begins with a digit, behind the sign.
LEMMA NumberBegins ==
  ASSUME NEW T, NEW w \in Seq(T), IsNumber(w)
  PROVE  T \cap Digits # {}
<1> DEFINE x == IF w[1] = "-" THEN Tail(w) ELSE w
<1>1. x \in Seq(T) /\ IsUnsigned(x)
  BY DEF IsNumber
<1> HIDE DEF x
<1>2. PICK i \in 1..(Len(x) + 1) : IsInt(SubSeq(x, 1, i - 1))
  BY <1>1 DEF IsUnsigned
<1> DEFINE d == SubSeq(x, 1, i - 1)
<1>3. d \in Seq(T) /\ d # <<>> /\ \A k \in DOMAIN d : d[k] \in Digits
  BY <1>1, <1>2 DEF IsInt, IsDigits, AllIn
<1> HIDE DEF d
<1>4. 1 \in DOMAIN d /\ d[1] \in T
  BY <1>3
<1> QED BY <1>3, <1>4

--------------------------------------------------------------------------
(* The grammar of numbers *)

\* The integer of a number is in a..(b - 1), its fraction in b..(c - 1), and its exponent behind.
Sign(w) == IF w[1] = "-" THEN 2 ELSE 1
AllDigits(w, i, j) == \A k \in i..j : w[k] \in Digits
IntegerAt(w, a, b) == a < b /\ AllDigits(w, a, b - 1)
FractionAt(w, b, c) == b = c \/ (b + 1 < c /\ w[b] = "point" /\ AllDigits(w, b + 1, c - 1))
ExponentAt(w, c) ==
  \/ c = Len(w) + 1
  \/ c < Len(w) /\ w[c] = "e" /\ AllDigits(w, c + 1, Len(w))
  \/ c + 1 < Len(w) /\ w[c] = "e" /\ w[c + 1] \in {"-", "+"} /\ AllDigits(w, c + 2, Len(w))

LEMMA DigitsPart ==
  ASSUME NEW T, NEW x \in Seq(T), NEW i \in 1..(Len(x) + 1), NEW j \in 0..Len(x), i <= j + 1
  PROVE  /\ SubSeq(x, i, j) \in Seq(T) /\ Len(SubSeq(x, i, j)) = j - i + 1
         /\ SubSeq(x, i, j) = <<>> <=> i = j + 1
         /\ \A k \in 1..(j - i + 1) : SubSeq(x, i, j)[k] = x[i + k - 1]
         /\ AllIn(SubSeq(x, i, j), Digits) <=> AllDigits(x, i, j)
<1> DEFINE y == SubSeq(x, i, j)
<1>1. y \in Seq(T) /\ Len(y) = j - i + 1 /\ \A k \in 1..(j - i + 1) : y[k] = x[i + k - 1]
  OBVIOUS
<1>2. y = <<>> <=> i = j + 1
  <2>1. y = <<>> <=> Len(y) = 0
    BY <1>1
  <2> QED BY <1>1, <2>1
<1> HIDE DEF y
<1>3. DOMAIN y = 1..(j - i + 1)
  BY <1>1
<1>4. AllIn(y, Digits) <=> AllDigits(x, i, j)
  <2>1. \A k \in i..j : k - i + 1 \in 1..(j - i + 1) /\ i + (k - i + 1) - 1 = k
    OBVIOUS
  <2>2. \A k \in 1..(j - i + 1) : i + k - 1 \in i..j
    OBVIOUS
  <2> QED BY <1>1, <1>3, <2>1, <2>2 DEF AllIn, AllDigits
<1> QED BY <1>1, <1>2, <1>4 DEF y

LEMMA TailPart ==
  ASSUME NEW T, NEW x \in Seq(T), NEW i \in 1..Len(x), NEW j \in 1..Len(x), i <= j
  PROVE  Head(SubSeq(x, i, j)) = x[i] /\ Tail(SubSeq(x, i, j)) = SubSeq(x, i + 1, j)
<1> DEFINE y == SubSeq(x, i, j)
           z == SubSeq(x, i + 1, j)
<1>1. y \in Seq(T) /\ Len(y) = j - i + 1 /\ \A k \in 1..(j - i + 1) : y[k] = x[i + k - 1]
  OBVIOUS
<1>2. z \in Seq(T) /\ Len(z) = j - i /\ \A k \in 1..(j - i) : z[k] = x[i + k]
  OBVIOUS
<1> HIDE DEF y, z
<1>3. Head(y) = x[i]
  <2>1. 1 \in 1..(j - i + 1) /\ i + 1 - 1 = i /\ y # <<>>
    BY <1>1
  <2> QED BY <1>1, <2>1
<1>4. Tail(y) = z
  <2>1. Tail(y) \in Seq(T) /\ Len(Tail(y)) = j - i /\ \A k \in 1..(j - i) : Tail(y)[k] = y[k + 1]
    BY <1>1
  <2>2. \A k \in 1..(j - i) : k + 1 \in 1..(j - i + 1) /\ i + (k + 1) - 1 = i + k
    OBVIOUS
  <2>3. \A k \in 1..(j - i) : Tail(y)[k] = z[k]
    BY <1>1, <1>2, <2>1, <2>2
  <2> QED BY <1>2, <2>1, <2>3, SeqEqual
<1> QED BY <1>3, <1>4 DEF y, z

LEMMA UnsignedPlaces ==
  ASSUME NEW T, NEW x \in Seq(T), IsUnsigned(x)
  PROVE  \E i, j \in 1..(Len(x) + 1) :
           i <= j /\ IntegerAt(x, 1, i) /\ FractionAt(x, i, j) /\ ExponentAt(x, j)
<1> DEFINE n == Len(x)
<1>1. PICK i, j \in 1..(n + 1) :
        LET int == SubSeq(x, 1, i - 1)
            frac == SubSeq(x, i, j - 1)
            exp == SubSeq(x, j, n)
        IN  /\ i <= j /\ IsInt(int)
            /\ frac # <<>> => Head(frac) = "point" /\ IsDigits(Tail(frac))
            /\ exp # <<>> => /\ Head(exp) = "e" /\ Len(exp) > 1
                             /\ IsDigits(Tail(exp)) \/ (exp[2] \in {"-", "+"} /\ IsDigits(Tail(Tail(exp))))
  BY DEF IsUnsigned
<1>2. n \in Nat /\ i \in Nat \ {0} /\ j \in Nat \ {0} /\ i <= j /\ j <= n + 1
  BY <1>1
<1>3. IntegerAt(x, 1, i)
  <2> DEFINE int == SubSeq(x, 1, i - 1)
  <2>1. int # <<>> /\ AllIn(int, Digits)
    BY <1>1 DEF IsInt, IsDigits
  <2>2. 1 \in 1..(n + 1) /\ i - 1 \in 0..n /\ 1 <= (i - 1) + 1
    BY <1>2
  <2>3. (int = <<>> <=> 1 = (i - 1) + 1) /\ (AllIn(int, Digits) <=> AllDigits(x, 1, i - 1))
    BY <2>2, DigitsPart
  <2> HIDE DEF int
  <2> QED BY <1>2, <2>1, <2>3 DEF IntegerAt
<1>4. FractionAt(x, i, j)
  <2> SUFFICES ASSUME i # j PROVE i + 1 < j /\ x[i] = "point" /\ AllDigits(x, i + 1, j - 1)
    BY DEF FractionAt
  <2> DEFINE frac == SubSeq(x, i, j - 1)
  <2>1. i \in 1..(n + 1) /\ i \in 1..n /\ j - 1 \in 0..n /\ j - 1 \in 1..n /\ i <= (j - 1) + 1 /\ i <= j - 1 /\ i # (j - 1) + 1
    BY <1>2
  <2>2. frac # <<>>
    BY <2>1, DigitsPart
  <2>3. Head(frac) = "point" /\ IsDigits(Tail(frac))
    BY <1>1, <2>2
  <2>4. Head(frac) = x[i] /\ Tail(frac) = SubSeq(x, i + 1, j - 1)
    BY <2>1, TailPart
  <2> HIDE DEF frac
  <2>5. SubSeq(x, i + 1, j - 1) # <<>> /\ AllIn(SubSeq(x, i + 1, j - 1), Digits)
    BY <2>3, <2>4 DEF IsDigits
  <2>6. i + 1 \in 1..(n + 1) /\ i + 1 <= (j - 1) + 1
    BY <2>1
  <2>7. i + 1 # (j - 1) + 1 /\ AllDigits(x, i + 1, j - 1)
    BY <2>1, <2>5, <2>6, DigitsPart
  <2> QED BY <1>2, <2>3, <2>4, <2>6, <2>7
<1>5. ExponentAt(x, j)
  <2> SUFFICES ASSUME j # n + 1
               PROVE  /\ x[j] = "e"
                      /\ \/ j < n /\ AllDigits(x, j + 1, n)
                         \/ j + 1 < n /\ x[j + 1] \in {"-", "+"} /\ AllDigits(x, j + 2, n)
    BY DEF ExponentAt
  <2> DEFINE exp == SubSeq(x, j, n)
             tail == SubSeq(x, j + 1, n)
  <2>1. j \in 1..n /\ n \in 0..n /\ n \in 1..n /\ j <= n /\ j <= n + 1 /\ j \in 1..(n + 1) /\ 2 - 1 = 1
    BY <1>2
  <2>2. /\ exp # <<>> /\ Len(exp) = n - j + 1 /\ \A k \in 1..(n - j + 1) : exp[k] = x[j + k - 1]
    <3>1. Len(exp) = n - j + 1 /\ \A k \in 1..(n - j + 1) : exp[k] = x[j + k - 1]
      BY <2>1, DigitsPart
    <3>2. Len(exp) # 0
      BY <2>1, <3>1
    <3> HIDE DEF exp
    <3>3. exp # <<>>
      BY <3>2
    <3> QED BY <3>1, <3>3
  <2>3. Head(exp) = x[j] /\ Tail(exp) = tail
    BY <2>1, TailPart
  <2>4. /\ Head(exp) = "e" /\ Len(exp) > 1
        /\ IsDigits(Tail(exp)) \/ (exp[2] \in {"-", "+"} /\ IsDigits(Tail(Tail(exp))))
    BY <1>1, <2>2
  <2> HIDE DEF exp
  <2>5. j < n /\ j + 1 \in 1..n /\ j + 1 <= n /\ j + 1 \in 1..(n + 1) /\ j + 1 <= n + 1
    BY <1>2, <2>2, <2>4
  <2>6. CASE IsDigits(tail)
    <3>1. AllIn(tail, Digits)
      BY <2>6 DEF IsDigits
    <3>2. AllDigits(x, j + 1, n)
      BY <2>1, <2>5, <3>1, DigitsPart
    <3> QED BY <2>3, <2>4, <2>5, <3>2
  <2>7. CASE exp[2] \in {"-", "+"} /\ IsDigits(Tail(tail))
    <3>1. Tail(tail) = SubSeq(x, (j + 1) + 1, n) /\ (j + 1) + 1 = j + 2
      BY <1>2, <2>1, <2>5, TailPart
    <3>2. SubSeq(x, j + 2, n) # <<>> /\ AllIn(SubSeq(x, j + 2, n), Digits)
      BY <2>7, <3>1 DEF IsDigits
    <3>3. j + 2 \in 1..(n + 1) /\ j + 2 <= n + 1
      BY <2>5
    <3>4. j + 2 # n + 1 /\ AllDigits(x, j + 2, n)
      BY <2>1, <3>2, <3>3, DigitsPart
    <3>5. exp[2] = x[j + 1]
      <4>1. 2 \in 1..(n - j + 1) /\ j + 2 - 1 = j + 1
        BY <2>5
      <4> QED BY <2>2, <4>1
    <3> QED BY <1>2, <2>3, <2>4, <2>7, <3>3, <3>4, <3>5
  <2> HIDE DEF tail
  <2> QED BY <2>3, <2>4, <2>6, <2>7
<1> QED BY <1>1, <1>2, <1>3, <1>4, <1>5

LEMMA NumberPlaces ==
  ASSUME NEW T, NEW w \in Seq(T), IsNumber(w)
  PROVE  \E b, c \in 1..(Len(w) + 1) :
           b <= c /\ IntegerAt(w, Sign(w), b) /\ FractionAt(w, b, c) /\ ExponentAt(w, c)
<1>1. w # <<>> /\ IsUnsigned(IF w[1] = "-" THEN Tail(w) ELSE w)
  BY DEF IsNumber
<1>2. CASE w[1] # "-"
  BY <1>1, <1>2, UnsignedPlaces DEF Sign
<1>3. CASE w[1] = "-"
  <2> DEFINE x == Tail(w)
             n == Len(x)
  <2>1. x \in Seq(T) /\ Len(w) = n + 1 /\ n \in Nat /\ \A k \in 1..n : w[k + 1] = x[k]
    BY <1>1
  <2> HIDE DEF x
  <2>2. PICK i, j \in 1..(n + 1) :
          i <= j /\ IntegerAt(x, 1, i) /\ FractionAt(x, i, j) /\ ExponentAt(x, j)
    BY <1>1, <1>3, <2>1, UnsignedPlaces DEF x
  <2>3. ASSUME NEW k \in Nat, NEW l \in Nat, 1 <= k, l <= n, AllDigits(x, k, l)
        PROVE  AllDigits(w, k + 1, l + 1)
    <3>1. ASSUME NEW m \in (k + 1)..(l + 1) PROVE w[m] \in Digits
      <4>1. m - 1 \in k..l /\ m - 1 \in 1..n /\ (m - 1) + 1 = m
        BY <2>1, <2>3
      <4>2. w[(m - 1) + 1] = x[m - 1]
        BY <2>1, <4>1
      <4> QED BY <2>3, <4>1, <4>2 DEF AllDigits
    <3> QED BY <3>1 DEF AllDigits
  <2>4. IntegerAt(w, 2, i + 1)
    <3>1. 1 < i /\ AllDigits(x, 1, i - 1) /\ i - 1 \in Nat /\ i - 1 <= n
      BY <2>1, <2>2 DEF IntegerAt
    <3>2. AllDigits(w, 1 + 1, (i - 1) + 1)
      BY <2>3, <3>1
    <3>3. 1 + 1 = 2 /\ (i - 1) + 1 = i /\ (i + 1) - 1 = i /\ 2 < i + 1
      BY <3>1
    <3> QED BY <3>2, <3>3 DEF IntegerAt
  <2>5. FractionAt(w, i + 1, j + 1)
    <3>1. CASE i = j
      BY <3>1 DEF FractionAt
    <3>2. CASE i # j
      <4>1. i + 1 < j /\ x[i] = "point" /\ AllDigits(x, i + 1, j - 1)
        BY <2>2, <3>2 DEF FractionAt
      <4>2. i \in 1..n /\ i + 1 \in Nat /\ j - 1 \in Nat /\ 1 <= i + 1 /\ j - 1 <= n
        BY <2>1, <4>1
      <4>3. AllDigits(w, (i + 1) + 1, (j - 1) + 1) /\ w[i + 1] = "point"
        BY <2>1, <2>3, <4>1, <4>2
      <4>4. (j - 1) + 1 = (j + 1) - 1 /\ (i + 1) + 1 < j + 1
        BY <4>1, <4>2
      <4> QED BY <4>3, <4>4 DEF FractionAt
    <3> QED BY <3>1, <3>2
  <2>6. ExponentAt(w, j + 1)
    <3>1. CASE j = n + 1
      BY <2>1, <3>1 DEF ExponentAt
    <3>2. CASE j < n /\ x[j] = "e" /\ AllDigits(x, j + 1, n)
      <4>1. j \in 1..n /\ j + 1 \in Nat /\ 1 <= j + 1 /\ n <= n
        BY <2>1, <3>2
      <4>2. AllDigits(w, (j + 1) + 1, n + 1) /\ w[j + 1] = "e"
        BY <2>1, <2>3, <3>2, <4>1
      <4>3. j + 1 < Len(w)
        BY <2>1, <3>2
      <4> QED BY <2>1, <4>2, <4>3 DEF ExponentAt
    <3>3. CASE j + 1 < n /\ x[j] = "e" /\ x[j + 1] \in {"-", "+"} /\ AllDigits(x, j + 2, n)
      <4>1. j \in 1..n /\ j + 1 \in 1..n /\ j + 2 \in Nat /\ 1 <= j + 2 /\ n <= n
        BY <2>1, <3>3
      <4>2. AllDigits(w, (j + 2) + 1, n + 1) /\ w[j + 1] = "e" /\ w[(j + 1) + 1] = x[j + 1]
        BY <2>1, <2>3, <3>3, <4>1
      <4>3. (j + 1) + 1 < Len(w) /\ (j + 2) + 1 = (j + 1) + 2
        BY <2>1, <3>3
      <4> QED BY <2>1, <3>3, <4>2, <4>3 DEF ExponentAt
    <3> QED BY <2>2, <3>1, <3>2, <3>3 DEF ExponentAt
  <2>7. i + 1 \in 1..(Len(w) + 1) /\ j + 1 \in 1..(Len(w) + 1) /\ i + 1 <= j + 1 /\ Sign(w) = 2
    BY <1>3, <2>1, <2>2 DEF Sign
  <2> QED BY <2>4, <2>5, <2>6, <2>7
<1> QED BY <1>2, <1>3

\* A number that fits into the buffer is read to the end of the word.
LEMMA NumberRead ==
  ASSUME NEW T, NEW w \in Seq(T), IsNumber(w), Len(w) < NumberSize
  PROVE  \E v : ParseNumber(w, 1) = Value(v, Len(w) + 1)
<1> DEFINE n == Len(w)
           a == Sign(w)
<1>1. n \in Nat /\ a \in {1, 2}
  BY DEF Sign
<1>2. PICK b, c \in 1..(n + 1) : b <= c /\ IntegerAt(w, a, b) /\ FractionAt(w, b, c) /\ ExponentAt(w, c)
  BY NumberPlaces
<1> HIDE DEF a
<1>3. \A i \in 1..n : Peek(w, i) = w[i]
  BY DEF Peek
<1>4. Peek(w, n + 1) = "end" /\ {"end", "point", "e", "-", "+"} \cap Digits = {}
  BY <1>1 DEF Peek, Digits
<1>5. Peek(w, c) = (IF c = n + 1 THEN "end" ELSE "e")
  <2>1. c # n + 1 => w[c] = "e" /\ c \in 1..n
    BY <1>1, <1>2 DEF ExponentAt
  <2> QED BY <1>3, <1>4, <2>1
<1>6. /\ Peek(w, b) = (IF b = c THEN Peek(w, c) ELSE "point")
      /\ b # c => b + 1 < c /\ AllDigits(w, b + 1, c - 1)
  <2>1. b # c => w[b] = "point" /\ b \in 1..n /\ b + 1 < c /\ AllDigits(w, b + 1, c - 1)
    BY <1>1, <1>2 DEF FractionAt
  <2> QED BY <1>3, <2>1
<1>7. Past(w, a, Digits) = b /\ a < b
  <2>1. a < b /\ a \in Nat \ {0} /\ b \in a..(Len(w) + 1) /\ \A k \in a..(b - 1) : w[k] \in Digits
    BY <1>1, <1>2 DEF IntegerAt, AllDigits
  <2>2. Peek(w, b) \notin Digits
    BY <1>4, <1>5, <1>6
  <2> QED BY <1>1, <2>1, <2>2, PastIs
<1>8. Mantissa(w, b) = c
  <2>1. CASE b = c
    BY <1>5, <1>6, <2>1 DEF Mantissa
  <2>2. CASE b # c
    <3>1. b + 1 \in Nat \ {0} /\ c \in (b + 1)..(Len(w) + 1) /\ \A k \in (b + 1)..(c - 1) : w[k] \in Digits
      BY <1>1, <1>6, <2>2 DEF AllDigits
    <3>2. Past(w, b + 1, Digits) = c
      BY <1>1, <1>4, <1>5, <3>1, PastIs
    <3> QED BY <1>6, <2>2, <3>2 DEF Mantissa
  <2> QED BY <2>1, <2>2
<1>9. ParseNumber(w, 1) = NumberOf(w, 1, a, b, c)
  <2>1. (IF w[1] = "-" THEN 1 + 1 ELSE 1) = a
    BY DEF Sign, a
  <2> QED BY <1>7, <1>8, <2>1 DEF ParseNumber
<1>10. c # b + 1 /\ a # c
  BY <1>1, <1>2, <1>6, <1>7
<1>11. Scanned(w, 1, n + 1) = Value(Atom("number", SubSeq(w, 1, (n + 1) - 1)), n + 1)
  <2>1. (n + 1) - 1 = n
    BY <1>1
  <2>2. (n + 1) - 1 < NumberSize
    BY <2>1
  <2> QED BY <2>2 DEF Scanned
<1>12. CASE c = n + 1
  <2>1. NumberOf(w, 1, a, b, c) = Scanned(w, 1, n + 1)
    BY <1>5, <1>10, <1>12 DEF NumberOf
  <2> QED BY <1>9, <1>11, <2>1
<1>13. CASE c # n + 1
  <2> DEFINE d == ExponentDigits(w, c)
  <2>1. d \in 1..n /\ AllDigits(w, d, n)
    <3>1. CASE c < n /\ AllDigits(w, c + 1, n)
      <4>1. c + 1 \in 1..n /\ c + 1 \in (c + 1)..n
        BY <1>1, <3>1
      <4>2. Peek(w, c + 1) \in Digits
        BY <1>3, <3>1, <4>1 DEF AllDigits
      <4>3. d = c + 1
        BY <1>4, <4>2 DEF ExponentDigits
      <4> QED BY <3>1, <4>1, <4>3
    <3>2. CASE c + 1 < n /\ w[c + 1] \in {"-", "+"} /\ AllDigits(w, c + 2, n)
      <4>1. c + 1 \in 1..n /\ c + 2 \in 1..n
        BY <1>1, <3>2
      <4>2. d = c + 2
        BY <1>3, <3>2, <4>1 DEF ExponentDigits
      <4> QED BY <3>2, <4>1, <4>2
    <3> QED BY <1>2, <1>13, <3>1, <3>2 DEF ExponentAt
  <2> HIDE DEF d
  <2>2. d \in Nat \ {0} /\ n + 1 \in d..(Len(w) + 1) /\ \A k \in d..((n + 1) - 1) : w[k] \in Digits
    BY <1>1, <2>1 DEF AllDigits
  <2>3. Past(w, d, Digits) = n + 1
    BY <1>1, <1>4, <2>2, PastIs
  <2>4. Peek(w, d) \in Digits
    <3>1. d \in d..n
      BY <1>1, <2>1
    <3> QED BY <1>3, <2>1, <3>1 DEF AllDigits
  <2>5. NumberOf(w, 1, a, b, c) = Scanned(w, 1, n + 1)
    BY <1>5, <1>10, <1>13, <2>3, <2>4 DEF NumberOf, d
  <2> QED BY <1>9, <1>11, <2>5
<1> QED BY <1>12, <1>13

LEMMA NumbersAccepted ==
  ASSUME NEW T, NEW w \in Seq(T), "ws" \notin T, IsNumber(w), Len(w) < NumberSize
  PROVE  json_parse_n(w).ok
<1> DEFINE nested == NestedIn(w)
<1> HIDE DEF nested
<1>1. PICK v : ParseNumber(w, 1) = Value(v, Len(w) + 1)
  BY NumberRead
<1>2. Len(w) \in Nat /\ SkipWs(w, 1) = 1 /\ SkipWs(w, Len(w) + 1) = Len(w) + 1
  <2>1. Len(w) \in Nat /\ 1 \in 1..(Len(w) + 1) /\ Len(w) + 1 \in 1..(Len(w) + 1)
    OBVIOUS
  <2> QED BY <2>1, NothingSkipped
<1>3. Peek(w, 1) \in Digits \cup {"-"}
  <2>1. PICK b, c \in 1..(Len(w) + 1) : IntegerAt(w, Sign(w), b)
    BY NumberPlaces
  <2>2. CASE w[1] = "-"
    <3>1. w # <<>> /\ 1 <= Len(w)
      BY <1>2 DEF IsNumber
    <3> QED BY <2>2, <3>1 DEF Peek
  <2>3. CASE w[1] # "-"
    <3>1. 1 < b /\ AllDigits(w, 1, b - 1) /\ 1 \in 1..(b - 1) /\ 1 <= Len(w)
      BY <1>2, <2>1, <2>3 DEF IntegerAt, Sign
    <3> QED BY <3>1 DEF Peek, AllDigits
  <2> QED BY <2>2, <2>3
<1>4. ParseAt(w, nested, 1) = Value(v, Len(w) + 1)
  <2>1. /\ Peek(w, 1) \notin Names \cup {"quote"}
        /\ Peek(w, 1) \notin Openers /\ Peek(w, 1) \notin Keywords
    <3>1. Peek(w, 1) \notin Names
      BY <1>3, NamesFacts
    <3>2. Peek(w, 1) # "quote" /\ Peek(w, 1) \notin Keywords
      BY <1>3 DEF Digits, Keywords
    <3>3. Peek(w, 1) \notin Openers
      BY <1>3 DEF Digits, Openers
    <3> QED BY <3>1, <3>2, <3>3
  <2>2. ParseAt(w, nested, 1) = ParseNumber(w, 1)
    BY <1>3, <2>1 DEF ParseAt, Openers
  <2> QED BY <1>1, <2>2
<1>5. Parse(w, nested, 1) = Value(v, Len(w) + 1)
  <2> DEFINE r == Value(v, Len(w) + 1)
  <2>1. r.ok /\ r.at = Len(w) + 1
    BY DEF Value
  <2>2. [r EXCEPT !.at = Len(w) + 1] = Value(v, Len(w) + 1)
    BY AtReplaced
  <2> HIDE DEF r
  <2>3. Spaced(w, r) = Value(v, Len(w) + 1)
    BY <1>2, <2>1, <2>2 DEF Spaced
  <2> QED BY <1>2, <1>4, <2>3 DEF Parse, r
<1>6. Len(w) + 1 \in Nat /\ Len(w) + 1 > Len(w)
  BY <1>2
<1>7. Whole(w, Value(v, Len(w) + 1)).ok
  BY <1>2, <1>6, WholeFacts
<1> QED BY <1>5, <1>7 DEF json_parse_n, nested

--------------------------------------------------------------------------
(* The theorems *)

\* The word is one of its family, and parsed what the parser makes of it.
WordInv ==
  /\ family \in DOMAIN Family
  /\ word \in Seq(Family[family])
  /\ parsed = json_parse_n(word)

LEMMA WordsBegin == WordInit => WordInv
<1> SUFFICES ASSUME WordInit PROVE WordInv
  OBVIOUS
<1>1. family \in DOMAIN Family /\ word = <<>> /\ parsed = Failed(1)
  BY DEF WordInit
<1>2. <<>> \in Seq({}) /\ Peek(<<>>, 1) = "end"
  BY DEF Peek
<1>3. json_parse_n(<<>>) = Failed(1)
  BY <1>2, NothingParsed
<1>4. <<>> \in Seq(Family[family])
  OBVIOUS
<1> QED BY <1>1, <1>3, <1>4 DEF WordInv

LEMMA WordsStep == WordInv /\ [WordNext]_wordVars => WordInv'
<1> SUFFICES ASSUME WordInv, [WordNext]_wordVars PROVE WordInv'
  OBVIOUS
<1>1. CASE WordNext
  <2>1. family' = family /\ parsed' = json_parse_n(word')
    BY <1>1 DEF WordNext
  <2>2. PICK t \in Family[family] : word' = Append(word, t)
    BY <1>1 DEF WordNext
  <2>3. word' \in Seq(Family[family])
    BY <2>2 DEF WordInv
  <2> QED BY <2>1, <2>3 DEF WordInv
<1>2. CASE UNCHANGED wordVars
  BY <1>2 DEF WordInv, wordVars
<1> QED BY <1>1, <1>2

\* Every word is one of its family's tokens, and parsed is what json_parse_n() makes of it.
LEMMA WordsParsed == WordSpec => []WordInv
BY WordsBegin, WordsStep, PTL DEF WordSpec

LEMMA EscapeComesBack == WordInv => EscapeInverts
<1> SUFFICES ASSUME WordInv, parsed.ok, family = "strings"
             PROVE  json_parse_n(Escape(parsed.val.v)).val = parsed.val
  BY DEF EscapeInverts
<1>1. word \in Seq(Family["strings"]) /\ json_parse_n(word).ok /\ parsed = json_parse_n(word)
  BY DEF WordInv
<1>2. PICK v \in Seq(Chars) : parsed = Value(Atom("string", v), Len(word) + 1)
  BY <1>1, StringValue
<1>3. parsed.val = Atom("string", v) /\ parsed.val.v = v
  BY <1>2 DEF Value, Atom
<1>4. json_parse_n(Escape(v)).val = Atom("string", v)
  BY EscapeParsed DEF Value
<1> QED BY <1>3, <1>4

\* A string of any length comes back from its escaped form as it was
\* (json_write_escape_string() and parse_string()).
THEOREM EscapeIsInverted == WordSpec => []EscapeInverts
BY EscapeComesBack, WordsParsed, PTL

\* Every string of the grammar is accepted, of any length, and so is every one that would be
\* one but for its control characters; no other word over the tokens of strings is.  And every
\* number that fits into the buffer is (parse_string(), parse_number()).
LEMMA ScalarsAccepted == WordInv /\ family # "nesting" => AcceptsTexts
<1> SUFFICES ASSUME WordInv, family # "nesting" PROVE AcceptsTexts
  OBVIOUS
<1>1. family \in {"numbers", "strings"} /\ word \in Seq(Family[family]) /\ parsed = json_parse_n(word)
  BY DEF WordInv, Family
<1>2. CASE family = "strings"
  <2>1. word \in Seq(Family["strings"])
    BY <1>1, <1>2
  <2>2. "ws" \notin Family["strings"] /\ Family["strings"] \cap Keywords = {}
    BY DEF Family, Keywords
  <2>3. Family["strings"] \cap Openers = {} /\ Family["strings"] \cap Digits = {}
    BY DEF Family, Openers, Digits
  <2>4. (IsText(word) <=> IsNumber(word) \/ IsString(word)) /\ ~ Hollow(word)
    BY <2>1, <2>2, <2>3, FlatTexts
  <2>5. ~ IsNumber(word)
    BY <2>1, <2>3, NumberBegins
  <2>6. parsed.ok <=> IsQuoted(word)
    BY <1>1, <2>1, StringsAccepted
  <2>7. parsed.ok \in BOOLEAN
    BY <1>1, <2>1, OkIsBoolean
  <2>8. parsed.ok <=> (IsText(word) /\ ~ Hollow(word)) \/ (Controlled(word) /\ IsQuoted(word))
    <3>1. IsString(word) <=> IsQuoted(word) /\ ~ Controlled(word)
      BY DEF IsString
    <3> QED BY <2>4, <2>5, <2>6, <3>1
  <2> QED BY <1>2, <2>7, <2>8 DEF AcceptsTexts
<1>3. CASE family = "numbers"
  <2> DEFINE T == Family["numbers"]
  <2>1. word \in Seq(T) /\ T = {"-", "+", "0", "1", "point", "e"}
    BY <1>1, <1>3 DEF Family
  <2> HIDE DEF T
  <2>2. "ws" \notin T /\ T \cap Keywords = {} /\ T \cap Openers = {}
    BY <2>1 DEF Keywords, Openers
  <2>3. IsText(word) <=> IsNumber(word) \/ IsString(word)
    BY <2>1, <2>2, FlatTexts
  <2>4. ~ IsString(word)
    <3>1. \A t \in T : t \notin Names /\ t # "quote"
      BY <2>1, NamesFacts DEF Digits
    <3>2. Len(word) \in Nat /\ \A i \in 1..Len(word) : word[i] \in T
      BY <2>1
    <3>3. Len(word) >= 1 => word[1] \in T
      BY <3>2
    <3> QED BY <3>1, <3>2, <3>3 DEF IsString, IsQuoted
  <2>5. IsNumber(word) /\ Len(word) < NumberSize => parsed.ok
    BY <1>1, <2>1, <2>2, NumbersAccepted
  <2> QED BY <1>3, <2>3, <2>4, <2>5 DEF AcceptsTexts
<1> QED BY <1>1, <1>2, <1>3
=============================================================================
