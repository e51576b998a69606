--------------------------- MODULE JsonNestProofs ---------------------------
(* Theorems about the parser on brackets to any depth: it accepts a word     *)
(* exactly when the word is a text of the grammar without white space alone  *)
(* between brackets.  Both the parser's loop and the grammar's lists are     *)
(* recursive functions of the place where they begin, so both are settled    *)
(* from the end of the word on.  Soundness: where the loop comes to an end,  *)
(* it has read a list.  Completeness: a list and its closing bracket are     *)
(* read.  No list has to be shown to have one end only.  And the values keep *)
(* the order of the text: what a word comes to from a place on is what any   *)
(* word comes to where the same tokens stand.                                *)
EXTENDS JsonProofs

--------------------------------------------------------------------------
(* Words with brackets: how far the parser gets *)

Nest == Family["nesting"]
Atoms == Keys \cup {"null"}

LEMMA NestTokens ==
  \A t \in Nest : /\ t \notin {"end", "quote", "ctl", "-"} /\ t \notin Digits
                  /\ t \in Names <=> t \in Keys
                  /\ t \in Keywords <=> t = "null"
                  /\ t \in Openers \cup Closers \cup {Comma, Colon, "ws"} \cup Atoms
<1>1. SUFFICES ASSUME NEW t \in Nest
               PROVE  /\ t \notin {"end", "quote", "ctl", "-"} /\ t \notin Digits
                      /\ t \in Names <=> t \in Keys
                      /\ t \in Keywords <=> t = "null"
                      /\ t \in Openers \cup Closers \cup {Comma, Colon, "ws"} \cup Atoms
  OBVIOUS
<1>2. t \in {"[", "]", "{", "}", ",", ":", "ws", "null"} \/ t \in Keys
  <2>1. Nest = {"[", "]", "{", "}", ",", ":", "ws", "null"} \cup Keys
    BY Zenon DEF Nest, Family
  <2> QED BY <1>1, <2>1, Zenon
<1>3. CASE t \in Keys
  <2>1. t \in Names
    BY <1>3, WordAssumption
  <2>2. t # "end" /\ t # "quote" /\ t # "ctl" /\ t # "-" /\ t \notin Digits /\ t \notin Keywords /\ t # "null"
    BY <2>1, NamesAssumption, Zenon DEF Escapes, Keywords, Marks
  <2> QED BY <1>3, <2>1, <2>2, Zenon DEF Atoms
<1>4. CASE t \in {"[", "]", "{", "}", ",", ":", "ws", "null"}
  <2>1. t \notin Names
    BY <1>4, NamesAssumption, Zenon DEF Keywords, Marks
  <2>2. t \notin Keys
    BY <2>1, WordAssumption
  <2>3. t \notin {"end", "quote", "ctl", "-"} /\ t \notin Digits
    BY <1>4, Zenon DEF Keywords, Marks, Digits
  <2>4. t \in Keywords <=> t = "null"
    BY <1>4, Zenon DEF Keywords
  <2>5. t \in Openers \cup Closers \cup {Comma, Colon, "ws"} \cup Atoms
    BY <1>4, Zenon DEF Openers, Closers, Comma, Colon, Atoms
  <2> QED BY <2>1, <2>2, <2>3, <2>4, <2>5, Zenon
<1> QED BY <1>2, <1>3, <1>4, Zenon

LEMMA Apart ==
  /\ \A t \in Openers : /\ t \notin Closers /\ t \notin {Comma, Colon, "ws", "end", "quote"}
                       /\ t \notin Atoms /\ t \notin Names
  /\ \A t \in Closers : t \notin {Comma, Colon, "ws", "end", "quote"} /\ t \notin Atoms
  /\ \A t \in Atoms : t \notin {Comma, Colon, "ws", "end"}
  /\ Comma \notin {Colon, "ws", "end", "null"} /\ Colon \notin {"ws", "end", "null"}
<1>1. \A t \in Keys : t \notin Openers \cup Closers \cup {Comma, Colon, "ws", "end", "quote"}
  <2> SUFFICES ASSUME NEW t \in Keys PROVE t \notin Openers \cup Closers \cup {Comma, Colon, "ws", "end", "quote"}
    OBVIOUS
  <2>1. t \in Names
    BY WordAssumption
  <2> QED BY <2>1, NamesAssumption, Zenon DEF Openers, Closers, Comma, Colon, Escapes, Marks
<1>2. \A t \in Openers : t \notin Closers /\ t \notin {Comma, Colon, "ws", "end", "quote"} /\ t # "null"
  BY Zenon DEF Openers, Closers, Comma, Colon
<1>3. \A t \in Closers : t \notin {Comma, Colon, "ws", "end", "quote"} /\ t # "null"
  BY Zenon DEF Closers, Comma, Colon
<1>4. Comma \notin {Colon, "ws", "end", "null"} /\ Colon \notin {"ws", "end", "null"}
  BY Zenon DEF Comma, Colon
<1>5. \A t \in Openers : t \notin Names
  BY NamesAssumption, Zenon DEF Openers, Marks
<1>6. \A t : t \in Atoms <=> t \in Keys \/ t = "null"
  BY Zenon DEF Atoms
<1>7. \A t \in Openers : t \notin Atoms
  BY <1>1, <1>2, <1>6, Zenon
<1>8. \A t \in Closers : t \notin Atoms
  BY <1>1, <1>3, <1>6, Zenon
<1>9. \A t \in Atoms : t \notin {Comma, Colon, "ws", "end"}
  BY <1>1, <1>4, <1>6, Zenon
<1> QED BY <1>2, <1>3, <1>4, <1>5, <1>7, <1>8, <1>9, Zenon

\* What Past() finds is there.
LEMMA SkipFacts ==
  ASSUME NEW w, Len(w) \in Nat, NEW i \in 1..(Len(w) + 1)
  PROVE  /\ SkipWs(w, i) \in i..(Len(w) + 1) /\ Peek(w, SkipWs(w, i)) # "ws"
         /\ \A k \in i..(SkipWs(w, i) - 1) : w[k] = "ws"
<1> DEFINE S == {j \in i..(Len(w) + 1) : Peek(w, j) # "ws"}
           Is(j) == Peek(w, j) \notin {"ws"} /\ \A k \in i..(j - 1) : w[k] \in {"ws"}
<1>1. Len(w) + 1 \in S
  BY DEF Peek
<1>2. PICK m \in S : \A k \in S : m <= k
  <2>1. S \in SUBSET Nat /\ S # {}
    BY <1>1
  <2> HIDE DEF S
  <2> QED BY <2>1, Least
<1>3. m \in i..(Len(w) + 1) /\ Is(m)
  <2>1. ASSUME NEW k \in i..(m - 1) PROVE w[k] = "ws"
    <3>1. k \notin S /\ k \in i..(Len(w) + 1) /\ Peek(w, k) = w[k]
      BY <1>2 DEF Peek
    <3> QED BY <3>1
  <2> QED BY <1>2, <2>1
<1>4. SkipWs(w, i) = CHOOSE j \in i..(Len(w) + 1) : Is(j)
  BY DEF SkipWs, Past
<1> DEFINE p == SkipWs(w, i)
<1>5. p \in i..(Len(w) + 1) /\ Is(p)
  <2> HIDE DEF Is
  <2> QED BY <1>3, <1>4
<1> QED BY <1>5

LEMMA SkipIs ==
  ASSUME NEW w, Len(w) \in Nat, NEW i \in 1..(Len(w) + 1), NEW j \in i..(Len(w) + 1),
         \A k \in i..(j - 1) : w[k] = "ws", Peek(w, j) # "ws"
  PROVE  SkipWs(w, i) = j
<1>1. \A k \in i..(j - 1) : w[k] \in {"ws"}
  OBVIOUS
<1>2. i \in Nat \ {0} /\ Peek(w, j) \notin {"ws"}
  OBVIOUS
<1>3. Past(w, i, {"ws"}) = j
  BY <1>1, <1>2, PastIs
<1> QED BY <1>3 DEF SkipWs

\* What a result comes to: a place, or a failure.
Reaches(r, j) == \E v : r = Value(v, j)
Fails(r) == \E j \in Nat : r = Failed(j)
Ends(w, i, r) == Fails(r) \/ \E j \in (i + 1)..(Len(w) + 1) : Reaches(r, j)

LEMMA ReachFacts ==
  \A r, j, k : /\ Reaches(r, j) => r.ok /\ r.at = j /\ ~ Fails(r)
               /\ Fails(r) => ~ r.ok
               /\ Reaches(r, j) /\ Reaches(r, k) => j = k
<1>1. \A v, j : Value(v, j).ok /\ Value(v, j).at = j
  BY DEF Value
<1>2. \A j : ~ Failed(j).ok
  BY DEF Failed
<1> QED BY <1>1, <1>2 DEF Reaches, Fails

LEMMA SpacedFacts ==
  ASSUME NEW w, NEW r
  PROVE  /\ Fails(r) => Spaced(w, r) = r
         /\ \A j : Reaches(r, j) => Reaches(Spaced(w, r), SkipWs(w, j))
<1>1. ASSUME Fails(r) PROVE Spaced(w, r) = r
  BY <1>1, ReachFacts DEF Spaced
<1>2. ASSUME NEW j, Reaches(r, j) PROVE Reaches(Spaced(w, r), SkipWs(w, j))
  <2>1. PICK v : r = Value(v, j)
    BY <1>2 DEF Reaches
  <2>2. r.ok /\ r.at = j
    BY <1>2, ReachFacts
  <2>3. [r EXCEPT !.at = SkipWs(w, j)] = Value(v, SkipWs(w, j))
    BY <2>1, AtReplaced
  <2>4. Spaced(w, r) = Value(v, SkipWs(w, j))
    BY <2>2, <2>3 DEF Spaced
  <2> QED BY <2>4 DEF Reaches
<1> QED BY <1>1, <1>2

\* An element put in front of the others leaves the place as it is.
LEMMA WithFacts ==
  ASSUME NEW x, NEW r
  PROVE  /\ Fails(r) => WithItem(x, r) = r /\ WithPair(x, r) = r
         /\ \A j : Reaches(r, j) => Reaches(WithItem(x, r), j) /\ Reaches(WithPair(x, r), j)
<1>1. ASSUME Fails(r) PROVE WithItem(x, r) = r /\ WithPair(x, r) = r
  BY <1>1, ReachFacts DEF WithItem, WithPair
<1>2. ASSUME NEW j, Reaches(r, j) PROVE Reaches(WithItem(x, r), j) /\ Reaches(WithPair(x, r), j)
  <2>1. PICK v : r = Value(v, j)
    BY <1>2 DEF Reaches
  <2>2. r.ok
    BY <1>2, ReachFacts
  <2>3. PICK y : y = [r.val EXCEPT !.items = <<x>> \o @]
    OBVIOUS
  <2>4. PICK z : z = [r.val EXCEPT !.pairs = @ \o <<x>>]
    OBVIOUS
  <2>5. WithItem(x, r) = [r EXCEPT !.val = y]
    BY <2>2, <2>3 DEF WithItem
  <2>6. WithPair(x, r) = [r EXCEPT !.val = z]
    BY <2>2, <2>4 DEF WithPair
  <2>7. [r EXCEPT !.val = y] = Value(y, j) /\ [r EXCEPT !.val = z] = Value(z, j)
    BY <2>1, ValReplaced
  <2> QED BY <2>5, <2>6, <2>7 DEF Reaches
<1> QED BY <1>1, <1>2

--------------------------------------------------------------------------
(* The lists of the grammar *)

SameBehind(w, i, f, g) ==
  \A o \in Openers, k \in (i + 1)..(Len(w) + 1), m \in 1..(Len(w) + 1) : f[<<o, k, m>>] = g[<<o, k, m>>]

\* A text depends on the lists that begin behind it only, and so do a member and a list.
LEMMA TextsLookAhead ==
  ASSUME NEW w, Len(w) \in Nat, NEW i \in 1..(Len(w) + 1), NEW j \in 1..(Len(w) + 1), NEW f, NEW g,
         SameBehind(w, i, f, g)
  PROVE  IsTextIn(w, f, i, j) = IsTextIn(w, g, i, j)
<1>1. ASSUME NEW s \in Trimmed(w, i, j), <<w[s[1]], w[s[2] - 1]>> \in Brackets
      PROVE  f[<<w[s[1]], s[1] + 1, s[2] - 1>>] = g[<<w[s[1]], s[1] + 1, s[2] - 1>>]
  <2>1. s[1] \in i..j /\ s[2] \in i..j /\ s[1] < s[2]
    BY TrimmedFacts
  <2>2. w[s[1]] \in Openers
    BY <1>1, BracketFacts
  <2>3. s[1] + 1 \in (i + 1)..(Len(w) + 1) /\ s[2] - 1 \in 1..(Len(w) + 1)
    BY <2>1
  <2> QED BY <2>2, <2>3 DEF SameBehind
<1> QED BY <1>1 DEF IsTextIn

LEMMA ListsLookAhead ==
  ASSUME NEW w, Len(w) \in Nat, NEW i \in 1..(Len(w) + 1), NEW j \in 1..(Len(w) + 1), NEW o \in Openers, NEW f, NEW g,
         SameBehind(w, i, f, g)
  PROVE  IsListIn(w, f, o, i, j) = IsListIn(w, g, o, i, j)
<1>1. ASSUME NEW k \in 1..(Len(w) + 1) PROVE IsOneIn(w, f, o, i, k) = IsOneIn(w, g, o, i, k)
  <2>1. IsTextIn(w, f, i, k) = IsTextIn(w, g, i, k)
    BY TextsLookAhead
  <2>2. ASSUME NEW c \in i..(k - 1) PROVE IsTextIn(w, f, c + 1, k) = IsTextIn(w, g, c + 1, k)
    <3>1. c + 1 \in 1..(Len(w) + 1) /\ SameBehind(w, c + 1, f, g)
      BY DEF SameBehind
    <3> QED BY <3>1, TextsLookAhead
  <2>3. IsMemberIn(w, f, i, k) = IsMemberIn(w, g, i, k)
    BY <2>2 DEF IsMemberIn
  <2> QED BY <2>1, <2>3 DEF IsOneIn
<1>2. ASSUME NEW c \in i..(j - 1) PROVE f[<<o, c + 1, j>>] = g[<<o, c + 1, j>>]
  BY DEF SameBehind
<1>3. \A c \in i..(j - 1) : c \in 1..(Len(w) + 1)
  OBVIOUS
<1> QED BY <1>1, <1>2, <1>3, Zenon DEF IsListIn

Ranges(w) == Openers \X (1..(Len(w) + 1)) \X (1..(Len(w) + 1))
ListStep(w, f, l) == IsListIn(w, f, l[1], l[2], l[3])

LEMMA ListsExist ==
  ASSUME NEW w, Len(w) \in Nat
  PROVE  \E f : f = [l \in Ranges(w) |-> ListStep(w, f, l)]
<1> DEFINE D == Ranges(w)
           Good(f, k) == /\ f = [l \in D |-> f[l]]
                         /\ \A l \in D : l[2] >= k => f[l] = ListStep(w, f, l)
           S == {k \in 1..(Len(w) + 2) : \E f : Good(f, k)}
<1>1. ASSUME NEW l \in D
      PROVE  /\ l = <<l[1], l[2], l[3]>> /\ l[1] \in Openers
             /\ l[2] \in 1..(Len(w) + 1) /\ l[3] \in 1..(Len(w) + 1)
  BY DEF Ranges
<1> HIDE DEF D
<1>2. Len(w) + 2 \in S
  <2>1. Good([l \in D |-> l], Len(w) + 2)
    BY <1>1
  <2> HIDE DEF Good
  <2>2. \E f : Good(f, Len(w) + 2)
    BY <2>1
  <2> QED BY <2>2
<1>3. PICK m \in S : \A k \in S : m <= k
  <2>1. S \in SUBSET Nat /\ S # {}
    BY <1>2
  <2> HIDE DEF S
  <2> QED BY <2>1, Least
<1>4. PICK f : Good(f, m)
  BY <1>3
<1>5. m = 1
  <2> SUFFICES ASSUME m # 1 PROVE FALSE
    OBVIOUS
  <2> DEFINE p == m - 1
             g == [l \in D |-> IF l[2] = p THEN ListStep(w, f, l) ELSE f[l]]
  <2>1. p \in 1..(Len(w) + 1) /\ p + 1 = m
    BY <1>3
  <2>2. g = [l \in D |-> g[l]] /\ \A l \in D : g[l] = IF l[2] = p THEN ListStep(w, f, l) ELSE f[l]
    OBVIOUS
  <2> HIDE DEF g
  <2>3. ASSUME NEW l \in D, l[2] >= p PROVE g[l] = ListStep(w, g, l)
    <3>1. ASSUME NEW a \in Openers, NEW k \in (l[2] + 1)..(Len(w) + 1), NEW r \in 1..(Len(w) + 1)
          PROVE  f[<<a, k, r>>] = g[<<a, k, r>>]
      <4>1. <<a, k, r>> \in D /\ k # p
        BY <1>1, <2>1, <2>3 DEF D, Ranges
      <4> QED BY <2>2, <4>1
    <3>2. ListStep(w, f, l) = ListStep(w, g, l)
      <4>1. SameBehind(w, l[2], f, g)
        BY <3>1 DEF SameBehind
      <4> QED BY <1>1, <4>1, ListsLookAhead DEF ListStep
    <3>3. l[2] # p => l[2] >= m
      BY <1>1, <2>1, <2>3
    <3> QED BY <1>4, <2>2, <3>2, <3>3
  <2>4. Good(g, p)
    BY <2>2, <2>3
  <2>5. p \in S
    <3> HIDE DEF Good
    <3>1. \E h : Good(h, p)
      BY <2>4
    <3>2. p \in 1..(Len(w) + 2)
      BY <2>1
    <3> HIDE DEF p
    <3> QED BY <3>1, <3>2
  <2> QED BY <1>3, <2>1, <2>5
<1>6. \A l \in D : l[2] >= m
  BY <1>1, <1>5
<1>7. f = [l \in D |-> ListStep(w, f, l)]
  BY <1>4, <1>6
<1> QED BY <1>7 DEF D

LEMMA ListsAre ==
  ASSUME NEW w, Len(w) \in Nat, NEW o \in Openers, NEW i \in 1..(Len(w) + 1), NEW j \in 1..(Len(w) + 1)
  PROVE  Lists(w)[<<o, i, j>>] = IsListIn(w, Lists(w), o, i, j)
<1> DEFINE Step(f) == [l \in Ranges(w) |-> ListStep(w, f, l)]
           lists == CHOOSE f : f = Step(f)
<1>1. lists = Step(lists)
  BY ListsExist
<1>2. Lists(w) = lists
  BY Zenon DEF Lists, Ranges, ListStep, Openers
<1> HIDE DEF lists
<1>3. <<o, i, j>> \in Ranges(w)
  BY DEF Ranges
<1>4. lists[<<o, i, j>>] = ListStep(w, lists, <<o, i, j>>)
  BY <1>1, <1>3
<1> QED BY <1>2, <1>4 DEF ListStep

LEMMA NestFacts ==
  ASSUME NEW w \in Seq(Nest)
  PROVE  /\ Len(w) \in Nat /\ DOMAIN w = 1..Len(w)
         /\ \A i \in 1..Len(w) : w[i] \in Nest /\ Peek(w, i) = w[i] /\ Peek(w, i) # "end"
         /\ \A i \in Nat \ {0} : i > Len(w) => Peek(w, i) = "end"
<1>1. "end" \notin Nest
  BY NestTokens
<1> QED BY <1>1 DEF Peek

\* Part of the word without white space and brackets: an atom.
ScalarsOf(w, p, e, t) ==
  /\ IsString(t) <=> e = p + 1 /\ w[p] \in Keys
  /\ ~ IsNumber(t)
  /\ Len(t) = 1 /\ t[1] \in Keywords <=> e = p + 1 /\ w[p] = "null"

LEMMA Scalars ==
  ASSUME NEW w \in Seq(Nest), NEW p \in 1..(Len(w) + 1), NEW e \in 1..(Len(w) + 1), p < e
  PROVE  ScalarsOf(w, p, e, SubSeq(w, p, e - 1))
<1> DEFINE t == SubSeq(w, p, e - 1)
<1>1. Len(w) \in Nat /\ \A i \in 1..Len(w) : w[i] \in Nest
  BY NestFacts
<1>2. /\ t \in Seq(Nest) /\ Len(t) = e - p
      /\ \A k \in 1..(e - p) : t[k] = w[p + k - 1]
  BY <1>1
<1> HIDE DEF t
<1>3. t[1] = w[p] /\ t[1] \in Nest /\ p \in 1..Len(w)
  BY <1>1, <1>2
<1>4. IsString(t) <=> e = p + 1 /\ w[p] \in Keys
  <2>1. t[1] # "quote" /\ (t[1] \in Names <=> t[1] \in Keys)
    BY <1>3, NestTokens
  <2>2. ~ Controlled(t)
    BY <1>2, NestTokens DEF Controlled
  <2> QED BY <1>2, <1>3, <2>1, <2>2 DEF IsString, IsQuoted
<1>5. ~ IsNumber(t)
  <2>1. Nest \cap Digits = {}
    BY NestTokens
  <2> QED BY <1>2, <2>1, NumberBegins
<1>6. t[1] \in Keywords <=> t[1] = "null"
  BY <1>3, NestTokens
<1> QED BY <1>2, <1>3, <1>4, <1>5, <1>6 DEF ScalarsOf, t

Txt(w, i, j) == IsTextIn(w, Lists(w), i, j)
One(w, o, i, j) == IsOneIn(w, Lists(w), o, i, j)
Lst(w, o, i, j) == Lists(w)[<<o, i, j>>]
Bracketed(w, p, e) == /\ w[p] \in Openers /\ w[e - 1] = Closing(w[p])
                      /\ Blank(w, p + 1, e - 1) \/ Lst(w, w[p], p + 1, e - 1)
Core(w, p, e) == (e = p + 1 /\ w[p] \in Atoms) \/ Bracketed(w, p, e)

\* The grammar place by place.
LEMMA TextIs ==
  ASSUME NEW w \in Seq(Nest), NEW i \in 1..(Len(w) + 1), NEW j \in 1..(Len(w) + 1)
  PROVE  Txt(w, i, j) <=> \E p \in i..j, e \in i..j :
                            p < e /\ Blank(w, i, p) /\ Blank(w, e, j) /\ Core(w, p, e)
<1>1. Len(w) \in Nat
  BY NestFacts
<1>2. ASSUME NEW s \in Trimmed(w, i, j)
      PROVE  (LET text == SubSeq(w, s[1], s[2] - 1)
              IN  \/ Len(text) = 1 /\ text[1] \in Keywords
                  \/ IsNumber(text) \/ IsString(text)
                  \/ /\ <<w[s[1]], w[s[2] - 1]>> \in Brackets
                     /\ Blank(w, s[1] + 1, s[2] - 1) \/ Lists(w)[<<w[s[1]], s[1] + 1, s[2] - 1>>])
             <=> Core(w, s[1], s[2])
  <2>1. s[1] \in 1..(Len(w) + 1) /\ s[2] \in 1..(Len(w) + 1) /\ s[1] < s[2]
    BY <1>1, TrimmedFacts
  <2>2. PICK p, e, text : p = s[1] /\ e = s[2] /\ text = SubSeq(w, p, e - 1)
    OBVIOUS
  <2>3. /\ IsString(text) <=> e = p + 1 /\ w[p] \in Keys
        /\ ~ IsNumber(text)
        /\ Len(text) = 1 /\ text[1] \in Keywords <=> e = p + 1 /\ w[p] = "null"
    <3>1. ScalarsOf(w, p, e, SubSeq(w, p, e - 1))
      BY <2>1, <2>2, Scalars
    <3> QED BY <2>2, <3>1 DEF ScalarsOf
  <2>4. <<w[p], w[e - 1]>> \in Brackets <=> w[p] \in Openers /\ w[e - 1] = Closing(w[p])
    BY BracketFacts
  <2>5. w[p] \in Atoms <=> w[p] \in Keys \/ w[p] = "null"
    BY DEF Atoms
  <2> QED BY <2>2, <2>3, <2>4, <2>5 DEF Core, Bracketed, Lst
<1>3. Txt(w, i, j) <=> \E s \in Trimmed(w, i, j) : Core(w, s[1], s[2])
  BY <1>2 DEF Txt, IsTextIn
<1>4. ASSUME NEW s \in Trimmed(w, i, j), Core(w, s[1], s[2])
      PROVE  \E p \in i..j, e \in i..j : p < e /\ Blank(w, i, p) /\ Blank(w, e, j) /\ Core(w, p, e)
  BY <1>4, TrimmedFacts
<1>5. ASSUME NEW p \in i..j, NEW e \in i..j, p < e, Blank(w, i, p), Blank(w, e, j), Core(w, p, e)
      PROVE  \E s \in Trimmed(w, i, j) : Core(w, s[1], s[2])
  <2>1. <<p, e>> \in Trimmed(w, i, j)
    BY <1>5 DEF Trimmed
  <2> QED BY <1>5, <2>1
<1> QED BY <1>3, <1>4, <1>5

Key(w, i, c) == \E p \in i..(c - 1) : Blank(w, i, p) /\ Blank(w, p + 1, c) /\ w[p] \in Keys

LEMMA MemberIs ==
  ASSUME NEW w \in Seq(Nest), NEW i \in 1..(Len(w) + 1), NEW j \in 1..(Len(w) + 1)
  PROVE  IsMemberIn(w, Lists(w), i, j) <=>
           \E c \in i..(j - 1) : w[c] = Colon /\ Key(w, i, c) /\ Txt(w, c + 1, j)
<1>1. Len(w) \in Nat
  BY NestFacts
<1>2. ASSUME NEW c \in i..(j - 1)
      PROVE  (\E s \in Trimmed(w, i, c) : IsString(SubSeq(w, s[1], s[2] - 1))) <=> Key(w, i, c)
  <2>1. ASSUME NEW s \in Trimmed(w, i, c), IsString(SubSeq(w, s[1], s[2] - 1)) PROVE Key(w, i, c)
    <3>1. /\ s[1] \in i..c /\ s[2] \in i..c /\ s[1] < s[2]
          /\ Blank(w, i, s[1]) /\ Blank(w, s[2], c)
      BY TrimmedFacts
    <3>2. s[1] \in 1..(Len(w) + 1) /\ s[2] \in 1..(Len(w) + 1)
      BY <1>1, <3>1
    <3>3. s[2] = s[1] + 1 /\ w[s[1]] \in Keys
      <4>1. ScalarsOf(w, s[1], s[2], SubSeq(w, s[1], s[2] - 1))
        BY <3>1, <3>2, Scalars
      <4> QED BY <2>1, <4>1 DEF ScalarsOf
    <3> QED BY <1>1, <3>1, <3>3 DEF Key
  <2>2. ASSUME NEW p \in i..(c - 1), Blank(w, i, p), Blank(w, p + 1, c), w[p] \in Keys
        PROVE  \E s \in Trimmed(w, i, c) : IsString(SubSeq(w, s[1], s[2] - 1))
    <3>1. p \in 1..(Len(w) + 1) /\ p + 1 \in 1..(Len(w) + 1) /\ p < p + 1
      BY <1>1
    <3>2. IsString(SubSeq(w, p, p + 1 - 1))
      <4>1. ScalarsOf(w, p, p + 1, SubSeq(w, p, p + 1 - 1))
        BY <3>1, Scalars
      <4> QED BY <2>2, <4>1 DEF ScalarsOf
    <3>3. <<p, p + 1>> \in Trimmed(w, i, c)
      BY <1>1, <2>2 DEF Trimmed
    <3> QED BY <3>2, <3>3
  <2> QED BY <2>1, <2>2 DEF Key
<1> QED BY <1>2 DEF IsMemberIn, Colon, Txt

LEMMA ListIs ==
  ASSUME NEW w \in Seq(Nest), NEW o \in Openers, NEW i \in 1..(Len(w) + 1), NEW j \in 1..(Len(w) + 1)
  PROVE  Lst(w, o, i, j) <=> \/ One(w, o, i, j)
                             \/ \E c \in i..(j - 1) : w[c] = Comma /\ One(w, o, i, c) /\ Lst(w, o, c + 1, j)
<1>1. Lists(w)[<<o, i, j>>] = IsListIn(w, Lists(w), o, i, j)
  BY NestFacts, ListsAre
<1> QED BY <1>1, Zenon DEF IsListIn, Lst, One, Comma

--------------------------------------------------------------------------
(* What the parser comes to in a word with brackets *)

AtomAt(w, p) == Value(IF w[p] \in Keys THEN Atom("string", <<<<w[p]>>>>) ELSE Atom("null", <<>>), p + 1)

LEMMA ParseAtIs ==
  ASSUME NEW w \in Seq(Nest), NEW f, NEW p \in 1..(Len(w) + 1)
  PROVE  /\ Peek(w, p) \in Openers => ParseAt(w, f, p) = f[<<w[p], p + 1, TRUE>>]
         /\ Peek(w, p) \in Atoms => ParseAt(w, f, p) = AtomAt(w, p)
         /\ Peek(w, p) \notin Openers \cup Atoms => ParseAt(w, f, p) = Failed(p)
<1> DEFINE t == Peek(w, p)
<1>1. ParseAt(w, f, p) = CASE t \in Openers -> f[<<w[p], p + 1, TRUE>>]
                           [] t \in Names \cup {"quote"} -> ParseString(w, p)
                           [] t \in Digits \cup {"-"} -> ParseNumber(w, p)
                           [] t \in Keywords -> Value(Atom(w[p], <<>>), p + 1)
                           [] OTHER -> Failed(p)
  BY Zenon DEF ParseAt, Openers
<1>2. t = "end" \/ (t \in Nest /\ t = w[p])
  <2>1. p \in 1..Len(w) \/ (p > Len(w) /\ p \in Nat \ {0})
    BY NestFacts
  <2> QED BY <2>1, NestFacts
<1>3. t \notin Digits \cup {"-"} /\ t # "quote"
  BY <1>2, NestTokens DEF Digits
<1>4. /\ t \in Names <=> t \in Keys
      /\ t \in Keywords <=> t = "null"
      /\ t \in Atoms <=> t \in Keys \/ t = "null"
  <2>1. "end" \notin Names /\ "end" \notin Keywords
    BY NamesFacts DEF Keywords
  <2>2. Keys \subseteq Names
    BY WordAssumption
  <2>3. t \in Atoms <=> t \in Keys \/ t = "null"
    BY DEF Atoms
  <2> QED BY <1>2, <2>1, <2>2, <2>3, NestTokens
<1>5. t \in Atoms => t = w[p]
  <2>1. "end" \notin Atoms
    BY Apart
  <2> QED BY <1>2, <2>1
<1>6. t \in Openers => t \notin Names /\ t # "null"
  <2>1. t \in Openers => t \notin Names /\ t \notin Atoms
    BY Apart
  <2> QED BY <1>4, <2>1
<1>7. t \in Keys => t # "null"
  BY WordAssumption, NamesFacts DEF Keywords
<1> HIDE DEF t
<1>8. CASE t \in Openers
  <2>1. t \notin Names \cup {"quote"} /\ t \notin Digits \cup {"-"} /\ t \notin Keywords /\ t \notin Atoms
    BY <1>3, <1>4, <1>6, <1>8, Apart
  <2> QED BY <1>1, <1>8, <2>1 DEF t
<1>9. CASE t \in Keys
  <2>1. t \notin Openers /\ t \in Names /\ t \notin Digits \cup {"-"} /\ t \notin Keywords /\ t = w[p]
    BY <1>3, <1>4, <1>5, <1>6, <1>7, <1>9
  <2>2. ParseAt(w, f, p) = ParseString(w, p)
    BY <1>1, <2>1
  <2>3. ParseString(w, p) = Value(Atom("string", <<<<w[p]>>>>), p + 1)
    BY <2>1 DEF ParseString, t
  <2> QED BY <1>4, <1>9, <2>1, <2>2, <2>3 DEF AtomAt, t
<1>10. CASE t = "null"
  <2>1. t \notin Openers /\ t \notin Names \cup {"quote"} /\ t \notin Digits \cup {"-"} /\ t \in Keywords /\ t = w[p]
    BY <1>3, <1>4, <1>5, <1>6, <1>7, <1>10
  <2>2. ParseAt(w, f, p) = Value(Atom(w[p], <<>>), p + 1)
    BY <1>1, <2>1
  <2>3. w[p] \notin Keys
    BY <1>7, <1>10, <2>1
  <2> QED BY <1>4, <1>10, <2>1, <2>2, <2>3 DEF AtomAt, t
<1>11. CASE t \notin Openers \cup Atoms
  <2>1. t \notin Openers /\ t \notin Names \cup {"quote"} /\ t \notin Digits \cup {"-"} /\ t \notin Keywords
    BY <1>3, <1>4, <1>11
  <2> QED BY <1>1, <1>11, <2>1 DEF t
<1> QED BY <1>4, <1>8, <1>9, <1>10, <1>11 DEF t

\* f has what the loops come to behind place i, and g the same.
KnownBehind(w, i, f, g) ==
  \A o \in Openers, k \in (i + 1)..(Len(w) + 1), b \in BOOLEAN :
    g[<<o, k, b>>] = f[<<o, k, b>>] /\ Ends(w, k, f[<<o, k, b>>])

\* A result that depends on what comes behind i only.
Settled(w, i, r, s) == Ends(w, i, r) /\ s = r

LEMMA EndsFacts ==
  ASSUME NEW w, Len(w) \in Nat, NEW i \in 1..(Len(w) + 1)
  PROVE  /\ \A k \in Nat : Ends(w, i, Failed(k))
         /\ \A r, k : k \in i..(Len(w) + 1) /\ Ends(w, k, r) => Ends(w, i, r)
         /\ \A r, k : k \in (i + 1)..(Len(w) + 1) /\ Reaches(r, k) => Ends(w, i, r)
<1>1. \A k \in Nat : Fails(Failed(k))
  BY DEF Fails
<1>2. \A k : k \in i..(Len(w) + 1) => \A j \in (k + 1)..(Len(w) + 1) : j \in (i + 1)..(Len(w) + 1)
  OBVIOUS
<1> QED BY <1>1, <1>2 DEF Ends

LEMMA ParseEnds ==
  ASSUME NEW w \in Seq(Nest), NEW i \in 1..(Len(w) + 1), NEW f, NEW g, KnownBehind(w, i, f, g),
         NEW q \in i..(Len(w) + 1)
  PROVE  Settled(w, q, Parse(w, f, q), Parse(w, g, q))
<1>1. Len(w) \in Nat
  BY NestFacts
<1> DEFINE p == SkipWs(w, q)
<1>2. p \in q..(Len(w) + 1) /\ q \in 1..(Len(w) + 1)
  <2>1. q \in 1..(Len(w) + 1)
    BY <1>1
  <2> QED BY <1>1, <2>1, SkipFacts
<1> HIDE DEF p
<1>3. p \in 1..(Len(w) + 1) /\ p + 1 \in Nat
  BY <1>1, <1>2
<1>4. Settled(w, p, ParseAt(w, f, p), ParseAt(w, g, p))
  <2>1. CASE Peek(w, p) \in Openers
    <3>1. p \in 1..Len(w) /\ w[p] \in Openers
      <4>1. Peek(w, p) # "end"
        BY <2>1, Apart
      <4> QED BY <1>1, <1>3, <2>1, <4>1, NestFacts
    <3>2. p + 1 \in (i + 1)..(Len(w) + 1)
      BY <1>1, <1>2, <3>1
    <3> DEFINE s == <<w[p], p + 1, TRUE>>
    <3>3. g[s] = f[s] /\ Ends(w, p + 1, f[s])
      BY <3>1, <3>2 DEF KnownBehind
    <3>4. ParseAt(w, f, p) = f[s] /\ ParseAt(w, g, p) = g[s]
      BY <1>3, <2>1, ParseAtIs
    <3> HIDE DEF s
    <3>5. Ends(w, p, f[s])
      <4>1. p + 1 \in p..(Len(w) + 1)
        BY <1>1, <3>1
      <4> QED BY <1>1, <1>3, <3>3, <4>1, EndsFacts
    <3> QED BY <3>3, <3>4, <3>5 DEF Settled
  <2>2. CASE Peek(w, p) \in Atoms
    <3>1. p + 1 \in (p + 1)..(Len(w) + 1)
      <4>1. Peek(w, p) # "end"
        BY <2>2, Apart
      <4> QED BY <1>1, <1>3, <4>1, NestFacts
    <3>2. ParseAt(w, f, p) = AtomAt(w, p) /\ ParseAt(w, g, p) = AtomAt(w, p)
      BY <1>3, <2>2, ParseAtIs
    <3>3. Reaches(AtomAt(w, p), p + 1)
      BY DEF Reaches, AtomAt
    <3> QED BY <1>1, <1>3, <3>1, <3>2, <3>3, EndsFacts DEF Settled
  <2>3. CASE Peek(w, p) \notin Openers \cup Atoms
    <3>1. ParseAt(w, f, p) = Failed(p) /\ ParseAt(w, g, p) = Failed(p)
      BY <1>3, <2>3, ParseAtIs
    <3> QED BY <1>1, <1>3, <3>1, EndsFacts DEF Settled
  <2> QED BY <2>1, <2>2, <2>3
<1> DEFINE r == ParseAt(w, f, p)
<1>5. Parse(w, f, q) = Spaced(w, r) /\ Parse(w, g, q) = Spaced(w, r) /\ Ends(w, p, r)
  BY <1>4 DEF Parse, Settled, p
<1> HIDE DEF r
<1>6. Ends(w, q, Spaced(w, r))
  <2>1. CASE Fails(r)
    BY <2>1, SpacedFacts DEF Ends
  <2>2. ASSUME NEW j \in (p + 1)..(Len(w) + 1), Reaches(r, j) PROVE Ends(w, q, Spaced(w, r))
    <3>1. j \in 1..(Len(w) + 1)
      BY <1>1, <1>3
    <3>2. SkipWs(w, j) \in j..(Len(w) + 1)
      BY <1>1, <3>1, SkipFacts
    <3>3. SkipWs(w, j) \in (q + 1)..(Len(w) + 1)
      BY <1>1, <1>2, <3>1, <3>2
    <3>4. Reaches(Spaced(w, r), SkipWs(w, j))
      BY <2>2, SpacedFacts
    <3> QED BY <1>1, <1>2, <3>3, <3>4, EndsFacts
  <2> QED BY <1>5, <2>1, <2>2 DEF Ends
<1> QED BY <1>5, <1>6 DEF Settled

\* An element: the key and the colon in front of it in an object, its text, and what follows.
KeyAt(w, q) == SkipWs(w, q)
ColonAt(w, q) == SkipWs(w, KeyAt(w, q) + 1)
ValueAt(w, o, q) == IF o = "[" THEN q ELSE ColonAt(w, q) + 1
Keyed(w, o, q) == o = "[" \/ (Peek(w, KeyAt(w, q)) \in Keys /\ Peek(w, ColonAt(w, q)) = Colon)
Joined(w, o, q, x, r) == IF o = "[" THEN WithItem(x, r)
                         ELSE WithPair([key |-> <<<<w[KeyAt(w, q)]>>>>, value |-> x], r)

LEMMA JoinedFacts ==
  \A w, o, q, x, r : /\ Fails(r) => Joined(w, o, q, x, r) = r
                     /\ \A j : Reaches(r, j) => Reaches(Joined(w, o, q, x, r), j)
BY WithFacts DEF Joined

LEMMA KeyRead ==
  ASSUME NEW w \in Seq(Nest), NEW p \in 1..(Len(w) + 1)
  PROVE  /\ Peek(w, p) \in Keys => /\ ParseString(w, p) = Value(Atom("string", <<<<w[p]>>>>), p + 1)
                                   /\ p \in 1..Len(w)
         /\ Peek(w, p) \notin Keys => ParseString(w, p) = Failed(p)
<1> DEFINE t == Peek(w, p)
<1>1. (t = "end" /\ p \notin 1..Len(w)) \/ (t \in Nest /\ t = w[p] /\ p \in 1..Len(w))
  <2>1. p \in 1..Len(w) \/ (p > Len(w) /\ p \in Nat \ {0})
    BY NestFacts
  <2> QED BY <2>1, NestFacts
<1>2. "end" \notin Names /\ Keys \subseteq Names
  BY NamesFacts, WordAssumption
<1>3. t # "quote" /\ (t \in Names <=> t \in Keys)
  BY <1>1, <1>2, NestTokens
<1> QED BY <1>1, <1>2, <1>3 DEF ParseString

ElementOf(w, f, o, q, v, e) ==
  /\ ~ Keyed(w, o, q) => e = Failed(IF Peek(w, KeyAt(w, q)) \in Keys THEN ColonAt(w, q) ELSE KeyAt(w, q))
  /\ Keyed(w, o, q) => /\ ValueAt(w, o, q) \in q..(Len(w) + 1)
                       /\ Fails(v) => e = v
                       /\ \A j : Reaches(v, j) => e = Joined(w, o, q, v.val, f[<<o, j, FALSE>>])

LEMMA ElementIs ==
  ASSUME NEW w \in Seq(Nest), NEW f, NEW o \in Openers, NEW q \in 1..(Len(w) + 1)
  PROVE  ElementOf(w, f, o, q, Parse(w, f, ValueAt(w, o, q)), Element(w, f, o, q))
<1> DEFINE v == Parse(w, f, ValueAt(w, o, q))
           k == ParseString(w, KeyAt(w, q))
           c == SkipWs(w, k.at)
           x == Parse(w, f, c + 1)
<1>1. Len(w) \in Nat
  BY NestFacts
<1>2. CASE o = "["
  <2>1. Element(w, f, o, q) = IF v.ok THEN WithItem(v.val, f[<<o, v.at, FALSE>>]) ELSE v
    BY <1>2 DEF Element, ArrayItem, ValueAt
  <2>2. Keyed(w, o, q) /\ ValueAt(w, o, q) \in q..(Len(w) + 1)
    BY <1>1, <1>2 DEF Keyed, ValueAt
  <2> HIDE DEF v
  <2>3. Fails(v) => Element(w, f, o, q) = v
    BY <2>1, ReachFacts
  <2>4. \A j : Reaches(v, j) => Element(w, f, o, q) = Joined(w, o, q, v.val, f[<<o, j, FALSE>>])
    BY <1>2, <2>1, ReachFacts DEF Joined
  <2> QED BY <2>2, <2>3, <2>4 DEF v, ElementOf
<1>3. CASE o # "["
  <2>1. Element(w, f, o, q) =
          IF ~ k.ok THEN k
          ELSE IF Peek(w, c) # Colon THEN Failed(c)
          ELSE IF x.ok THEN WithPair([key |-> k.val.v, value |-> x.val], f[<<o, x.at, FALSE>>])
          ELSE x
    <3>1. Element(w, f, o, q) = ObjectPair(w, f, q)
      BY <1>3 DEF Element
    <3>2. o = "{"
      BY <1>3, Zenon DEF Openers
    <3> QED BY <3>1, <3>2, Zenon DEF ObjectPair, KeyAt, Colon
  <2>2. KeyAt(w, q) \in q..(Len(w) + 1)
    BY <1>1, SkipFacts DEF KeyAt
  <2>3. KeyAt(w, q) \in 1..(Len(w) + 1)
    BY <1>1, <2>2
  <2>4. CASE Peek(w, KeyAt(w, q)) \notin Keys
    <3>1. k = Failed(KeyAt(w, q))
      BY <2>3, <2>4, KeyRead
    <3>2. ~ k.ok
      BY <3>1 DEF Failed
    <3> QED BY <1>3, <2>1, <2>4, <3>1, <3>2 DEF Keyed, ElementOf
  <2>5. CASE Peek(w, KeyAt(w, q)) \in Keys
    <3>1. k = Value(Atom("string", <<<<w[KeyAt(w, q)]>>>>), KeyAt(w, q) + 1) /\ KeyAt(w, q) \in 1..Len(w)
      BY <2>3, <2>5, KeyRead
    <3>2. k.ok /\ k.val.v = <<<<w[KeyAt(w, q)]>>>> /\ c = ColonAt(w, q)
      BY <3>1 DEF Value, Atom, ColonAt
    <3>3. KeyAt(w, q) + 1 \in 1..(Len(w) + 1)
      BY <1>1, <3>1
    <3>4. ColonAt(w, q) \in (KeyAt(w, q) + 1)..(Len(w) + 1)
      BY <1>1, <3>3, SkipFacts DEF ColonAt
    <3>5. CASE Peek(w, ColonAt(w, q)) # Colon
      BY <1>3, <2>1, <2>5, <3>2, <3>5 DEF Keyed, ElementOf
    <3>6. CASE Peek(w, ColonAt(w, q)) = Colon
      <4>1. Keyed(w, o, q) /\ x = v
        BY <1>3, <2>5, <3>2, <3>6 DEF Keyed, ValueAt
      <4>2. ValueAt(w, o, q) \in q..(Len(w) + 1)
        <5>1. ColonAt(w, q) \in 1..(Len(w) + 1) /\ Peek(w, ColonAt(w, q)) # "end"
          BY <1>1, <3>1, <3>4, <3>6, Apart
        <5>2. ColonAt(w, q) \in 1..Len(w)
          BY <1>1, <5>1 DEF Peek
        <5> QED BY <1>1, <1>3, <2>2, <3>4, <5>2 DEF ValueAt
      <4>3. Element(w, f, o, q) =
              IF v.ok THEN WithPair([key |-> k.val.v, value |-> v.val], f[<<o, v.at, FALSE>>]) ELSE v
        BY <2>1, <3>2, <3>6, <4>1
      <4> HIDE DEF v
      <4>4. Fails(v) => Element(w, f, o, q) = v
        BY <4>3, ReachFacts
      <4>5. \A j : Reaches(v, j) => Element(w, f, o, q) = Joined(w, o, q, v.val, f[<<o, j, FALSE>>])
        BY <1>3, <3>2, <4>3, ReachFacts DEF Joined
      <4> QED BY <4>1, <4>2, <4>4, <4>5 DEF v, ElementOf
    <3> QED BY <3>5, <3>6
  <2> QED BY <2>4, <2>5
<1> QED BY <1>2, <1>3 DEF ElementOf

LEMMA ValueInside ==
  ASSUME NEW w \in Seq(Nest), NEW o \in Openers, NEW q \in 1..(Len(w) + 1), Keyed(w, o, q)
  PROVE  ValueAt(w, o, q) \in q..(Len(w) + 1)
<1>1. ElementOf(w, <<>>, o, q, Parse(w, <<>>, ValueAt(w, o, q)), Element(w, <<>>, o, q))
  BY ElementIs
<1> QED BY <1>1 DEF ElementOf

LEMMA ElementEnds ==
  ASSUME NEW w \in Seq(Nest), NEW i \in 1..(Len(w) + 1), NEW f, NEW g, KnownBehind(w, i, f, g),
         NEW o \in Openers, NEW q \in i..(Len(w) + 1)
  PROVE  Settled(w, q, Element(w, f, o, q), Element(w, g, o, q))
<1> DEFINE a == ValueAt(w, o, q)
           v == Parse(w, f, a)
           u == Parse(w, g, a)
<1>1. Len(w) \in Nat /\ q \in 1..(Len(w) + 1)
  BY NestFacts
<1>e. ElementOf(w, f, o, q, v, Element(w, f, o, q)) /\ ElementOf(w, g, o, q, u, Element(w, g, o, q))
  BY <1>1, ElementIs
<1>2. CASE ~ Keyed(w, o, q)
  <2> DEFINE k == IF Peek(w, KeyAt(w, q)) \in Keys THEN ColonAt(w, q) ELSE KeyAt(w, q)
  <2>1. Element(w, f, o, q) = Failed(k) /\ Element(w, g, o, q) = Failed(k)
    BY <1>2, <1>e DEF ElementOf
  <2>2. k \in Nat
    <3>1. KeyAt(w, q) \in q..(Len(w) + 1)
      BY <1>1, SkipFacts DEF KeyAt
    <3>2. KeyAt(w, q) \in 1..(Len(w) + 1)
      BY <1>1, <3>1
    <3>3. CASE Peek(w, KeyAt(w, q)) \in Keys
      <4>1. KeyAt(w, q) \in 1..Len(w)
        BY <3>2, <3>3, KeyRead
      <4>2. KeyAt(w, q) + 1 \in 1..(Len(w) + 1)
        BY <1>1, <4>1
      <4>3. ColonAt(w, q) \in (KeyAt(w, q) + 1)..(Len(w) + 1)
        BY <1>1, <4>2, SkipFacts DEF ColonAt
      <4> QED BY <1>1, <3>3, <4>2, <4>3
    <3>4. CASE Peek(w, KeyAt(w, q)) \notin Keys
      BY <3>2, <3>4
    <3> QED BY <3>3, <3>4
  <2> HIDE DEF k
  <2> QED BY <1>1, <2>1, <2>2, EndsFacts DEF Settled
<1>3. CASE Keyed(w, o, q)
  <2>1. a \in q..(Len(w) + 1)
    BY <1>3, <1>e DEF ElementOf
  <2>2. Settled(w, a, v, u)
    <3>1. a \in i..(Len(w) + 1)
      BY <1>1, <2>1
    <3> HIDE DEF a
    <3> QED BY <3>1, ParseEnds
  <2>3. /\ Fails(v) => Element(w, f, o, q) = v
        /\ \A j : Reaches(v, j) => Element(w, f, o, q) = Joined(w, o, q, v.val, f[<<o, j, FALSE>>])
    BY <1>3, <1>e DEF ElementOf
  <2>4. /\ Fails(u) => Element(w, g, o, q) = u
        /\ \A j : Reaches(u, j) => Element(w, g, o, q) = Joined(w, o, q, u.val, g[<<o, j, FALSE>>])
    BY <1>3, <1>e DEF ElementOf
  <2> HIDE DEF a, v, u
  <2>5. u = v /\ Ends(w, a, v)
    BY <2>2 DEF Settled
  <2>6. CASE Fails(v)
    BY <2>3, <2>4, <2>5, <2>6 DEF Settled, Ends
  <2>7. ASSUME NEW j \in (a + 1)..(Len(w) + 1), Reaches(v, j)
        PROVE  Settled(w, q, Element(w, f, o, q), Element(w, g, o, q))
    <3> DEFINE s == <<o, j, FALSE>>
    <3>1. j \in (i + 1)..(Len(w) + 1) /\ j \in q..(Len(w) + 1) /\ j \in 1..(Len(w) + 1)
      BY <1>1, <2>1
    <3>2. g[s] = f[s] /\ Ends(w, j, f[s])
      BY <3>1 DEF KnownBehind
    <3>3. Element(w, f, o, q) = Joined(w, o, q, v.val, f[s]) /\ Element(w, g, o, q) = Joined(w, o, q, v.val, g[s])
      BY <2>3, <2>4, <2>5, <2>7
    <3> HIDE DEF s
    <3>4. Ends(w, j, Joined(w, o, q, v.val, f[s]))
      BY <3>2, JoinedFacts DEF Ends
    <3>5. Ends(w, q, Joined(w, o, q, v.val, f[s]))
      BY <1>1, <3>1, <3>4, EndsFacts
    <3> QED BY <3>2, <3>3, <3>5 DEF Settled
  <2> QED BY <2>5, <2>6, <2>7 DEF Ends
<1> QED BY <1>2, <1>3

\* The place of the next element, if there may be one: behind a comma, unless it is the first.
NextAt(w, i, first) == IF first THEN i ELSE SkipWs(w, i) + 1

StepOf(w, f, o, i, b, r) ==
  /\ i = Len(w) + 1 => r = Failed(i)
  /\ i <= Len(w) /\ w[i] = Closing(o) => r = Value(Empty(o), i + 1)
  /\ i <= Len(w) /\ w[i] # Closing(o) /\ ~ b /\ Peek(w, SkipWs(w, i)) # Comma => r = Failed(SkipWs(w, i))
  /\ i <= Len(w) /\ w[i] # Closing(o) /\ (b \/ Peek(w, SkipWs(w, i)) = Comma) =>
       r = Element(w, f, o, NextAt(w, i, b))

LEMMA StepIs ==
  ASSUME NEW w \in Seq(Nest), NEW f, NEW o \in Openers, NEW i \in 1..(Len(w) + 1), NEW b \in BOOLEAN
  PROVE  StepOf(w, f, o, i, b, NestedStep(w, f, <<o, i, b>>))
<1>1. Len(w) \in Nat /\ (i = Len(w) + 1 <=> Peek(w, i) = "end") /\ (i <= Len(w) => Peek(w, i) = w[i])
  <2>1. i \in 1..Len(w) \/ (i > Len(w) /\ i \in Nat \ {0})
    BY NestFacts
  <2> QED BY <2>1, NestFacts
<1>2. SkipWs(w, i) + 1 # 0 /\ i # 0
  <2>1. SkipWs(w, i) \in i..(Len(w) + 1)
    BY <1>1, SkipFacts
  <2> QED BY <1>1, <2>1
<1>3. Separated(w, i, b) = IF b THEN i ELSE IF Peek(w, SkipWs(w, i)) = Comma THEN SkipWs(w, i) + 1 ELSE 0
  BY Zenon DEF Separated, Comma
<1> DEFINE next == Separated(w, i, b)
<1>4. NestedStep(w, f, <<o, i, b>>) =
        IF Peek(w, i) = "end" THEN Failed(i)
        ELSE IF Peek(w, i) = Closing(o) THEN Value(Empty(o), i + 1)
        ELSE IF next = 0 THEN Failed(SkipWs(w, i))
        ELSE Element(w, f, o, next)
  BY DEF NestedStep
<1> HIDE DEF next
<1>5. /\ b => next = i
      /\ ~ b /\ Peek(w, SkipWs(w, i)) = Comma => next = SkipWs(w, i) + 1
      /\ ~ b /\ Peek(w, SkipWs(w, i)) # Comma => next = 0
  BY <1>3 DEF next
<1> QED BY <1>1, <1>2, <1>4, <1>5 DEF NextAt, StepOf

LEMMA NextInside ==
  ASSUME NEW w \in Seq(Nest), NEW i \in 1..Len(w), NEW b \in BOOLEAN, b \/ Peek(w, SkipWs(w, i)) = Comma
  PROVE  /\ NextAt(w, i, b) \in i..(Len(w) + 1)
         /\ ~ b => /\ SkipWs(w, i) \in i..Len(w) /\ w[SkipWs(w, i)] = Comma
                   /\ Blank(w, i, SkipWs(w, i)) /\ NextAt(w, i, b) = SkipWs(w, i) + 1
<1>1. Len(w) \in Nat /\ i \in 1..(Len(w) + 1)
  BY NestFacts
<1>2. /\ SkipWs(w, i) \in i..(Len(w) + 1)
      /\ \A k \in i..(SkipWs(w, i) - 1) : w[k] = "ws"
  BY <1>1, SkipFacts
<1>3. CASE b
  BY <1>1, <1>3 DEF NextAt
<1>4. CASE ~ b
  <2>1. Peek(w, SkipWs(w, i)) = Comma /\ Comma # "end"
    BY <1>4, Apart
  <2>2. SkipWs(w, i) \in i..Len(w) /\ w[SkipWs(w, i)] = Comma
    BY <1>1, <1>2, <2>1 DEF Peek
  <2>3. Blank(w, i, SkipWs(w, i))
    BY <1>2 DEF Blank
  <2> QED BY <1>1, <1>4, <2>2, <2>3 DEF NextAt
<1> QED BY <1>3, <1>4

LEMMA StepEnds ==
  ASSUME NEW w \in Seq(Nest), NEW i \in 1..(Len(w) + 1), NEW f, NEW g, KnownBehind(w, i, f, g),
         NEW o \in Openers, NEW b \in BOOLEAN
  PROVE  Settled(w, i, NestedStep(w, f, <<o, i, b>>), NestedStep(w, g, <<o, i, b>>))
<1>1. Len(w) \in Nat
  BY NestFacts
<1> DEFINE r == NestedStep(w, f, <<o, i, b>>)
           s == NestedStep(w, g, <<o, i, b>>)
<1>s. StepOf(w, f, o, i, b, r) /\ StepOf(w, g, o, i, b, s)
  BY StepIs
<1> HIDE DEF r, s
<1>2. CASE i = Len(w) + 1
  <2>1. r = Failed(i) /\ s = Failed(i)
    BY <1>2, <1>s DEF StepOf
  <2> QED BY <1>1, <2>1, EndsFacts DEF Settled, r, s
<1>3. CASE i <= Len(w) /\ w[i] = Closing(o)
  <2>1. r = Value(Empty(o), i + 1) /\ s = Value(Empty(o), i + 1)
    BY <1>3, <1>s DEF StepOf
  <2>2. Reaches(r, i + 1) /\ i + 1 \in (i + 1)..(Len(w) + 1)
    BY <1>1, <1>3, <2>1 DEF Reaches
  <2> QED BY <1>1, <2>1, <2>2, EndsFacts DEF Settled, r, s
<1>4. CASE i <= Len(w) /\ w[i] # Closing(o) /\ ~ b /\ Peek(w, SkipWs(w, i)) # Comma
  <2>1. r = Failed(SkipWs(w, i)) /\ s = Failed(SkipWs(w, i))
    BY <1>4, <1>s DEF StepOf
  <2>2. SkipWs(w, i) \in Nat
    <3>1. SkipWs(w, i) \in i..(Len(w) + 1)
      BY <1>1, SkipFacts
    <3> QED BY <1>1, <3>1
  <2> QED BY <1>1, <2>1, <2>2, EndsFacts DEF Settled, r, s
<1>5. CASE i <= Len(w) /\ w[i] # Closing(o) /\ (b \/ Peek(w, SkipWs(w, i)) = Comma)
  <2> DEFINE n == NextAt(w, i, b)
  <2>1. r = Element(w, f, o, n) /\ s = Element(w, g, o, n)
    BY <1>5, <1>s DEF StepOf
  <2>2. n \in i..(Len(w) + 1)
    BY <1>1, <1>5, NextInside
  <2> HIDE DEF n
  <2>3. Settled(w, n, Element(w, f, o, n), Element(w, g, o, n))
    BY <2>2, ElementEnds
  <2>4. Ends(w, i, r)
    BY <1>1, <2>1, <2>2, <2>3, EndsFacts DEF Settled
  <2> QED BY <2>1, <2>3, <2>4 DEF Settled, r, s
<1> QED BY <1>1, <1>2, <1>3, <1>4, <1>5 DEF r, s

Spots(w) == Openers \X (1..(Len(w) + 1)) \X BOOLEAN

LEMMA SpotFacts ==
  ASSUME NEW w, NEW s \in Spots(w)
  PROVE  s = <<s[1], s[2], s[3]>> /\ s[1] \in Openers /\ s[2] \in 1..(Len(w) + 1) /\ s[3] \in BOOLEAN
BY DEF Spots

LEMMA NestedExists ==
  ASSUME NEW w \in Seq(Nest)
  PROVE  \E f : /\ f = [s \in Spots(w) |-> NestedStep(w, f, s)]
                /\ \A s \in Spots(w) : Ends(w, s[2], f[s])
<1> DEFINE D == Spots(w)
           Fixed(f, s) == f[s] = NestedStep(w, f, s) /\ Ends(w, s[2], f[s])
           Good(f, k) == f = [s \in D |-> f[s]] /\ \A s \in D : s[2] >= k => Fixed(f, s)
           S == {k \in 1..(Len(w) + 2) : \E f : Good(f, k)}
<1>1. Len(w) \in Nat /\ \A s \in D : s[2] \in 1..(Len(w) + 1)
  BY NestFacts, SpotFacts
<1> HIDE DEF D, Fixed
<1>2. Len(w) + 2 \in S
  <2>1. Good([s \in D |-> s], Len(w) + 2)
    BY <1>1
  <2> HIDE DEF Good
  <2>2. \E f : Good(f, Len(w) + 2)
    BY <2>1
  <2> QED BY <1>1, <2>2
<1>3. PICK m \in S : \A k \in S : m <= k
  <2>1. S \in SUBSET Nat /\ S # {}
    BY <1>1, <1>2
  <2> HIDE DEF S
  <2> QED BY <2>1, Least
<1>4. PICK f : Good(f, m)
  BY <1>3
<1>5. m = 1
  <2> SUFFICES ASSUME m # 1 PROVE FALSE
    OBVIOUS
  <2> DEFINE p == m - 1
             g == [s \in D |-> IF s[2] = p THEN NestedStep(w, f, s) ELSE f[s]]
  <2>1. p \in 1..(Len(w) + 1) /\ p + 1 = m
    BY <1>1, <1>3
  <2>2. g = [s \in D |-> g[s]] /\ \A s \in D : g[s] = IF s[2] = p THEN NestedStep(w, f, s) ELSE f[s]
    OBVIOUS
  <2> HIDE DEF g
  <2>3. ASSUME NEW s \in D, s[2] >= p PROVE Fixed(g, s)
    <3>1. ASSUME NEW o \in Openers, NEW k \in (s[2] + 1)..(Len(w) + 1), NEW b \in BOOLEAN
          PROVE  g[<<o, k, b>>] = f[<<o, k, b>>] /\ Ends(w, k, f[<<o, k, b>>])
      <4> DEFINE t == <<o, k, b>>
      <4>1. t[2] = k /\ k >= m /\ k # p /\ t \in D
        BY <1>1, <2>1, <2>3 DEF D, Spots
      <4> HIDE DEF t
      <4>2. Fixed(f, t) /\ g[t] = f[t]
        BY <1>4, <2>2, <4>1
      <4>3. Ends(w, k, f[t])
        BY <4>1, <4>2 DEF Fixed
      <4> QED BY <4>2, <4>3 DEF t
    <3>2. KnownBehind(w, s[2], f, g)
      BY <3>1 DEF KnownBehind
    <3>3. s = <<s[1], s[2], s[3]>> /\ s[1] \in Openers /\ s[2] \in 1..(Len(w) + 1) /\ s[3] \in BOOLEAN
      BY SpotFacts DEF D
    <3>4. Settled(w, s[2], NestedStep(w, f, s), NestedStep(w, g, s))
      <4>1. Settled(w, s[2], NestedStep(w, f, <<s[1], s[2], s[3]>>), NestedStep(w, g, <<s[1], s[2], s[3]>>))
        BY <3>2, <3>3, StepEnds
      <4> QED BY <3>3, <4>1
    <3>5. g[s] = NestedStep(w, f, s)
      <4>1. s[2] # p => s[2] >= m
        BY <1>1, <2>1, <2>3
      <4> QED BY <1>4, <2>2, <4>1 DEF Fixed
    <3> QED BY <3>4, <3>5 DEF Settled, Fixed
  <2>4. Good(g, p)
    BY <2>2, <2>3
  <2>5. p \in S
    <3> HIDE DEF Good
    <3>1. \E h : Good(h, p)
      BY <2>4
    <3>2. p \in 1..(Len(w) + 2)
      BY <1>1, <2>1
    <3> HIDE DEF p
    <3> QED BY <3>1, <3>2
  <2> QED BY <1>3, <2>1, <2>5
<1>6. \A s \in D : s[2] >= m
  BY <1>1, <1>5
<1>7. f = [s \in D |-> NestedStep(w, f, s)] /\ \A s \in D : Ends(w, s[2], f[s])
  BY <1>4, <1>6 DEF Fixed
<1> QED BY <1>7 DEF D

LEMMA NestedIs ==
  ASSUME NEW w \in Seq(Nest), NEW o \in Openers, NEW i \in 1..(Len(w) + 1), NEW b \in BOOLEAN
  PROVE  NestedIn(w)[<<o, i, b>>] = NestedStep(w, NestedIn(w), <<o, i, b>>)
<1> DEFINE Step(f) == [s \in Spots(w) |-> NestedStep(w, f, s)]
           nested == CHOOSE f : f = Step(f)
<1>1. nested = Step(nested)
  BY NestedExists
<1>2. NestedIn(w) = nested
  BY Zenon DEF NestedIn, Spots, Openers
<1> HIDE DEF nested
<1>3. <<o, i, b>> \in Spots(w)
  BY DEF Spots
<1>4. nested[<<o, i, b>>] = NestedStep(w, nested, <<o, i, b>>)
  BY <1>1, <1>3
<1> QED BY <1>2, <1>4

LEMMA NestedEnds ==
  ASSUME NEW w \in Seq(Nest), NEW o \in Openers, NEW i \in 1..(Len(w) + 1), NEW b \in BOOLEAN
  PROVE  Ends(w, i, NestedIn(w)[<<o, i, b>>])
<1> DEFINE N == NestedIn(w)
           Ended(k) == \A a \in Openers, c \in BOOLEAN : Ends(w, k, N[<<a, k, c>>])
           S == {k \in 1..(Len(w) + 1) : ~ Ended(k)}
<1>1. Len(w) \in Nat
  BY NestFacts
<1> HIDE DEF N
<1>2. SUFFICES ASSUME S # {} PROVE FALSE
  BY DEF N
<1>3. PICK m \in S : \A k \in S : k <= m
  <2>1. S \in SUBSET (0..(Len(w) + 1)) /\ Len(w) + 1 \in Nat
    BY <1>1
  <2> HIDE DEF S
  <2> QED BY <1>2, <2>1, Greatest
<1>4. m \in 1..(Len(w) + 1) /\ ~ Ended(m)
  OBVIOUS
<1>5. \A k \in (m + 1)..(Len(w) + 1) : Ended(k)
  <2>1. ASSUME NEW k \in (m + 1)..(Len(w) + 1) PROVE Ended(k)
    <3>1. k \in 1..(Len(w) + 1) /\ ~ (k <= m)
      BY <1>1, <1>4
    <3> QED BY <1>3, <3>1
  <2> QED BY <2>1
<1>6. KnownBehind(w, m, N, N)
  BY <1>5 DEF KnownBehind
<1>7. ASSUME NEW a \in Openers, NEW c \in BOOLEAN PROVE Ends(w, m, N[<<a, m, c>>])
  <2>1. Settled(w, m, NestedStep(w, N, <<a, m, c>>), NestedStep(w, N, <<a, m, c>>))
    BY <1>4, <1>6, StepEnds
  <2>2. N[<<a, m, c>>] = NestedStep(w, N, <<a, m, c>>)
    BY <1>4, NestedIs DEF N
  <2> QED BY <2>1, <2>2 DEF Settled
<1> QED BY <1>4, <1>7

LEMMA AllKnown ==
  ASSUME NEW w \in Seq(Nest), NEW i \in 1..(Len(w) + 1)
  PROVE  KnownBehind(w, i, NestedIn(w), NestedIn(w))
<1>1. Len(w) \in Nat /\ \A k \in (i + 1)..(Len(w) + 1) : k \in 1..(Len(w) + 1)
  BY NestFacts
<1> QED BY <1>1, NestedEnds DEF KnownBehind

--------------------------------------------------------------------------
(* Parser and grammar, element by element *)

LEMMA BlankFacts ==
  ASSUME NEW w, NEW i \in Int, NEW j \in Int, NEW k \in Int
  PROVE  /\ Blank(w, i, j) /\ Blank(w, j, k) => Blank(w, i, k)
         /\ i >= j => Blank(w, i, j)
         /\ Blank(w, i, j) /\ k \in i..(j - 1) => w[k] = "ws"
BY DEF Blank

\* The first place that is not blank is where SkipWs stops.
LEMMA BlankSkipped ==
  ASSUME NEW w \in Seq(Nest), NEW i \in 1..(Len(w) + 1)
  PROVE  /\ SkipWs(w, i) \in i..(Len(w) + 1) /\ Blank(w, i, SkipWs(w, i)) /\ Peek(w, SkipWs(w, i)) # "ws"
         /\ \A j \in i..(Len(w) + 1) : Blank(w, i, j) /\ Peek(w, j) # "ws" => SkipWs(w, i) = j
<1>1. Len(w) \in Nat
  BY NestFacts
<1>2. /\ SkipWs(w, i) \in i..(Len(w) + 1) /\ Peek(w, SkipWs(w, i)) # "ws"
      /\ \A k \in i..(SkipWs(w, i) - 1) : w[k] = "ws"
  BY <1>1, SkipFacts
<1>3. ASSUME NEW j \in i..(Len(w) + 1), Blank(w, i, j), Peek(w, j) # "ws" PROVE SkipWs(w, i) = j
  BY <1>1, <1>3, SkipIs DEF Blank
<1> QED BY <1>2, <1>3 DEF Blank

LEMMA PeekIs ==
  ASSUME NEW w \in Seq(Nest), NEW i \in 1..(Len(w) + 1), Peek(w, i) # "end"
  PROVE  i \in 1..Len(w) /\ w[i] = Peek(w, i)
BY NestFacts DEF Peek

LEMMA TextGrows ==
  ASSUME NEW w \in Seq(Nest), NEW i \in 1..(Len(w) + 1), NEW j \in 1..(Len(w) + 1), NEW k \in j..(Len(w) + 1),
         Txt(w, i, j), Blank(w, j, k)
  PROVE  Txt(w, i, k)
<1>1. Len(w) \in Nat /\ k \in 1..(Len(w) + 1)
  BY NestFacts
<1>2. PICK p \in i..j, e \in i..j : p < e /\ Blank(w, i, p) /\ Blank(w, e, j) /\ Core(w, p, e)
  BY TextIs
<1>3. p \in i..k /\ e \in i..k /\ Blank(w, e, k)
  BY <1>1, <1>2, BlankFacts
<1> QED BY <1>1, <1>2, <1>3, TextIs

LEMMA TextBegins ==
  ASSUME NEW w \in Seq(Nest), NEW i \in 1..(Len(w) + 1), NEW j \in 1..(Len(w) + 1), Txt(w, i, j)
  PROVE  \E p \in i..(j - 1) : Blank(w, i, p) /\ w[p] \in Openers \cup Atoms
<1>1. Len(w) \in Nat
  BY NestFacts
<1>2. PICK p \in i..j, e \in i..j : p < e /\ Blank(w, i, p) /\ Blank(w, e, j) /\ Core(w, p, e)
  BY TextIs
<1>3. p \in i..(j - 1)
  BY <1>1, <1>2
<1> QED BY <1>2, <1>3 DEF Core, Bracketed

\* One element of the grammar: the parser finds its key and its colon.
LEMMA OneIs ==
  ASSUME NEW w \in Seq(Nest), NEW o \in Openers, NEW q \in 1..(Len(w) + 1), NEW e \in 1..(Len(w) + 1)
  PROVE  One(w, o, q, e) <=> Keyed(w, o, q) /\ ValueAt(w, o, q) <= e /\ Txt(w, ValueAt(w, o, q), e)
<1>1. Len(w) \in Nat
  BY NestFacts
<1>2. CASE o = "["
  <2>1. Txt(w, q, e) => q <= e
    BY <1>1, TextBegins
  <2> QED BY <1>2, <2>1 DEF One, IsOneIn, Txt, Keyed, ValueAt
<1>3. CASE o # "["
  <2>1. One(w, o, q, e) <=> \E c \in q..(e - 1) : w[c] = Colon /\ Key(w, q, c) /\ Txt(w, c + 1, e)
    BY <1>3, MemberIs DEF One, IsOneIn
  <2>2. ASSUME NEW c \in q..(e - 1), w[c] = Colon, Key(w, q, c), Txt(w, c + 1, e)
        PROVE  Keyed(w, o, q) /\ ValueAt(w, o, q) = c + 1
    <3>1. PICK p \in q..(c - 1) : Blank(w, q, p) /\ Blank(w, p + 1, c) /\ w[p] \in Keys
      BY <2>2 DEF Key
    <3>2. p \in q..(Len(w) + 1) /\ p + 1 \in 1..(Len(w) + 1) /\ c \in (p + 1)..(Len(w) + 1)
          /\ Peek(w, p) = w[p] /\ Peek(w, c) = w[c]
      BY <1>1, <3>1 DEF Peek
    <3>3. w[p] # "ws" /\ w[c] # "ws"
      BY <2>2, <3>1, Apart DEF Atoms
    <3>4. KeyAt(w, q) = p
      BY <3>1, <3>2, <3>3, BlankSkipped DEF KeyAt
    <3>5. ColonAt(w, q) = c
      BY <3>1, <3>2, <3>3, <3>4, BlankSkipped DEF ColonAt
    <3> QED BY <1>3, <2>2, <3>1, <3>2, <3>4, <3>5 DEF Keyed, ValueAt
  <2>3. ASSUME Keyed(w, o, q), ValueAt(w, o, q) <= e, Txt(w, ValueAt(w, o, q), e) PROVE One(w, o, q, e)
    <3> DEFINE p == KeyAt(w, q)
               c == ColonAt(w, q)
    <3>1. ValueAt(w, o, q) = c + 1 /\ Peek(w, p) \in Keys /\ Peek(w, c) = Colon
      BY <1>3, <2>3 DEF Keyed, ValueAt
    <3>2. p \in q..(Len(w) + 1) /\ Blank(w, q, p)
      BY BlankSkipped DEF KeyAt
    <3>3. p \in 1..Len(w) /\ w[p] \in Keys
      <4>1. Peek(w, p) # "end"
        BY <3>1, Apart DEF Atoms
      <4> QED BY <1>1, <3>1, <3>2, <4>1, PeekIs
    <3>4. c \in (p + 1)..(Len(w) + 1) /\ Blank(w, p + 1, c)
      <4>1. p + 1 \in 1..(Len(w) + 1)
        BY <1>1, <3>3
      <4> QED BY <4>1, BlankSkipped DEF ColonAt
    <3>5. c \in 1..Len(w) /\ w[c] = Colon
      <4>1. Peek(w, c) # "end" /\ c \in 1..(Len(w) + 1)
        BY <1>1, <3>1, <3>3, <3>4, Apart
      <4> QED BY <3>1, <4>1, PeekIs
    <3> HIDE DEF p, c
    <3>6. c \in q..(e - 1) /\ Txt(w, c + 1, e) /\ p \in q..(c - 1)
      BY <1>1, <2>3, <3>1, <3>2, <3>4, <3>5
    <3>7. Key(w, q, c)
      BY <3>2, <3>3, <3>4, <3>6 DEF Key
    <3> QED BY <2>1, <3>5, <3>6, <3>7
  <2> QED BY <1>1, <2>1, <2>2, <2>3
<1> QED BY <1>2, <1>3

\* A list begins with an opening bracket or an atom.
LEMMA ListBegins ==
  ASSUME NEW w \in Seq(Nest), NEW o \in Openers, NEW i \in 1..(Len(w) + 1), NEW j \in 1..(Len(w) + 1), Lst(w, o, i, j)
  PROVE  \E p \in i..(j - 1) : Blank(w, i, p) /\ w[p] \in Openers \cup Atoms
<1>1. Len(w) \in Nat
  BY NestFacts
<1>2. PICK e \in i..j : One(w, o, i, e)
  <2>1. CASE One(w, o, i, j)
    <3>1. i <= j
      <4>1. Keyed(w, o, i) /\ ValueAt(w, o, i) <= j
        BY <2>1, OneIs
      <4>2. ValueAt(w, o, i) \in i..(Len(w) + 1)
        BY <4>1, ValueInside
      <4> QED BY <1>1, <4>1, <4>2
    <3> QED BY <2>1, <3>1
  <2>2. CASE \E c \in i..(j - 1) : w[c] = Comma /\ One(w, o, i, c) /\ Lst(w, o, c + 1, j)
    BY <1>1, <2>2
  <2> QED BY <2>1, <2>2, ListIs
<1>3. Keyed(w, o, i) /\ Txt(w, ValueAt(w, o, i), e)
  BY <1>1, <1>2, OneIs
<1>4. CASE o = "["
  <2>1. PICK p \in i..(e - 1) : Blank(w, i, p) /\ w[p] \in Openers \cup Atoms
    BY <1>1, <1>3, <1>4, TextBegins DEF ValueAt
  <2> QED BY <1>1, <2>1
<1>5. CASE o # "["
  <2> DEFINE p == KeyAt(w, i)
  <2>1. p \in i..(Len(w) + 1) /\ Blank(w, i, p) /\ Peek(w, p) \in Keys
    BY <1>3, <1>5, BlankSkipped DEF Keyed, KeyAt
  <2>2. p \in 1..Len(w) /\ w[p] \in Atoms
    <3>1. Peek(w, p) \in Atoms /\ Peek(w, p) # "end"
      BY <2>1, Apart DEF Atoms
    <3> QED BY <1>1, <2>1, <3>1, PeekIs
  <2>3. p <= j - 1
    <3>1. p + 1 \in 1..(Len(w) + 1)
      BY <1>1, <2>2
    <3>2. ColonAt(w, i) >= p + 1
      BY <1>1, <3>1, BlankSkipped DEF ColonAt
    <3>3. ValueAt(w, o, i) = ColonAt(w, i) + 1 /\ ValueAt(w, o, i) <= e
      BY <1>1, <1>2, <1>5, OneIs DEF ValueAt
    <3> QED BY <1>1, <2>2, <3>1, <3>2, <3>3, BlankSkipped DEF ColonAt
  <2> HIDE DEF p
  <2> QED BY <1>1, <2>1, <2>2, <2>3
<1> QED BY <1>4, <1>5

HollowAt(w, a) == w[a] \in Openers /\ \E k \in (a + 2)..Len(w) : w[k] = Closing(w[a]) /\ Blank(w, a + 1, k)
Clean(w, i, j) == \A a \in i..(j - 1) : ~ HollowAt(w, a)

LEMMA HollowIs ==
  ASSUME NEW w \in Seq(Nest)
  PROVE  Hollow(w) <=> ~ Clean(w, 1, Len(w) + 1)
<1>1. Len(w) \in Nat /\ DOMAIN w = 1..Len(w)
  OBVIOUS
<1>2. ASSUME Hollow(w) PROVE ~ Clean(w, 1, Len(w) + 1)
  <2>1. PICK i \in 1..Len(w), j \in 1..Len(w) :
          i + 1 < j /\ <<w[i], w[j]>> \in Brackets /\ Blank(w, i + 1, j)
    BY <1>1, <1>2 DEF Hollow
  <2>2. w[i] \in Openers /\ w[j] = Closing(w[i])
    BY <2>1, BracketFacts
  <2>3. j \in (i + 2)..Len(w) /\ i \in 1..(Len(w) + 1 - 1)
    BY <1>1, <2>1
  <2> QED BY <2>1, <2>2, <2>3 DEF Clean, HollowAt
<1>3. ASSUME NEW a \in 1..(Len(w) + 1 - 1), HollowAt(w, a) PROVE Hollow(w)
  <2>1. PICK k \in (a + 2)..Len(w) : w[k] = Closing(w[a]) /\ Blank(w, a + 1, k)
    BY <1>3 DEF HollowAt
  <2>2. a \in DOMAIN w /\ k \in DOMAIN w /\ a + 1 < k
    BY <1>1
  <2>3. <<w[a], w[k]>> \in Brackets
    BY <1>3, <2>1, BracketFacts DEF HollowAt
  <2> QED BY <2>1, <2>2, <2>3 DEF Hollow
<1> QED BY <1>2, <1>3 DEF Clean

LEMMA CleanFacts ==
  ASSUME NEW w \in Seq(Nest), NEW i \in Int, NEW j \in Int, NEW k \in Int
  PROVE  /\ Clean(w, i, j) /\ Clean(w, j, k) => Clean(w, i, k)
         /\ Blank(w, i, j) => Clean(w, i, j)
         /\ ~ HollowAt(w, i) => Clean(w, i, i + 1)
         /\ w[i] \notin Openers => Clean(w, i, i + 1)
<1>1. "ws" \notin Openers
  BY Apart
<1>2. ASSUME Blank(w, i, j) PROVE Clean(w, i, j)
  BY <1>1, <1>2 DEF Clean, Blank, HollowAt
<1>3. ASSUME Clean(w, i, j), Clean(w, j, k) PROVE Clean(w, i, k)
  <2>1. \A a \in i..(k - 1) : a \in i..(j - 1) \/ a \in j..(k - 1)
    OBVIOUS
  <2> QED BY <1>3, <2>1 DEF Clean
<1>4. \A a \in i..(i + 1 - 1) : a = i
  OBVIOUS
<1> QED BY <1>2, <1>3, <1>4 DEF Clean, HollowAt

\* What the loop has read when it is done at j: the rest of a list of the grammar.
Rest(w, o, i, b, j) ==
  /\ j \in (i + 1)..(Len(w) + 1) /\ w[j - 1] = Closing(o) /\ Clean(w, i, j)
  /\ \/ j = i + 1
     \/ b /\ Lst(w, o, i, j - 1)
     \/ ~ b /\ \E c \in i..(j - 2) : w[c] = Comma /\ Blank(w, i, c) /\ Lst(w, o, c + 1, j - 1)
SoundAt(w, i) ==
  \A o \in Openers, b \in BOOLEAN, j \in 1..(Len(w) + 1) :
    Reaches(NestedIn(w)[<<o, i, b>>], j) => Rest(w, o, i, b, j)

LEMMA ParseSound ==
  ASSUME NEW w \in Seq(Nest), NEW q \in 1..(Len(w) + 1),
         \A k \in (q + 1)..(Len(w) + 1) : SoundAt(w, k),
         NEW j \in 1..(Len(w) + 1), Reaches(Parse(w, NestedIn(w), q), j)
  PROVE  q < j /\ Txt(w, q, j) /\ Clean(w, q, j)
<1> DEFINE N == NestedIn(w)
           p == SkipWs(w, q)
           r == ParseAt(w, N, p)
<1>1. Len(w) \in Nat
  BY NestFacts
<1>2. p \in q..(Len(w) + 1) /\ Blank(w, q, p)
  BY BlankSkipped
<1>3. p \in 1..(Len(w) + 1) /\ Reaches(Spaced(w, r), j)
  BY <1>1, <1>2 DEF Parse
<1> HIDE DEF N, p, r
<1>4. ~ Fails(r)
  BY <1>3, SpacedFacts, ReachFacts
<1>5. \A k : Reaches(r, k) => j = SkipWs(w, k)
  BY <1>3, SpacedFacts, ReachFacts
<1>6. CASE Peek(w, p) \in Openers
  <2>1. p \in 1..Len(w) /\ w[p] \in Openers
    <3>1. Peek(w, p) # "end"
      BY <1>6, Apart
    <3> QED BY <1>3, <1>6, <3>1, PeekIs
  <2>2. r = N[<<w[p], p + 1, TRUE>>] /\ p + 1 \in 1..(Len(w) + 1)
    <3>1. ParseAt(w, N, p) = N[<<w[p], p + 1, TRUE>>]
      BY <1>3, <1>6, ParseAtIs
    <3> QED BY <1>1, <2>1, <3>1 DEF r
  <2>3. PICK k \in (p + 2)..(Len(w) + 1) : Reaches(r, k)
    <3>1. Ends(w, p + 1, r)
      BY <2>1, <2>2, NestedEnds DEF N
    <3> QED BY <1>1, <1>3, <1>4, <3>1 DEF Ends
  <2>4. k \in 1..(Len(w) + 1) /\ p + 1 \in (q + 1)..(Len(w) + 1) /\ j = SkipWs(w, k)
    BY <1>1, <1>2, <1>3, <1>5, <2>1, <2>3
  <2>5. j \in k..(Len(w) + 1) /\ Blank(w, k, j)
    BY <2>4, BlankSkipped
  <2>6. Rest(w, w[p], p + 1, TRUE, k)
    <3>1. SoundAt(w, p + 1)
      BY <2>4
    <3> QED BY <2>1, <2>2, <2>3, <2>4, <3>1 DEF SoundAt, N
  <2>7. /\ w[k - 1] = Closing(w[p]) /\ Clean(w, p + 1, k)
        /\ k = p + 2 \/ Lst(w, w[p], p + 1, k - 1)
    BY <1>3, <2>6 DEF Rest
  <2>8. Core(w, p, k)
    <3>1. k = p + 2 => Blank(w, p + 1, k - 1)
      BY <1>3 DEF Blank
    <3> QED BY <2>1, <2>7, <3>1 DEF Core, Bracketed
  <2>9. Txt(w, q, j)
    <3>1. p \in q..j /\ k \in q..j /\ p < k
      BY <1>1, <1>2, <2>3, <2>4, <2>5
    <3> QED BY <1>2, <2>5, <2>8, <3>1, TextIs
  <2>10. ~ HollowAt(w, p)
    <3> SUFFICES ASSUME HollowAt(w, p) PROVE FALSE
      OBVIOUS
    <3>1. PICK h \in (p + 2)..Len(w) : w[h] = Closing(w[p]) /\ Blank(w, p + 1, h)
      BY DEF HollowAt
    <3>2. w[h] \notin Openers \cup Atoms /\ w[h] # "ws" /\ w[h] \in Closers
      <4>1. Closing(w[p]) \in Closers
        BY Zenon DEF Closing, Closers
      <4> QED BY <3>1, <4>1, Apart
    <3>3. w[p + 1] = "ws"
      BY <1>1, <1>3, <3>1 DEF Blank
    <3>4. k # p + 2
      <4>1. Closing(w[p]) # "ws"
        BY <3>1, <3>2
      <4> QED BY <1>3, <2>7, <3>3, <4>1
    <3>5. PICK x \in (p + 1)..(k - 1 - 1) : Blank(w, p + 1, x) /\ w[x] \in Openers \cup Atoms
      <4>1. k - 1 \in 1..(Len(w) + 1) /\ Lst(w, w[p], p + 1, k - 1)
        BY <1>1, <1>3, <2>3, <2>7, <3>4
      <4> QED BY <2>1, <2>2, <4>1, ListBegins
    <3>6. w[x] # "ws"
      BY <3>5, Apart
    <3>7. ~ (x < h) /\ ~ (h < x)
      BY <1>1, <1>3, <3>1, <3>2, <3>5, <3>6 DEF Blank
    <3> QED BY <1>1, <1>3, <3>1, <3>2, <3>5, <3>7
  <2>11. Clean(w, q, j)
    <3>1. Clean(w, q, p) /\ Clean(w, p, p + 1) /\ Clean(w, k, j)
      BY <1>1, <1>2, <1>3, <2>4, <2>5, <2>10, CleanFacts
    <3>2. Clean(w, q, p + 1)
      BY <1>1, <1>3, <3>1, CleanFacts
    <3>3. Clean(w, q, k)
      BY <1>1, <1>3, <2>4, <2>7, <3>2, CleanFacts
    <3> QED BY <1>1, <2>4, <3>1, <3>3, CleanFacts
  <2> QED BY <1>1, <1>2, <2>3, <2>4, <2>5, <2>9, <2>11
<1>7. CASE Peek(w, p) \in Atoms
  <2>1. p \in 1..Len(w) /\ w[p] \in Atoms
    <3>1. Peek(w, p) # "end"
      BY <1>7, Apart
    <3> QED BY <1>3, <1>7, <3>1, PeekIs
  <2>2. Reaches(r, p + 1) /\ j = SkipWs(w, p + 1)
    <3>1. r = AtomAt(w, p)
      BY <1>3, <1>7, ParseAtIs DEF r
    <3> QED BY <1>5, <3>1 DEF AtomAt, Reaches
  <2>3. p + 1 \in 1..(Len(w) + 1)
    BY <1>1, <2>1
  <2>4. j \in (p + 1)..(Len(w) + 1) /\ Blank(w, p + 1, j)
    BY <2>2, <2>3, BlankSkipped
  <2>5. Txt(w, q, j)
    <3>1. p \in q..j /\ p + 1 \in q..j /\ p < p + 1 /\ Core(w, p, p + 1)
      BY <1>1, <1>2, <2>1, <2>4 DEF Core
    <3> QED BY <1>2, <2>4, <3>1, TextIs
  <2>6. Clean(w, q, j)
    <3>1. w[p] \notin Openers
      BY <2>1, Apart
    <3>2. Clean(w, q, p) /\ Clean(w, p, p + 1) /\ Clean(w, p + 1, j)
      BY <1>1, <1>2, <1>3, <2>3, <2>4, <3>1, CleanFacts
    <3>3. Clean(w, q, p + 1)
      BY <1>1, <1>3, <3>2, CleanFacts
    <3> QED BY <1>1, <2>3, <3>2, <3>3, CleanFacts
  <2> QED BY <1>1, <1>2, <2>4, <2>5, <2>6
<1>8. CASE Peek(w, p) \notin Openers \cup Atoms
  <2>1. r = Failed(p)
    BY <1>3, <1>8, ParseAtIs DEF r
  <2> QED BY <1>3, <1>4, <2>1 DEF Fails
<1> QED BY <1>6, <1>7, <1>8

LEMMA ElementSound ==
  ASSUME NEW w \in Seq(Nest), NEW o \in Openers, NEW q \in 1..(Len(w) + 1),
         \A k \in (q + 1)..(Len(w) + 1) : SoundAt(w, k),
         NEW j \in 1..(Len(w) + 1), Reaches(Element(w, NestedIn(w), o, q), j)
  PROVE  q + 1 < j /\ w[j - 1] = Closing(o) /\ Lst(w, o, q, j - 1) /\ Clean(w, q, j)
<1> DEFINE N == NestedIn(w)
           a == ValueAt(w, o, q)
           v == Parse(w, N, a)
           r == Element(w, N, o, q)
<1>1. Len(w) \in Nat
  BY NestFacts
<1>2. ElementOf(w, N, o, q, v, r)
  BY ElementIs
<1>3. Reaches(r, j) /\ ~ Fails(r)
  BY ReachFacts
<1> HIDE DEF N, v, r
<1>4. Keyed(w, o, q)
  <2>1. ASSUME ~ Keyed(w, o, q) PROVE ~ r.ok
    BY <1>2, <2>1 DEF ElementOf, Failed
  <2> QED BY <1>3, <2>1, ReachFacts
<1>5. a \in q..(Len(w) + 1) /\ a \in 1..(Len(w) + 1)
  BY <1>1, <1>4, ValueInside
<1> HIDE DEF a
<1>6. PICK k \in (a + 1)..(Len(w) + 1) : Reaches(v, k)
  <2>1. KnownBehind(w, a, N, N)
    BY <1>5, AllKnown DEF N
  <2>2. Ends(w, a, v)
    <3>1. a \in a..(Len(w) + 1)
      BY <1>1, <1>5
    <3>2. Settled(w, a, Parse(w, N, a), Parse(w, N, a))
      BY <1>5, <2>1, <3>1, ParseEnds
    <3> QED BY <3>2 DEF Settled, v
  <2>3. ~ Fails(v)
    <3>1. Fails(v) => r = v
      BY <1>2, <1>4 DEF ElementOf
    <3> QED BY <1>3, <3>1
  <2> QED BY <2>2, <2>3 DEF Ends
<1>7. k \in (q + 1)..(Len(w) + 1) /\ k \in 1..(Len(w) + 1)
  BY <1>1, <1>5
<1>8. Txt(w, a, k) /\ Clean(w, a, k)
  <2>1. \A m \in (a + 1)..(Len(w) + 1) : SoundAt(w, m)
    BY <1>1, <1>5
  <2>2. Reaches(Parse(w, NestedIn(w), a), k)
    BY <1>6 DEF v, N
  <2> QED BY <1>5, <1>7, <2>1, <2>2, ParseSound
<1>9. Reaches(N[<<o, k, FALSE>>], j)
  <2> DEFINE s == N[<<o, k, FALSE>>]
  <2>1. r = Joined(w, o, q, v.val, s)
    BY <1>2, <1>4, <1>6 DEF ElementOf
  <2>2. Ends(w, k, s)
    BY <1>7, NestedEnds DEF N
  <2> HIDE DEF s
  <2>3. ~ Fails(s)
    <3>1. Fails(s) => r = s
      BY <2>1, JoinedFacts
    <3> QED BY <1>3, <3>1
  <2>4. PICK h \in (k + 1)..(Len(w) + 1) : Reaches(s, h)
    BY <2>2, <2>3 DEF Ends
  <2>5. Reaches(r, h)
    BY <2>1, <2>4, JoinedFacts
  <2> QED BY <1>3, <2>4, <2>5, ReachFacts DEF s
<1>10. Rest(w, o, k, FALSE, j)
  BY <1>7, <1>9 DEF SoundAt, N
<1>11. ASSUME NEW e \in k..(Len(w) + 1), Blank(w, k, e) PROVE One(w, o, q, e)
  <2>1. e \in 1..(Len(w) + 1) /\ a <= e
    BY <1>1, <1>5, <1>6, <1>7
  <2>2. Txt(w, a, e)
    BY <1>5, <1>7, <1>8, <1>11, TextGrows
  <2> QED BY <1>4, <2>1, <2>2, OneIs DEF a
<1>12. Lst(w, o, q, j - 1)
  <2>1. CASE j = k + 1
    <3>1. One(w, o, q, k)
      <4>1. k \in k..(Len(w) + 1) /\ Blank(w, k, k)
        BY <1>1, <1>7 DEF Blank
      <4> QED BY <1>11, <4>1
    <3> QED BY <1>1, <1>7, <2>1, <3>1, ListIs
  <2>2. ASSUME NEW c \in k..(j - 2), w[c] = Comma, Blank(w, k, c), Lst(w, o, c + 1, j - 1)
        PROVE  Lst(w, o, q, j - 1)
    <3>1. One(w, o, q, c) /\ c \in q..(j - 1 - 1) /\ j - 1 \in 1..(Len(w) + 1)
      <4>1. c \in k..(Len(w) + 1)
        BY <1>1, <1>7
      <4> QED BY <1>1, <1>7, <1>11, <2>2, <4>1
    <3> QED BY <2>2, <3>1, ListIs
  <2> QED BY <1>10, <2>1, <2>2 DEF Rest
<1>13. Clean(w, q, a)
  <2>1. CASE o = "["
    BY <2>1 DEF a, ValueAt, Clean
  <2>2. CASE o # "["
    <3> DEFINE p == KeyAt(w, q)
               c == ColonAt(w, q)
    <3>1. a = c + 1 /\ Peek(w, p) \in Keys /\ Peek(w, c) = Colon
      BY <1>4, <2>2 DEF Keyed, ValueAt, a
    <3>2. p \in q..(Len(w) + 1) /\ Blank(w, q, p)
      BY BlankSkipped DEF KeyAt
    <3>3. p \in 1..Len(w) /\ w[p] \notin Openers
      <4>1. Peek(w, p) # "end" /\ Peek(w, p) \notin Openers
        BY <3>1, Apart DEF Atoms
      <4> QED BY <1>1, <3>1, <3>2, <4>1, PeekIs
    <3>4. c \in (p + 1)..(Len(w) + 1) /\ Blank(w, p + 1, c)
      <4>1. p + 1 \in 1..(Len(w) + 1)
        BY <1>1, <3>3
      <4> QED BY <4>1, BlankSkipped DEF ColonAt
    <3>5. c \in 1..Len(w) /\ w[c] \notin Openers
      <4>1. Peek(w, c) # "end" /\ c \in 1..(Len(w) + 1) /\ Peek(w, c) \notin Openers
        BY <1>1, <3>1, <3>3, <3>4, Apart
      <4> QED BY <3>1, <4>1, PeekIs
    <3> HIDE DEF p, c
    <3>6. Clean(w, q, p) /\ Clean(w, p, p + 1) /\ Clean(w, p + 1, c) /\ Clean(w, c, c + 1)
      BY <1>1, <3>2, <3>3, <3>4, <3>5, CleanFacts
    <3>7. Clean(w, q, p + 1)
      BY <1>1, <3>3, <3>6, CleanFacts
    <3>8. Clean(w, q, c)
      BY <1>1, <3>3, <3>5, <3>6, <3>7, CleanFacts
    <3> QED BY <1>1, <3>1, <3>5, <3>6, <3>8, CleanFacts
  <2> QED BY <2>1, <2>2
<1>14. Clean(w, q, j)
  <2>1. Clean(w, k, j)
    BY <1>10 DEF Rest
  <2>2. Clean(w, q, k)
    BY <1>1, <1>5, <1>7, <1>8, <1>13, CleanFacts
  <2> QED BY <1>1, <1>7, <2>1, <2>2, CleanFacts
<1>15. w[j - 1] = Closing(o) /\ q + 1 < j
  BY <1>1, <1>7, <1>10 DEF Rest
<1> QED BY <1>12, <1>14, <1>15

LEMMA NestedSound ==
  ASSUME NEW w \in Seq(Nest)
  PROVE  \A i \in 1..(Len(w) + 1) : SoundAt(w, i)
<1> DEFINE N == NestedIn(w)
           S == {k \in 1..(Len(w) + 1) : ~ SoundAt(w, k)}
<1>1. Len(w) \in Nat
  BY NestFacts
<1>2. SUFFICES ASSUME S # {} PROVE FALSE
  OBVIOUS
<1>3. PICK i \in S : \A k \in S : k <= i
  <2>1. S \in SUBSET (0..(Len(w) + 1)) /\ Len(w) + 1 \in Nat
    BY <1>1
  <2> HIDE DEF S
  <2> QED BY <1>2, <2>1, Greatest
<1>4. i \in 1..(Len(w) + 1) /\ ~ SoundAt(w, i)
  OBVIOUS
<1>5. ASSUME NEW k \in (i + 1)..(Len(w) + 1) PROVE SoundAt(w, k)
  <2>1. k \in 1..(Len(w) + 1) /\ ~ (k <= i)
    BY <1>1, <1>4
  <2> QED BY <1>3, <2>1
<1> HIDE DEF S, N
<1>6. ASSUME NEW o \in Openers, NEW b \in BOOLEAN, NEW j \in 1..(Len(w) + 1), Reaches(N[<<o, i, b>>], j)
      PROVE  Rest(w, o, i, b, j)
  <2> DEFINE r == NestedStep(w, N, <<o, i, b>>)
  <2>1. Reaches(r, j) /\ StepOf(w, N, o, i, b, r)
    <3>1. N[<<o, i, b>>] = r
      BY <1>4, NestedIs DEF N
    <3> QED BY <1>4, <1>6, <3>1, StepIs
  <2> HIDE DEF r
  <2>2. \A k : r # Failed(k)
    BY <2>1, ReachFacts DEF Failed
  <2>3. CASE i <= Len(w) /\ w[i] = Closing(o)
    <3>1. Reaches(r, i + 1)
      BY <2>1, <2>3 DEF StepOf, Reaches
    <3>2. j = i + 1
      BY <2>1, <3>1, ReachFacts
    <3>3. Clean(w, i, i + 1)
      <4>1. Closing(o) \in Closers
        BY Zenon DEF Closing, Closers
      <4>2. w[i] \notin Openers
        BY <2>3, <4>1, Apart
      <4> QED BY <1>1, <1>4, <4>2, CleanFacts
    <3> QED BY <1>1, <1>4, <2>3, <3>2, <3>3 DEF Rest
  <2>4. CASE ~ (i <= Len(w) /\ w[i] = Closing(o))
    <3> DEFINE q == NextAt(w, i, b)
    <3>1. i \in 1..Len(w) /\ w[i] # Closing(o) /\ (b \/ Peek(w, SkipWs(w, i)) = Comma)
      BY <1>1, <1>4, <2>1, <2>2, <2>4 DEF StepOf
    <3>2. r = Element(w, N, o, q)
      BY <2>1, <3>1 DEF StepOf
    <3>3. /\ q \in i..(Len(w) + 1)
          /\ ~ b => /\ SkipWs(w, i) \in i..Len(w) /\ w[SkipWs(w, i)] = Comma
                    /\ Blank(w, i, SkipWs(w, i)) /\ q = SkipWs(w, i) + 1
      BY <3>1, NextInside
    <3>4. b => q = i
      BY DEF NextAt
    <3> HIDE DEF q
    <3>5. q + 1 < j /\ w[j - 1] = Closing(o) /\ Lst(w, o, q, j - 1) /\ Clean(w, q, j)
      <4>1. q \in 1..(Len(w) + 1) /\ \A k \in (q + 1)..(Len(w) + 1) : SoundAt(w, k)
        BY <1>1, <1>4, <1>5, <3>3
      <4>2. Reaches(Element(w, NestedIn(w), o, q), j)
        BY <2>1, <3>2 DEF N
      <4> QED BY <4>1, <4>2, ElementSound
    <3>6. CASE b
      BY <1>1, <1>4, <3>4, <3>5, <3>6 DEF Rest
    <3>7. CASE ~ b
      <4> DEFINE c == SkipWs(w, i)
      <4>1. c \in i..Len(w) /\ w[c] = Comma /\ Blank(w, i, c) /\ q = c + 1
        BY <3>3, <3>7
      <4> HIDE DEF c
      <4>2. c \in i..(j - 2)
        BY <1>1, <1>4, <3>5, <4>1
      <4>3. Clean(w, i, j)
        <5>1. Comma \notin Openers
          BY Apart
        <5>2. Clean(w, i, c) /\ Clean(w, c, c + 1)
          BY <1>1, <1>4, <4>1, <5>1, CleanFacts
        <5>3. Clean(w, i, c + 1)
          BY <1>1, <1>4, <4>1, <5>2, CleanFacts
        <5> QED BY <1>1, <1>4, <3>5, <4>1, <5>3, CleanFacts
      <4> QED BY <1>1, <1>4, <3>5, <3>7, <4>1, <4>2, <4>3 DEF Rest
    <3> QED BY <3>6, <3>7
  <2> QED BY <2>3, <2>4
<1>7. SoundAt(w, i)
  BY <1>6 DEF SoundAt, N
<1> QED BY <1>4, <1>7

\* A list of the grammar and its closing bracket: the parser gets behind it.
CompleteAt(w, i) ==
  \A o \in Openers, m \in 1..Len(w) :
    Lst(w, o, i, m) /\ w[m] = Closing(o) => Reaches(Element(w, NestedIn(w), o, i), m + 1)

LEMMA StepIn ==
  ASSUME NEW w \in Seq(Nest), NEW o \in Openers, NEW i \in 1..(Len(w) + 1), NEW b \in BOOLEAN
  PROVE  StepOf(w, NestedIn(w), o, i, b, NestedIn(w)[<<o, i, b>>])
<1>1. NestedIn(w)[<<o, i, b>>] = NestedStep(w, NestedIn(w), <<o, i, b>>)
  BY NestedIs
<1>2. StepOf(w, NestedIn(w), o, i, b, NestedStep(w, NestedIn(w), <<o, i, b>>))
  BY StepIs
<1> QED BY <1>1, <1>2

LEMMA ParseComplete ==
  ASSUME NEW w \in Seq(Nest), Clean(w, 1, Len(w) + 1), NEW q \in 1..(Len(w) + 1),
         \A k \in (q + 1)..(Len(w) + 1) : CompleteAt(w, k),
         NEW j \in 1..(Len(w) + 1), Txt(w, q, j), Peek(w, j) # "ws"
  PROVE  Reaches(Parse(w, NestedIn(w), q), j)
<1> DEFINE N == NestedIn(w)
<1>1. Len(w) \in Nat
  BY NestFacts
<1>2. PICK p \in q..j, e \in q..j : p < e /\ Blank(w, q, p) /\ Blank(w, e, j) /\ Core(w, p, e)
  BY TextIs
<1>3. p \in 1..Len(w) /\ Peek(w, p) = w[p] /\ p \in 1..(Len(w) + 1) /\ e \in 1..(Len(w) + 1) /\ j \in e..(Len(w) + 1)
  BY <1>1, <1>2 DEF Peek
<1>4. w[p] \in Openers \cup Atoms
  BY <1>2 DEF Core, Bracketed
<1>5. SkipWs(w, q) = p
  <2>1. w[p] # "ws"
    BY <1>4, Apart
  <2>2. p \in q..(Len(w) + 1)
    BY <1>1, <1>3
  <2> QED BY <1>2, <1>3, <2>1, <2>2, BlankSkipped
<1>6. SkipWs(w, e) = j
  BY <1>2, <1>3, BlankSkipped
<1> HIDE DEF N
<1>7. Reaches(ParseAt(w, N, p), e)
  <2>1. CASE e = p + 1 /\ w[p] \in Atoms
    <3>1. ParseAt(w, N, p) = AtomAt(w, p)
      BY <1>3, <2>1, ParseAtIs
    <3> QED BY <2>1, <3>1 DEF AtomAt, Reaches
  <2>2. CASE Bracketed(w, p, e)
    <3> DEFINE o == w[p]
               s == N[<<o, p + 1, TRUE>>]
    <3>1. /\ o \in Openers /\ w[e - 1] = Closing(o)
          /\ Blank(w, p + 1, e - 1) \/ Lst(w, o, p + 1, e - 1)
      BY <2>2 DEF Bracketed
    <3>2. ParseAt(w, N, p) = s
      BY <1>3, <3>1, ParseAtIs
    <3>3. Closing(o) \in Closers
      BY Zenon DEF Closing, Closers
    <3>4. w[p] # w[e - 1] /\ w[e - 1] \notin Openers \cup Atoms \cup {"ws"}
      BY <3>1, <3>3, Apart
    <3>5. p + 1 \in 1..Len(w) /\ p + 1 \in 1..(Len(w) + 1) /\ e - 1 \in (p + 1)..Len(w) /\ e - 1 \in 1..(Len(w) + 1)
      <4>1. e # p + 1
        BY <1>3, <3>4
      <4> QED BY <1>1, <1>2, <1>3, <4>1
    <3>6. StepOf(w, N, o, p + 1, TRUE, s)
      BY <3>1, <3>5, StepIn DEF N
    <3> HIDE DEF o, s
    <3>7. CASE Blank(w, p + 1, e - 1)
      <4>1. e = p + 2
        <5> SUFFICES ASSUME e # p + 2 PROVE FALSE
          OBVIOUS
        <5>1. e - 1 \in (p + 2)..Len(w)
          BY <1>1, <1>3, <3>5
        <5>2. HollowAt(w, p)
          BY <3>1, <3>7, <5>1 DEF HollowAt, o
        <5>3. p \in 1..(Len(w) + 1 - 1)
          BY <1>1, <1>3
        <5> QED BY <5>2, <5>3 DEF Clean
      <4>2. w[p + 1] = Closing(o)
        BY <1>3, <3>1, <4>1
      <4>3. s = Value(Empty(o), p + 1 + 1)
        BY <1>1, <3>5, <3>6, <4>2 DEF StepOf
      <4> QED BY <1>3, <3>2, <4>1, <4>3 DEF Reaches
    <3>8. CASE Lst(w, o, p + 1, e - 1)
      <4>1. Reaches(Element(w, N, o, p + 1), e)
        <5>1. CompleteAt(w, p + 1) /\ e - 1 \in 1..Len(w) /\ e - 1 + 1 = e
          BY <1>1, <1>2, <1>3, <3>5
        <5> QED BY <3>1, <3>8, <5>1 DEF CompleteAt, N
      <4>2. w[p + 1] # Closing(o)
        <5>1. PICK x \in (p + 1)..(e - 1 - 1) : Blank(w, p + 1, x) /\ w[x] \in Openers \cup Atoms
          BY <3>1, <3>5, <3>8, ListBegins
        <5>2. CASE x = p + 1
          BY <3>1, <3>4, <5>1, <5>2
        <5>3. CASE x # p + 1
          <6>1. w[p + 1] = "ws"
            BY <1>1, <1>3, <5>1, <5>3 DEF Blank
          <6> QED BY <3>1, <3>4, <6>1
        <5> QED BY <5>2, <5>3
      <4>3. s = Element(w, N, o, p + 1)
        BY <1>1, <3>5, <3>6, <4>2 DEF StepOf, NextAt
      <4> QED BY <3>2, <4>1, <4>3
    <3> QED BY <3>1, <3>7, <3>8
  <2> QED BY <1>2, <2>1, <2>2 DEF Core
<1>8. Reaches(Spaced(w, ParseAt(w, N, p)), j)
  BY <1>6, <1>7, SpacedFacts
<1> QED BY <1>5, <1>8 DEF Parse, N

LEMMA ElementComplete ==
  ASSUME NEW w \in Seq(Nest), Clean(w, 1, Len(w) + 1), NEW q \in 1..(Len(w) + 1),
         \A k \in (q + 1)..(Len(w) + 1) : CompleteAt(w, k)
  PROVE  CompleteAt(w, q)
<1> DEFINE N == NestedIn(w)
<1>1. Len(w) \in Nat
  BY NestFacts
<1>2. SUFFICES ASSUME NEW o \in Openers, NEW m \in 1..Len(w), Lst(w, o, q, m), w[m] = Closing(o)
               PROVE  Reaches(Element(w, N, o, q), m + 1)
  BY DEF CompleteAt
<1> HIDE DEF N
<1>3. Closing(o) \in Closers
  BY Zenon DEF Closing, Closers
<1>4. m \in 1..(Len(w) + 1) /\ m + 1 \in 1..(Len(w) + 1)
  BY <1>1
<1>5. ASSUME NEW e \in 1..(Len(w) + 1), One(w, o, q, e), Peek(w, e) # "ws", Reaches(N[<<o, e, FALSE>>], m + 1)
      PROVE  Reaches(Element(w, N, o, q), m + 1)
  <2> DEFINE a == ValueAt(w, o, q)
             v == Parse(w, N, a)
  <2>1. Keyed(w, o, q) /\ a <= e /\ Txt(w, a, e)
    BY <1>5, OneIs
  <2>2. a \in q..(Len(w) + 1) /\ a \in 1..(Len(w) + 1)
    BY <1>1, <2>1, ValueInside
  <2>3. ElementOf(w, N, o, q, v, Element(w, N, o, q))
    BY ElementIs
  <2> HIDE DEF a
  <2>4. Reaches(v, e)
    <3>1. \A k \in (a + 1)..(Len(w) + 1) : CompleteAt(w, k)
      BY <1>1, <2>2
    <3> QED BY <1>5, <2>1, <2>2, <3>1, ParseComplete DEF N
  <2> HIDE DEF v
  <2>5. Element(w, N, o, q) = Joined(w, o, q, v.val, N[<<o, e, FALSE>>])
    BY <2>1, <2>3, <2>4 DEF ElementOf
  <2> QED BY <1>5, <2>5, JoinedFacts
<1>6. CASE One(w, o, q, m)
  <2>1. Reaches(N[<<o, m, FALSE>>], m + 1)
    <3>1. StepOf(w, N, o, m, FALSE, N[<<o, m, FALSE>>])
      BY <1>4, StepIn DEF N
    <3>2. N[<<o, m, FALSE>>] = Value(Empty(o), m + 1)
      BY <1>1, <1>2, <3>1 DEF StepOf
    <3> QED BY <3>2 DEF Reaches
  <2>2. Peek(w, m) # "ws"
    BY <1>1, <1>2, <1>3, Apart DEF Peek
  <2> QED BY <1>4, <1>5, <1>6, <2>1, <2>2
<1>7. ASSUME NEW c \in q..(m - 1), w[c] = Comma, One(w, o, q, c), Lst(w, o, c + 1, m)
      PROVE  Reaches(Element(w, N, o, q), m + 1)
  <2>1. c \in 1..Len(w) /\ c \in 1..(Len(w) + 1) /\ c + 1 \in (q + 1)..(Len(w) + 1) /\ Peek(w, c) = Comma
    BY <1>1, <1>7 DEF Peek
  <2>2. Comma # "ws" /\ Comma # Closing(o)
    BY <1>3, Apart
  <2>3. SkipWs(w, c) = c
    <3>1. c \in c..(Len(w) + 1) /\ Blank(w, c, c)
      BY <1>1, <2>1 DEF Blank
    <3> QED BY <2>1, <2>2, <3>1, BlankSkipped
  <2>4. StepOf(w, N, o, c, FALSE, N[<<o, c, FALSE>>])
    BY <2>1, StepIn DEF N
  <2>5. N[<<o, c, FALSE>>] = Element(w, N, o, c + 1)
    BY <1>1, <1>7, <2>1, <2>2, <2>3, <2>4 DEF StepOf, NextAt
  <2>6. Reaches(N[<<o, c, FALSE>>], m + 1)
    <3>1. CompleteAt(w, c + 1)
      BY <2>1
    <3> QED BY <1>2, <1>7, <2>5, <3>1 DEF CompleteAt, N
  <2> QED BY <1>5, <1>7, <2>1, <2>2, <2>6
<1> QED BY <1>2, <1>4, <1>6, <1>7, ListIs

LEMMA NestedComplete ==
  ASSUME NEW w \in Seq(Nest), Clean(w, 1, Len(w) + 1)
  PROVE  \A i \in 1..(Len(w) + 1) : CompleteAt(w, i)
<1> DEFINE S == {k \in 1..(Len(w) + 1) : ~ CompleteAt(w, k)}
<1>1. Len(w) \in Nat
  BY NestFacts
<1>2. SUFFICES ASSUME S # {} PROVE FALSE
  OBVIOUS
<1>3. PICK i \in S : \A k \in S : k <= i
  <2>1. S \in SUBSET (0..(Len(w) + 1)) /\ Len(w) + 1 \in Nat
    BY <1>1
  <2> HIDE DEF S
  <2> QED BY <1>2, <2>1, Greatest
<1>4. i \in 1..(Len(w) + 1) /\ ~ CompleteAt(w, i)
  OBVIOUS
<1>5. ASSUME NEW k \in (i + 1)..(Len(w) + 1) PROVE CompleteAt(w, k)
  <2>1. k \in 1..(Len(w) + 1) /\ ~ (k <= i)
    BY <1>1, <1>4
  <2> QED BY <1>3, <2>1
<1> QED BY <1>4, <1>5, ElementComplete

\* A word with brackets is accepted when it is a text of the grammar, but for white space
\* alone between brackets, and no other.
LEMMA NestAccepted ==
  ASSUME NEW w \in Seq(Nest)
  PROVE  /\ json_parse_n(w).ok <=> IsText(w) /\ ~ Hollow(w)
         /\ json_parse_n(w).ok \in BOOLEAN
<1> DEFINE n == Len(w) + 1
           r == Parse(w, NestedIn(w), 1)
<1>1. Len(w) \in Nat /\ 1 \in 1..n /\ n \in 1..n
  BY NestFacts
<1>2. json_parse_n(w) = Whole(w, r) /\ (IsText(w) <=> Txt(w, 1, n))
  BY DEF json_parse_n, IsText, Txt
<1>3. Ends(w, 1, r)
  <2>1. KnownBehind(w, 1, NestedIn(w), NestedIn(w))
    BY <1>1, AllKnown
  <2>2. Settled(w, 1, r, r)
    BY <1>1, <2>1, ParseEnds
  <2> QED BY <2>2 DEF Settled
<1>4. ASSUME Reaches(r, n) PROVE IsText(w) /\ ~ Hollow(w)
  <2>1. \A k \in (1 + 1)..(Len(w) + 1) : SoundAt(w, k)
    BY <1>1, NestedSound
  <2>2. Txt(w, 1, n) /\ Clean(w, 1, n)
    BY <1>1, <1>4, <2>1, ParseSound
  <2> QED BY <1>2, <2>2, HollowIs
<1>5. ASSUME IsText(w), ~ Hollow(w) PROVE Reaches(r, n)
  <2>1. Clean(w, 1, Len(w) + 1)
    BY <1>5, HollowIs
  <2>2. \A k \in (1 + 1)..(Len(w) + 1) : CompleteAt(w, k)
    BY <1>1, <2>1, NestedComplete
  <2>3. Txt(w, 1, n) /\ Peek(w, n) # "ws"
    BY <1>1, <1>2, <1>5 DEF Peek
  <2> QED BY <1>1, <2>1, <2>2, <2>3, ParseComplete
<1> HIDE DEF r
<1>6. CASE Fails(r)
  <2>1. PICK k \in Nat : r = Failed(k)
    BY <1>6 DEF Fails
  <2>2. ~ r.ok /\ r.ok = FALSE /\ Whole(w, r) = r
    BY <2>1 DEF Failed, Whole
  <2>3. ~ Reaches(r, n)
    BY <1>6, ReachFacts
  <2> QED BY <1>2, <1>5, <2>2, <2>3
<1>7. ASSUME NEW k \in (1 + 1)..(Len(w) + 1), Reaches(r, k)
      PROVE  /\ json_parse_n(w).ok <=> IsText(w) /\ ~ Hollow(w)
             /\ json_parse_n(w).ok \in BOOLEAN
  <2>1. r.ok = TRUE /\ r.at = k
    BY <1>7 DEF Reaches, Value
  <2>2. CASE k = n
    <3>1. Whole(w, r) = r
      BY <1>1, <2>1, <2>2 DEF Whole
    <3> QED BY <1>2, <1>4, <1>7, <2>1, <2>2, <3>1
  <2>3. CASE k # n
    <3>1. Whole(w, r) = Failed(k)
      BY <1>1, <2>1, <2>3 DEF Whole
    <3>2. ~ Reaches(r, n)
      BY <1>7, <2>3, ReachFacts
    <3>3. Failed(k).ok = FALSE
      BY DEF Failed
    <3> QED BY <1>2, <1>5, <3>1, <3>2, <3>3
  <2> QED BY <2>2, <2>3
<1> QED BY <1>3, <1>6, <1>7 DEF Ends

LEMMA AllAccepted == WordInv => AcceptsTexts
<1> SUFFICES ASSUME WordInv, family = "nesting" PROVE AcceptsTexts
  BY ScalarsAccepted
<1>1. word \in Seq(Nest) /\ parsed = json_parse_n(word)
  BY DEF WordInv, Nest
<1>2. (parsed.ok <=> IsText(word) /\ ~ Hollow(word)) /\ parsed.ok \in BOOLEAN
  BY <1>1, NestAccepted
<1> QED BY <1>2 DEF AcceptsTexts

\* A text of the grammar is accepted, nested to any depth, strings of any length, and numbers
\* that fit into the buffer, but not white space alone between brackets; and no other word is,
\* but for numbers and for the strings that only a control character keeps out of the grammar
\* (parse() and what it calls).
THEOREM TextsAccepted == WordSpec => []AcceptsTexts
BY AllAccepted, WordsParsed, PTL

--------------------------------------------------------------------------
(* The same text in two words *)

\* From place lo on u is read as w is d places further, and where u ends no value of w
\* goes on.
Stretch(u, w, lo, d) ==
  /\ \A k \in lo..Len(u) : k + d \in 1..Len(w) /\ w[k + d] = u[k]
  /\ Len(u) + 1 + d \in 1..(Len(w) + 1)
  /\ Peek(w, Len(u) + 1 + d) \in {Comma, "end"} \cup Closers

LEMMA StretchFacts ==
  ASSUME NEW u \in Seq(Nest), NEW w \in Seq(Nest), NEW lo \in 1..(Len(u) + 1), NEW d \in Int, Stretch(u, w, lo, d),
         NEW k \in lo..(Len(u) + 1)
  PROVE  /\ k \in 1..(Len(u) + 1) /\ k + d \in 1..(Len(w) + 1)
         /\ k <= Len(u) => u[k] = w[k + d] /\ k + d <= Len(w)
         /\ Peek(u, k) # "end" => Peek(w, k + d) = Peek(u, k)
         /\ Peek(u, k) = "end" => Peek(w, k + d) \in {Comma, "end"} \cup Closers
<1>1. Len(u) \in Nat /\ Len(w) \in Nat
  BY NestFacts
<1>2. CASE k <= Len(u)
  <2>1. k \in lo..Len(u)
    BY <1>1, <1>2
  <2>2. k + d \in 1..Len(w) /\ w[k + d] = u[k]
    BY <2>1 DEF Stretch
  <2>3. k \in 1..Len(u)
    BY <1>1, <1>2
  <2> QED BY <1>1, <2>2, <2>3, NestFacts
<1>3. CASE k = Len(u) + 1
  <2>1. Peek(u, k) = "end"
    BY <1>1, <1>3, NestFacts
  <2> QED BY <1>1, <1>3, <2>1 DEF Stretch
<1> QED BY <1>1, <1>2, <1>3

LEMMA StretchSkip ==
  ASSUME NEW u \in Seq(Nest), NEW w \in Seq(Nest), NEW lo \in 1..(Len(u) + 1), NEW d \in Int, Stretch(u, w, lo, d),
         NEW k \in lo..(Len(u) + 1)
  PROVE  SkipWs(u, k) \in k..(Len(u) + 1) /\ SkipWs(w, k + d) = SkipWs(u, k) + d
<1> DEFINE p == SkipWs(u, k)
<1>1. Len(u) \in Nat /\ Len(w) \in Nat /\ k \in 1..(Len(u) + 1) /\ k + d \in 1..(Len(w) + 1)
  BY NestFacts, StretchFacts
<1>2. p \in k..(Len(u) + 1) /\ Blank(u, k, p) /\ Peek(u, p) # "ws"
  BY <1>1, BlankSkipped
<1> HIDE DEF p
<1>3. p \in lo..(Len(u) + 1) /\ p + d \in (k + d)..(Len(w) + 1)
  <2>1. p \in lo..(Len(u) + 1)
    BY <1>1, <1>2
  <2>2. p + d \in 1..(Len(w) + 1)
    BY <2>1, StretchFacts
  <2> QED BY <1>1, <1>2, <2>1, <2>2
<1>4. Peek(w, p + d) # "ws"
  BY <1>2, <1>3, StretchFacts, Apart
<1>5. Blank(w, k + d, p + d)
  <2>1. \A j \in (k + d)..((p + d) - 1) : w[j] = "ws"
    <3> SUFFICES ASSUME NEW j \in (k + d)..((p + d) - 1) PROVE w[j] = "ws"
      OBVIOUS
    <3>1. j - d \in k..(p - 1) /\ j - d \in lo..(Len(u) + 1) /\ j - d <= Len(u) /\ (j - d) + d = j
      BY <1>1, <1>2
    <3>2. u[j - d] = "ws"
      BY <1>2, <3>1 DEF Blank
    <3>3. u[j - d] = w[(j - d) + d]
      BY <3>1, StretchFacts
    <3> QED BY <3>1, <3>2, <3>3
  <2> QED BY <2>1, Zenon DEF Blank
<1>6. SkipWs(w, k + d) = p + d
  BY <1>1, <1>3, <1>4, <1>5, BlankSkipped
<1> QED BY <1>2, <1>6 DEF p

\* What u comes to at a place, w comes to d places further.
Moved(r, s, d) == \A v, j : r = Value(v, j) => s = Value(v, j + d)
MovedBehind(u, i, f, g, d) ==
  \A o \in Openers, k \in (i + 1)..(Len(u) + 1), b \in BOOLEAN :
    Ends(u, k, f[<<o, k, b>>]) /\ Moved(f[<<o, k, b>>], g[<<o, k + d, b>>], d)

LEMMA MovedFacts ==
  /\ \A r, s, d : Fails(r) => Moved(r, s, d)
  /\ \A v, j, s, d : Moved(Value(v, j), s, d) <=> s = Value(v, j + d)
<1>1. \A r, v, j : Fails(r) => r # Value(v, j)
  BY ReachFacts DEF Reaches
<1>2. \A v, x, i, j : Value(v, i) = Value(x, j) => v = x /\ i = j
  <2>1. \A v, i : Value(v, i).val = v /\ Value(v, i).at = i
    BY DEF Value
  <2> QED BY <2>1
<1> QED BY <1>1, <1>2 DEF Moved

LEMMA SpacedIs ==
  \A w, v, j : Spaced(w, Value(v, j)) = Value(v, SkipWs(w, j))
<1>1. SUFFICES ASSUME NEW w, NEW v, NEW j PROVE Spaced(w, Value(v, j)) = Value(v, SkipWs(w, j))
  OBVIOUS
<1> DEFINE r == Value(v, j)
<1>2. r.ok /\ r.at = j
  BY DEF Value
<1>3. [r EXCEPT !.at = SkipWs(w, j)] = Value(v, SkipWs(w, j))
  BY AtReplaced
<1> QED BY <1>2, <1>3 DEF Spaced

LEMMA ParseMoved ==
  ASSUME NEW u \in Seq(Nest), NEW w \in Seq(Nest), NEW lo \in 1..(Len(u) + 1), NEW d \in Int, Stretch(u, w, lo, d),
         NEW i \in lo..(Len(u) + 1), NEW f, NEW g, MovedBehind(u, i, f, g, d), NEW q \in i..(Len(u) + 1)
  PROVE  Moved(Parse(u, f, q), Parse(w, g, q + d), d)
<1>1. Len(u) \in Nat /\ Len(w) \in Nat /\ q \in lo..(Len(u) + 1)
  BY NestFacts
<1> DEFINE p == SkipWs(u, q)
<1>2. p \in q..(Len(u) + 1) /\ SkipWs(w, q + d) = p + d
  BY <1>1, StretchSkip
<1> HIDE DEF p
<1>3. p \in lo..(Len(u) + 1) /\ p \in 1..(Len(u) + 1) /\ p + d \in 1..(Len(w) + 1)
  <2>1. p \in lo..(Len(u) + 1)
    BY <1>1, <1>2
  <2> QED BY <2>1, StretchFacts
<1> DEFINE r == ParseAt(u, f, p)
           s == ParseAt(w, g, p + d)
<1>4. Ends(u, p, r) /\ Moved(r, s, d)
  <2>1. ASSUME Peek(u, p) # "end" PROVE p \in 1..Len(u) /\ u[p] = Peek(u, p) /\ w[p + d] = u[p] /\ Peek(w, p + d) = u[p]
    BY <1>1, <1>3, <2>1, PeekIs, StretchFacts
  <2>2. CASE Peek(u, p) \in Openers
    <3>1. p \in 1..Len(u) /\ u[p] \in Openers /\ w[p + d] = u[p] /\ Peek(w, p + d) \in Openers
      BY <2>1, <2>2, Apart
    <3> DEFINE o == u[p]
    <3>2. r = f[<<o, p + 1, TRUE>>] /\ s = g[<<o, (p + 1) + d, TRUE>>]
      <4>1. r = f[<<u[p], p + 1, TRUE>>] /\ s = g[<<w[p + d], p + d + 1, TRUE>>]
        BY <1>3, <2>2, <3>1, ParseAtIs
      <4>2. p + d + 1 = (p + 1) + d
        BY <1>1, <1>3
      <4> QED BY <3>1, <4>1, <4>2
    <3>3. p + 1 \in (i + 1)..(Len(u) + 1) /\ p + 1 \in p..(Len(u) + 1)
      BY <1>1, <1>2, <3>1
    <3> HIDE DEF r, s
    <3>4. Ends(u, p + 1, r) /\ Moved(r, s, d)
      BY <3>1, <3>2, <3>3 DEF MovedBehind
    <3> QED BY <1>1, <1>3, <3>3, <3>4, EndsFacts
  <2>3. CASE Peek(u, p) \in Atoms
    <3>1. p \in 1..Len(u) /\ u[p] \in Atoms /\ w[p + d] = u[p] /\ Peek(w, p + d) \in Atoms
      BY <2>1, <2>3, Apart
    <3>2. r = AtomAt(u, p) /\ s = AtomAt(w, p + d)
      BY <1>3, <2>3, <3>1, ParseAtIs
    <3> DEFINE v == IF u[p] \in Keys THEN Atom("string", <<<<u[p]>>>>) ELSE Atom("null", <<>>)
    <3>3. r = Value(v, p + 1) /\ s = Value(v, p + d + 1)
      BY <3>1, <3>2 DEF AtomAt
    <3>4. p + d + 1 = (p + 1) + d /\ p + 1 \in (p + 1)..(Len(u) + 1)
      <4>1. p \in Int /\ p + 1 <= Len(u) + 1
        BY <1>1, <3>1
      <4> HIDE DEF r, s, v
      <4> QED BY <1>1, <4>1
    <3> HIDE DEF r, s, v
    <3>5. Moved(r, s, d) /\ Reaches(r, p + 1)
      BY <3>3, <3>4, MovedFacts DEF Reaches
    <3> QED BY <3>4, <3>5 DEF Ends
  <2>4. CASE Peek(u, p) \notin Openers \cup Atoms
    <3>1. r = Failed(p)
      BY <1>3, <2>4, ParseAtIs
    <3>2. Fails(r)
      BY <1>3, <3>1 DEF Fails
    <3> HIDE DEF r, s
    <3> QED BY <3>2, MovedFacts DEF Ends
  <2> QED BY <2>2, <2>3, <2>4
<1>5. Parse(u, f, q) = Spaced(u, r) /\ Parse(w, g, q + d) = Spaced(w, s)
  BY <1>2 DEF Parse, p
<1> HIDE DEF r, s
<1>6. CASE Fails(r)
  BY <1>5, <1>6, SpacedFacts, MovedFacts
<1>7. ASSUME NEW j \in (p + 1)..(Len(u) + 1), NEW v, r = Value(v, j) PROVE Moved(Spaced(u, r), Spaced(w, s), d)
  <2>1. s = Value(v, j + d)
    BY <1>4, <1>7, MovedFacts
  <2>2. j \in lo..(Len(u) + 1)
    BY <1>1, <1>3
  <2>3. SkipWs(w, j + d) = SkipWs(u, j) + d
    BY <2>2, StretchSkip
  <2>4. Spaced(u, r) = Value(v, SkipWs(u, j)) /\ Spaced(w, s) = Value(v, SkipWs(u, j) + d)
    BY <1>7, <2>1, <2>3, SpacedIs
  <2> QED BY <2>4, MovedFacts
<1> QED BY <1>4, <1>5, <1>6, <1>7 DEF Ends, Reaches

\* An element and the rest that it is joined to.
Put(w, o, q, x, v) ==
  IF o = "[" THEN [v EXCEPT !.items = <<x>> \o @]
  ELSE [v EXCEPT !.pairs = @ \o <<[key |-> <<<<w[KeyAt(w, q)]>>>>, value |-> x]>>]

LEMMA JoinedIs ==
  \A w, o, q, x, v, j : Joined(w, o, q, x, Value(v, j)) = Value(Put(w, o, q, x, v), j)
<1>1. SUFFICES ASSUME NEW w, NEW o, NEW q, NEW x, NEW v, NEW j
               PROVE  Joined(w, o, q, x, Value(v, j)) = Value(Put(w, o, q, x, v), j)
  OBVIOUS
<1> DEFINE r == Value(v, j)
           y == Put(w, o, q, x, v)
<1>2. r.ok /\ r.val = v
  BY DEF Value
<1>3. Joined(w, o, q, x, r) = [r EXCEPT !.val = y]
  BY <1>2 DEF Joined, WithItem, WithPair, Put
<1> HIDE DEF y
<1>4. [r EXCEPT !.val = y] = Value(y, j)
  BY ValReplaced
<1> QED BY <1>3, <1>4 DEF y

LEMMA KeyMoved ==
  ASSUME NEW u \in Seq(Nest), NEW w \in Seq(Nest), NEW lo \in 1..(Len(u) + 1), NEW d \in Int, Stretch(u, w, lo, d),
         NEW q \in lo..(Len(u) + 1), NEW o \in Openers, Keyed(u, o, q)
  PROVE  /\ Keyed(w, o, q + d) /\ ValueAt(w, o, q + d) = ValueAt(u, o, q) + d
         /\ \A x, v : Put(w, o, q + d, x, v) = Put(u, o, q, x, v)
<1>1. Len(u) \in Nat /\ Len(w) \in Nat
  BY NestFacts
<1>2. CASE o = "["
  BY <1>2 DEF Keyed, ValueAt, Put
<1>3. CASE o # "["
  <2> DEFINE k == KeyAt(u, q)
             c == ColonAt(u, q)
  <2>1. Peek(u, k) \in Keys /\ Peek(u, c) = Colon
    BY <1>3 DEF Keyed
  <2>2. k \in q..(Len(u) + 1) /\ KeyAt(w, q + d) = k + d
    BY StretchSkip DEF KeyAt
  <2>3. k \in lo..(Len(u) + 1) /\ k \in 1..(Len(u) + 1)
    BY <1>1, <2>2
  <2>4. k \in 1..Len(u) /\ Peek(u, k) # "end" /\ u[k] = w[k + d] /\ Peek(w, k + d) = Peek(u, k)
    <3>1. k \in 1..Len(u)
      BY <2>1, <2>3, KeyRead
    <3> HIDE DEF k
    <3> QED BY <2>3, <3>1, NestFacts, StretchFacts
  <2>5. k + 1 \in lo..(Len(u) + 1) /\ (k + d) + 1 = (k + 1) + d
    BY <1>1, <2>3, <2>4
  <2>6. c \in (k + 1)..(Len(u) + 1) /\ ColonAt(w, q + d) = c + d
    <3>1. SkipWs(u, k + 1) \in (k + 1)..(Len(u) + 1) /\ SkipWs(w, (k + 1) + d) = SkipWs(u, k + 1) + d
      BY <2>5, StretchSkip
    <3> QED BY <2>2, <2>5, <3>1 DEF ColonAt
  <2>7. Peek(w, c + d) = Colon
    <3>1. c \in lo..(Len(u) + 1) /\ Peek(u, c) # "end"
      BY <1>1, <2>1, <2>5, <2>6, Apart
    <3> HIDE DEF c
    <3> QED BY <2>1, <3>1, StretchFacts
  <2> HIDE DEF k, c
  <2>8. Keyed(w, o, q + d)
    BY <2>1, <2>2, <2>4, <2>6, <2>7 DEF Keyed
  <2>9. ValueAt(w, o, q + d) = ValueAt(u, o, q) + d
    BY <1>1, <1>3, <2>5, <2>6 DEF ValueAt, c
  <2> QED BY <1>3, <2>2, <2>4, <2>8, <2>9 DEF Put, k
<1> QED BY <1>2, <1>3

LEMMA ElementMoved ==
  ASSUME NEW u \in Seq(Nest), NEW w \in Seq(Nest), NEW lo \in 1..(Len(u) + 1), NEW d \in Int, Stretch(u, w, lo, d),
         NEW i \in lo..(Len(u) + 1), NEW f, NEW g, MovedBehind(u, i, f, g, d), NEW q \in i..(Len(u) + 1),
         NEW o \in Openers
  PROVE  Moved(Element(u, f, o, q), Element(w, g, o, q + d), d)
<1> DEFINE a == ValueAt(u, o, q)
           x == Parse(u, f, a)
           y == Parse(w, g, ValueAt(w, o, q + d))
           r == Element(u, f, o, q)
           s == Element(w, g, o, q + d)
<1>1. Len(u) \in Nat /\ q \in lo..(Len(u) + 1) /\ q \in 1..(Len(u) + 1) /\ q + d \in 1..(Len(w) + 1)
      /\ i \in 1..(Len(u) + 1)
  <2>1. Len(u) \in Nat /\ q \in lo..(Len(u) + 1) /\ q \in 1..(Len(u) + 1) /\ i \in 1..(Len(u) + 1)
    BY NestFacts
  <2> QED BY <2>1, StretchFacts
<1>2. ElementOf(u, f, o, q, x, r) /\ ElementOf(w, g, o, q + d, y, s)
  BY <1>1, ElementIs
<1>3. CASE ~ Keyed(u, o, q)
  <2>1. \E k : r = Failed(k)
    BY <1>2, <1>3 DEF ElementOf
  <2>2. ~ r.ok
    BY <2>1 DEF Failed
  <2>3. \A v, j : Value(v, j).ok
    BY DEF Value
  <2> QED BY <2>2, <2>3 DEF Moved
<1>4. CASE Keyed(u, o, q)
  <2>1. a \in q..(Len(u) + 1) /\ Keyed(w, o, q + d) /\ y = Parse(w, g, a + d)
        /\ \A z, v : Put(w, o, q + d, z, v) = Put(u, o, q, z, v)
    BY <1>1, <1>4, KeyMoved, ValueInside
  <2>2. Moved(x, y, d) /\ Ends(u, a, x)
    <3>1. a \in i..(Len(u) + 1)
      BY <1>1, <2>1
    <3>2. KnownBehind(u, i, f, f)
      BY DEF MovedBehind, KnownBehind
    <3> HIDE DEF a
    <3>3. Settled(u, a, Parse(u, f, a), Parse(u, f, a))
      BY <1>1, <3>1, <3>2, ParseEnds
    <3> QED BY <2>1, <3>1, <3>3, ParseMoved DEF Settled
  <2>3. /\ Fails(x) => r = x
        /\ \A j : Reaches(x, j) => r = Joined(u, o, q, x.val, f[<<o, j, FALSE>>])
    BY <1>2, <1>4 DEF ElementOf
  <2>4. \A j : Reaches(y, j) => s = Joined(w, o, q + d, y.val, g[<<o, j, FALSE>>])
    BY <1>2, <2>1 DEF ElementOf
  <2> HIDE DEF a, x, y, r, s
  <2>5. CASE Fails(x)
    BY <2>3, <2>5, MovedFacts DEF r, s
  <2>6. ASSUME NEW j \in (a + 1)..(Len(u) + 1), NEW v, x = Value(v, j) PROVE Moved(r, s, d)
    <3> DEFINE m == f[<<o, j, FALSE>>]
               n == g[<<o, j + d, FALSE>>]
    <3>1. x.val = v /\ Reaches(x, j) /\ y = Value(v, j + d)
      <4>1. x.val = v /\ Reaches(x, j)
        BY <2>6 DEF Reaches, Value
      <4>2. y = Value(v, j + d)
        BY <2>2, <2>6, MovedFacts
      <4> QED BY <4>1, <4>2
    <3>2. y.val = v /\ Reaches(y, j + d)
      BY <3>1 DEF Reaches, Value
    <3>3. r = Joined(u, o, q, v, m) /\ s = Joined(w, o, q + d, v, n)
      BY <2>3, <2>4, <3>1, <3>2
    <3>4. j \in (i + 1)..(Len(u) + 1)
      BY <1>1, <2>1
    <3>5. Ends(u, j, m) /\ Moved(m, n, d)
      BY <3>4 DEF MovedBehind
    <3> HIDE DEF m, n
    <3>6. CASE Fails(m)
      BY <3>3, <3>6, JoinedFacts, MovedFacts
    <3>7. ASSUME NEW z, NEW e, m = Value(z, e) PROVE Moved(r, s, d)
      <4>1. n = Value(z, e + d)
        BY <3>5, <3>7, MovedFacts
      <4>2. r = Value(Put(u, o, q, v, z), e) /\ s = Value(Put(u, o, q, v, z), e + d)
        BY <2>1, <3>3, <3>7, <4>1, JoinedIs
      <4> QED BY <4>2, MovedFacts
    <3> QED BY <3>5, <3>6, <3>7 DEF Ends, Reaches
  <2> QED BY <2>2, <2>5, <2>6 DEF Ends, Reaches, r, s
<1> QED BY <1>3, <1>4

LEMMA StepMoved ==
  ASSUME NEW u \in Seq(Nest), NEW w \in Seq(Nest), NEW lo \in 1..(Len(u) + 1), NEW d \in Int, Stretch(u, w, lo, d),
         NEW i \in lo..(Len(u) + 1), NEW f, NEW g, MovedBehind(u, i, f, g, d), NEW o \in Openers, NEW b \in BOOLEAN
  PROVE  Moved(NestedStep(u, f, <<o, i, b>>), NestedStep(w, g, <<o, i + d, b>>), d)
<1> DEFINE r == NestedStep(u, f, <<o, i, b>>)
           s == NestedStep(w, g, <<o, i + d, b>>)
<1>1. /\ Len(u) \in Nat /\ Len(w) \in Nat /\ i \in 1..(Len(u) + 1) /\ i + d \in 1..(Len(w) + 1)
      /\ i <= Len(u) => u[i] = w[i + d] /\ i + d <= Len(w)
  BY NestFacts, StretchFacts
<1>2. StepOf(u, f, o, i, b, r) /\ StepOf(w, g, o, i + d, b, s)
  BY <1>1, StepIs
<1>3. \A k : Moved(Failed(k), s, d)
  BY DEF Moved, Failed, Value
<1> HIDE DEF r, s
<1>4. CASE i = Len(u) + 1
  BY <1>2, <1>3, <1>4 DEF StepOf, r, s
<1>5. CASE i <= Len(u) /\ u[i] = Closing(o)
  <2>1. r = Value(Empty(o), i + 1) /\ s = Value(Empty(o), (i + d) + 1)
    BY <1>1, <1>2, <1>5 DEF StepOf
  <2>2. (i + d) + 1 = (i + 1) + d
    BY <1>1
  <2> QED BY <2>1, <2>2, MovedFacts DEF r, s
<1>6. CASE i <= Len(u) /\ u[i] # Closing(o) /\ ~ b /\ Peek(u, SkipWs(u, i)) # Comma
  BY <1>2, <1>3, <1>6 DEF StepOf, r, s
<1>7. CASE i <= Len(u) /\ u[i] # Closing(o) /\ (b \/ Peek(u, SkipWs(u, i)) = Comma)
  <2>1. r = Element(u, f, o, NextAt(u, i, b)) /\ NextAt(u, i, b) \in i..(Len(u) + 1)
    BY <1>1, <1>2, <1>7, NextInside DEF StepOf
  <2>2. SkipWs(u, i) \in i..(Len(u) + 1) /\ SkipWs(w, i + d) = SkipWs(u, i) + d
    BY StretchSkip
  <2>3. Peek(u, SkipWs(u, i)) = Comma => Peek(w, SkipWs(w, i + d)) = Comma
    <3>1. SkipWs(u, i) \in lo..(Len(u) + 1) /\ Comma # "end"
      BY <1>1, <2>2, Apart
    <3> QED BY <2>2, <3>1, StretchFacts
  <2>4. NextAt(w, i + d, b) = NextAt(u, i, b) + d
    BY <1>1, <2>2 DEF NextAt
  <2>5. s = Element(w, g, o, NextAt(u, i, b) + d)
    BY <1>1, <1>2, <1>7, <2>3, <2>4 DEF StepOf
  <2> QED BY <2>1, <2>5, ElementMoved DEF r, s
<1> QED BY <1>1, <1>4, <1>5, <1>6, <1>7 DEF r, s

LEMMA NestedMoved ==
  ASSUME NEW u \in Seq(Nest), NEW w \in Seq(Nest), NEW lo \in 1..(Len(u) + 1), NEW d \in Int, Stretch(u, w, lo, d),
         NEW i \in lo..(Len(u) + 1)
  PROVE  /\ MovedBehind(u, i, NestedIn(u), NestedIn(w), d)
         /\ \A o \in Openers, b \in BOOLEAN : Moved(NestedIn(u)[<<o, i, b>>], NestedIn(w)[<<o, i + d, b>>], d)
<1> DEFINE M == NestedIn(u)
           N == NestedIn(w)
           At(k) == \A o \in Openers, b \in BOOLEAN : Moved(M[<<o, k, b>>], N[<<o, k + d, b>>], d)
           S == {k \in lo..(Len(u) + 1) : ~ At(k)}
<1>1. Len(u) \in Nat /\ \A k \in lo..(Len(u) + 1) : k \in 1..(Len(u) + 1) /\ k + d \in 1..(Len(w) + 1)
  BY NestFacts, StretchFacts
<1>2. ASSUME NEW m \in lo..(Len(u) + 1), \A k \in (m + 1)..(Len(u) + 1) : At(k) PROVE MovedBehind(u, m, M, N, d)
  <2>1. ASSUME NEW o \in Openers, NEW k \in (m + 1)..(Len(u) + 1), NEW b \in BOOLEAN PROVE Ends(u, k, M[<<o, k, b>>])
    <3>1. k \in 1..(Len(u) + 1)
      BY <1>1
    <3> QED BY <3>1, NestedEnds
  <2> HIDE DEF M, N
  <2> QED BY <1>2, <2>1 DEF MovedBehind
<1>3. ASSUME NEW m \in lo..(Len(u) + 1), MovedBehind(u, m, M, N, d) PROVE At(m)
  <2>1. ASSUME NEW o \in Openers, NEW b \in BOOLEAN PROVE Moved(M[<<o, m, b>>], N[<<o, m + d, b>>], d)
    <3>1. M[<<o, m, b>>] = NestedStep(u, M, <<o, m, b>>) /\ N[<<o, m + d, b>>] = NestedStep(w, N, <<o, m + d, b>>)
      BY <1>1, NestedIs
    <3> HIDE DEF M, N
    <3> QED BY <1>3, <3>1, StepMoved
  <2> QED BY <2>1
<1> HIDE DEF M, N, At
<1>4. S = {}
  <2> SUFFICES ASSUME S # {} PROVE FALSE
    OBVIOUS
  <2>1. PICK m \in S : \A k \in S : k <= m
    <3>1. S \in SUBSET (0..(Len(u) + 1)) /\ Len(u) + 1 \in Nat
      BY <1>1
    <3> HIDE DEF S
    <3> QED BY <3>1, Greatest
  <2>2. m \in lo..(Len(u) + 1) /\ ~ At(m)
    OBVIOUS
  <2>3. ASSUME NEW k \in (m + 1)..(Len(u) + 1) PROVE At(k)
    <3>1. k \in lo..(Len(u) + 1) /\ ~ (k <= m)
      BY <1>1, <2>2
    <3> QED BY <2>1, <3>1
  <2> QED BY <1>2, <1>3, <2>2, <2>3
<1>5. \A k \in (i + 1)..(Len(u) + 1) : k \in lo..(Len(u) + 1)
  BY <1>1
<1>6. \A k \in lo..(Len(u) + 1) : At(k)
  BY <1>4
<1>7. MovedBehind(u, i, M, N, d) /\ At(i)
  BY <1>2, <1>5, <1>6
<1> QED BY <1>7 DEF At, M, N

--------------------------------------------------------------------------
(* The order of elements *)

\* What the loop of parse_array() or of parse_object() comes to: a list of its kind.
ArrayOf(t) == [type |-> "array", items |-> t]
ObjectOf(t) == [type |-> "object", pairs |-> t]
Pair(name, x) == [key |-> name, value |-> x]
Shape(o, v) ==
  IF o = "[" THEN \E t : v = ArrayOf(t)
  ELSE \E S, t : t \in Seq(S) /\ v = ObjectOf(t)
Shaped(o, r) == \A v, j : r = Value(v, j) => Shape(o, v)

LEMMA ArrayPut ==
  \A w, q, x, t : Put(w, "[", q, x, ArrayOf(t)) = ArrayOf(<<x>> \o t)
<1>1. SUFFICES ASSUME NEW w, NEW q, NEW x, NEW t PROVE Put(w, "[", q, x, ArrayOf(t)) = ArrayOf(<<x>> \o t)
  OBVIOUS
<1>2. PICK s : s = <<x>> \o t
  OBVIOUS
<1>3. ArrayOf(t).items = t
  BY DEF ArrayOf
<1>4. Put(w, "[", q, x, ArrayOf(t)) = [ArrayOf(t) EXCEPT !.items = s]
  BY <1>2, <1>3 DEF Put
<1>5. [ArrayOf(t) EXCEPT !.items = s] = ArrayOf(s)
  BY DEF ArrayOf
<1> QED BY <1>2, <1>4, <1>5

LEMMA ObjectPut ==
  \A w, o, q, x, t : o # "[" =>
    Put(w, o, q, x, ObjectOf(t)) = ObjectOf(t \o <<Pair(<<<<w[KeyAt(w, q)]>>>>, x)>>)
<1>1. SUFFICES ASSUME NEW w, NEW o, NEW q, NEW x, NEW t, o # "["
               PROVE  Put(w, o, q, x, ObjectOf(t)) = ObjectOf(t \o <<Pair(<<<<w[KeyAt(w, q)]>>>>, x)>>)
  OBVIOUS
<1>2. PICK s : s = t \o <<Pair(<<<<w[KeyAt(w, q)]>>>>, x)>>
  OBVIOUS
<1>3. ObjectOf(t).pairs = t
  BY DEF ObjectOf
<1>4. Put(w, o, q, x, ObjectOf(t)) = [ObjectOf(t) EXCEPT !.pairs = s]
  BY <1>1, <1>2, <1>3 DEF Put, Pair
<1>5. [ObjectOf(t) EXCEPT !.pairs = s] = ObjectOf(s)
  BY DEF ObjectOf
<1> QED BY <1>2, <1>4, <1>5

LEMMA ShapePut ==
  ASSUME NEW w, NEW o, NEW q, NEW x, NEW v, Shape(o, v)
  PROVE  Shape(o, Put(w, o, q, x, v))
<1>1. CASE o = "["
  <2>1. PICK t : v = ArrayOf(t)
    BY <1>1 DEF Shape
  <2>2. Put(w, "[", q, x, v) = ArrayOf(<<x>> \o t)
    BY <2>1, ArrayPut
  <2> QED BY <1>1, <2>2 DEF Shape
<1>2. CASE o # "["
  <2>1. PICK S, t : t \in Seq(S) /\ v = ObjectOf(t)
    BY <1>2 DEF Shape
  <2>2. PICK p : p = Pair(<<<<w[KeyAt(w, q)]>>>>, x)
    OBVIOUS
  <2>3. Put(w, o, q, x, v) = ObjectOf(t \o <<p>>)
    BY <1>2, <2>1, <2>2, ObjectPut
  <2>4. t \in Seq(S \cup {p}) /\ <<p>> \in Seq(S \cup {p})
    BY <2>1
  <2>5. t \o <<p>> \in Seq(S \cup {p})
    BY <2>4
  <2> QED BY <1>2, <2>3, <2>5 DEF Shape
<1> QED BY <1>1, <1>2

LEMMA ShapeEmpty ==
  \A o : Empty(o) = (IF o = "[" THEN ArrayOf(<<>>) ELSE ObjectOf(<<>>)) /\ Shape(o, Empty(o))
<1>1. SUFFICES ASSUME NEW o
               PROVE  Empty(o) = (IF o = "[" THEN ArrayOf(<<>>) ELSE ObjectOf(<<>>)) /\ Shape(o, Empty(o))
  OBVIOUS
<1>2. Empty(o) = IF o = "[" THEN ArrayOf(<<>>) ELSE ObjectOf(<<>>)
  BY DEF Empty, ArrayOf, ObjectOf
<1>3. PICK t : t = <<>> /\ t \in Seq({})
  <2>1. <<>> \in Seq({})
    OBVIOUS
  <2> QED BY <2>1
<1>4. Shape(o, Empty(o))
  BY <1>2, <1>3 DEF Shape
<1> QED BY <1>2, <1>4

LEMMA ElementShaped ==
  ASSUME NEW w \in Seq(Nest), NEW i \in 1..(Len(w) + 1), NEW o \in Openers, NEW q \in i..(Len(w) + 1),
         \A j \in (i + 1)..(Len(w) + 1) : Shaped(o, NestedIn(w)[<<o, j, FALSE>>])
  PROVE  Shaped(o, Element(w, NestedIn(w), o, q))
<1> DEFINE N == NestedIn(w)
           a == ValueAt(w, o, q)
           x == Parse(w, N, a)
           r == Element(w, N, o, q)
<1>1. Len(w) \in Nat /\ q \in 1..(Len(w) + 1) /\ i \in 1..(Len(w) + 1)
  BY NestFacts
<1>2. ElementOf(w, N, o, q, x, r)
  BY <1>1, ElementIs
<1>3. SUFFICES ASSUME NEW v, NEW m, r = Value(v, m) PROVE Shape(o, v)
  BY DEF Shaped
<1>4. r.ok /\ ~ Fails(r)
  BY <1>3, ReachFacts DEF Reaches
<1>5. Keyed(w, o, q)
  <2>1. \A k : ~ Failed(k).ok
    BY DEF Failed
  <2> QED BY <1>2, <1>4, <2>1 DEF ElementOf
<1>6. a \in q..(Len(w) + 1) /\ Ends(w, a, x)
  <2>1. a \in q..(Len(w) + 1)
    BY <1>1, <1>5, ValueInside
  <2>2. a \in i..(Len(w) + 1) /\ KnownBehind(w, i, N, N)
    BY <1>1, <2>1, AllKnown
  <2> HIDE DEF a, N
  <2>3. Settled(w, a, Parse(w, N, a), Parse(w, N, a))
    BY <1>1, <2>2, ParseEnds
  <2> QED BY <2>1, <2>3 DEF Settled
<1>7. /\ Fails(x) => r = x
      /\ \A j : Reaches(x, j) => r = Joined(w, o, q, x.val, N[<<o, j, FALSE>>])
  BY <1>2, <1>5 DEF ElementOf
<1>8. PICK j \in (a + 1)..(Len(w) + 1) : Reaches(x, j)
  BY <1>4, <1>6, <1>7 DEF Ends
<1> DEFINE n == N[<<o, j, FALSE>>]
<1>9. r = Joined(w, o, q, x.val, n) /\ j \in (i + 1)..(Len(w) + 1)
  <2>1. j \in (i + 1)..(Len(w) + 1)
    BY <1>1, <1>6
  <2>2. r = Joined(w, o, q, x.val, n)
    BY <1>7, <1>8, Zenon
  <2> QED BY <2>1, <2>2
<1>10. Ends(w, j, n) /\ Shaped(o, n)
  <2>1. j \in 1..(Len(w) + 1)
    BY <1>1, <1>9
  <2> QED BY <1>9, <2>1, NestedEnds
<1> HIDE DEF n, x, r, a
<1>11. PICK z, e : n = Value(z, e)
  <2>1. ~ Fails(n)
    BY <1>4, <1>9, JoinedFacts
  <2> QED BY <1>10, <2>1 DEF Ends, Reaches
<1>12. Shape(o, z) /\ r = Value(Put(w, o, q, x.val, z), e)
  BY <1>9, <1>10, <1>11, JoinedIs DEF Shaped
<1>13. v = Put(w, o, q, x.val, z)
  <2>1. Value(v, m).val = v /\ Value(Put(w, o, q, x.val, z), e).val = Put(w, o, q, x.val, z)
    BY DEF Value
  <2> QED BY <1>3, <1>12, <2>1
<1> QED BY <1>12, <1>13, ShapePut

LEMMA NestedShaped ==
  ASSUME NEW w \in Seq(Nest), NEW o \in Openers, NEW i \in 1..(Len(w) + 1), NEW b \in BOOLEAN
  PROVE  Shaped(o, NestedIn(w)[<<o, i, b>>])
<1> DEFINE N == NestedIn(w)
           At(k) == \A c \in BOOLEAN : Shaped(o, N[<<o, k, c>>])
           S == {k \in 1..(Len(w) + 1) : ~ At(k)}
<1>1. Len(w) \in Nat
  BY NestFacts
<1>2. ASSUME NEW m \in 1..(Len(w) + 1), \A k \in (m + 1)..(Len(w) + 1) : At(k) PROVE At(m)
  <2>1. ASSUME NEW c \in BOOLEAN PROVE Shaped(o, N[<<o, m, c>>])
    <3> DEFINE r == NestedStep(w, N, <<o, m, c>>)
    <3>1. N[<<o, m, c>>] = r
      BY NestedIs
    <3>2. StepOf(w, N, o, m, c, r)
      BY StepIs
    <3>3. \A k : Shaped(o, Failed(k))
      BY DEF Shaped, Failed, Value
    <3>4. \A k : Shaped(o, Value(Empty(o), k))
      <4>1. \A v, j : Value(v, j).val = v
        BY DEF Value
      <4> QED BY <4>1, ShapeEmpty DEF Shaped
    <3> HIDE DEF r
    <3>5. ASSUME m <= Len(w), c \/ Peek(w, SkipWs(w, m)) = Comma
          PROVE  Shaped(o, Element(w, N, o, NextAt(w, m, c)))
      <4>1. NextAt(w, m, c) \in m..(Len(w) + 1)
        <5>1. m \in 1..Len(w)
          BY <1>1, <3>5
        <5> QED BY <3>5, <5>1, NextInside
      <4>2. \A j \in (m + 1)..(Len(w) + 1) : Shaped(o, N[<<o, j, FALSE>>])
        BY <1>2
      <4> QED BY <4>1, <4>2, ElementShaped
    <3>6. CASE m = Len(w) + 1
      BY <3>1, <3>2, <3>3, <3>6 DEF StepOf
    <3>7. CASE m <= Len(w)
      <4> HIDE DEF N
      <4> QED BY <3>1, <3>2, <3>3, <3>4, <3>5, <3>7 DEF StepOf
    <3> QED BY <1>1, <3>6, <3>7
  <2> QED BY <2>1
<1> HIDE DEF N, At
<1>3. S = {}
  <2> SUFFICES ASSUME S # {} PROVE FALSE
    OBVIOUS
  <2>1. PICK m \in S : \A k \in S : k <= m
    <3>1. S \in SUBSET (0..(Len(w) + 1)) /\ Len(w) + 1 \in Nat
      BY <1>1
    <3> HIDE DEF S
    <3> QED BY <3>1, Greatest
  <2>2. m \in 1..(Len(w) + 1) /\ ~ At(m)
    OBVIOUS
  <2>3. ASSUME NEW k \in (m + 1)..(Len(w) + 1) PROVE At(k)
    <3>1. k \in 1..(Len(w) + 1) /\ ~ (k <= m)
      BY <1>1, <2>2
    <3> QED BY <2>1, <3>1
  <2> QED BY <1>2, <2>2, <2>3
<1>4. At(i)
  BY <1>3
<1> QED BY <1>4 DEF At, N


\* A word that is parsed, by the place behind its opening bracket.
LEMMA WholeIs ==
  ASSUME NEW w \in Seq(Nest)
  PROVE  /\ json_parse_n(w).ok => Parse(w, NestedIn(w), 1) = Value(json_parse_n(w).val, Len(w) + 1)
         /\ \A v : Parse(w, NestedIn(w), 1) = Value(v, Len(w) + 1) => json_parse_n(w) = Value(v, Len(w) + 1)
<1> DEFINE r == Parse(w, NestedIn(w), 1)
<1>1. Len(w) \in Nat /\ 1 \in 1..(Len(w) + 1)
  BY NestFacts
<1>2. json_parse_n(w) = Whole(w, r)
  BY DEF json_parse_n
<1>3. Ends(w, 1, r)
  <2>1. KnownBehind(w, 1, NestedIn(w), NestedIn(w))
    BY <1>1, AllKnown
  <2>2. Settled(w, 1, r, r)
    BY <1>1, <2>1, ParseEnds
  <2> QED BY <2>2 DEF Settled
<1> HIDE DEF r
<1>4. ASSUME NEW v, r = Value(v, Len(w) + 1) PROVE json_parse_n(w) = Value(v, Len(w) + 1)
  BY <1>1, <1>2, <1>4, WholeFacts
<1>5. ASSUME json_parse_n(w).ok PROVE r = Value(json_parse_n(w).val, Len(w) + 1)
  <2>1. ~ Fails(r)
    <3> SUFFICES ASSUME Fails(r) PROVE FALSE
      OBVIOUS
    <3>1. PICK k \in Nat : r = Failed(k)
      BY DEF Fails
    <3> QED BY <1>2, <1>5, <3>1, WholeFacts
  <2>2. PICK j, v : j \in 2..(Len(w) + 1) /\ r = Value(v, j)
    BY <1>3, <2>1 DEF Ends, Reaches
  <2>3. j = Len(w) + 1
    BY <1>1, <1>2, <1>5, <2>2, WholeFacts
  <2>4. json_parse_n(w) = Value(v, j)
    BY <1>4, <2>2, <2>3
  <2>5. json_parse_n(w).val = v
    BY <2>4 DEF Value
  <2> QED BY <2>2, <2>3, <2>5
<1> QED BY <1>4, <1>5 DEF r

LEMMA HeadIs ==
  ASSUME NEW w \in Seq(Nest), NEW b \in 1..Len(w), Blank(w, 1, b), w[b] \in Openers
  PROVE  /\ b + 1 \in 1..(Len(w) + 1)
         /\ Parse(w, NestedIn(w), 1) = Spaced(w, NestedIn(w)[<<w[b], b + 1, TRUE>>])
<1>1. Len(w) \in Nat /\ Peek(w, b) = w[b] /\ b \in 1..(Len(w) + 1) /\ 1 \in 1..(Len(w) + 1)
  BY NestFacts
<1>2. SkipWs(w, 1) = b
  <2>1. Peek(w, b) # "ws"
    BY <1>1, Apart
  <2> QED BY <1>1, <2>1, BlankSkipped
<1>3. ParseAt(w, NestedIn(w), b) = NestedIn(w)[<<w[b], b + 1, TRUE>>]
  BY <1>1, ParseAtIs
<1> QED BY <1>1, <1>2, <1>3 DEF Parse

\* No element begins with a closing bracket, or where the word ends.
LEMMA NoElement ==
  ASSUME NEW w \in Seq(Nest), NEW f, NEW o \in Openers, NEW q \in 1..(Len(w) + 1), Peek(w, q) \in Closers \cup {"end"}
  PROVE  /\ Keyed(w, o, q) => Fails(Parse(w, f, ValueAt(w, o, q)))
         /\ ~ Element(w, f, o, q).ok
<1>1. Len(w) \in Nat
  BY NestFacts
<1>2. Peek(w, q) # "ws" /\ Peek(w, q) \notin Openers \cup Atoms
  BY Apart, NestFacts, NestTokens
<1>3. SkipWs(w, q) = q
  <2>1. Blank(w, q, q) /\ q \in q..(Len(w) + 1)
    BY <1>1, BlankFacts
  <2> QED BY <1>2, <2>1, BlankSkipped
<1>4. Fails(Parse(w, f, q))
  <2>1. ParseAt(w, f, q) = Failed(q)
    BY <1>2, ParseAtIs
  <2>2. Fails(Failed(q))
    BY DEF Fails
  <2> QED BY <1>3, <2>1, <2>2, SpacedFacts DEF Parse
<1>5. Keyed(w, o, q) => ValueAt(w, o, q) = q
  <2>1. KeyAt(w, q) = q /\ Peek(w, q) \notin Keys
    BY <1>2, <1>3 DEF KeyAt, Atoms
  <2> QED BY <2>1 DEF Keyed, ValueAt
<1>6. ElementOf(w, f, o, q, Parse(w, f, ValueAt(w, o, q)), Element(w, f, o, q))
  BY ElementIs
<1>7. \A k : ~ Failed(k).ok
  BY DEF Failed
<1> QED BY <1>4, <1>5, <1>6, <1>7, ReachFacts DEF ElementOf

\* What stands behind a comma is read as the same elements between brackets of its own.
LEMMA OthersAre ==
  ASSUME NEW w \in Seq(Nest), NEW o \in Openers, NEW c \in 1..Len(w), w[c] = Comma,
         NEW v, NEW j \in (c + 1)..(Len(w) + 1), NestedIn(w)[<<o, c, FALSE>>] = Value(v, j),
         SkipWs(w, j) = Len(w) + 1
  PROVE  json_parse_n(<<o>> \o SubSeq(w, c + 1, Len(w))).val = v
<1> DEFINE N == NestedIn(w)
           t == SubSeq(w, c + 1, Len(w))
           z == <<o>> \o t
           d == 1 - c
           r == Element(w, N, o, c + 1)
<1>1. Len(w) \in Nat /\ c \in 1..(Len(w) + 1) /\ c + 1 \in 1..(Len(w) + 1) /\ Peek(w, c) = Comma
      /\ \A k \in 1..Len(w) : w[k] \in Nest
  BY NestFacts
<1>2. SkipWs(w, c) = c
  <2>1. Peek(w, c) # "ws"
    BY <1>1, Apart
  <2>2. Blank(w, c, c) /\ c \in c..(Len(w) + 1)
    BY <1>1, BlankFacts
  <2> QED BY <1>1, <2>1, <2>2, BlankSkipped
<1>3. Closing(o) \in Closers
  BY Zenon DEF Closing, Closers
<1>4. r = Value(v, j)
  <2>1. N[<<o, c, FALSE>>] = NestedStep(w, N, <<o, c, FALSE>>)
    BY <1>1, NestedIs
  <2>2. StepOf(w, N, o, c, FALSE, NestedStep(w, N, <<o, c, FALSE>>))
    BY <1>1, StepIs
  <2>3. w[c] # Closing(o)
    BY <1>3, Apart
  <2>4. NestedStep(w, N, <<o, c, FALSE>>) = Element(w, N, o, NextAt(w, c, FALSE))
    BY <1>1, <1>2, <2>2, <2>3 DEF StepOf
  <2> QED BY <1>2, <2>1, <2>4 DEF NextAt
<1>5. N[<<o, c + 1, TRUE>>] = Value(v, j)
  <2>1. r.ok
    BY <1>4 DEF Value
  <2>2. Peek(w, c + 1) \notin Closers \cup {"end"}
    BY <1>1, <2>1, NoElement
  <2>3. c + 1 \in 1..Len(w) /\ w[c + 1] # Closing(o)
    BY <1>1, <1>3, <2>2, PeekIs
  <2>4. N[<<o, c + 1, TRUE>>] = NestedStep(w, N, <<o, c + 1, TRUE>>)
    BY <1>1, NestedIs
  <2>5. StepOf(w, N, o, c + 1, TRUE, NestedStep(w, N, <<o, c + 1, TRUE>>))
    BY <1>1, StepIs
  <2>6. NestedStep(w, N, <<o, c + 1, TRUE>>) = Element(w, N, o, NextAt(w, c + 1, TRUE))
    BY <1>1, <2>3, <2>5 DEF StepOf
  <2> QED BY <1>4, <2>4, <2>6 DEF NextAt
<1>6. /\ z \in Seq(Nest) /\ Len(z) = Len(w) + 1 - c /\ z[1] = o
      /\ \A k \in (c + 1)..Len(w) : z[k + d] = w[k]
  <2>1. t \in Seq(Nest) /\ Len(t) = Len(w) - c /\ \A k \in 1..(Len(w) - c) : t[k] = w[c + k]
    BY <1>1
  <2>2. o \in Nest
    BY Zenon DEF Openers, Nest, Family
  <2> HIDE DEF t
  <2>3. z \in Seq(Nest) /\ Len(z) = 1 + Len(t) /\ z[1] = o /\ \A k \in 1..Len(t) : z[k + 1] = t[k]
    <3>1. t \in Seq(Nest) /\ <<o>> \in Seq(Nest) /\ Len(<<o>>) = 1 /\ <<o>>[1] = o
      BY <2>1, <2>2
    <3>2. z \in Seq(Nest) /\ Len(z) = 1 + Len(t) /\ z[1] = o
      BY <3>1
    <3>3. \A k \in 1..Len(t) : z[k + 1] = t[k]
      BY <3>1
    <3> QED BY <3>2, <3>3
  <2>4. ASSUME NEW k \in (c + 1)..Len(w) PROVE z[k + d] = w[k]
    <3>1. k - c \in 1..(Len(w) - c) /\ (k - c) + 1 = k + d /\ c + (k - c) = k
      BY <1>1
    <3> HIDE DEF z, d
    <3>2. z[(k - c) + 1] = t[k - c]
      BY <2>1, <2>3, <3>1
    <3>3. t[k - c] = w[c + (k - c)]
      BY <2>1, <3>1
    <3> QED BY <3>1, <3>2, <3>3
  <2>5. Len(z) = Len(w) + 1 - c
    BY <1>1, <2>1, <2>3
  <2> HIDE DEF z, d
  <2> QED BY <2>3, <2>4, <2>5
<1> HIDE DEF z, t
<1>7. Stretch(w, z, c + 1, d) /\ d \in Int /\ Len(z) \in Nat
  <2>1. ASSUME NEW k \in (c + 1)..Len(w) PROVE k + d \in 1..Len(z) /\ z[k + d] = w[k]
    BY <1>1, <1>6
  <2>2. Len(w) + 1 + d \in 1..(Len(z) + 1) /\ Len(w) + 1 + d = Len(z) + 1 /\ Len(z) + 1 \in Nat \ {0}
    BY <1>1, <1>6
  <2>3. Peek(z, Len(w) + 1 + d) = "end"
    BY <1>6, <2>2, NestFacts
  <2> HIDE DEF d
  <2>4. \A k \in (c + 1)..Len(w) : k + d \in 1..Len(z) /\ z[k + d] = w[k]
    BY <2>1
  <2>5. d \in Int
    BY DEF d
  <2> QED BY <1>1, <1>6, <2>2, <2>3, <2>4, <2>5 DEF Stretch
<1>8. NestedIn(z)[<<o, 2, TRUE>>] = Value(v, j + d)
  <2>1. c + 1 \in (c + 1)..(Len(w) + 1) /\ (c + 1) + d = 2
    BY <1>1
  <2> HIDE DEF d
  <2>2. Moved(N[<<o, c + 1, TRUE>>], NestedIn(z)[<<o, (c + 1) + d, TRUE>>], d)
    <3>1. \A a \in Openers, b \in BOOLEAN :
            Moved(NestedIn(w)[<<a, c + 1, b>>], NestedIn(z)[<<a, (c + 1) + d, b>>], d)
      BY <1>1, <1>6, <1>7, <2>1, NestedMoved
    <3> QED BY <3>1
  <2>3. Moved(Value(v, j), NestedIn(z)[<<o, 2, TRUE>>], d)
    BY <1>5, <2>1, <2>2
  <2> QED BY <2>3, MovedFacts
<1>9. SkipWs(z, j + d) = Len(z) + 1
  <2>1. SkipWs(z, j + d) = SkipWs(w, j) + d
    <3> HIDE DEF d
    <3> QED BY <1>1, <1>6, <1>7, StretchSkip
  <2> QED BY <1>1, <1>6, <2>1
<1>10. Parse(z, NestedIn(z), 1) = Spaced(z, NestedIn(z)[<<o, 2, TRUE>>])
  <2>1. 1 \in 1..Len(z) /\ Blank(z, 1, 1) /\ z[1] \in Openers /\ 1 + 1 = 2
    BY <1>1, <1>6, BlankFacts
  <2>2. Parse(z, NestedIn(z), 1) = Spaced(z, NestedIn(z)[<<z[1], 1 + 1, TRUE>>])
    BY <1>6, <2>1, HeadIs
  <2> QED BY <1>6, <2>1, <2>2
<1>11. Parse(z, NestedIn(z), 1) = Value(v, Len(z) + 1)
  BY <1>8, <1>9, <1>10, SpacedIs
<1>12. json_parse_n(z) = Value(v, Len(z) + 1)
  BY <1>6, <1>11, WholeIs
<1>13. json_parse_n(z).val = v
  BY <1>12 DEF Value
<1> QED BY <1>13 DEF z, t


\* The first element, which ends at c, and the rest z of a word that is parsed.
Leading(w, o, b, c, x, z) ==
  /\ json_parse_n(w).val = Put(w, o, b + 1, x, z) /\ Shape(o, z)
  /\ w[c] = Comma => json_parse_n(<<o>> \o SubSeq(w, c + 1, Len(w))).val = z
  /\ w[c] # Comma => z = Empty(o)

LEMMA FirstRead ==
  ASSUME NEW w \in Seq(Nest), NEW b \in 1..Len(w), Blank(w, 1, b), NEW o \in Openers, w[b] = o, json_parse_n(w).ok,
         NEW c \in (b + 1)..Len(w), w[c] \in {Comma} \cup Closers, Keyed(w, o, b + 1), NEW a, a = ValueAt(w, o, b + 1),
         a <= c, json_parse_n(SubSeq(w, a, c - 1)).ok
  PROVE  \E z : Leading(w, o, b, c, json_parse_n(SubSeq(w, a, c - 1)).val, z)
<1> DEFINE N == NestedIn(w)
           u == SubSeq(w, a, c - 1)
           d == a - 1
           x == json_parse_n(u).val
           val == json_parse_n(w).val
           q == b + 1
           r == Element(w, N, o, q)
           n == N[<<o, c, FALSE>>]
<1>1. /\ Len(w) \in Nat /\ c \in 1..Len(w) /\ c \in 1..(Len(w) + 1) /\ c + 1 \in 1..(Len(w) + 1)
      /\ q \in 1..(Len(w) + 1) /\ q \in 1..Len(w) /\ Peek(w, c) = w[c]
      /\ \A k \in 1..Len(w) : w[k] \in Nest
  BY NestFacts
<1>2. a \in q..c /\ a \in 1..(Len(w) + 1) /\ a \in Int /\ d \in Int
  <2>1. a \in q..(Len(w) + 1)
    BY <1>1, ValueInside
  <2> QED BY <1>1, <2>1
<1>3. u \in Seq(Nest) /\ Len(u) = c - a /\ \A k \in 1..(c - a) : u[k] = w[k + d]
  BY <1>1, <1>2
<1> HIDE DEF u
<1>4. Stretch(u, w, 1, d) /\ 1 \in 1..(Len(u) + 1)
  <2>1. ASSUME NEW k \in 1..Len(u) PROVE k + d \in 1..Len(w) /\ w[k + d] = u[k]
    <3>1. k \in 1..(c - a) /\ u[k] = w[k + d]
      BY <1>3
    <3>2. a \in Nat /\ c \in Nat /\ a >= 1 /\ c <= Len(w) /\ Len(w) \in Nat
      BY <1>1, <1>2
    <3>3. k + d \in 1..Len(w)
      BY <3>1, <3>2
    <3> QED BY <3>1, <3>3
  <2>2. Len(u) + 1 + d = c
    BY <1>1, <1>2, <1>3
  <2>3. Peek(w, Len(u) + 1 + d) \in {Comma, "end"} \cup Closers
    BY <1>1, <2>2
  <2>4. Len(u) + 1 + d \in 1..(Len(w) + 1) /\ 1 \in 1..(Len(u) + 1)
    <3>1. c - a \in Nat
      BY <1>2
    <3> HIDE DEF d
    <3> QED BY <1>1, <1>3, <2>2, <3>1
  <2> HIDE DEF d
  <2> QED BY <2>1, <2>3, <2>4 DEF Stretch
<1>5. Parse(w, N, a) = Value(x, c)
  <2>1. Parse(u, NestedIn(u), 1) = Value(x, Len(u) + 1)
    <3>1. json_parse_n(u).ok
      BY DEF u
    <3> QED BY <1>3, <3>1, WholeIs
  <2>2. 1 + d = a /\ (Len(u) + 1) + d = c
    BY <1>1, <1>2, <1>3
  <2> HIDE DEF d
  <2>3. MovedBehind(u, 1, NestedIn(u), N, d)
    BY <1>2, <1>3, <1>4, NestedMoved
  <2>4. Moved(Parse(u, NestedIn(u), 1), Parse(w, N, 1 + d), d)
    <3> HIDE DEF N
    <3> QED BY <1>2, <1>3, <1>4, <2>3, ParseMoved
  <2>5. Moved(Value(x, Len(u) + 1), Parse(w, N, a), d)
    BY <2>1, <2>2, <2>4
  <2>6. Parse(w, N, a) = Value(x, (Len(u) + 1) + d)
    BY <2>5, MovedFacts
  <2> QED BY <2>2, <2>6
<1>6. r = Joined(w, o, q, x, n)
  <2>1. ElementOf(w, N, o, q, Parse(w, N, ValueAt(w, o, q)), r)
    BY <1>1, ElementIs
  <2>2. Reaches(Value(x, c), c) /\ Value(x, c).val = x
    BY DEF Reaches, Value
  <2>3. \A j : Reaches(Value(x, c), j) => r = Joined(w, o, q, Value(x, c).val, N[<<o, j, FALSE>>])
    BY <1>5, <2>1 DEF ElementOf
  <2>4. r = Joined(w, o, q, Value(x, c).val, n)
    BY <2>2, <2>3
  <2> QED BY <2>2, <2>4
<1>7. PICK j : r = Value(val, j) /\ SkipWs(w, j) = Len(w) + 1
  <2> DEFINE s == N[<<o, q, TRUE>>]
  <2>1. Parse(w, N, 1) = Spaced(w, s) /\ Parse(w, N, 1) = Value(val, Len(w) + 1)
    BY HeadIs, WholeIs
  <2>2. Ends(w, q, s)
    BY <1>1, NestedEnds
  <2>3. s = r
    <3>1. s = NestedStep(w, N, <<o, q, TRUE>>)
      BY <1>1, NestedIs
    <3>2. StepOf(w, N, o, q, TRUE, NestedStep(w, N, <<o, q, TRUE>>))
      BY <1>1, StepIs
    <3>3. w[q] # Closing(o)
      <4>1. ~ Fails(Parse(w, N, a))
        BY <1>5, ReachFacts DEF Reaches
      <4>2. Peek(w, q) \notin Closers
        BY <1>1, <4>1, NoElement
      <4>3. Closing(o) \in Closers
        BY Zenon DEF Closing, Closers
      <4> QED BY <1>1, <4>2, <4>3, NestFacts
    <3>4. NestedStep(w, N, <<o, q, TRUE>>) = Element(w, N, o, NextAt(w, q, TRUE))
      <4>1. q <= Len(w)
        BY <1>1
      <4> HIDE DEF N, q
      <4> QED BY <3>2, <3>3, <4>1 DEF StepOf
    <3> QED BY <3>1, <3>4 DEF NextAt
  <2> HIDE DEF r, s, val
  <2>4. ~ Fails(Value(val, Len(w) + 1))
    BY ReachFacts DEF Reaches
  <2>5. ~ Fails(s)
    BY <2>1, <2>4, SpacedFacts
  <2>6. PICK j, v : s = Value(v, j)
    BY <2>2, <2>5 DEF Ends, Reaches
  <2>7. Value(v, SkipWs(w, j)) = Value(val, Len(w) + 1)
    BY <2>1, <2>6, SpacedIs
  <2>8. v = val /\ SkipWs(w, j) = Len(w) + 1
    <3>1. \A y, e : Value(y, e).val = y /\ Value(y, e).at = e
      BY DEF Value
    <3> QED BY <2>7, <3>1
  <2> QED BY <2>3, <2>6, <2>8
<1>8. Ends(w, c, n) /\ Shaped(o, n)
  BY <1>1, NestedEnds, NestedShaped
<1>9. PICK z : n = Value(z, j) /\ val = Put(w, o, q, x, z) /\ j \in (c + 1)..(Len(w) + 1)
  <2> HIDE DEF n, r, val, x
  <2>1. ~ Fails(r)
    BY <1>7, ReachFacts DEF Reaches
  <2>2. PICK e, z : e \in (c + 1)..(Len(w) + 1) /\ n = Value(z, e)
    BY <1>6, <1>8, <2>1, JoinedFacts DEF Ends, Reaches
  <2>3. r = Value(Put(w, o, q, x, z), e)
    BY <1>6, <2>2, JoinedIs
  <2>4. e = j /\ Put(w, o, q, x, z) = val
    <3>1. \A y, k : Value(y, k).val = y /\ Value(y, k).at = k
      BY DEF Value
    <3>2. r.val = val /\ r.at = j
      BY <1>7, <3>1
    <3>3. r.val = Put(w, o, q, x, z) /\ r.at = e
      BY <2>3, <3>1
    <3> QED BY <3>2, <3>3
  <2> QED BY <2>2, <2>4
<1>10. Shape(o, z)
  BY <1>8, <1>9 DEF Shaped
<1>11. w[c] = Comma => json_parse_n(<<o>> \o SubSeq(w, c + 1, Len(w))).val = z
  BY <1>1, <1>7, <1>9, OthersAre
<1>12. w[c] # Comma => z = Empty(o)
  <2> SUFFICES ASSUME w[c] # Comma PROVE z = Empty(o)
    OBVIOUS
  <2>1. n = NestedStep(w, N, <<o, c, FALSE>>)
    BY <1>1, NestedIs
  <2>2. StepOf(w, N, o, c, FALSE, n)
    BY <1>1, <2>1, StepIs
  <2>3. SkipWs(w, c) = c
    <3>1. Peek(w, c) # "ws"
      BY <1>1, Apart
    <3>2. Blank(w, c, c) /\ c \in c..(Len(w) + 1)
      BY <1>1, BlankFacts
    <3> QED BY <1>1, <3>1, <3>2, BlankSkipped
  <2>4. n # Failed(SkipWs(w, c))
    BY <1>9 DEF Value, Failed
  <2> HIDE DEF n
  <2>5. n = Value(Empty(o), c + 1)
    BY <1>1, <2>2, <2>3, <2>4 DEF StepOf
  <2> QED BY <1>9, <2>5 DEF Value
<1>13. Leading(w, o, b, c, x, z)
  <2> HIDE DEF x
  <2> QED BY <1>9, <1>10, <1>11, <1>12 DEF Leading
<1> QED BY <1>13 DEF u

\* A pair at the end of the list counts when no other has its key.
Appended(t, name, x, key) ==
  json_value_get(ObjectOf(t \o <<Pair(name, x)>>), key) =
    IF json_value_get(ObjectOf(t), key) = {} /\ key = name THEN {x} ELSE json_value_get(ObjectOf(t), key)

LEMMA GetAppended ==
  ASSUME NEW S, NEW t \in Seq(S), NEW name, NEW x, NEW key
  PROVE  Appended(t, name, x, key)
<1>1. PICK p : p = Pair(name, x)
  OBVIOUS
<1>2. PICK s : s = t \o <<p>>
  OBVIOUS
<1>3. /\ Len(t) \in Nat /\ DOMAIN t = 1..Len(t) /\ DOMAIN s = 1..(Len(t) + 1)
      /\ s[Len(t) + 1] = p /\ \A k \in 1..Len(t) : s[k] = t[k]
  <2>1. t \in Seq(S \cup {p}) /\ <<p>> \in Seq(S \cup {p}) /\ Len(<<p>>) = 1 /\ <<p>>[1] = p
    OBVIOUS
  <2>2. s \in Seq(S \cup {p}) /\ Len(s) = Len(t) + 1
    BY <1>2, <2>1
  <2>3. s[Len(t) + 1] = p /\ \A k \in 1..Len(t) : s[k] = t[k]
    BY <1>2, <2>1
  <2> QED BY <2>2, <2>3
<1>4. PICK y, z : y = ObjectOf(s) /\ z = ObjectOf(t)
  OBVIOUS
<1>5. PICK H, G : H = Having(z, key) /\ G = Having(y, key)
  OBVIOUS
<1>6. z.pairs = t /\ y.pairs = s /\ p.key = name /\ p.value = x
  BY <1>1, <1>4 DEF ObjectOf, Pair
<1>7. /\ \A k : k \in H <=> k \in 1..Len(t) /\ t[k].key = key
      /\ \A k : k \in G <=> k \in 1..(Len(t) + 1) /\ s[k].key = key
  BY <1>3, <1>5, <1>6 DEF Having
<1>8. \A k : k \in G <=> k \in H \/ (k = Len(t) + 1 /\ key = name)
  <2>1. s[Len(t) + 1].key = name /\ \A k \in 1..Len(t) : s[k].key = t[k].key
    BY <1>3, <1>6
  <2>2. \A k : k \in 1..(Len(t) + 1) <=> k \in 1..Len(t) \/ k = Len(t) + 1
    BY <1>3
  <2> QED BY <1>7, <2>1, <2>2
<1> DEFINE First(T) == {k \in T : \A j \in T : k <= j}
<1>9. /\ json_value_get(z, key) = {t[k].value : k \in First(H)}
      /\ json_value_get(y, key) = {s[k].value : k \in First(G)}
  BY <1>5, <1>6 DEF json_value_get
<1>10. json_value_get(y, key) =
         IF json_value_get(z, key) = {} /\ key = name THEN {x} ELSE json_value_get(z, key)
  <2>1. CASE H = {}
    <3>1. json_value_get(z, key) = {}
      BY <1>9, <2>1
    <3>2. CASE key = name
      <4>1. G = {Len(t) + 1}
        BY <1>8, <2>1, <3>2
      <4>2. First(G) = {Len(t) + 1}
        BY <1>3, <4>1
      <4> HIDE DEF First
      <4>3. json_value_get(y, key) = {s[Len(t) + 1].value}
        BY <1>9, <4>2
      <4> QED BY <1>3, <1>6, <3>1, <3>2, <4>3
    <3>3. CASE key # name
      <4>1. G = {}
        BY <1>8, <2>1, <3>3
      <4> QED BY <1>9, <3>1, <3>3, <4>1
    <3> QED BY <3>2, <3>3
  <2>2. CASE H # {}
    <3>1. \A k \in H : k \in 1..Len(t)
      BY <1>7
    <3>2. PICK m \in H : \A k \in H : m <= k
      <4>1. H \in SUBSET Nat
        BY <1>3, <3>1
      <4> QED BY <2>2, <4>1, Least
    <3>3. m \in Nat /\ m < Len(t) + 1 /\ m \in 1..Len(t) /\ \A k \in H : k \in Nat
      <4>1. m \in 1..Len(t) /\ Len(t) \in Nat
        BY <1>3, <3>1
      <4>2. \A k \in H : k \in Nat
        BY <3>1
      <4> QED BY <4>1, <4>2
    <3>4. m \in G /\ \A k \in G : k \in Nat /\ m <= k
      <4>1. m \in G
        BY <1>8, <3>2
      <4>2. ASSUME NEW k \in G PROVE k \in Nat /\ m <= k
        <5>1. k \in H \/ k = Len(t) + 1
          BY <1>8
        <5>2. CASE k \in H
          BY <3>2, <3>3, <5>2
        <5>3. CASE k = Len(t) + 1
          BY <1>3, <3>3, <5>3
        <5> QED BY <5>1, <5>2, <5>3
      <4> QED BY <4>1, <4>2
    <3>5. \A k, j : k \in Nat /\ j \in Nat /\ k <= j /\ j <= k => k = j
      OBVIOUS
    <3>6. First(H) = {m} /\ First(G) = {m}
      <4>1. \A k \in First(H) : k = m
        BY <3>2, <3>3, <3>5
      <4>2. \A k \in First(G) : k = m
        BY <3>3, <3>4, <3>5
      <4>3. m \in First(H) /\ m \in First(G)
        BY <3>2, <3>4
      <4> HIDE DEF First
      <4> QED BY <4>1, <4>2, <4>3
    <3> HIDE DEF First
    <3>7. json_value_get(z, key) = {t[m].value} /\ json_value_get(y, key) = {s[m].value}
      BY <1>9, <3>6
    <3> QED BY <1>3, <3>3, <3>7
  <2> QED BY <2>1, <2>2
<1> QED BY <1>1, <1>2, <1>4, <1>10 DEF Appended

LEMMA ItemsAre ==
  ASSUME NEW w \in Seq(Nest), NEW b \in 1..Len(w), Blank(w, 1, b), w[b] = "[", json_parse_n(w).ok,
         NEW c \in (b + 1)..Len(w), w[c] \in {Comma} \cup Closers, json_parse_n(SubSeq(w, b + 1, c - 1)).ok
  PROVE  json_parse_n(w).val.items =
           <<json_parse_n(SubSeq(w, b + 1, c - 1)).val>> \o
             (IF w[c] = Comma THEN json_parse_n(<<w[b]>> \o SubSeq(w, c + 1, Len(w))).val.items ELSE <<>>)
<1> DEFINE o == "["
           x == json_parse_n(SubSeq(w, b + 1, c - 1)).val
           val == json_parse_n(w).val
<1>1. o \in Openers /\ Keyed(w, o, b + 1) /\ ValueAt(w, o, b + 1) = b + 1 /\ b + 1 <= c
  <2>1. o \in Openers /\ Keyed(w, o, b + 1) /\ ValueAt(w, o, b + 1) = b + 1
    BY Zenon DEF Openers, Keyed, ValueAt
  <2> QED BY <2>1
<1>2. PICK z : Leading(w, o, b, c, x, z)
  BY <1>1, FirstRead
<1>3. PICK t : z = ArrayOf(t)
  BY <1>2 DEF Leading, Shape
<1> HIDE DEF x
<1>4. val = ArrayOf(<<x>> \o t)
  <2>1. val = Put(w, "[", b + 1, x, z)
    BY <1>2 DEF Leading
  <2>2. Put(w, "[", b + 1, x, ArrayOf(t)) = ArrayOf(<<x>> \o t)
    BY ArrayPut
  <2> QED BY <1>3, <2>1, <2>2
<1>5. val.items = <<x>> \o t /\ z.items = t
  <2>1. \A s : ArrayOf(s).items = s
    BY DEF ArrayOf
  <2> QED BY <1>3, <1>4, <2>1
<1>6. Empty(o).items = <<>>
  BY DEF Empty
<1> QED BY <1>2, <1>5, <1>6 DEF Leading, x

FoundIn(w, b, c, key) ==
  IF w[c] = Comma THEN json_value_get(json_parse_n(<<w[b]>> \o SubSeq(w, c + 1, Len(w))).val, key) ELSE {}

LEMMA MembersAre ==
  ASSUME NEW w \in Seq(Nest), NEW b \in 1..Len(w), Blank(w, 1, b), w[b] \in Openers, w[b] # "[",
         json_parse_n(w).ok, NEW c \in (b + 1)..Len(w), w[c] \in {Comma} \cup Closers,
         NEW k \in b..c, NEW q \in b..c, k < q, w[k] \in Keys, w[q] = Colon, Blank(w, b + 1, k), Blank(w, k + 1, q),
         json_parse_n(SubSeq(w, q + 1, c - 1)).ok, NEW key
  PROVE  json_value_get(json_parse_n(w).val, <<<<key>>>>) =
           IF FoundIn(w, b, c, <<<<key>>>>) = {} /\ key = w[k] THEN {json_parse_n(SubSeq(w, q + 1, c - 1)).val}
           ELSE FoundIn(w, b, c, <<<<key>>>>)
<1>1. PICK o : o = w[b] /\ o \in Openers /\ o # "["
  OBVIOUS
<1>2. Len(w) \in Nat /\ b + 1 \in 1..(Len(w) + 1) /\ k \in 1..Len(w) /\ q \in 1..Len(w)
  BY NestFacts
<1>3. k # b /\ q # c
  BY Apart DEF Atoms
<1>4. k \in (b + 1)..(Len(w) + 1) /\ Peek(w, k) = w[k] /\ Peek(w, q) = w[q]
      /\ k + 1 \in 1..(Len(w) + 1) /\ q \in (k + 1)..(Len(w) + 1) /\ q + 1 <= c
  BY <1>2, <1>3, NestFacts
<1>5. w[k] # "ws" /\ w[q] # "ws"
  BY Apart DEF Atoms
<1>6. KeyAt(w, b + 1) = k
  BY <1>2, <1>4, <1>5, BlankSkipped DEF KeyAt
<1>7. ColonAt(w, b + 1) = q
  BY <1>4, <1>5, <1>6, BlankSkipped DEF ColonAt
<1>8. Keyed(w, o, b + 1) /\ ValueAt(w, o, b + 1) = q + 1
  BY <1>1, <1>4, <1>6, <1>7 DEF Keyed, ValueAt
<1> DEFINE x == json_parse_n(SubSeq(w, q + 1, c - 1)).val
           val == json_parse_n(w).val
<1>9. PICK z : Leading(w, o, b, c, x, z)
  BY <1>1, <1>4, <1>8, FirstRead
<1>10. PICK S, t : t \in Seq(S) /\ z = ObjectOf(t)
  BY <1>1, <1>9 DEF Leading, Shape
<1>11. PICK name, wanted : name = <<<<w[k]>>>> /\ wanted = <<<<key>>>>
  OBVIOUS
<1> HIDE DEF x, val
<1>12. val = ObjectOf(t \o <<Pair(name, x)>>)
  <2>1. val = Put(w, o, b + 1, x, z)
    BY <1>9 DEF Leading, val
  <2>2. Put(w, o, b + 1, x, ObjectOf(t)) = ObjectOf(t \o <<Pair(<<<<w[KeyAt(w, b + 1)]>>>>, x)>>)
    BY <1>1, ObjectPut
  <2> QED BY <1>6, <1>10, <1>11, <2>1, <2>2
<1>13. json_value_get(z, wanted) = FoundIn(w, b, c, wanted)
  <2>1. CASE w[c] = Comma
    BY <1>1, <1>9, <2>1 DEF Leading, FoundIn
  <2>2. CASE w[c] # Comma
    <3>1. z = ObjectOf(<<>>)
      BY <1>1, <1>9, <2>2, ShapeEmpty DEF Leading
    <3>2. z.pairs = <<>>
      BY <3>1 DEF ObjectOf
    <3>3. json_value_get(z, wanted) = {}
      BY <3>2 DEF json_value_get, Having
    <3> QED BY <2>2, <3>3 DEF FoundIn
  <2> QED BY <2>1, <2>2
<1>14. json_value_get(val, wanted) =
         IF json_value_get(z, wanted) = {} /\ wanted = name THEN {x} ELSE json_value_get(z, wanted)
  <2>1. json_value_get(ObjectOf(t \o <<Pair(name, x)>>), wanted) =
          IF json_value_get(ObjectOf(t), wanted) = {} /\ wanted = name THEN {x} ELSE json_value_get(ObjectOf(t), wanted)
    <3>1. Appended(t, name, x, wanted)
      BY <1>10, GetAppended
    <3> QED BY <3>1 DEF Appended
  <2> QED BY <1>10, <1>12, <2>1
<1>15. wanted = name <=> key = w[k]
  BY <1>11
<1> QED BY <1>11, <1>13, <1>14, <1>15 DEF x, val

LEMMA OrderIsKept == WordInv => OrderKept
<1> SUFFICES ASSUME WordInv, parsed.ok, family = "nesting", NEW b \in DOMAIN word, NEW c \in DOMAIN word,
                    Blank(word, 1, b), b < c, word[c] \in {Comma} \cup Closers
             PROVE  /\ word[b] = "[" => ItemsKept(b, c)
                    /\ word[b] \in Openers /\ word[b] # "[" => MembersKept(b, c)
  BY Zenon DEF OrderKept, Comma, Closers, Openers
<1>1. word \in Seq(Nest) /\ parsed = json_parse_n(word)
  BY DEF WordInv, Nest
<1>2. b \in 1..Len(word) /\ c \in (b + 1)..Len(word)
  <2>1. DOMAIN word = 1..Len(word) /\ Len(word) \in Nat
    BY <1>1, NestFacts
  <2> QED BY <2>1
<1>3. ASSUME word[b] = "[" PROVE ItemsKept(b, c)
  <2> DEFINE x == json_parse_n(SubSeq(word, b + 1, c - 1))
  <2>1. x.ok => parsed.val.items = <<x.val>> \o (IF word[c] = Comma THEN Others(b, c).items ELSE <<>>)
    BY <1>1, <1>2, <1>3, ItemsAre DEF Others
  <2> HIDE DEF x
  <2> QED BY <2>1, Zenon DEF ItemsKept, Comma, x
<1>4. ASSUME word[b] \in Openers, word[b] # "[" PROVE MembersKept(b, c)
  <2> SUFFICES ASSUME NEW k \in b..c, NEW q \in b..c, k < q, word[k] \in Keys, word[q] = Colon,
                      Blank(word, b + 1, k), Blank(word, k + 1, q),
                      json_parse_n(SubSeq(word, q + 1, c - 1)).ok, NEW key \in Keys
               PROVE  json_value_get(parsed.val, <<<<key>>>>) =
                        IF Found(b, c, key) = {} /\ key = word[k]
                        THEN {json_parse_n(SubSeq(word, q + 1, c - 1)).val} ELSE Found(b, c, key)
    BY Zenon DEF MembersKept, Colon
  <2>1. Found(b, c, key) = FoundIn(word, b, c, <<<<key>>>>)
    BY Zenon DEF Found, FoundIn, Others, Comma
  <2>2. json_value_get(json_parse_n(word).val, <<<<key>>>>) =
          IF FoundIn(word, b, c, <<<<key>>>>) = {} /\ key = word[k]
          THEN {json_parse_n(SubSeq(word, q + 1, c - 1)).val} ELSE FoundIn(word, b, c, <<<<key>>>>)
    BY <1>1, <1>2, <1>4, MembersAre
  <2> QED BY <1>1, <2>1, <2>2
<1> QED BY <1>3, <1>4

\* Of any array the elements keep their order, and of any object's members with the same key
\* the last one counts (json_value_set_nocopy() puts a pair in front, json_value_get() takes
\* the first).
THEOREM ElementsInOrder == WordSpec => []OrderKept
BY OrderIsKept, WordsParsed, PTL
==============================================================================
