----------------------------- MODULE JsonParser -----------------------------
(* The parser of client events (source/json/json.c and lexer.c) as operators *)
(* on a word, a sequence of tokens.  A token is a character, or stands for   *)
(* several that the parser never tells apart: "ws" for white space, a member *)
(* of Names for a whole string, "u_high", "u_low" and "u_bmp" for \uXXXX,    *)
(* "ctl" for a control character that has no short escape of its own;        *)
(* \u0000, which would end the string for whoever uses it, is left out.      *)
(* Memory, the stack included, is taken to suffice.                          *)
EXTENDS Integers, Sequences, SequencesExt
CONSTANTS Names, NumberSize

Digits == {"0", "1"}
Escapes == {"n", "quote", "backslash"}         \* what may follow a backslash
Keywords == {"true", "false", "null"}
\* The characters that \u escapes stand for; the code writes them as UTF-8 and reads a
\* character written so as itself.
Decoded == [u_high |-> <<"high">>, u_low |-> <<"low">>, u_bmp |-> <<"bmp">>]

Marks == {"{", "}", "[", "]", ",", ":", "-", "+", "point", "e", "ws"}

ASSUME NamesAssumption ==
  Names \cap (Digits \cup Escapes \cup Keywords \cup DOMAIN Decoded \cup Marks \cup {"end", "ctl"}) = {}
\* Numbers shorter than NumberSize fit into parse_number()'s buffer.
ASSUME NumberAssumption == NumberSize \in Nat

\* lexer_peek(), and "end" for lexer_nremaining() = 0.
Peek(w, i) == IF i <= Len(w) THEN w[i] ELSE "end"

\* Position of the first token from i on that is not in the set ts.
Past(w, i, ts) == CHOOSE j \in i..(Len(w) + 1) :
                    Peek(w, j) \notin ts /\ \A k \in i..(j - 1) : w[k] \in ts
SkipWs(w, i) == Past(w, i, {"ws"})

\* Results: a value and where the parser stands after it, or where it gave up.
Value(v, i) == [ok |-> TRUE, val |-> v, at |-> i]
Failed(i) == [ok |-> FALSE, val |-> <<>>, at |-> i]
Atom(type, v) == [type |-> type, v |-> v]

--------------------------------------------------------------------------
(* Numbers *)

\* A sign, digits, a point with digits, an exponent with digits.  What fits into the buffer
\* goes to sscanf(), which wants a digit before the exponent; leading zeros and "-.5" pass.
Mantissa(w, b) == IF Peek(w, b) = "point" THEN Past(w, b + 1, Digits) ELSE b
ExponentDigits(w, c) == IF Peek(w, c + 1) \in {"-", "+"} THEN c + 2 ELSE c + 1
Scanned(w, i, e) ==
  IF e - i < NumberSize THEN Value(Atom("number", SubSeq(w, i, e - 1)), e) ELSE Failed(e)
NumberOf(w, i, a, b, c) ==
  IF c = b + 1 THEN Failed(c)
  ELSE IF Peek(w, c) # "e" THEN IF a = c THEN Failed(c) ELSE Scanned(w, i, c)
  ELSE IF Peek(w, ExponentDigits(w, c)) \notin Digits \/ a = c THEN Failed(ExponentDigits(w, c))
  ELSE Scanned(w, i, Past(w, ExponentDigits(w, c), Digits))
ParseNumber(w, i) ==
  LET a == IF w[i] = "-" THEN i + 1 ELSE i
      b == Past(w, a, Digits)
  IN  NumberOf(w, i, a, b, Mantissa(w, b))

--------------------------------------------------------------------------
(* Strings *)

\* A surrogate pair is one character, and so is an escape.
IsPair(w, i) == Peek(w, i) = "u_high" /\ Peek(w, i + 1) = "u_low"
CharAt(w, i) ==
  IF w[i] = "backslash" THEN <<"escaped", w[i + 1]>>
  ELSE IF IsPair(w, i) THEN <<"pair">>
  ELSE IF w[i] \in DOMAIN Decoded THEN Decoded[w[i]]
  ELSE <<w[i]>>
Width(w, i) == IF w[i] = "backslash" \/ IsPair(w, i) THEN 2 ELSE 1

\* The characters up to the closing quote, when from has them for every later start.
WithChar(c, r) == IF r.ok THEN [r EXCEPT !.val.v = <<c>> \o @] ELSE r
StringStep(w, from, i) ==
  IF Peek(w, i) = "end" THEN Failed(i)
  ELSE IF Peek(w, i) = "quote" THEN Value(Atom("string", <<>>), i + 1)
  ELSE IF Peek(w, i) = "backslash" /\ Peek(w, i + 1) \notin Escapes THEN Failed(i + 1)
  ELSE WithChar(CharAt(w, i), from[i + Width(w, i)])
StringsOf(w) == LET from[i \in 1..(Len(w) + 1)] == StringStep(w, from, i) IN from

ParseString(w, i) ==
  IF Peek(w, i) \in Names THEN Value(Atom("string", <<<<w[i]>>>>), i + 1)
  ELSE IF Peek(w, i) = "quote" THEN StringsOf(w)[i + 1]
  ELSE Failed(i)

\* json_write_escape_string(): the tokens of a string of characters.
QuoteOnly(c) == IF c = <<"escaped", "quote">> THEN <<"backslash", "quote">>   \* mutant
                ELSE <<c[Len(c)]>>
Escaped(c) == IF Len(c) = 2 THEN <<"backslash", c[2]>> ELSE c
Escape(chars) == <<"quote">> \o FlattenSeq([k \in DOMAIN chars |-> Escaped(chars[k])]) \o <<"quote">>

--------------------------------------------------------------------------
(* Arrays, objects and values *)

\* Where the next element starts: behind a comma, unless it is the first.
CommaOptional(w, i, first) ==                   \* mutant
  IF Peek(w, SkipWs(w, i)) = "," THEN SkipWs(w, i) + 1 ELSE i
Separated(w, i, first) ==
  IF first THEN i
  ELSE IF Peek(w, SkipWs(w, i)) = "," THEN SkipWs(w, i) + 1 ELSE 0

\* The loop of parse_array() from i on, and that of parse_object(); nested has what they come
\* to at later places.  White space is not skipped before the closing bracket of an empty one.
\* json_value_set_nocopy() puts a pair in front of the others.
WithItem(item, r) == IF r.ok THEN [r EXCEPT !.val.items = <<item>> \o @] ELSE r
WithPair(pair, r) == IF r.ok THEN [r EXCEPT !.val.pairs = @ \o <<pair>>] ELSE r

\* parse(), with the white space on both sides of the value.
ParseAt(w, nested, j) ==
  CASE Peek(w, j) \in {"[", "{"} -> nested[<<w[j], j + 1, TRUE>>]
    [] Peek(w, j) \in Names \cup {"quote"} -> ParseString(w, j)
    [] Peek(w, j) \in Digits \cup {"-"} -> ParseNumber(w, j)
    [] Peek(w, j) \in Keywords -> Value(Atom(w[j], <<>>), j + 1)
    [] OTHER -> Failed(j)
Spaced(w, r) == IF r.ok THEN [r EXCEPT !.at = SkipWs(w, r.at)] ELSE r
Parse(w, nested, i) == Spaced(w, ParseAt(w, nested, SkipWs(w, i)))

ArrayItem(w, nested, next) ==
  LET v == Parse(w, nested, next)
  IN  IF v.ok THEN WithItem(v.val, nested[<<"[", v.at, FALSE>>]) ELSE v
ObjectPair(w, nested, next) ==
  LET k == ParseString(w, SkipWs(w, next))
      colon == SkipWs(w, k.at)
      v == Parse(w, nested, colon + 1)
  IN  IF ~k.ok THEN k
      ELSE IF Peek(w, colon) # ":" THEN Failed(colon)
      ELSE IF v.ok THEN WithPair([key |-> k.val.v, value |-> v.val], nested[<<"{", v.at, FALSE>>])
      ELSE v
Element(w, nested, open, next) ==
  IF open = "[" THEN ArrayItem(w, nested, next) ELSE ObjectPair(w, nested, next)

Closing(open) == IF open = "[" THEN "]" ELSE "}"
Empty(open) == IF open = "[" THEN [type |-> "array", items |-> <<>>] ELSE [type |-> "object", pairs |-> <<>>]
\* At s: the opening bracket, the place, and whether no element has been read yet.
NestedStep(w, nested, s) ==
  LET i == s[2]
      next == Separated(w, i, s[3])
  IN  IF Peek(w, i) = "end" THEN Failed(i)
      ELSE IF Peek(w, i) = Closing(s[1]) THEN Value(Empty(s[1]), i + 1)
      ELSE IF next = 0 THEN Failed(SkipWs(w, i))
      ELSE Element(w, nested, s[1], next)
NestedIn(w) ==
  LET nested[s \in {"[", "{"} \X (1..(Len(w) + 1)) \X BOOLEAN] == NestedStep(w, nested, s)
  IN  nested

\* json_parse_n(): nothing may follow the value.
Whole(w, r) == IF r.ok /\ r.at <= Len(w) THEN Failed(r.at) ELSE r
json_parse_n(w) == Whole(w, Parse(w, NestedIn(w), 1))

\* json_value_get(): the first pair with the key, which is the last one of the text.
Having(object, key) == {k \in DOMAIN object.pairs : object.pairs[k].key = key}
ValueOfLast(object, key) ==                     \* mutant: the last pair of the list
  {object.pairs[k].value : k \in {k \in Having(object, key) : \A m \in Having(object, key) : m <= k}}
json_value_get(object, key) ==
  {object.pairs[k].value : k \in {k \in Having(object, key) : \A m \in Having(object, key) : k <= m}}

--------------------------------------------------------------------------
(* The reference: the grammar of RFC 7159 on the same tokens *)

AllIn(w, ts) == \A i \in DOMAIN w : w[i] \in ts
IsDigits(w) == w # <<>> /\ AllIn(w, Digits)
IsInt(w) == IsDigits(w) /\ (w[1] = "0" => Len(w) = 1)
IsUnsigned(w) ==
  \E i, j \in 1..(Len(w) + 1) :
    LET int == SubSeq(w, 1, i - 1)
        frac == SubSeq(w, i, j - 1)
        exp == SubSeq(w, j, Len(w))
    IN  /\ i <= j /\ IsInt(int)
        /\ frac # <<>> => Head(frac) = "point" /\ IsDigits(Tail(frac))
        /\ exp # <<>> => /\ Head(exp) = "e" /\ Len(exp) > 1
                         /\ IsDigits(Tail(exp)) \/ (exp[2] \in {"-", "+"} /\ IsDigits(Tail(Tail(exp))))
IsNumber(w) == w # <<>> /\ IsUnsigned(IF w[1] = "-" THEN Tail(w) ELSE w)

\* No quote stands free inside the quotes: an odd number of backslashes precedes it.
Backslashes(w, i) == Cardinality({k \in 1..(i - 1) : \A j \in k..(i - 1) : w[j] = "backslash"})
IsQuoted(w) ==
  \/ Len(w) = 1 /\ w[1] \in Names
  \/ /\ Len(w) > 1 /\ w[1] = "quote" /\ w[Len(w)] = "quote"
     /\ LET in == SubSeq(w, 2, Len(w) - 1)
        IN  \A i \in 1..(Len(in) + 1) :
              IF i > Len(in) \/ in[i] = "quote"
              THEN Backslashes(in, i) % 2 = (IF i > Len(in) THEN 0 ELSE 1)
              ELSE Backslashes(in, i) % 2 = 1 => in[i] \in Escapes

\* "All Unicode characters may be placed within the quotation marks, except for ... the control
\* characters": section 7.
Controlled(w) == \E i \in DOMAIN w : w[i] = "ctl"
IsString(w) == IsQuoted(w) /\ ~ Controlled(w)

\* What stands from place i on and before j, without white space at its ends.
Blank(w, i, j) == \A k \in i..(j - 1) : w[k] = "ws"
Trimmed(w, i, j) == {s \in (i..j) \X (i..j) : s[1] < s[2] /\ Blank(w, i, s[1]) /\ Blank(w, s[2], j)}
Brackets == {<<"[", "]">>, <<"{", "}">>}

\* A text, a member and a list from i on and before j, when lists has the lists that begin
\* later: of texts behind "[", of members behind "{".
IsTextIn(w, lists, i, j) ==
  \E s \in Trimmed(w, i, j) :
    LET text == SubSeq(w, s[1], s[2] - 1)
    IN  \/ Len(text) = 1 /\ text[1] \in Keywords
        \/ IsNumber(text) \/ IsString(text)
        \/ /\ <<w[s[1]], w[s[2] - 1]>> \in Brackets
           /\ Blank(w, s[1] + 1, s[2] - 1) \/ lists[<<w[s[1]], s[1] + 1, s[2] - 1>>]
IsMemberIn(w, lists, i, j) ==
  \E c \in i..(j - 1) : /\ w[c] = ":" /\ IsTextIn(w, lists, c + 1, j)
                        /\ \E s \in Trimmed(w, i, c) : IsString(SubSeq(w, s[1], s[2] - 1))
IsOneIn(w, lists, open, i, j) == IF open = "[" THEN IsTextIn(w, lists, i, j) ELSE IsMemberIn(w, lists, i, j)
IsListIn(w, lists, open, i, j) ==
  \/ IsOneIn(w, lists, open, i, j)
  \/ \E c \in i..(j - 1) : w[c] = "," /\ IsOneIn(w, lists, open, i, c) /\ lists[<<open, c + 1, j>>]
Lists(w) ==
  LET places == 1..(Len(w) + 1)
      lists[l \in {"[", "{"} \X places \X places] == IsListIn(w, lists, l[1], l[2], l[3])
  IN  lists
IsText(w) == IsTextIn(w, Lists(w), 1, Len(w) + 1)

\* White space alone between brackets: the code refuses it.
Hollow(w) == \E i, j \in DOMAIN w : i + 1 < j /\ <<w[i], w[j]>> \in Brackets /\ Blank(w, i + 1, j)
=============================================================================
