------------------------------ MODULE JsonWords ------------------------------
(* Every word of a family, token by token, for the parser to be compared     *)
(* with the grammar on it: nesting, numbers or strings.  A word is continued *)
(* as long as the parser ran off its end, or it is short.                    *)
EXTENDS JsonParser
CONSTANTS
  Keys,           \* names in the words
  MaxWord,        \* bound on the words of a family
  ShortWord       \* words up to this length are continued in any case

VARIABLES family, word, parsed     \* parsed is json_parse_n(word)
wordVars == <<family, word, parsed>>

Family == [nesting |-> {"[", "]", "{", "}", ",", ":", "ws", "null"} \cup Keys,
           numbers |-> {"-", "+", "0", "1", "point", "e"},
           strings |-> {"quote", "backslash", "n", "ctl", "u_high", "u_low", "u_bmp"}]
ASSUME WordAssumption ==
  /\ Keys \subseteq Names
  /\ MaxWord \in [DOMAIN Family -> Nat]
  /\ ShortWord \in Nat /\ \A f \in DOMAIN Family : ShortWord <= MaxWord[f]

WordInit == family \in DOMAIN Family /\ word = <<>> /\ parsed = Failed(1)
Continued == Len(word) < ShortWord \/ (Len(word) < MaxWord[family] /\ parsed.at > Len(word))
WordNext ==
  /\ Continued
  /\ \E t \in Family[family] : word' = Append(word, t)
  /\ parsed' = json_parse_n(word')
  /\ UNCHANGED family
WordSpec == WordInit /\ [][WordNext]_wordVars
WordType == family \in DOMAIN Family /\ word \in Seq(Family[family]) /\ Len(word) <= MaxWord[family]

--------------------------------------------------------------------------
(* Properties *)

\* "The JSON format is defined in RFC7159": every text of the grammar is accepted, but for
\* white space alone between brackets and numbers too long for the buffer; and no other word
\* is, but for some numbers and for strings with control characters, every one of which is.
AcceptsTexts ==
  LET isText == IsText(word) /\ ~Hollow(word)
  IN  CASE family = "nesting" -> parsed.ok = isText
        [] family = "numbers" -> isText /\ Len(word) < NumberSize => parsed.ok
        [] family = "strings" -> parsed.ok = (isText \/ (Controlled(word) /\ IsQuoted(word)))

\* The string of a value, escaped for an update (the marker's failures) and parsed again
\* by the client, is the same string.
EscapeInverts ==
  parsed.ok /\ parsed.val.type = "string" /\ family = "strings" =>
    json_parse_n(Escape(parsed.val.v)).val = parsed.val

\* The elements of an array keep their order, and of the members of an object with the
\* same key the last one counts.  Here b is the opening bracket, c the end of the first
\* element x, and others what the rest come to, behind a bracket of their own.
Others(b, c) == json_parse_n(<<word[b]>> \o SubSeq(word, c + 1, Len(word))).val
Found(b, c, key) == IF word[c] = "," THEN json_value_get(Others(b, c), <<<<key>>>>) ELSE {}
ItemsKept(b, c) ==
  LET x == json_parse_n(SubSeq(word, b + 1, c - 1))
  IN  x.ok => parsed.val.items = <<x.val>> \o (IF word[c] = "," THEN Others(b, c).items ELSE <<>>)
MembersKept(b, c) ==
  \A k, q \in b..c :
    LET x == json_parse_n(SubSeq(word, q + 1, c - 1))
    IN  k < q /\ word[k] \in Keys /\ word[q] = ":" /\ Blank(word, b + 1, k) /\ Blank(word, k + 1, q) =>
          (x.ok => \A key \in Keys :
                     json_value_get(parsed.val, <<<<key>>>>) =
                       IF Found(b, c, key) = {} /\ key = word[k] THEN {x.val} ELSE Found(b, c, key))
OrderKept ==
  parsed.ok /\ family = "nesting" =>
    \A b, c \in DOMAIN word : Blank(word, 1, b) /\ b < c /\ word[c] \in {",", "]", "}"} =>
      /\ word[b] = "[" => ItemsKept(b, c)
      /\ word[b] = "{" => MembersKept(b, c)
==============================================================================
