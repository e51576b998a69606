------------------------------- MODULE Client -------------------------------
(* The client's events: their way into the simulator, and the words its      *)
(* parser meets.  Here the parser and process_client_json() say what the     *)
(* pipe's lines come to.  The two parts share nothing else; a behaviour is   *)
(* of one of them.                                                           *)
EXTENDS ClientPipe, JsonWords

ASSUME TypesAssumption == Types \cup {"type", "data"} \subseteq Names

\* The members of a list; of an object the values, since it is not turned away.
Members(v) ==
  CASE v.type = "array" -> v.items
    [] v.type = "object" -> [k \in DOMAIN v.pairs |-> v.pairs[k].value]
    [] OTHER -> <<>>
Get(v, key) == json_value_get(v, <<<<key>>>>)
IsEvent(v) ==
  /\ v.type = "object"
  /\ \E type \in Get(v, "type"), data \in Get(v, "data") :
       type.type = "string" /\ data.type = "object" /\ type.v[1][1] \in Types
\* process_client_json(): the events of a line that are handled, in this order.
process_client_json(v) ==
  LET events == SelectSeq(Members(v), IsEvent)
  IN  [k \in DOMAIN events |-> (CHOOSE type \in Get(events[k], "type") : TRUE).v[1][1]]

\* A line that is a string, a number or true: what is taken for its list is not one.
Astray(v) == v.type \in {"string", "number", "true"}

\* What every piece of a line comes to, and what the line at hand does.
Pieces == UNION {{SubSeq(l.text, i, j) : i \in 1..(Len(l.text) + 1), j \in 0..Len(l.text)} : l \in Lines}
Handling(r) == [types |-> IF r.ok THEN process_client_json(r.val) ELSE <<>>,
                astray |-> r.ok /\ Astray(r.val)]
Parsed == [p \in Pieces |-> Handling(json_parse_n(p))]
Result == Parsed[Line]
ASSUME LinesUnderstood == Understood(Parsed)

--------------------------------------------------------------------------
(* The two parts *)

VARIABLE part       \* "pipe" or "words"
vars == <<part, pipeVars, wordVars>>

Init ==
  /\ PipeInit /\ WordInit
  /\ \/ part = "pipe" /\ family = "nesting"
     \/ part = "words" /\ medium = CHOOSE m \in Media : TRUE
Next ==
  /\ UNCHANGED part
  /\ \/ part = "pipe" /\ PipeNext(Result) /\ UNCHANGED wordVars
     \/ part = "words" /\ WordNext /\ UNCHANGED pipeVars
PipeFairness ==
  /\ WF_pipeVars(Read) /\ WF_pipeVars(ProcessLine(Result)) /\ WF_pipeVars(HandleEvent)
  /\ WF_pipeVars(Open \/ Watch \/ Wait)
Spec == Init /\ [][Next]_vars /\ PipeFairness

TypeOK == PipeType /\ WordType
==============================================================================
