---- MODULE MCClient ----
EXTENDS Client
Event(type) == <<"{", "type", ":", type, ",", "data", ":", "{", "}", "}">>
\* One event; two of them, with a member between that is none; an event outside of a list.
One == [text |-> <<"[">> \o Event("resume") \o <<"]">>, events |-> <<"resume">>]
Two == [text |-> <<"[">> \o Event("random") \o <<",", "null", ",">> \o Event("resume") \o <<"]">>,
        events |-> <<"random", "resume">>]
Bare == [text |-> Event("resume"), events |-> <<>>]
Nothing == [text |-> <<"[", "]">>, events |-> <<>>]
MCLines == {One, Two, Bare, Nothing}
\* {key:value,key:value} is nine tokens long.
MCMaxWord == [nesting |-> 9, numbers |-> 9, strings |-> 8]
====
