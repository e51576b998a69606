---- MODULE MCMessageBus ----
EXTENDS MessageBus
\* Two urgent listeners, one that queues and one that drops when busy, a normal one with the
\* id and value of the first, and one that may block.
MCRegistrations ==
  {[id |-> 1, value |-> 0, handler |-> "g", flags |-> {"URGENT", "NONBLOCKING", "QUEUE_IF_BUSY"}],
   [id |-> 0, value |-> 1, handler |-> "h", flags |-> {"URGENT", "NONBLOCKING", "DROP_IF_BUSY"}],
   [id |-> 1, value |-> 0, handler |-> "h", flags |-> {"NONBLOCKING", "QUEUE_IF_BUSY"}],
   [id |-> 1, value |-> 2, handler |-> "g", flags |-> {"QUEUE_IF_BUSY"}]}
MCEvents == {[source |-> 1, value |-> 1], [source |-> 1, value |-> 2]}
====
