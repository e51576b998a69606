----------------------------- MODULE ClientPipe -----------------------------
(* The way of a client event into the simulator: a client writes lines, each *)
(* the JSON text of a list of events, to a pipe or to ___client_events, in   *)
(* pieces; the main thread reads what is there into a buffer, cuts it at the *)
(* newlines, parses each line and handles its events one by one              *)
(* (process_client_event() and process_client_json() of source/Main.cpp).    *)
(* The simulator is a child of main(), which forks another one when the      *)
(* child ends with SIMULATOR_RESET.  A line is a sequence of tokens; what    *)
(* the parser makes of one, [types, astray], is a parameter of the steps     *)
(* here, and module Client gives it.                                         *)
EXTENDS Integers, Sequences
CONSTANTS
  Lines,          \* lines of clients: [text, a word, and events, what the client means]
  Types,          \* types of events that are handled
  Cuts,           \* where a client may interrupt a line: after so many tokens
  Media,          \* subset of {"pipe", "file"}
  BufSize,        \* sizeof(buf) in process_client_event(), 10240 bytes
  Codes,          \* what a child may return
  MaxLines,       \* bound on the lines of the client
  MaxChildren     \* bound on the children

SIMULATOR_RESET == 99

ASSUME PipeAssumption ==
  /\ Media \subseteq {"pipe", "file"}
  /\ Cuts \subseteq Nat /\ BufSize \in Nat \ {0}
  /\ {0, SIMULATOR_RESET} \subseteq Codes /\ Codes \subseteq 0..255
  /\ MaxLines \in Nat /\ MaxChildren \in Nat
ASSUME LinesAssumption ==
  \A l \in Lines : l.text \in Seq(STRING) /\ l.events \in Seq(Types)

VARIABLES
  medium,         \* GROK_CLIENT_PIPE is set or not
  sent,           \* history: the lines begun by the client
  rest,           \* what the client still has to write of the last of them
  unread,         \* written and not read: of each token the number of its line and its
                  \* place there
  modified,       \* written to since the last read; for the file, IN_MODIFY is pending
  buf,            \* buf from line_start on, empty when no event is being processed
  hand,           \* the events of the line at hand that are still to be handled: each the
                  \* number of the line, its own place there and its type
  handled,        \* history: the events that were handled
  excused,        \* history: lines cut by a read, dropped with a full buffer, or lost with
                  \* their child or their file
  interrupted,    \* history: the lines of which a child that was killed left events
  parent,         \* where main() is: "forking", "waiting" or "exited"
  child,          \* "none", "starting", "watching", "running", "stuck" or "ended"
  wstatus,        \* what waitpid() will store: a code times 256, or the signal that killed
  status,         \* status in main()
  ends            \* history: wstatus of the children that ended
clientSide == <<sent, rest>>
lineVars   == <<hand, handled, interrupted>>
inputVars  == <<unread, modified, buf, excused, lineVars>>
mainVars   == <<parent, child, wstatus, status, ends>>
pipeVars   == <<medium, clientSide, inputVars, mainVars>>

SIGKILL == 9
SIGSEGV == 11
LinesOf(s) == {s[i][1] : i \in DOMAIN s}

\* The last token of line n is its newline.
Newline(n) == Len(sent[n].text) + 1

PipeInit ==
  /\ medium \in Media
  /\ sent = <<>> /\ rest = <<>> /\ unread = <<>> /\ modified = FALSE /\ buf = <<>>
  /\ hand = <<>> /\ handled = <<>> /\ excused = {} /\ interrupted = {}
  /\ parent = "forking" /\ child = "none" /\ wstatus = 0 /\ status = 0 /\ ends = <<>>

--------------------------------------------------------------------------
(* The client *)

Begin(l) ==
  /\ rest = <<>> /\ Len(sent) < MaxLines
  /\ sent' = Append(sent, l)
  /\ rest' = [k \in 1..(Len(l.text) + 1) |-> <<Len(sent'), k>>]
  /\ UNCHANGED <<medium, inputVars, mainVars>>

\* One write(), of the line or a part of it.
WritePiece(k) ==
  /\ k = Len(rest) \/ rest[k][2] \in Cuts
  /\ unread' = unread \o SubSeq(rest, 1, k)
  /\ rest' = SubSeq(rest, k + 1, Len(rest))
  /\ modified' = (child = "running")
  /\ UNCHANGED <<medium, sent, buf, excused, lineVars, mainVars>>

ClientNext ==
  parent # "exited" /\ ((\E l \in Lines : Begin(l)) \/ (\E k \in DOMAIN rest : WritePiece(k)))

--------------------------------------------------------------------------
(* The main thread of the simulator *)

Reading == child = "running" /\ buf = <<>> /\ hand = <<>>

\* The lines that a read s has not all of.
CutBy(s) == {n \in LinesOf(s) : ~ ({<<n, 1>>, <<n, Newline(n)>>} \subseteq {s[i] : i \in DOMAIN s})}

TooMuch(n) == n = BufSize
FromStart(n) == unread                          \* mutant: what was read stays
Left(n) == SubSeq(unread, n + 1, Len(unread))
ReportedOnce == modified                        \* mutant: the pipe treated like the file
Reported == medium = "file" => modified

\* epoll reports the pipe as long as something is in it, and the file once for what was
\* written since.  A read that fills the buffer is dropped.
Read ==
  /\ Reading /\ unread # <<>>
  /\ Reported
  /\ LET n == IF Len(unread) < BufSize THEN Len(unread) ELSE BufSize
         s == SubSeq(unread, 1, n)
     IN  /\ unread' = Left(n)
         /\ buf' = IF TooMuch(n) THEN <<>> ELSE s
         /\ excused' = excused \cup (IF TooMuch(n) THEN LinesOf(s) ELSE CutBy(s))
  /\ modified' = FALSE
  /\ UNCHANGED <<medium, clientSide, lineVars, mainVars>>

LineEnd == CHOOSE i \in 1..(Len(buf) + 1) :
             /\ i > Len(buf) \/ buf[i][2] = Newline(buf[i][1])
             /\ \A j \in 1..(i - 1) : buf[j][2] # Newline(buf[j][1])
Kill(signal) ==
  /\ child' = "ended" /\ wstatus' = signal /\ ends' = Append(ends, signal)
  /\ excused' = excused \cup LinesOf(buf) \cup LinesOf(hand)
  /\ interrupted' = interrupted \cup LinesOf(hand)
  /\ buf' = <<>> /\ hand' = <<>>

FirstLineOnly == <<>>                           \* mutant: the lines after the first are left
OtherLines == SubSeq(buf, LineEnd + 1, Len(buf))
Text == [i \in DOMAIN buf |-> IF buf[i][2] = Newline(buf[i][1]) THEN "nl" ELSE sent[buf[i][1]].text[buf[i][2]]]
Line == SubSeq(Text, 1, LineEnd - 1)
Processing == child = "running" /\ buf # <<>> /\ hand = <<>>
\* The events of the line that are to be handled have the types result.types.
ProcessLine(result) ==
  /\ Processing
  /\ hand' = [k \in DOMAIN result.types |-> <<buf[1][1], k, result.types[k]>>]
  /\ buf' = OtherLines
  /\ UNCHANGED <<medium, clientSide, unread, modified, handled, excused, interrupted, mainVars>>

\* The next of them, with what it locks and signals.
HandleEvent ==
  /\ child = "running" /\ hand # <<>>
  /\ handled' = Append(handled, Head(hand))
  /\ hand' = Tail(hand)
  /\ UNCHANGED <<medium, clientSide, unread, modified, buf, excused, interrupted, mainVars>>

\* What happens with such a line is undefined: nothing, or the child is killed.
GoAstray(result) ==
  /\ Processing /\ result.astray
  /\ Kill(SIGSEGV)
  /\ UNCHANGED <<medium, clientSide, unread, modified, handled, parent, status>>

--------------------------------------------------------------------------
(* main() and its children *)

mainRest == <<medium, clientSide, lineVars>>

Fork ==
  /\ parent = "forking" /\ Len(ends) < MaxChildren
  /\ parent' = "waiting" /\ child' = "starting"
  /\ UNCHANGED <<mainRest, inputVars, wstatus, status, ends>>

ForkFails ==
  /\ parent = "forking" /\ parent' = "exited"
  /\ UNCHANGED <<mainRest, inputVars, child, wstatus, status, ends>>

\* The file is emptied, the pipe keeps what the last child did not read.
Open ==
  /\ child = "starting" /\ child' = "watching"
  /\ IF medium = "file"
     THEN unread' = <<>> /\ excused' = excused \cup LinesOf(unread)
     ELSE UNCHANGED <<unread, excused>>
  /\ UNCHANGED <<mainRest, modified, buf, parent, wstatus, status, ends>>

Watch ==
  /\ child = "watching" /\ child' = "running"
  /\ modified' = FALSE
  /\ UNCHANGED <<mainRest, unread, buf, excused, parent, wstatus, status, ends>>

\* The file cannot be watched: main_thread() returns, and run_simulator() waits for the code
\* thread, which nobody tells to end.
WatchFails ==
  /\ child = "watching" /\ medium = "file" /\ child' = "stuck"
  /\ UNCHANGED <<mainRest, unread, modified, buf, excused, parent, wstatus, status, ends>>

\* run_simulator() returns, or epoll_wait() fails and exit(1) is called.
Return(code) ==
  /\ Reading \/ (child = "stuck" /\ code \in {0, SIMULATOR_RESET})
  /\ child' = "ended" /\ wstatus' = 256 * code /\ ends' = Append(ends, 256 * code)
  /\ UNCHANGED <<mainRest, inputVars, parent, status>>

Killed ==
  /\ child \in {"starting", "watching", "running", "stuck"}
  /\ Kill(SIGKILL)
  /\ UNCHANGED <<medium, clientSide, unread, modified, handled, parent, status>>

WEXITSTATUS(w) == (w \div 256) % 256
RestartsAfterError(s) == s # 0                  \* mutant
Restarts(s) == s = SIMULATOR_RESET
Wait ==
  /\ parent = "waiting" /\ child = "ended"
  /\ status' = WEXITSTATUS(wstatus)
  /\ parent' = IF Restarts(status') THEN "forking" ELSE "exited"
  /\ child' = "none"
  /\ UNCHANGED <<mainRest, inputVars, wstatus, ends>>

MainNext ==
  Fork \/ ForkFails \/ Open \/ Watch \/ WatchFails \/ (\E code \in Codes : Return(code))
  \/ Killed \/ Wait

\* main() has returned: nothing moves.
Over == parent = "exited" /\ UNCHANGED pipeVars

PipeNext(result) ==
  ClientNext \/ Read \/ ProcessLine(result) \/ HandleEvent \/ GoAstray(result) \/ MainNext \/ Over

\* With a parser that is a function of the line.
PipeSpec(parsed) == PipeInit /\ [][PipeNext(parsed[Line])]_pipeVars
\* A line comes to the events that the client means, and no other piece of it to any.
Understood(parsed) ==
  \A l \in Lines :
    /\ l.text # <<>> /\ parsed[l.text].types = l.events
    /\ \A i \in 1..(Len(l.text) + 1), j \in 0..Len(l.text) :
         <<i, j>> # <<1, Len(l.text)>> => parsed[SubSeq(l.text, i, j)].types = <<>>

--------------------------------------------------------------------------
(* Properties *)

PipeType ==
  /\ medium \in Media /\ sent \in Seq(Lines) /\ Len(sent) <= MaxLines
  /\ \A s \in {rest, unread, buf} :
       s \in Seq(Nat \X Nat) /\ \A i \in DOMAIN s : s[i][1] \in DOMAIN sent
  /\ Len(buf) < BufSize /\ modified \in BOOLEAN
  /\ \A s \in {hand, handled} : s \in Seq((DOMAIN sent) \X Nat \X Types)
  /\ excused \subseteq DOMAIN sent /\ interrupted \subseteq excused
  /\ parent \in {"forking", "waiting", "exited"}
  /\ child \in {"none", "starting", "watching", "running", "stuck", "ended"}
  /\ wstatus \in {256 * c : c \in Codes} \cup {SIGKILL, SIGSEGV} /\ status \in Codes
  /\ Len(ends) <= MaxChildren

Handles(n, k) == \E i \in DOMAIN handled : handled[i][1] = n /\ handled[i][2] = k

\* "Each line of the file/pipe should be a JSON-formatted array of events": what is handled are
\* events that the client meant, the first of a line after those of earlier lines, each other
\* one right after its predecessor in the line, so that none comes twice or out of order; and
\* of a line of which one was handled all are, unless they are in hand still or a child was
\* killed in the middle of the line.
EventsInOrder ==
  \A i \in DOMAIN handled :
    LET n == handled[i][1]
        k == handled[i][2]
    IN  /\ k \in DOMAIN sent[n].events /\ handled[i][3] = sent[n].events[k]
        /\ IF k = 1 THEN i = 1 \/ handled[i - 1][1] < n
           ELSE i > 1 /\ handled[i - 1][1] = n /\ handled[i - 1][2] = k - 1
        /\ \/ n \in LinesOf(hand) \cup interrupted
           \/ \A other \in DOMAIN sent[n].events : Handles(n, other)

\* An event that was written and read, and is not handled, was in a line that a read cut, in a
\* read that filled the buffer, or with a child that is gone.
LostExplained ==
  \A n \in DOMAIN sent :
    n \notin LinesOf(rest) \cup LinesOf(unread) \cup LinesOf(buf) \cup LinesOf(hand) \cup excused =>
      \A k \in DOMAIN sent[n].events : Handles(n, k)

\* "Easiest way to do that is to fork() the simulation and just start a new one when it signals
\* that it wants to restart": every child but the last asked for it, and what the last one
\* returned is returned; a child killed by a signal counts as 0.
OnlyResetRestarts ==
  /\ \A i \in DOMAIN ends : (i < Len(ends) \/ parent = "forking") => ends[i] = 256 * SIMULATOR_RESET
  /\ parent = "exited" =>
       IF ends = <<>> \/ \E i \in DOMAIN ends : ends[i] \in {SIGKILL, SIGSEGV} THEN status = 0
       ELSE ends[Len(ends)] = 256 * status

\* What is in the pipe is read in the end, across restarts, as long as there is a child.
PipeEmptied == medium = "pipe" => <>[](unread = <<>> \/ parent # "waiting")
==============================================================================
