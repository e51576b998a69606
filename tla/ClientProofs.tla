---------------------------- MODULE ClientProofs ----------------------------
(* Proofs about ClientPipe: which children are followed by another one, and  *)
(* what becomes of the lines that clients write.  The first needs nothing of *)
(* the parser; the others that it makes of a line the events that the client *)
(* means and nothing of any other piece of a line.  At the end the pipe, the *)
(* parser and process_client_json() are put together.                        *)
EXTENDS Client, JsonNestProofs

--------------------------------------------------------------------------
(* main() and its children *)

LEMMA ExitCodes ==
  ASSUME NEW c \in 0..255
  PROVE  WEXITSTATUS(256 * c) = c /\ 256 * c \notin {SIGKILL, SIGSEGV}
BY DEF WEXITSTATUS, SIGKILL, SIGSEGV

LEMMA SignalCodes == WEXITSTATUS(SIGKILL) = 0 /\ WEXITSTATUS(SIGSEGV) = 0
BY DEF WEXITSTATUS, SIGKILL, SIGSEGV

Ended == {256 * c : c \in Codes} \cup {SIGKILL, SIGSEGV}

\* While main() runs, every child that ended and was waited for has asked for a restart; the
\* wait status of one that ended and was not is the last of ends; and status is what the last
\* wait made of it.
ChildInv ==
  /\ parent \in {"forking", "waiting", "exited"}
  /\ child \in {"none", "starting", "watching", "running", "stuck", "ended"}
  /\ parent = "waiting" <=> child # "none"
  /\ ends \in Seq(Ended)
  /\ \A i \in 1..Len(ends) : i < Len(ends) => ends[i] = 256 * SIMULATOR_RESET
  /\ child = "ended" => ends # <<>> /\ wstatus = ends[Len(ends)]
  /\ child # "ended" /\ parent # "exited" /\ ends # <<>> => ends[Len(ends)] = 256 * SIMULATOR_RESET
  /\ parent = "forking" => status = IF ends = <<>> THEN 0 ELSE SIMULATOR_RESET
  /\ parent = "exited" /\ ends = <<>> => status = 0
  /\ parent = "exited" /\ ends # <<>> =>
       status = IF ends[Len(ends)] \in {SIGKILL, SIGSEGV} THEN 0 ELSE ends[Len(ends)] \div 256

LEMMA ChildInit == PipeInit => ChildInv
BY PipeAssumption DEF PipeInit, ChildInv, Ended

LEMMA ChildEnds ==
  ASSUME ChildInv, child \in {"starting", "watching", "running", "stuck"}, NEW w \in Ended,
         child' = "ended", wstatus' = w, ends' = Append(ends, w), UNCHANGED <<parent, status>>
  PROVE  ChildInv'
<1>1. /\ Len(ends') = Len(ends) + 1 /\ Len(ends) \in Nat /\ ends' \in Seq(Ended)
      /\ ends'[Len(ends')] = w
      /\ \A i \in 1..Len(ends) : ends'[i] = ends[i]
  BY DEF ChildInv
<1>2. ends' # <<>>
  BY <1>1
<1>3. \A i \in 1..Len(ends') : i < Len(ends') => ends'[i] = 256 * SIMULATOR_RESET
  <2> TAKE i \in 1..Len(ends')
  <2> HAVE i < Len(ends')
  <2>1. i \in 1..Len(ends) /\ ends # <<>>
    BY <1>1
  <2> QED BY <1>1, <2>1 DEF ChildInv
<1> QED BY <1>1, <1>2, <1>3 DEF ChildInv

LEMMA ChildStep ==
  ASSUME ChildInv, NEW result, [PipeNext(result)]_pipeVars
  PROVE  ChildInv'
<1>1. CASE UNCHANGED mainVars
  BY <1>1 DEF ChildInv, mainVars
<1>2. CASE Fork
  BY <1>2 DEF ChildInv, Fork
<1>3. CASE ForkFails
  BY <1>3, ExitCodes, PipeAssumption DEF ChildInv, ForkFails, WEXITSTATUS, SIMULATOR_RESET, SIGKILL, SIGSEGV
<1>4. CASE Open
  BY <1>4 DEF ChildInv, Open
<1>5. CASE Watch \/ WatchFails
  BY <1>5 DEF ChildInv, Watch, WatchFails
<1>6. CASE \E code \in Codes : Return(code)
  <2>1. PICK code \in Codes : Return(code)
    BY <1>6
  <2>2. 256 * code \in Ended
    BY DEF Ended
  <2>3. child \in {"starting", "watching", "running", "stuck"}
    BY <2>1 DEF Return, Reading
  <2> QED BY <2>1, <2>2, <2>3, ChildEnds DEF Return
<1>7. CASE Killed
  BY <1>7, ChildEnds DEF Killed, Kill, Ended
<1>8. CASE GoAstray(result)
  BY <1>8, ChildEnds DEF GoAstray, Processing, Kill, Ended
<1>9. CASE Wait
  <2>1. parent = "waiting" /\ child = "ended" /\ status' = WEXITSTATUS(wstatus)
        /\ parent' = (IF status' = SIMULATOR_RESET THEN "forking" ELSE "exited")
        /\ child' = "none" /\ ends' = ends /\ wstatus' = wstatus
    BY <1>9 DEF Wait, Restarts
  <2>2. ends # <<>> /\ wstatus = ends[Len(ends)] /\ Len(ends) \in Nat \ {0} /\ wstatus \in Ended
    BY <2>1 DEF ChildInv
  <2>3. CASE wstatus \in {SIGKILL, SIGSEGV}
    <3>1. status' = 0
      BY <2>1, <2>3, SignalCodes
    <3> QED BY <2>1, <2>2, <2>3, <3>1 DEF ChildInv, SIMULATOR_RESET
  <2>4. CASE wstatus \notin {SIGKILL, SIGSEGV}
    <3>1. PICK c \in 0..255 : wstatus = 256 * c
      BY <2>2, <2>4, PipeAssumption DEF Ended
    <3>2. status' = c /\ wstatus \div 256 = c
      BY <2>1, <3>1, ExitCodes
    <3> QED BY <2>1, <2>2, <2>4, <3>1, <3>2 DEF ChildInv
  <2> QED BY <2>3, <2>4
<1> QED
  BY <1>1, <1>2, <1>3, <1>4, <1>5, <1>6, <1>7, <1>8, <1>9
     DEF PipeNext, MainNext, ClientNext, Begin, WritePiece, Read, ProcessLine, HandleEvent, Over,
         pipeVars, mainVars

LEMMA ChildGivesProperty == ChildInv => OnlyResetRestarts
<1> SUFFICES ASSUME ChildInv PROVE OnlyResetRestarts
  OBVIOUS
<1>1. ends \in Seq(Ended) /\ DOMAIN ends = 1..Len(ends) /\ Len(ends) \in Nat
  BY DEF ChildInv
<1>2. \A i \in DOMAIN ends :
        (i < Len(ends) \/ parent = "forking") => ends[i] = 256 * SIMULATOR_RESET
  BY <1>1 DEF ChildInv
<1>3. ASSUME parent = "exited"
      PROVE  IF ends = <<>> \/ \E i \in DOMAIN ends : ends[i] \in {SIGKILL, SIGSEGV}
             THEN status = 0 ELSE ends[Len(ends)] = 256 * status
  <2>1. CASE ends = <<>>
    BY <1>3, <2>1 DEF ChildInv
  <2>2. CASE ends # <<>> /\ \E i \in DOMAIN ends : ends[i] \in {SIGKILL, SIGSEGV}
    <3>1. PICK i \in DOMAIN ends : ends[i] \in {SIGKILL, SIGSEGV}
      BY <2>2
    <3>2. i = Len(ends)
      BY <1>1, <1>2, <3>1 DEF SIMULATOR_RESET, SIGKILL, SIGSEGV
    <3> QED BY <1>3, <2>2, <3>1, <3>2 DEF ChildInv
  <2>3. CASE ends # <<>> /\ ~ \E i \in DOMAIN ends : ends[i] \in {SIGKILL, SIGSEGV}
    <3>1. Len(ends) \in DOMAIN ends
      BY <1>1, <2>3
    <3>2. ends[Len(ends)] \in Ended \ {SIGKILL, SIGSEGV}
      BY <1>1, <2>3, <3>1
    <3>3. PICK c \in 0..255 : ends[Len(ends)] = 256 * c
      BY <3>2, PipeAssumption DEF Ended
    <3>4. ends[Len(ends)] \div 256 = c
      BY <3>3
    <3> QED BY <1>3, <2>3, <3>2, <3>3, <3>4 DEF ChildInv
  <2> QED BY <2>1, <2>2, <2>3
<1> QED BY <1>2, <1>3 DEF OnlyResetRestarts

\* Whatever the parser makes of the lines: every child but the last one asked for a restart, and
\* what main() returns is what its last child returned, 0 for one that a signal killed (main()
\* of source/Main.cpp).
THEOREM OnlyAskedFor == ASSUME NEW parser PROVE PipeSpec(parser) => []OnlyResetRestarts
<1>1. ChildInv /\ [PipeNext(parser[Line])]_pipeVars => ChildInv'
  BY ChildStep
<1> QED BY <1>1, ChildInit, ChildGivesProperty, PTL DEF PipeSpec


--------------------------------------------------------------------------
(* Sequences of tokens *)

Token == Nat \X Nat
TokensOf(s) == {s[i] : i \in DOMAIN s}

LEMMA SeqConcat ==
  ASSUME NEW S, NEW s \in Seq(S), NEW t \in Seq(S)
  PROVE  /\ s \o t \in Seq(S) /\ Len(s \o t) = Len(s) + Len(t)
         /\ Len(s) \in Nat /\ Len(t) \in Nat
         /\ \A i \in 1..Len(s) : (s \o t)[i] = s[i]
         /\ \A i \in 1..Len(t) : (s \o t)[Len(s) + i] = t[i]
         /\ TokensOf(s \o t) = TokensOf(s) \cup TokensOf(t)
<1>1. /\ s \o t \in Seq(S) /\ Len(s \o t) = Len(s) + Len(t)
      /\ Len(s) \in Nat /\ Len(t) \in Nat
      /\ DOMAIN s = 1..Len(s) /\ DOMAIN t = 1..Len(t) /\ DOMAIN (s \o t) = 1..(Len(s) + Len(t))
  OBVIOUS
<1>2. \A i \in 1..Len(s) : (s \o t)[i] = s[i]
  BY <1>1
<1>3. \A i \in 1..Len(t) : (s \o t)[Len(s) + i] = t[i]
  BY <1>1
<1>4. TokensOf(s \o t) \subseteq TokensOf(s) \cup TokensOf(t)
  <2> SUFFICES ASSUME NEW i \in 1..(Len(s) + Len(t))
               PROVE  (s \o t)[i] \in TokensOf(s) \cup TokensOf(t)
    BY <1>1 DEF TokensOf
  <2>1. CASE i <= Len(s)
    BY <1>1, <1>2, <2>1 DEF TokensOf
  <2>2. CASE i > Len(s)
    <3>1. i - Len(s) \in 1..Len(t) /\ i = Len(s) + (i - Len(s))
      BY <1>1, <2>2
    <3> QED BY <1>1, <1>3, <3>1 DEF TokensOf
  <2> QED BY <1>1, <2>1, <2>2
<1>5. TokensOf(s) \subseteq TokensOf(s \o t)
  <2> SUFFICES ASSUME NEW i \in 1..Len(s) PROVE s[i] \in TokensOf(s \o t)
    BY <1>1 DEF TokensOf
  <2>1. i \in DOMAIN (s \o t) /\ (s \o t)[i] = s[i]
    BY <1>1, <1>2
  <2> QED BY <2>1 DEF TokensOf
<1>6. TokensOf(t) \subseteq TokensOf(s \o t)
  <2> SUFFICES ASSUME NEW i \in 1..Len(t) PROVE t[i] \in TokensOf(s \o t)
    BY <1>1 DEF TokensOf
  <2>1. Len(s) + i \in DOMAIN (s \o t) /\ (s \o t)[Len(s) + i] = t[i]
    BY <1>1, <1>3
  <2> QED BY <2>1 DEF TokensOf
<1> QED BY <1>1, <1>2, <1>3, <1>4, <1>5, <1>6

LEMMA Concat ==
  ASSUME NEW s \in Seq(Token), NEW t \in Seq(Token)
  PROVE  /\ s \o t \in Seq(Token) /\ Len(s \o t) = Len(s) + Len(t)
         /\ Len(s) \in Nat /\ Len(t) \in Nat
         /\ \A i \in 1..Len(s) : (s \o t)[i] = s[i]
         /\ \A i \in 1..Len(t) : (s \o t)[Len(s) + i] = t[i]
         /\ TokensOf(s \o t) = TokensOf(s) \cup TokensOf(t)
BY SeqConcat

LEMMA Regroup ==
  ASSUME NEW s \in Seq(Token), NEW t \in Seq(Token), NEW v \in Seq(Token)
  PROVE  (s \o t) \o v = s \o (t \o v)
BY ConcatAssociative

LEMMA LinesOfTokens == ASSUME NEW s PROVE LinesOf(s) = {t[1] : t \in TokensOf(s)}
BY DEF LinesOf, TokensOf

LEMMA LinesOfConcat ==
  ASSUME NEW s \in Seq(Token), NEW t \in Seq(Token)
  PROVE  LinesOf(s \o t) = LinesOf(s) \cup LinesOf(t)
BY Concat, LinesOfTokens, Zenon

\* A sequence cut in two.
LEMMA Split ==
  ASSUME NEW s \in Seq(Token), NEW n \in 0..Len(s)
  PROVE  /\ SubSeq(s, 1, n) \in Seq(Token) /\ SubSeq(s, n + 1, Len(s)) \in Seq(Token)
         /\ Len(SubSeq(s, 1, n)) = n /\ Len(SubSeq(s, n + 1, Len(s))) = Len(s) - n
         /\ SubSeq(s, 1, n) \o SubSeq(s, n + 1, Len(s)) = s
<1>1. SubSeq(s, 1, n) \o SubSeq(s, n + 1, Len(s)) = SubSeq(s, 1, Len(s))
  <2>1. 1 \in 1..Len(s) + 1 /\ n \in 1 - 1..Len(s) /\ Len(s) \in n..Len(s)
    OBVIOUS
  <2> QED BY <2>1, ConcatAdjacentSubSeq
<1>2. SubSeq(s, 1, Len(s)) = s
  BY SubSeqFull
<1>3. SubSeq(s, 1, n) \in Seq(Token) /\ Len(SubSeq(s, 1, n)) = n
  <2>1. 1 \in Int /\ n \in Int /\ \A i \in 1..n : s[i] \in Token
    OBVIOUS
  <2> QED BY <2>1, SubSeqProperties
<1>4. SubSeq(s, n + 1, Len(s)) \in Seq(Token) /\ Len(SubSeq(s, n + 1, Len(s))) = Len(s) - n
  <2>1. n + 1 \in Int /\ Len(s) \in Int /\ \A i \in (n + 1)..Len(s) : s[i] \in Token
    OBVIOUS
  <2> QED BY <2>1, SubSeqProperties
<1> QED BY <1>1, <1>2, <1>3, <1>4

--------------------------------------------------------------------------
(* What is on its way: read and not processed, written and not read, and still to be written. *)

Stream == buf \o (unread \o rest)

IsNewline(t) == t[2] = Newline(t[1])

\* The tokens of a line follow each other, and another line comes after its newline.
InStep(q) ==
  \A i, j \in 1..Len(q) : i <= j =>
    /\ q[i][1] <= q[j][1]
    /\ q[i][1] = q[j][1] => q[j][2] = q[i][2] + (j - i)
    /\ q[i][1] # q[j][1] => \E k \in i..(j - 1) : q[k] = <<q[i][1], Newline(q[i][1])>>

StreamInv ==
  /\ sent \in Seq(Lines)
  /\ buf \in Seq(Token) /\ unread \in Seq(Token) /\ rest \in Seq(Token)
  /\ \A t \in TokensOf(Stream) : t[1] \in 1..Len(sent) /\ t[2] \in 1..Newline(t[1])
  /\ InStep(Stream)
  /\ Stream # <<>> => Stream[Len(Stream)] = <<Len(sent), Newline(Len(sent))>>
  /\ buf # <<>> => child = "running"

LEMMA StreamType ==
  ASSUME buf \in Seq(Token), unread \in Seq(Token), rest \in Seq(Token)
  PROVE  /\ Stream \in Seq(Token) /\ Len(Stream) \in Nat /\ unread \o rest \in Seq(Token)
         /\ TokensOf(Stream) = TokensOf(buf) \cup TokensOf(unread) \cup TokensOf(rest)
         /\ LinesOf(Stream) = LinesOf(buf) \cup LinesOf(unread) \cup LinesOf(rest)
<1>1. unread \o rest \in Seq(Token) /\ TokensOf(unread \o rest) = TokensOf(unread) \cup TokensOf(rest)
  BY Concat
<1>2. LinesOf(unread \o rest) = LinesOf(unread) \cup LinesOf(rest)
  BY LinesOfConcat
<1>3. Stream \in Seq(Token) /\ TokensOf(Stream) = TokensOf(buf) \cup TokensOf(unread \o rest)
  BY <1>1, Concat DEF Stream
<1>4. LinesOf(Stream) = LinesOf(buf) \cup LinesOf(unread \o rest)
  BY <1>1, LinesOfConcat DEF Stream
<1> QED BY <1>1, <1>2, <1>3, <1>4

LEMMA NewlineType ==
  ASSUME sent \in Seq(Lines), NEW n \in 1..Len(sent)
  PROVE  Newline(n) \in Nat \ {0} /\ Len(sent[n].text) \in Nat /\ sent[n] \in Lines
<1>1. sent[n] \in Lines
  OBVIOUS
<1>2. Len(sent[n].text) \in Nat
  BY <1>1, LinesAssumption
<1> QED BY <1>1, <1>2 DEF Newline

\* Both parts of a sequence that is in step are.
LEMMA InStepSplit ==
  ASSUME NEW s \in Seq(Token), NEW t \in Seq(Token), InStep(s \o t)
  PROVE  InStep(s) /\ InStep(t)
<1> DEFINE q == s \o t
<1>1. /\ q \in Seq(Token) /\ Len(q) = Len(s) + Len(t) /\ Len(s) \in Nat /\ Len(t) \in Nat
      /\ \A i \in 1..Len(s) : q[i] = s[i]
      /\ \A i \in 1..Len(t) : q[Len(s) + i] = t[i]
  BY Concat
<1>2. InStep(q)
  OBVIOUS
<1> HIDE DEF q
<1>3. InStep(s)
  <2> SUFFICES ASSUME NEW i \in 1..Len(s), NEW j \in 1..Len(s), i <= j
               PROVE  /\ s[i][1] <= s[j][1]
                      /\ s[i][1] = s[j][1] => s[j][2] = s[i][2] + (j - i)
                      /\ s[i][1] # s[j][1] => \E k \in i..(j - 1) : s[k] = <<s[i][1], Newline(s[i][1])>>
    BY DEF InStep
  <2>1. i \in 1..Len(q) /\ j \in 1..Len(q) /\ q[i] = s[i] /\ q[j] = s[j]
    BY <1>1
  <2>2. \A k \in i..(j - 1) : q[k] = s[k]
    <3>1. i \in Nat /\ j \in Nat /\ j <= Len(s) /\ i >= 1
      BY <1>1
    <3>2. i..(j - 1) \subseteq 1..Len(s)
      BY <1>1, <3>1
    <3> QED BY <1>1, <3>2
  <2> QED BY <1>2, <2>1, <2>2 DEF InStep
<1>4. InStep(t)
  <2> SUFFICES ASSUME NEW i \in 1..Len(t), NEW j \in 1..Len(t), i <= j
               PROVE  /\ t[i][1] <= t[j][1]
                      /\ t[i][1] = t[j][1] => t[j][2] = t[i][2] + (j - i)
                      /\ t[i][1] # t[j][1] => \E k \in i..(j - 1) : t[k] = <<t[i][1], Newline(t[i][1])>>
    BY DEF InStep
  <2> DEFINE a == Len(s) + i
             b == Len(s) + j
  <2>1. a \in 1..Len(q) /\ b \in 1..Len(q) /\ a <= b /\ q[a] = t[i] /\ q[b] = t[j] /\ b - a = j - i
    BY <1>1
  <2> HIDE DEF a, b
  <2>2. t[i][1] <= t[j][1] /\ (t[i][1] = t[j][1] => t[j][2] = t[i][2] + (j - i))
    BY <1>2, <2>1 DEF InStep
  <2>3. ASSUME t[i][1] # t[j][1]
        PROVE  \E k \in i..(j - 1) : t[k] = <<t[i][1], Newline(t[i][1])>>
    <3>1. PICK k \in a..(b - 1) : q[k] = <<t[i][1], Newline(t[i][1])>>
      BY <1>2, <2>1, <2>3 DEF InStep
    <3>2. i \in Nat /\ j \in Nat /\ j <= Len(t) /\ i >= 1 /\ Len(s) \in Nat
      BY <1>1
    <3>3. k - Len(s) \in i..(j - 1) /\ Len(s) + (k - Len(s)) = k
      BY <3>1, <3>2 DEF a, b
    <3>4. k - Len(s) \in 1..Len(t)
      BY <3>2, <3>3
    <3>5. q[k] = t[k - Len(s)]
      BY <1>1, <3>3, <3>4
    <3> QED BY <3>1, <3>3, <3>5
  <2> QED BY <2>2, <2>3
<1> QED BY <1>3, <1>4

\* A step that only takes tokens from the front.
LEMMA StreamDrops ==
  ASSUME StreamInv, sent' = sent,
         buf' \in Seq(Token), unread' \in Seq(Token), rest' \in Seq(Token),
         NEW s \in Seq(Token), Stream = s \o Stream', buf' # <<>> => child' = "running"
  PROVE  StreamInv'
<1>1. Stream' \in Seq(Token) /\ Len(Stream') \in Nat
  <2>1. unread' \o rest' \in Seq(Token)
    BY Concat
  <2> QED BY <2>1, Concat DEF Stream
<1>2. InStep(Stream) /\ InStep(s \o Stream')
  BY DEF StreamInv
<1>3. InStep(Stream')
  BY <1>1, <1>2, InStepSplit
<1>4. (InStep(Stream))'
  BY <1>3 DEF InStep, Newline
<1>5. TokensOf(Stream') \subseteq TokensOf(Stream)
  BY <1>1, Concat
<1>6. (\A t \in TokensOf(Stream) : t[1] \in 1..Len(sent) /\ t[2] \in 1..Newline(t[1]))'
  <2>1. \A t \in TokensOf(Stream') : t[1] \in 1..Len(sent) /\ t[2] \in 1..Newline(t[1])
    BY <1>5 DEF StreamInv
  <2> QED BY <2>1 DEF Newline, TokensOf
<1>7. Stream' # <<>> => Stream'[Len(Stream')] = <<Len(sent), Newline(Len(sent))>>
  <2> SUFFICES ASSUME Stream' # <<>>
               PROVE  Stream'[Len(Stream')] = <<Len(sent), Newline(Len(sent))>>
    OBVIOUS
  <2>1. Len(Stream') \in 1..Len(Stream')
    BY <1>1
  <2>2. Len(Stream) = Len(s) + Len(Stream') /\ Len(s) \in Nat
        /\ (s \o Stream')[Len(s) + Len(Stream')] = Stream'[Len(Stream')]
    BY <1>1, <2>1, Concat
  <2>3. Stream # <<>>
    BY <1>1, <2>1, <2>2
  <2> QED BY <2>2, <2>3 DEF StreamInv
<1> QED BY <1>4, <1>6, <1>7 DEF StreamInv, Newline

LEMMA StreamBegins ==
  ASSUME StreamInv, NEW l \in Lines, Begin(l)
  PROVE  /\ StreamInv' /\ Stream' = Stream \o rest'
         /\ TokensOf(rest') = {<<Len(sent) + 1, k>> : k \in 1..(Len(l.text) + 1)}
         /\ \A n \in 1..Len(sent) : sent'[n] = sent[n] /\ Newline(n)' = Newline(n)
         /\ (Newline(Len(sent)))' = Len(l.text) + 1 /\ Len(sent') = Len(sent) + 1
<1> DEFINE N == Len(sent) + 1
           L == Len(l.text) + 1
           q == Stream
           new == [k \in 1..L |-> <<N, k>>]
<1>1. /\ sent' = Append(sent, l) /\ rest = <<>> /\ rest' = new
      /\ buf' = buf /\ unread' = unread /\ child' = child
  BY DEF Begin, inputVars, mainVars, StreamInv
<1>2. L \in Nat \ {0} /\ N \in Nat
  BY LinesAssumption DEF StreamInv
<1>3. /\ sent \in Seq(Lines) /\ sent' \in Seq(Lines) /\ Len(sent) \in Nat
      /\ N = Len(sent) + 1 /\ Len(sent') = N /\ sent'[N] = l /\ \A n \in 1..Len(sent) : sent'[n] = sent[n]
  BY <1>1 DEF StreamInv
<1>4. /\ \A n \in 1..Len(sent) : Newline(n)' = Newline(n)
      /\ Len(sent'[N].text) + 1 = L
  BY <1>3 DEF Newline
<1>5. new \in Seq(Token) /\ Len(new) = L /\ \A k \in 1..L : new[k] = <<N, k>>
  <2>1. \A k \in 1..L : <<N, k>> \in Token
    BY <1>2, <1>3 DEF Token
  <2> QED BY <1>2, <2>1
<1>6. TokensOf(new) = {<<N, k>> : k \in 1..L}
  BY <1>5 DEF TokensOf
<1> HIDE DEF new, N, L
<1>7. q \in Seq(Token) /\ Len(q) \in Nat /\ q = buf \o unread /\ q' = q \o new
  <2>1. buf \in Seq(Token) /\ unread \in Seq(Token) /\ rest \in Seq(Token)
    BY DEF StreamInv
  <2>2. unread \o rest = unread
    BY <1>1, <2>1, ConcatEmptySeq
  <2>3. (buf \o unread) \o new = buf \o (unread \o new)
    BY <1>5, <2>1, ConcatAssociative
  <2>4. q = buf \o unread /\ q' = q \o new
    BY <1>1, <2>2, <2>3 DEF Stream
  <2> QED BY <2>1, <2>4, StreamType
<1> HIDE DEF q
<1>8. /\ Len(q') = Len(q) + L /\ q' \in Seq(Token)
      /\ \A i \in 1..Len(q) : q'[i] = q[i]
      /\ \A k \in 1..L : q'[Len(q) + k] = <<N, k>>
      /\ TokensOf(q') = TokensOf(q) \cup TokensOf(new)
  BY <1>5, <1>7, Concat
<1>9. /\ \A t \in TokensOf(q) : t[1] \in 1..Len(sent) /\ t[2] \in 1..Newline(t[1])
      /\ InStep(q) /\ (q # <<>> => q[Len(q)] = <<Len(sent), Newline(Len(sent))>>)
      /\ DOMAIN q = 1..Len(q)
  BY <1>7 DEF StreamInv, q
<1>10. (\A t \in TokensOf(Stream) : t[1] \in 1..Len(sent) /\ t[2] \in 1..Newline(t[1]))'
  <2> SUFFICES ASSUME NEW t \in TokensOf(q')
               PROVE  t[1] \in 1..Len(sent') /\ t[2] \in 1..(Len(sent'[t[1]].text) + 1)
    BY DEF Newline, q
  <2>1. CASE t \in TokensOf(q)
    BY <1>3, <1>9, <2>1 DEF Newline
  <2>2. CASE t \in TokensOf(new)
    BY <1>2, <1>3, <1>4, <1>6, <2>2
  <2> QED BY <1>8, <2>1, <2>2
<1>11. ASSUME NEW i \in 1..Len(q'), NEW j \in 1..Len(q'), i <= j
       PROVE  /\ q'[i][1] <= q'[j][1]
              /\ q'[i][1] = q'[j][1] => q'[j][2] = q'[i][2] + (j - i)
              /\ q'[i][1] # q'[j][1] =>
                   \E k \in i..(j - 1) : q'[k] = <<q'[i][1], Len(sent'[q'[i][1]].text) + 1>>
  <2>0. /\ i \in Nat /\ j \in Nat /\ i >= 1 /\ i <= j /\ j <= Len(q) + L
        /\ Len(q) \in Nat /\ L \in Nat
    <3>1. Len(q') = Len(q) + L /\ Len(q) \in Nat /\ L \in Nat
      BY <1>2, <1>7, <1>8
    <3> QED BY <3>1, <1>11
  <2>1. CASE j <= Len(q)
    <3>1. i \in 1..Len(q) /\ j \in 1..Len(q)
      BY <2>0, <2>1
    <3>2. q'[i] = q[i] /\ q'[j] = q[j]
      BY <1>8, <3>1
    <3>3. i..(j - 1) \subseteq 1..Len(q)
      BY <1>7, <3>1
    <3>4. q[i] \in TokensOf(q)
      BY <1>9, <3>1 DEF TokensOf
    <3>5. Len(sent'[q[i][1]].text) + 1 = Newline(q[i][1])
      BY <1>3, <1>9, <3>4 DEF Newline
    <3>6. \A k \in i..(j - 1) : q'[k] = q[k]
      BY <1>8, <3>3
    <3> QED BY <1>9, <1>11, <3>1, <3>2, <3>5, <3>6 DEF InStep
  <2>2. CASE i > Len(q)
    <3>1. i - Len(q) \in 1..L /\ j - Len(q) \in 1..L /\ i \in Nat /\ j \in Nat
          /\ Len(q) + (i - Len(q)) = i /\ Len(q) + (j - Len(q)) = j
      BY <2>0, <2>2
    <3>2. q'[i] = <<N, i - Len(q)>> /\ q'[j] = <<N, j - Len(q)>>
      BY <1>8, <3>1
    <3> QED BY <1>3, <1>7, <3>1, <3>2
  <2>3. CASE i <= Len(q) /\ j > Len(q)
    <3>1. i \in 1..Len(q) /\ j - Len(q) \in 1..L /\ Len(q) + (j - Len(q)) = j
          /\ Len(q) \in 1..Len(q)
      BY <2>0, <2>3
    <3>2. q'[i] = q[i] /\ q'[j] = <<N, j - Len(q)>>
      BY <1>8, <3>1
    <3>3. q[i] \in TokensOf(q)
      BY <1>9, <3>1 DEF TokensOf
    <3>4. q[i][1] \in 1..Len(sent)
      BY <1>9, <3>3
    <3>5. Len(sent'[q[i][1]].text) + 1 = Newline(q[i][1])
      BY <1>3, <3>4 DEF Newline
    <3>6. q # <<>>
      BY <3>1
    <3>7. q[Len(q)] = <<Len(sent), Newline(Len(sent))>>
      BY <1>9, <3>6
    <3>8. \E k \in i..Len(q) : q[k] = <<q[i][1], Newline(q[i][1])>>
      <4>1. CASE q[i][1] = Len(sent)
        <5>1. q[Len(q)] = <<q[i][1], Newline(q[i][1])>>
          BY <3>7, <4>1
        <5>2. Len(q) \in i..Len(q)
          BY <2>0, <3>1
        <5> QED BY <5>1, <5>2
      <4>2. CASE q[i][1] # Len(sent)
        <5>1. i <= Len(q) /\ q[Len(q)][1] = Len(sent)
          BY <1>7, <3>1, <3>7
        <5>2. \E k \in i..(Len(q) - 1) : q[k] = <<q[i][1], Newline(q[i][1])>>
          BY <1>9, <3>1, <4>2, <5>1 DEF InStep
        <5>3. i..(Len(q) - 1) \subseteq i..Len(q)
          BY <1>7, <3>1
        <5> QED BY <5>2, <5>3
      <4> QED BY <4>1, <4>2
    <3>9. PICK k \in i..Len(q) : q[k] = <<q[i][1], Newline(q[i][1])>>
      BY <3>8
    <3>10. k \in i..(j - 1) /\ k \in 1..Len(q)
      BY <2>0, <3>1, <3>9, <2>3
    <3>11. q'[k] = q[k]
      BY <1>8, <3>10
    <3>12. q'[k] = <<q'[i][1], Len(sent'[q'[i][1]].text) + 1>>
      BY <3>2, <3>5, <3>9, <3>11
    <3>13. q'[i][1] < N /\ q'[j][1] = N
      BY <1>3, <3>2, <3>4
    <3>14. q'[i][1] \in Nat /\ q'[j][1] \in Nat
      BY <1>2, <3>2, <3>4, <3>13
    <3> QED BY <1>2, <3>10, <3>12, <3>13, <3>14
  <2> QED BY <2>0, <2>1, <2>2, <2>3
<1>12. (InStep(Stream))'
  BY <1>11 DEF InStep, Newline, q
<1>13. (Stream # <<>> => Stream[Len(Stream)] = <<Len(sent), Newline(Len(sent))>>)'
  <2>1. L \in 1..L /\ Len(q') = Len(q) + L
    BY <1>2, <1>8
  <2>2. q'[Len(q')] = <<N, L>>
    BY <1>8, <2>1
  <2> QED BY <1>3, <1>4, <2>2 DEF Newline, q
<1>14. buf' \in Seq(Token) /\ unread' \in Seq(Token) /\ rest' \in Seq(Token)
       /\ (buf' # <<>> => child' = "running")
  BY <1>1, <1>5 DEF StreamInv
<1>15. StreamInv'
  BY <1>3, <1>10, <1>12, <1>13, <1>14 DEF StreamInv
<1> QED BY <1>1, <1>3, <1>4, <1>6, <1>7, <1>15 DEF Newline, N, L, q

--------------------------------------------------------------------------
(* The first line of the buffer *)

LEMMA FirstNewline ==
  ASSUME buf \in Seq(Token)
  PROVE  /\ LineEnd \in 1..(Len(buf) + 1)
         /\ LineEnd <= Len(buf) => buf[LineEnd][2] = Newline(buf[LineEnd][1])
         /\ \A j \in 1..(LineEnd - 1) : buf[j][2] # Newline(buf[j][1])
<1> DEFINE S == {i \in 1..(Len(buf) + 1) : i > Len(buf) \/ buf[i][2] = Newline(buf[i][1])}
<1>1. Len(buf) \in Nat
  OBVIOUS
<1>2. S \in SUBSET Nat /\ Len(buf) + 1 \in S
  BY <1>1
<1>3. PICK m \in S : \A k \in S : m <= k
  <2> HIDE DEF S
  <2>1. S # {}
    BY <1>2
  <2> QED BY <1>2, <2>1, Least
<1>4. m \in 1..(Len(buf) + 1) /\ (m > Len(buf) \/ buf[m][2] = Newline(buf[m][1]))
  OBVIOUS
<1>5. \A j \in 1..(m - 1) : buf[j][2] # Newline(buf[j][1])
  <2> SUFFICES ASSUME NEW j \in 1..(m - 1), buf[j][2] = Newline(buf[j][1]) PROVE FALSE
    OBVIOUS
  <2>1. j \in S /\ j < m
    BY <1>1, <1>4
  <2> QED BY <1>3, <1>4, <2>1
<1> HIDE DEF S
<1>6. \E i \in 1..(Len(buf) + 1) :
        /\ i > Len(buf) \/ buf[i][2] = Newline(buf[i][1])
        /\ \A j \in 1..(i - 1) : buf[j][2] # Newline(buf[j][1])
  BY <1>4, <1>5
<1>7. /\ LineEnd \in 1..(Len(buf) + 1)
      /\ LineEnd > Len(buf) \/ buf[LineEnd][2] = Newline(buf[LineEnd][1])
      /\ \A j \in 1..(LineEnd - 1) : buf[j][2] # Newline(buf[j][1])
  <2> DEFINE P(i) == /\ i > Len(buf) \/ buf[i][2] = Newline(buf[i][1])
                     /\ \A j \in 1..(i - 1) : buf[j][2] # Newline(buf[j][1])
  <2>1. \E i \in 1..(Len(buf) + 1) : P(i)
    BY <1>6
  <2>2. LineEnd = CHOOSE i \in 1..(Len(buf) + 1) : P(i)
    BY DEF LineEnd
  <2> HIDE DEF P
  <2>3. LineEnd \in 1..(Len(buf) + 1) /\ P(LineEnd)
    BY <2>1, <2>2, Zenon
  <2> QED BY <2>3 DEF P
<1> QED BY <1>1, <1>7

\* The buffer is the beginning of the stream.
LEMMA BufferInStep ==
  ASSUME StreamInv
  PROVE  /\ InStep(buf) /\ buf \in Seq(Token)
         /\ \A t \in TokensOf(buf) : t[1] \in 1..Len(sent) /\ t[2] \in 1..Newline(t[1])
<1>1. buf \in Seq(Token) /\ unread \o rest \in Seq(Token) /\ InStep(buf \o (unread \o rest))
  BY StreamType DEF StreamInv, Stream
<1>2. TokensOf(buf) \subseteq TokensOf(Stream)
  BY <1>1, Concat DEF Stream
<1> QED BY <1>1, <1>2, InStepSplit DEF StreamInv

\* The tokens up to the first newline are of one line.
LEMMA FirstLine ==
  ASSUME StreamInv, buf # <<>>
  PROVE  /\ buf[1][1] \in 1..Len(sent) /\ buf[1][2] \in 1..Newline(buf[1][1])
         /\ \A i \in 1..Len(buf) : i <= LineEnd => buf[i] = <<buf[1][1], buf[1][2] + (i - 1)>>
<1> DEFINE n == buf[1][1]
           p == buf[1][2]
<1>1. buf \in Seq(Token) /\ Len(buf) \in Nat \ {0} /\ DOMAIN buf = 1..Len(buf)
  BY DEF StreamInv
<1>2. InStep(buf) /\ \A t \in TokensOf(buf) : t[1] \in 1..Len(sent) /\ t[2] \in 1..Newline(t[1])
  BY BufferInStep
<1>3. 1 \in 1..Len(buf) /\ buf[1] \in TokensOf(buf)
  BY <1>1 DEF TokensOf
<1>4. /\ LineEnd \in 1..(Len(buf) + 1)
      /\ \A j \in 1..(LineEnd - 1) : buf[j][2] # Newline(buf[j][1])
  BY <1>1, FirstNewline
<1>5. ASSUME NEW i \in 1..Len(buf), i <= LineEnd
      PROVE  buf[i] = <<n, p + (i - 1)>>
  <2>1. i \in Nat /\ 1 <= i /\ LineEnd \in Nat
    BY <1>1, <1>4
  <2>2. buf[i][1] = n
    <3> SUFFICES ASSUME buf[i][1] # n PROVE FALSE
      OBVIOUS
    <3>1. PICK k \in 1..(i - 1) : buf[k] = <<n, Newline(n)>>
      BY <1>2, <1>3, <2>1 DEF InStep
    <3>2. k \in 1..(LineEnd - 1)
      BY <1>5, <2>1, <3>1
    <3>3. buf[k][1] = n /\ buf[k][2] = Newline(n)
      BY <3>1
    <3> QED BY <1>4, <3>2, <3>3
  <2>3. buf[i][2] = p + (i - 1)
    BY <1>2, <1>3, <2>1, <2>2 DEF InStep
  <2>4. buf[i] \in Token
    BY <1>1
  <2> QED BY <2>2, <2>3, <2>4 DEF Token
<1> QED BY <1>2, <1>3, <1>5

LEMMA LineIsPiece ==
  ASSUME StreamInv, buf # <<>>
  PROVE  /\ buf[1][2] \in 1..(Len(sent[buf[1][1]].text) + 1)
         /\ buf[1][2] + LineEnd - 2 \in 0..Len(sent[buf[1][1]].text)
         /\ Line = SubSeq(sent[buf[1][1]].text, buf[1][2], buf[1][2] + LineEnd - 2)
<1> DEFINE n == buf[1][1]
           p == buf[1][2]
           e == LineEnd
           x == sent[n].text
<1>1. /\ buf \in Seq(Token) /\ Len(buf) \in Nat \ {0} /\ DOMAIN buf = 1..Len(buf)
      /\ sent \in Seq(Lines)
  BY DEF StreamInv
<1>2. /\ e \in 1..(Len(buf) + 1)
      /\ \A j \in 1..(e - 1) : buf[j][2] # Newline(buf[j][1])
  BY <1>1, FirstNewline
<1>3. /\ n \in 1..Len(sent) /\ p \in 1..Newline(n)
      /\ \A i \in 1..Len(buf) : i <= e => buf[i] = <<n, p + (i - 1)>>
  BY FirstLine
<1>4. x \in Seq(STRING) /\ Len(x) \in Nat /\ Newline(n) = Len(x) + 1
  <2>1. sent[n] \in Lines
    BY <1>1, <1>3
  <2> QED BY <2>1, LinesAssumption DEF Newline
<1>5. \A t \in TokensOf(buf) : t[2] \in 1..Newline(t[1])
  BY BufferInStep
<1> HIDE DEF n, p, e, x
<1>6. \A i \in 1..(e - 1) : i \in 1..Len(buf) /\ buf[i] = <<n, p + (i - 1)>> /\ p + (i - 1) \in 1..Len(x)
  <2> TAKE i \in 1..(e - 1)
  <2>1. i \in 1..Len(buf) /\ i <= e
    BY <1>1, <1>2
  <2>2. buf[i] = <<n, p + (i - 1)>>
    BY <1>3, <2>1
  <2>3. buf[i] \in TokensOf(buf)
    BY <1>1, <2>1 DEF TokensOf
  <2>4. p + (i - 1) \in 1..Newline(n)
    BY <1>5, <2>2, <2>3
  <2>5. p + (i - 1) # Newline(n)
    BY <1>2, <2>2
  <2> QED BY <1>4, <2>1, <2>2, <2>4, <2>5
<1>7. p \in 1..(Len(x) + 1) /\ p + e - 2 \in 0..Len(x)
  <2>1. p \in 1..(Len(x) + 1)
    BY <1>3, <1>4
  <2>2. CASE e = 1
    BY <1>4, <2>1, <2>2
  <2>3. CASE e # 1
    <3>1. e - 1 \in 1..(e - 1)
      BY <1>1, <1>2, <2>3
    <3>2. p + ((e - 1) - 1) \in 1..Len(x)
      BY <1>6, <3>1
    <3>3. e \in Nat
      BY <1>1, <1>2
    <3> QED BY <1>4, <2>1, <3>2, <3>3
  <2> QED BY <2>1, <2>2, <2>3
<1>8. \A i \in 1..(e - 1) : Text[i] = x[p + (i - 1)]
  <2> TAKE i \in 1..(e - 1)
  <2>1. i \in DOMAIN buf /\ buf[i][1] = n /\ buf[i][2] = p + (i - 1)
        /\ buf[i][2] # Newline(buf[i][1])
    BY <1>1, <1>2, <1>6
  <2> QED BY <2>1 DEF Text, x
<1>9. e - 1 \in Nat /\ e \in Nat /\ p \in Nat /\ p + e - 2 \in Int
  BY <1>1, <1>2, <1>4, <1>7
<1>10. /\ Line \in Seq(STRING) /\ Len(Line) = e - 1
       /\ \A i \in 1..(e - 1) : Line[i] = x[p + (i - 1)]
  <2>1. \A i \in 1..(e - 1) : Text[i] \in STRING
    BY <1>4, <1>6, <1>8
  <2>2. 1 \in Int /\ e - 1 \in Int /\ Line = SubSeq(Text, 1, e - 1)
    BY <1>9 DEF Line, e
  <2>3. /\ SubSeq(Text, 1, e - 1) \in Seq(STRING)
        /\ Len(SubSeq(Text, 1, e - 1)) = IF 1 <= e - 1 THEN (e - 1) - 1 + 1 ELSE 0
        /\ \A i \in 1..((e - 1) - 1 + 1) : SubSeq(Text, 1, e - 1)[i] = Text[1 + i - 1]
    BY <2>1, <2>2, SubSeqProperties
  <2>4. Len(Line) = e - 1
    BY <1>9, <2>2, <2>3
  <2>5. ASSUME NEW i \in 1..(e - 1) PROVE Line[i] = x[p + (i - 1)]
    <3>1. i \in 1..((e - 1) - 1 + 1) /\ 1 + i - 1 = i
      BY <1>9
    <3>2. Line[i] = Text[i]
      BY <2>2, <2>3, <3>1
    <3> QED BY <1>8, <3>2
  <2> QED BY <2>2, <2>3, <2>4, <2>5
<1>11. /\ SubSeq(x, p, p + e - 2) \in Seq(STRING) /\ Len(SubSeq(x, p, p + e - 2)) = e - 1
       /\ \A i \in 1..(e - 1) : SubSeq(x, p, p + e - 2)[i] = x[p + (i - 1)]
  <2>1. \A i \in p..(p + e - 2) : x[i] \in STRING
    BY <1>4, <1>7, <1>9
  <2>2. /\ SubSeq(x, p, p + e - 2) \in Seq(STRING)
        /\ Len(SubSeq(x, p, p + e - 2)) = IF p <= p + e - 2 THEN p + e - 2 - p + 1 ELSE 0
        /\ \A i \in 1..(p + e - 2 - p + 1) : SubSeq(x, p, p + e - 2)[i] = x[p + i - 1]
    BY <1>9, <2>1, SubSeqProperties
  <2>3. p + e - 2 - p + 1 = e - 1 /\ \A i \in 1..(e - 1) : p + i - 1 = p + (i - 1)
    BY <1>9
  <2>4. Len(SubSeq(x, p, p + e - 2)) = e - 1
    BY <1>9, <2>2
  <2> QED BY <2>2, <2>3, <2>4
<1>12. Line = SubSeq(x, p, p + e - 2)
  BY <1>10, <1>11, SeqEqual
<1> QED BY <1>7, <1>12 DEF n, p, e, x

\* The buffer is the tokens of its first line, and what is left after them.
LEMMA BufferCut ==
  ASSUME StreamInv, buf # <<>>
  PROVE  \E f \in Seq(Token) :
           /\ OtherLines \in Seq(Token) /\ buf = f \o OtherLines /\ LinesOf(f) = {buf[1][1]}
           /\ Len(f) = IF LineEnd <= Len(buf) THEN LineEnd ELSE Len(buf)
<1> DEFINE n == buf[1][1]
           e == LineEnd
           m == IF e <= Len(buf) THEN e ELSE Len(buf)
           f == SubSeq(buf, 1, m)
<1>1. buf \in Seq(Token) /\ Len(buf) \in Nat \ {0} /\ DOMAIN buf = 1..Len(buf)
  BY DEF StreamInv
<1>2. e \in 1..(Len(buf) + 1)
  BY <1>1, FirstNewline
<1>3. \A i \in 1..Len(buf) : i <= e => buf[i][1] = n
  BY FirstLine
<1>4. m \in 1..Len(buf) /\ m <= e /\ m \in 0..Len(buf) /\ m \in Nat
  BY <1>1, <1>2
<1>5. OtherLines = SubSeq(buf, m + 1, Len(buf))
  <2>1. CASE e <= Len(buf)
    BY <2>1 DEF OtherLines
  <2>2. CASE e > Len(buf)
    <3>1. e + 1 > Len(buf) /\ m + 1 > Len(buf) /\ e + 1 \in Int /\ m + 1 \in Int /\ Len(buf) \in Int
      BY <1>1, <1>2, <2>2
    <3>2. SubSeq(buf, e + 1, Len(buf)) = <<>> /\ SubSeq(buf, m + 1, Len(buf)) = <<>>
      BY <3>1, SubSeqEmpty
    <3> QED BY <3>2 DEF OtherLines
  <2>3. e <= Len(buf) \/ e > Len(buf)
    BY <1>1, <1>2
  <2> QED BY <2>1, <2>2, <2>3, Zenon
<1> HIDE DEF m, e
<1>6. /\ f \in Seq(Token) /\ OtherLines \in Seq(Token) /\ Len(f) = m /\ f \o OtherLines = buf
  BY <1>1, <1>4, <1>5, Split
<1> HIDE DEF f
<1>7. \A i \in 1..m : f[i] = buf[i] /\ i \in 1..Len(buf) /\ i <= e
  <2>1. \A i \in 1..Len(f) : (f \o OtherLines)[i] = f[i]
    BY <1>6, Concat
  <2>2. \A i \in 1..m : i \in 1..Len(buf) /\ i <= e
    BY <1>1, <1>2, <1>4
  <2> QED BY <1>6, <2>1, <2>2
<1>8. LinesOf(f) = {n}
  <2>1. DOMAIN f = 1..m /\ 1 \in 1..m
    BY <1>4, <1>6
  <2>2. \A i \in 1..m : f[i][1] = n
    BY <1>3, <1>7
  <2> QED BY <2>1, <2>2 DEF LinesOf
<1> QED BY <1>6, <1>8 DEF m, e, n

--------------------------------------------------------------------------
(* What becomes of the lines *)

Both(n) == {<<n, 1>>, <<n, Newline(n)>>}

\* The events that are handled or in hand, and the lines all of whose events are.
Event == Nat \X Nat \X Types
Done == handled \o hand
Known(n) == \A k \in DOMAIN sent[n].events : \E e \in TokensOf(Done) : e[1] = n /\ e[2] = k

\* A line that is not excused is all there or not there at all, in the buffer and altogether;
\* and when it is not there its events are handled or in hand.
WholeInv ==
  \A n \in 1..Len(sent) : n \notin excused =>
    /\ n \in LinesOf(buf) => Both(n) \subseteq TokensOf(buf)
    /\ n \in LinesOf(Stream) => Both(n) \subseteq TokensOf(Stream)
    /\ n \in LinesOf(Stream) \/ Known(n)

\* Each event follows the one before it in its line, or is the first one of a later line.
InOrder(q) ==
  \A i \in 1..Len(q) :
    IF q[i][2] = 1 THEN i = 1 \/ q[i - 1][1] < q[i][1]
    ELSE i > 1 /\ q[i - 1][1] = q[i][1] /\ q[i - 1][2] = q[i][2] - 1

\* What is handled and in hand are the client's events in their order, all of a line but for
\* those that a child took along; what comes after them is of later lines, but for their
\* newline, when the read ended before it.
Meant(e) == /\ e[1] \in 1..Len(sent) /\ e[2] \in DOMAIN sent[e[1]].events
            /\ e[3] = sent[e[1]].events[e[2]]
HandledInv ==
  /\ handled \in Seq(Event) /\ hand \in Seq(Event)
  /\ hand # <<>> => child = "running"
  /\ InOrder(Done)
  /\ \A e \in TokensOf(Done) :
       /\ Meant(e)
       /\ e[1] \notin interrupted => Known(e[1])
       /\ \A t \in TokensOf(Stream) : t[1] > e[1] \/ t = <<e[1], Newline(e[1])>>

LineInv == StreamInv /\ WholeInv /\ HandledInv

LEMMA LineInit == PipeInit => LineInv
<1> SUFFICES ASSUME PipeInit PROVE LineInv
  OBVIOUS
<1>1. sent = <<>> /\ rest = <<>> /\ unread = <<>> /\ buf = <<>> /\ handled = <<>> /\ hand = <<>>
  BY DEF PipeInit
<1>2. <<>> \in Seq(Token) /\ Len(<<>>) = 0 /\ <<>> \in Seq(Lines) /\ <<>> \in Seq(Event)
  BY EmptySeq
<1>3. Stream = <<>>
  BY <1>1, <1>2, ConcatEmptySeq DEF Stream
<1>4. TokensOf(Stream) = {}
  BY <1>3 DEF TokensOf
<1>5. InStep(Stream)
  BY <1>2, <1>3 DEF InStep
<1>6. Done = <<>> /\ TokensOf(Done) = {} /\ InOrder(Done)
  <2>1. Done = <<>>
    BY <1>1, <1>2, ConcatEmptySeq DEF Done
  <2> QED BY <1>2, <2>1 DEF TokensOf, InOrder
<1> QED BY <1>1, <1>2, <1>3, <1>4, <1>5, <1>6 DEF LineInv, StreamInv, WholeInv, HandledInv

\* The events are those of handled and of hand.
LEMMA DoneType ==
  ASSUME handled \in Seq(Event), hand \in Seq(Event)
  PROVE  /\ Done \in Seq(Event) /\ Len(Done) = Len(handled) + Len(hand)
         /\ Len(handled) \in Nat /\ Len(hand) \in Nat
         /\ \A i \in 1..Len(handled) : Done[i] = handled[i]
         /\ TokensOf(Done) = TokensOf(handled) \cup TokensOf(hand)
BY SeqConcat DEF Done

\* The first part of what is in order is.
LEMMA InOrderStart ==
  ASSUME NEW q \in Seq(Event), NEW d \in Seq(Event), InOrder(q \o d)
  PROVE  InOrder(q)
<1>1. /\ Len(q \o d) = Len(q) + Len(d) /\ Len(q) \in Nat /\ Len(d) \in Nat
      /\ \A i \in 1..Len(q) : (q \o d)[i] = q[i]
  BY SeqConcat
<1> SUFFICES ASSUME NEW i \in 1..Len(q)
             PROVE  IF q[i][2] = 1 THEN i = 1 \/ q[i - 1][1] < q[i][1]
                    ELSE i > 1 /\ q[i - 1][1] = q[i][1] /\ q[i - 1][2] = q[i][2] - 1
  BY DEF InOrder
<1>2. i \in 1..Len(q \o d) /\ (q \o d)[i] = q[i] /\ (i > 1 => (q \o d)[i - 1] = q[i - 1])
  BY <1>1
<1> QED BY <1>1, <1>2 DEF InOrder

\* A step that takes tokens s of excused lines from the front and events d of interrupted lines
\* from the end, or none.
LEMMA LineTakes ==
  ASSUME LineInv, sent' = sent, excused \subseteq excused', interrupted \subseteq interrupted',
         buf' \in Seq(Token), unread' \in Seq(Token), rest' \in Seq(Token),
         handled' \in Seq(Event), hand' \in Seq(Event),
         buf' # <<>> => child' = "running", hand' # <<>> => child' = "running",
         NEW s \in Seq(Token), Stream = s \o Stream', LinesOf(s) \subseteq excused',
         NEW d \in Seq(Event), Done = Done' \o d, LinesOf(d) \subseteq excused' \cap interrupted',
         \A n \in LinesOf(buf') : n \notin excused' => Both(n) \subseteq TokensOf(buf')
  PROVE  LineInv'
<1>1. StreamInv'
  BY StreamDrops DEF LineInv
<1>2. Stream' \in Seq(Token)
  <2>1. unread' \o rest' \in Seq(Token)
    BY Concat
  <2> QED BY <2>1, Concat DEF Stream
<1>3. /\ TokensOf(Stream) = TokensOf(s) \cup TokensOf(Stream')
      /\ LinesOf(Stream) = LinesOf(s) \cup LinesOf(Stream')
  BY <1>2, Concat, LinesOfConcat
<1>4. \A n : (Newline(n))' = Newline(n) /\ (Both(n))' = Both(n)
  BY DEF Newline, Both
<1>5. Done' \in Seq(Event)
  BY SeqConcat DEF Done
<1>6. TokensOf(Done) = TokensOf(Done') \cup TokensOf(d) /\ InOrder(Done')
  <2>1. TokensOf(Done' \o d) = TokensOf(Done') \cup TokensOf(d)
    BY <1>5, SeqConcat
  <2>2. InOrder(Done' \o d)
    BY DEF LineInv, HandledInv
  <2> QED BY <1>5, <2>1, <2>2, InOrderStart
<1>7. ASSUME NEW n, n \notin LinesOf(d), Known(n)
      PROVE  (Known(n))'
  <2> SUFFICES ASSUME NEW k \in DOMAIN sent[n].events
               PROVE  \E e \in TokensOf(Done') : e[1] = n /\ e[2] = k
    BY DEF Known, TokensOf
  <2>1. PICK e \in TokensOf(Done) : e[1] = n /\ e[2] = k
    BY <1>7 DEF Known
  <2>2. e \notin TokensOf(d)
    BY <1>7, <2>1, LinesOfTokens
  <2> QED BY <1>6, <2>1, <2>2
<1>8. WholeInv'
  <2> SUFFICES ASSUME NEW n \in 1..Len(sent), n \notin excused'
               PROVE  /\ n \in LinesOf(buf') => Both(n) \subseteq TokensOf(buf')
                      /\ n \in LinesOf(Stream') => Both(n) \subseteq TokensOf(Stream')
                      /\ n \in LinesOf(Stream') \/ (Known(n))'
    BY <1>4 DEF WholeInv, LinesOf, TokensOf
  <2>1. n \notin excused /\ n \notin LinesOf(s) /\ n \notin LinesOf(d)
    OBVIOUS
  <2>2. n \in LinesOf(Stream') \/ (Known(n))'
    BY <1>3, <1>7, <2>1 DEF LineInv, WholeInv
  <2>3. ASSUME n \in LinesOf(Stream') PROVE Both(n) \subseteq TokensOf(Stream')
    <3>1. Both(n) \subseteq TokensOf(Stream)
      BY <1>3, <2>1, <2>3 DEF LineInv, WholeInv
    <3>2. \A t \in Both(n) : t \notin TokensOf(s)
      BY <2>1, LinesOfTokens DEF Both
    <3> QED BY <1>3, <3>1, <3>2
  <2> QED BY <2>2, <2>3
<1>9. HandledInv'
  <2>1. ASSUME NEW e \in TokensOf(Done')
        PROVE  /\ Meant(e) /\ (e[1] \notin interrupted' => (Known(e[1]))')
               /\ \A t \in TokensOf(Stream') : t[1] > e[1] \/ t = <<e[1], Newline(e[1])>>
    <3>1. /\ Meant(e) /\ (e[1] \notin interrupted => Known(e[1]))
          /\ \A t \in TokensOf(Stream') : t[1] > e[1] \/ t = <<e[1], Newline(e[1])>>
      BY <1>3, <1>6, <2>1 DEF LineInv, HandledInv
    <3>2. e[1] \notin interrupted' => e[1] \notin LinesOf(d) /\ e[1] \notin interrupted
      OBVIOUS
    <3> QED BY <1>7, <3>1, <3>2
  <2>2. \A e : (Meant(e))' <=> Meant(e)
    BY DEF Meant
  <2>3. InOrder(Done)'
    BY <1>6 DEF InOrder
  <2>4. TokensOf(Done)' = TokensOf(Done') /\ TokensOf(Stream)' = TokensOf(Stream')
    BY DEF TokensOf
  <2> QED BY <1>4, <2>1, <2>2, <2>3, <2>4 DEF HandledInv
<1> QED BY <1>1, <1>8, <1>9 DEF LineInv

\* One that leaves the events alone.
LEMMA LineDrops ==
  ASSUME LineInv, sent' = sent, UNCHANGED lineVars, excused \subseteq excused',
         buf' \in Seq(Token), unread' \in Seq(Token), rest' \in Seq(Token),
         buf' # <<>> => child' = "running", hand # <<>> => child' = "running",
         NEW s \in Seq(Token), Stream = s \o Stream', LinesOf(s) \subseteq excused',
         \A n \in LinesOf(buf') : n \notin excused' => Both(n) \subseteq TokensOf(buf')
  PROVE  LineInv'
<1>1. handled' = handled /\ hand' = hand /\ interrupted' = interrupted /\ Done' = Done
  BY DEF lineVars, Done
<1>2. handled \in Seq(Event) /\ hand \in Seq(Event) /\ Done \in Seq(Event)
  BY DoneType DEF LineInv, HandledInv
<1>3. <<>> \in Seq(Event) /\ Done = Done' \o <<>> /\ LinesOf(<<>>) = {}
  BY <1>1, <1>2, ConcatEmptySeq DEF LinesOf
<1>4. interrupted \subseteq interrupted' /\ LinesOf(<<>>) \subseteq excused' \cap interrupted'
      /\ handled' \in Seq(Event) /\ hand' \in Seq(Event) /\ (hand' # <<>> => child' = "running")
  BY <1>1, <1>2, <1>3
<1> QED BY <1>3, <1>4, LineTakes

\* Nothing is taken from the front.
LEMMA NothingTaken ==
  ASSUME LineInv, UNCHANGED <<rest, unread, buf>>
  PROVE  /\ buf \in Seq(Token) /\ unread \in Seq(Token) /\ rest \in Seq(Token)
         /\ <<>> \in Seq(Token) /\ Stream = <<>> \o Stream' /\ LinesOf(<<>>) = {}
         /\ \A n \in LinesOf(buf) : n \notin excused => Both(n) \subseteq TokensOf(buf)
<1>1. /\ buf \in Seq(Token) /\ unread \in Seq(Token) /\ rest \in Seq(Token)
  BY DEF LineInv, StreamInv
<1>2. <<>> \in Seq(Token) /\ Stream' = Stream /\ Stream = <<>> \o Stream /\ LinesOf(<<>>) = {}
  <2>1. Stream \in Seq(Token)
    BY <1>1, StreamType
  <2> QED BY <2>1, ConcatEmptySeq DEF Stream, LinesOf
<1>3. \A n \in LinesOf(buf) : n \notin excused => Both(n) \subseteq TokensOf(buf)
  <2>1. \A n \in LinesOf(buf) : n \in 1..Len(sent)
    BY BufferInStep, LinesOfTokens DEF LineInv
  <2> QED BY <2>1 DEF LineInv, WholeInv
<1> QED BY <1>1, <1>2, <1>3

\* A step that leaves all of it alone.
LEMMA LineStays ==
  ASSUME LineInv, UNCHANGED <<sent, rest, unread, buf, excused, lineVars>>,
         buf # <<>> \/ hand # <<>> => child' = "running"
  PROVE  LineInv'
<1>1. /\ buf \in Seq(Token) /\ unread \in Seq(Token) /\ rest \in Seq(Token)
      /\ <<>> \in Seq(Token) /\ Stream = <<>> \o Stream' /\ LinesOf(<<>>) = {}
      /\ \A n \in LinesOf(buf) : n \notin excused => Both(n) \subseteq TokensOf(buf)
  BY NothingTaken
<1>2. UNCHANGED lineVars
  OBVIOUS
<1> QED BY <1>1, <1>2, LineDrops

\* The next event goes from hand to handled.
LEMMA LineHandles ==
  ASSUME LineInv, HandleEvent
  PROVE  LineInv'
<1>1. /\ handled' = Append(handled, Head(hand)) /\ hand' = Tail(hand) /\ hand # <<>>
      /\ child = "running" /\ child' = child
      /\ UNCHANGED <<sent, rest, unread, buf, excused, interrupted>>
  BY DEF HandleEvent, clientSide, mainVars
<1>2. /\ buf \in Seq(Token) /\ unread \in Seq(Token) /\ rest \in Seq(Token)
      /\ <<>> \in Seq(Token) /\ Stream = <<>> \o Stream' /\ LinesOf(<<>>) = {}
      /\ \A n \in LinesOf(buf) : n \notin excused => Both(n) \subseteq TokensOf(buf)
  BY <1>1, NothingTaken
<1>3. handled \in Seq(Event) /\ hand \in Seq(Event) /\ Done \in Seq(Event)
  BY DoneType DEF LineInv, HandledInv
<1>4. handled' \in Seq(Event) /\ hand' \in Seq(Event) /\ Head(hand) \in Event
  BY <1>1, <1>3
<1>5. Done' = Done
  <2>1. hand = <<Head(hand)>> \o Tail(hand) /\ handled' = handled \o <<Head(hand)>>
    BY <1>1, <1>3
  <2>2. <<Head(hand)>> \in Seq(Event)
    BY <1>4
  <2>3. (handled \o <<Head(hand)>>) \o Tail(hand) = handled \o (<<Head(hand)>> \o Tail(hand))
    BY <1>1, <1>3, <1>4, <2>2, ConcatAssociative
  <2> QED BY <1>1, <2>1, <2>3 DEF Done
<1>6. <<>> \in Seq(Event) /\ Done = Done' \o <<>>
  BY <1>3, <1>5, ConcatEmptySeq
<1>7. /\ excused \subseteq excused' /\ interrupted \subseteq interrupted' /\ sent' = sent
      /\ LinesOf(<<>>) \subseteq excused' \cap interrupted' /\ LinesOf(<<>>) \subseteq excused'
      /\ buf' \in Seq(Token) /\ unread' \in Seq(Token) /\ rest' \in Seq(Token)
      /\ (buf' # <<>> => child' = "running") /\ (hand' # <<>> => child' = "running")
      /\ \A n \in LinesOf(buf') : n \notin excused' => Both(n) \subseteq TokensOf(buf')
  BY <1>1, <1>2
<1> QED BY <1>2, <1>4, <1>6, <1>7, LineTakes

LEMMA BufferWhole ==
  ASSUME LineInv
  PROVE  /\ buf \in Seq(Token) /\ unread \in Seq(Token) /\ rest \in Seq(Token)
         /\ \A n \in LinesOf(buf) : n \notin excused => Both(n) \subseteq TokensOf(buf)
<1>1. \A n \in LinesOf(buf) : n \in 1..Len(sent)
  BY BufferInStep, LinesOfTokens DEF LineInv
<1> QED BY <1>1 DEF LineInv, StreamInv, WholeInv

LEMMA LineWrites ==
  ASSUME LineInv, NEW k \in DOMAIN rest, WritePiece(k)
  PROVE  LineInv'
<1>1. /\ buf \in Seq(Token) /\ unread \in Seq(Token) /\ rest \in Seq(Token)
      /\ \A n \in LinesOf(buf) : n \notin excused => Both(n) \subseteq TokensOf(buf)
  BY BufferWhole
<1> DEFINE a == SubSeq(rest, 1, k)
           b == SubSeq(rest, k + 1, Len(rest))
<1>2. unread' = unread \o a /\ rest' = b /\ sent' = sent /\ buf' = buf /\ UNCHANGED lineVars
      /\ excused' = excused /\ child' = child
  BY DEF WritePiece, mainVars
<1>3. a \in Seq(Token) /\ b \in Seq(Token) /\ a \o b = rest
  <2>1. k \in 0..Len(rest)
    BY <1>1
  <2> QED BY <1>1, <2>1, Split
<1> HIDE DEF a, b
<1>4. unread \o a \in Seq(Token) /\ (unread \o a) \o b = unread \o rest
  <2>1. (unread \o a) \o b = unread \o (a \o b)
    <3>1. unread \in Seq(Token) /\ a \in Seq(Token) /\ b \in Seq(Token)
      BY <1>1, <1>3
    <3> QED BY <3>1, Regroup
  <2> QED BY <1>1, <1>3, <2>1, Concat
<1>5. Stream' = Stream
  BY <1>2, <1>4 DEF Stream
<1>6. <<>> \in Seq(Token) /\ Stream = <<>> \o Stream /\ LinesOf(<<>>) = {}
  <2>1. Stream \in Seq(Token)
    BY <1>1, StreamType
  <2> QED BY <2>1, ConcatEmptySeq DEF LinesOf
<1>7. (buf' # <<>> => child' = "running") /\ (hand # <<>> => child' = "running")
  BY <1>2 DEF LineInv, StreamInv, HandledInv
<1>8. buf' \in Seq(Token) /\ unread' \in Seq(Token) /\ rest' \in Seq(Token)
  BY <1>1, <1>2, <1>3, <1>4
<1>9. /\ excused \subseteq excused' /\ LinesOf(<<>>) \subseteq excused' /\ Stream = <<>> \o Stream'
      /\ \A n \in LinesOf(buf') : n \notin excused' => Both(n) \subseteq TokensOf(buf')
  BY <1>1, <1>2, <1>5, <1>6
<1> QED BY <1>2, <1>6, <1>7, <1>8, <1>9, LineDrops

LEMMA LineReads ==
  ASSUME LineInv, Read
  PROVE  LineInv'
<1>1. /\ buf \in Seq(Token) /\ unread \in Seq(Token) /\ rest \in Seq(Token)
  BY BufferWhole
<1> DEFINE n == IF Len(unread) < BufSize THEN Len(unread) ELSE BufSize
           s == SubSeq(unread, 1, n)
           u == SubSeq(unread, n + 1, Len(unread))
<1>2. /\ buf = <<>> /\ hand = <<>> /\ child = "running" /\ child' = child /\ unread' = u
      /\ buf' = (IF TooMuch(n) THEN <<>> ELSE s)
      /\ excused' = excused \cup (IF TooMuch(n) THEN LinesOf(s) ELSE CutBy(s))
      /\ rest' = rest /\ sent' = sent /\ UNCHANGED lineVars
  BY DEF Read, Reading, Left, clientSide, mainVars
<1>3. n \in 0..Len(unread)
  BY <1>1, PipeAssumption
<1> HIDE DEF n
<1>4. s \in Seq(Token) /\ u \in Seq(Token) /\ s \o u = unread
  BY <1>1, <1>3, Split
<1> HIDE DEF s, u
<1>5. /\ <<>> \in Seq(Token) /\ LinesOf(<<>>) = {}
      /\ Stream = unread \o rest /\ u \o rest \in Seq(Token)
      /\ Stream = s \o (u \o rest) /\ <<>> \o (u \o rest) = u \o rest
      /\ Stream = <<>> \o Stream
  <2>1. u \o rest \in Seq(Token) /\ unread \o rest \in Seq(Token)
    BY <1>1, <1>4, Concat
  <2>2. (s \o u) \o rest = s \o (u \o rest)
    <3>1. rest \in Seq(Token) /\ s \in Seq(Token) /\ u \in Seq(Token)
      BY <1>1, <1>4
    <3> QED BY <3>1, Regroup
  <2>3. Stream = <<>> \o (unread \o rest)
    BY <1>2 DEF Stream
  <2>4. Stream = unread \o rest
    BY <2>1, <2>3, ConcatEmptySeq
  <2>5. /\ Stream = s \o (u \o rest) /\ <<>> \o (u \o rest) = u \o rest /\ Stream = <<>> \o Stream
    BY <1>4, <2>1, <2>2, <2>4, ConcatEmptySeq
  <2>6. <<>> \in Seq(Token) /\ LinesOf(<<>>) = {}
    BY DEF LinesOf
  <2> QED BY <2>1, <2>4, <2>5, <2>6
<1>6. buf' \in Seq(Token) /\ unread' \in Seq(Token) /\ rest' \in Seq(Token)
      /\ excused \subseteq excused' /\ (buf' # <<>> => child' = "running")
  BY <1>1, <1>2, <1>4, <1>5
<1>7. CASE TooMuch(n)
  <2>1. buf' = <<>> /\ excused' = excused \cup LinesOf(s)
    BY <1>2, <1>7
  <2>2. Stream' = u \o rest
    BY <1>2, <1>5, <2>1 DEF Stream
  <2>3. Stream = s \o Stream' /\ LinesOf(s) \subseteq excused' /\ LinesOf(buf') = {}
    BY <1>5, <2>1, <2>2
  <2> QED BY <1>2, <1>4, <1>6, <2>3, LineDrops
<1>8. CASE ~TooMuch(n)
  <2>1. buf' = s /\ excused' = excused \cup CutBy(s)
    BY <1>2, <1>8
  <2>2. Stream' = Stream
    BY <1>2, <1>5, <2>1 DEF Stream
  <2>3. \A m \in LinesOf(s) : m \notin CutBy(s) => Both(m) \subseteq TokensOf(s)
    BY DEF CutBy, Both, TokensOf
  <2>4. \A m \in LinesOf(buf') : m \notin excused' => Both(m) \subseteq TokensOf(buf')
    BY <2>1, <2>3
  <2>5. Stream = <<>> \o Stream' /\ LinesOf(<<>>) \subseteq excused'
    BY <1>5, <2>2
  <2> QED BY <1>2, <1>5, <1>6, <2>4, <2>5, LineDrops
<1> QED BY <1>7, <1>8

\* The child is gone, with its buffer and with what it had in hand.
LEMMA LineKilled ==
  ASSUME LineInv, NEW signal, Kill(signal), UNCHANGED <<sent, rest, unread, handled>>
  PROVE  LineInv'
<1>1. /\ buf \in Seq(Token) /\ unread \in Seq(Token) /\ rest \in Seq(Token)
  BY BufferWhole
<1>2. /\ buf' = <<>> /\ excused' = excused \cup LinesOf(buf) \cup LinesOf(hand)
      /\ hand' = <<>> /\ interrupted' = interrupted \cup LinesOf(hand)
  BY DEF Kill
<1>3. Stream' = unread \o rest /\ <<>> \in Seq(Token) /\ LinesOf(<<>>) = {}
  <2>1. unread \o rest \in Seq(Token)
    BY <1>1, Concat
  <2> QED BY <1>2, <2>1, ConcatEmptySeq DEF Stream, LinesOf
<1>4. Stream = buf \o Stream' /\ LinesOf(buf) \subseteq excused' /\ excused \subseteq excused'
  BY <1>2, <1>3 DEF Stream
<1>5. handled \in Seq(Event) /\ hand \in Seq(Event) /\ <<>> \in Seq(Event)
  BY DEF LineInv, HandledInv
<1>6. Done = Done' \o hand
  BY <1>2, <1>5, ConcatEmptySeq DEF Done
<1>7. /\ handled' \in Seq(Event) /\ hand' \in Seq(Event) /\ interrupted \subseteq interrupted'
      /\ LinesOf(hand) \subseteq excused' \cap interrupted'
      /\ LinesOf(buf') = {} /\ buf' \in Seq(Token) /\ unread' \in Seq(Token) /\ rest' \in Seq(Token)
  BY <1>1, <1>2, <1>3, <1>5
<1>8. \A n \in LinesOf(buf') : n \notin excused' => Both(n) \subseteq TokensOf(buf')
  BY <1>7
<1>9. (buf' # <<>> => child' = "running") /\ (hand' # <<>> => child' = "running")
  BY <1>2
<1> QED BY <1>1, <1>4, <1>5, <1>6, <1>7, <1>8, <1>9, LineTakes

\* The file is emptied when nothing of it is in the buffer.
LEMMA LineOpens ==
  ASSUME LineInv, Open
  PROVE  LineInv'
<1>1. /\ buf \in Seq(Token) /\ unread \in Seq(Token) /\ rest \in Seq(Token)
  BY BufferWhole
<1>2. /\ child = "starting" /\ buf' = buf /\ rest' = rest /\ sent' = sent /\ UNCHANGED lineVars
      /\ IF medium = "file"
         THEN unread' = <<>> /\ excused' = excused \cup LinesOf(unread)
         ELSE UNCHANGED <<unread, excused>>
  BY DEF Open, mainRest, clientSide
<1>3. buf = <<>> /\ hand = <<>>
  BY <1>2 DEF LineInv, StreamInv, HandledInv
<1>4. CASE medium # "file"
  BY <1>2, <1>3, <1>4, LineStays
<1>5. CASE medium = "file"
  <2>1. unread' = <<>> /\ excused' = excused \cup LinesOf(unread)
    BY <1>2, <1>5
  <2>2. <<>> \in Seq(Token) /\ LinesOf(<<>>) = {} /\ Stream = unread \o rest /\ Stream' = rest
    <3>1. unread \o rest \in Seq(Token)
      BY <1>1, Concat
    <3> QED BY <1>1, <1>2, <1>3, <2>1, <3>1, ConcatEmptySeq DEF Stream, LinesOf
  <2>3. /\ Stream = unread \o Stream' /\ LinesOf(unread) \subseteq excused'
        /\ excused \subseteq excused'
    BY <2>1, <2>2
  <2> QED BY <1>1, <1>2, <1>3, <2>1, <2>2, <2>3, LineDrops
<1> QED BY <1>4, <1>5

\* Behind the first line of the buffer come the rest of it, or other lines.
LEMMA Behind ==
  ASSUME StreamInv, buf # <<>>, NEW f \in Seq(Token), NEW t \in Seq(Token), Stream = f \o t
  PROVE  \A j \in 1..Len(t) :
           /\ t[j][1] \in 1..Len(sent) /\ t[j][2] \in 1..Newline(t[j][1])
           /\ buf[1][1] <= t[j][1]
           /\ t[j][1] = buf[1][1] => t[j][2] = buf[1][2] + (Len(f) + j - 1)
<1> TAKE j \in 1..Len(t)
<1>1. /\ Stream \in Seq(Token) /\ Len(Stream) = Len(f) + Len(t) /\ Len(f) \in Nat /\ Len(t) \in Nat
      /\ Stream[Len(f) + j] = t[j]
  BY Concat
<1>2. 1 \in 1..Len(Stream) /\ Len(f) + j \in 1..Len(Stream) /\ 1 <= Len(f) + j /\ j \in Nat
  BY <1>1
<1>3. Stream[1] = buf[1]
  <2>1. buf \in Seq(Token) /\ unread \o rest \in Seq(Token)
    BY StreamType DEF StreamInv
  <2>2. 1 \in 1..Len(buf)
    BY <2>1
  <2> QED BY <2>1, <2>2, Concat DEF Stream
<1>4. t[j] \in TokensOf(Stream)
  <2>1. DOMAIN Stream = 1..Len(Stream)
    BY <1>1
  <2>2. Stream[Len(f) + j] \in TokensOf(Stream)
    BY <1>2, <2>1 DEF TokensOf
  <2> QED BY <1>1, <2>2
<1>5. Stream[1][1] <= Stream[Len(f) + j][1]
      /\ (Stream[1][1] = Stream[Len(f) + j][1]
            => Stream[Len(f) + j][2] = Stream[1][2] + ((Len(f) + j) - 1))
  BY <1>2 DEF StreamInv, InStep
<1> QED BY <1>1, <1>3, <1>4, <1>5 DEF StreamInv

\* What the parser makes of the line at hand.
LEMMA LineMeans ==
  ASSUME StreamInv, buf # <<>>, NEW parser, Understood(parser)
  PROVE  /\ sent[buf[1][1]] \in Lines /\ sent[buf[1][1]].text # <<>>
         /\ Len(sent[buf[1][1]].text) \in Nat \ {0}
         /\ Newline(buf[1][1]) = Len(sent[buf[1][1]].text) + 1
         /\ IF buf[1][2] = 1 /\ LineEnd = Newline(buf[1][1])
            THEN parser[Line].types = sent[buf[1][1]].events
            ELSE parser[Line].types = <<>>
         /\ parser[Line].types \in Seq(Types)
<1> DEFINE l == sent[buf[1][1]]
           x == sent[buf[1][1]].text
           p == buf[1][2]
           e == LineEnd
<1>1. l \in Lines
  BY FirstLine DEF StreamInv
<1>2. x \in Seq(STRING) /\ x # <<>> /\ Len(x) \in Nat \ {0} /\ Newline(buf[1][1]) = Len(x) + 1
  <2>1. x \in Seq(STRING) /\ x # <<>>
    BY <1>1, LinesAssumption DEF Understood
  <2>2. Len(x) \in Nat \ {0}
    BY <2>1, EmptySeq
  <2> QED BY <2>1, <2>2 DEF Newline
<1>3. p \in 1..(Len(x) + 1) /\ p + e - 2 \in 0..Len(x) /\ Line = SubSeq(x, p, p + e - 2)
  BY LineIsPiece
<1>4. e \in Nat
  <2>1. Len(buf) \in Nat /\ LineEnd \in 1..(Len(buf) + 1)
    BY FirstNewline DEF StreamInv
  <2> QED BY <2>1
<1>7. l.events \in Seq(Types) /\ <<>> \in Seq(Types)
  BY <1>1, LinesAssumption
<1>5. CASE p = 1 /\ e = Newline(buf[1][1])
  <2>1. p + e - 2 = Len(x)
    BY <1>2, <1>4, <1>5
  <2>2. Line = x
    BY <1>2, <1>3, <1>5, <2>1, SubSeqFull
  <2>3. parser[Line].types = l.events
    BY <1>1, <2>2 DEF Understood
  <2> QED BY <1>1, <1>2, <1>5, <1>7, <2>3
<1>6. CASE ~ (p = 1 /\ e = Newline(buf[1][1]))
  <2>1. <<p, p + e - 2>> # <<1, Len(x)>>
    <3>1. p \in Nat /\ e \in Nat /\ Len(x) \in Nat /\ Newline(buf[1][1]) = Len(x) + 1
      BY <1>2, <1>3, <1>4
    <3>2. ~ (p = 1 /\ p + e - 2 = Len(x))
      BY <1>6, <3>1
    <3> QED BY <3>2
  <2>2. parser[SubSeq(x, p, p + e - 2)].types = <<>>
    BY <1>1, <1>3, <2>1 DEF Understood
  <2> QED BY <1>1, <1>2, <1>3, <1>6, <1>7, <2>2
<1> QED BY <1>5, <1>6, <1>7

\* A line that is all in the buffer is the first thing there, and ends at its newline.
LEMMA WholeLine ==
  ASSUME StreamInv, buf # <<>>, Both(buf[1][1]) \subseteq TokensOf(buf)
  PROVE  buf[1][2] = 1 /\ LineEnd = Newline(buf[1][1]) /\ LineEnd <= Len(buf)
<1> DEFINE n == buf[1][1]
           p == buf[1][2]
           e == LineEnd
<1>1. /\ buf \in Seq(Token) /\ Len(buf) \in Nat \ {0} /\ DOMAIN buf = 1..Len(buf) /\ InStep(buf)
  BY BufferInStep DEF StreamInv
<1>2. /\ e \in 1..(Len(buf) + 1)
      /\ e <= Len(buf) => buf[e][2] = Newline(buf[e][1])
      /\ \A j \in 1..(e - 1) : buf[j][2] # Newline(buf[j][1])
  BY <1>1, FirstNewline
<1>3. /\ n \in 1..Len(sent) /\ p \in 1..Newline(n)
      /\ \A i \in 1..Len(buf) : i <= e => buf[i] = <<n, p + (i - 1)>>
  BY FirstLine
<1>4. Newline(n) \in Nat /\ p \in Nat /\ p >= 1
  BY <1>3, NewlineType DEF StreamInv
<1>5. PICK i \in 1..Len(buf) : buf[i] = <<n, 1>>
  BY <1>1 DEF Both, TokensOf
<1>6. PICK j \in 1..Len(buf) : buf[j] = <<n, Newline(n)>>
  BY <1>1 DEF Both, TokensOf
<1>7. buf[i][2] = p + (i - 1) /\ buf[j][2] = p + (j - 1)
  <2>1. 1 \in 1..Len(buf) /\ 1 <= i /\ 1 <= j /\ buf[i][1] = n /\ buf[j][1] = n
    BY <1>1, <1>5, <1>6
  <2> QED BY <1>1, <2>1 DEF InStep
<1>8. p = 1 /\ j = Newline(n)
  <2>1. 1 = p + (i - 1) /\ Newline(n) = p + (j - 1) /\ i \in Nat /\ i >= 1 /\ j \in Nat
    BY <1>5, <1>6, <1>7
  <2> QED BY <1>4, <2>1
<1>9. e <= j
  <2>1. buf[j][2] = Newline(buf[j][1])
    BY <1>6
  <2>2. j \notin 1..(e - 1)
    BY <1>2, <2>1
  <2> QED BY <1>1, <1>2, <2>2
<1>10. e <= Len(buf) /\ e \in 1..Len(buf)
  BY <1>1, <1>2, <1>9
<1>11. buf[e] = <<n, p + (e - 1)>>
  BY <1>3, <1>10
<1>12. p + (e - 1) = Newline(n)
  BY <1>2, <1>10, <1>11
<1> QED BY <1>4, <1>8, <1>10, <1>12

LEMMA LineProcessed ==
  ASSUME LineInv, NEW parser, Understood(parser), ProcessLine(parser[Line])
  PROVE  LineInv'
<1> DEFINE n == buf[1][1]
           e == LineEnd
           types == parser[Line].types
<1>1. /\ buf # <<>> /\ child = "running" /\ buf' = OtherLines /\ sent' = sent /\ rest' = rest
      /\ unread' = unread /\ excused' = excused /\ child' = child
      /\ hand = <<>> /\ handled' = handled /\ interrupted' = interrupted
      /\ hand' = [k \in DOMAIN types |-> <<n, k, types[k]>>]
  BY DEF ProcessLine, Processing, clientSide, mainVars
<1>2. StreamInv /\ WholeInv /\ HandledInv
  BY DEF LineInv
<1>3. buf \in Seq(Token) /\ unread \in Seq(Token) /\ rest \in Seq(Token) /\ Len(buf) \in Nat \ {0}
  BY <1>1, <1>2 DEF StreamInv
<1>4. PICK f \in Seq(Token) :
        /\ OtherLines \in Seq(Token) /\ buf = f \o OtherLines /\ LinesOf(f) = {n}
        /\ Len(f) = IF e <= Len(buf) THEN e ELSE Len(buf)
  BY <1>1, <1>2, BufferCut
<1>5. Stream = f \o Stream' /\ Stream' \in Seq(Token)
  <2>1. unread \o rest \in Seq(Token)
    BY <1>3, Concat
  <2>2. (f \o OtherLines) \o (unread \o rest) = f \o (OtherLines \o (unread \o rest))
    BY <1>4, <2>1, Regroup
  <2>3. OtherLines \o (unread \o rest) \in Seq(Token)
    BY <1>4, <2>1, Concat
  <2>4. Stream = (f \o OtherLines) \o (unread \o rest)
    BY <1>4 DEF Stream
  <2>5. Stream' = OtherLines \o (unread \o rest)
    BY <1>1 DEF Stream
  <2> QED BY <2>2, <2>3, <2>4, <2>5
<1>6. StreamInv'
  <2>1. buf' # <<>> => child' = "running"
    BY <1>1
  <2> QED BY <1>1, <1>2, <1>3, <1>4, <1>5, <2>1, StreamDrops
<1>7. /\ n \in 1..Len(sent) /\ Newline(n) \in Nat /\ Newline(n) >= 2
      /\ e \in 1..(Len(buf) + 1) /\ sent[n] \in Lines
      /\ IF buf[1][2] = 1 /\ e = Newline(n) THEN types = sent[n].events ELSE types = <<>>
      /\ types \in Seq(Types)
  <2>1. n \in 1..Len(sent)
    BY <1>1, <1>2, FirstLine
  <2>2. e \in 1..(Len(buf) + 1)
    BY <1>3, FirstNewline
  <2>3. /\ Len(sent[n].text) \in Nat \ {0} /\ Newline(n) = Len(sent[n].text) + 1
        /\ sent[n] \in Lines
        /\ IF buf[1][2] = 1 /\ e = Newline(n) THEN types = sent[n].events ELSE types = <<>>
        /\ types \in Seq(Types)
    BY <1>1, <1>2, LineMeans
  <2>4. Newline(n) \in Nat /\ Newline(n) >= 2
    BY <2>3
  <2> QED BY <2>1, <2>2, <2>3, <2>4
<1>8. \A j \in 1..Len(Stream') :
        /\ Stream'[j][1] \in 1..Len(sent) /\ Stream'[j][2] \in 1..Newline(Stream'[j][1])
        /\ n <= Stream'[j][1]
        /\ Stream'[j][1] = n => Stream'[j][2] = buf[1][2] + (Len(f) + j - 1)
  BY <1>1, <1>2, <1>5, Behind
<1>9. /\ TokensOf(Stream) = TokensOf(f) \cup TokensOf(Stream')
      /\ LinesOf(Stream) = LinesOf(f) \cup LinesOf(Stream')
      /\ TokensOf(buf) = TokensOf(f) \cup TokensOf(OtherLines)
      /\ LinesOf(buf) = LinesOf(f) \cup LinesOf(OtherLines)
      /\ DOMAIN Stream' = 1..Len(Stream') /\ Len(Stream') \in Nat
      /\ LinesOf(OtherLines) \subseteq LinesOf(Stream')
  <2>1. /\ TokensOf(Stream) = TokensOf(f) \cup TokensOf(Stream')
        /\ LinesOf(Stream) = LinesOf(f) \cup LinesOf(Stream')
    BY <1>4, <1>5, Concat, LinesOfConcat
  <2>2. /\ TokensOf(buf) = TokensOf(f) \cup TokensOf(OtherLines)
        /\ LinesOf(buf) = LinesOf(f) \cup LinesOf(OtherLines)
    BY <1>4, Concat, LinesOfConcat
  <2>3. LinesOf(OtherLines) \subseteq LinesOf(Stream')
    <3>1. unread \o rest \in Seq(Token) /\ Stream' = OtherLines \o (unread \o rest)
      BY <1>1, <1>3, Concat DEF Stream
    <3> QED BY <1>4, <3>1, LinesOfConcat
  <2> QED BY <1>5, <2>1, <2>2, <2>3
<1> HIDE DEF n, e, types
<1>10. n \in Nat /\ types \in Seq(Types) /\ Len(types) \in Nat /\ DOMAIN types = 1..Len(types)
  <2>1. 1..Len(sent) \subseteq Nat
    BY <1>2 DEF StreamInv
  <2> QED BY <1>7, <2>1
<1>11. /\ hand' \in Seq(Event) /\ Len(hand') = Len(types)
       /\ \A k \in 1..Len(types) : hand'[k] = <<n, k, types[k]>>
       /\ TokensOf(hand') = {<<n, k, types[k]>> : k \in DOMAIN types}
  <2>1. hand' = [k \in 1..Len(types) |-> <<n, k, types[k]>>]
    BY <1>1, <1>10 DEF n, types
  <2>2. \A k \in 1..Len(types) : <<n, k, types[k]>> \in Event
    BY <1>10 DEF Event
  <2>3. hand' \in Seq(Event) /\ Len(hand') = Len(types) /\ DOMAIN hand' = DOMAIN types
    BY <1>10, <2>1, <2>2
  <2> QED BY <1>10, <2>1, <2>3 DEF TokensOf
<1>12. /\ handled \in Seq(Event) /\ Done = handled /\ Len(handled) \in Nat
       /\ Done' = handled \o hand' /\ TokensOf(Done') = TokensOf(Done) \cup TokensOf(hand')
       /\ Len(Done') = Len(handled) + Len(types)
       /\ \A i \in 1..Len(handled) : Done'[i] = handled[i]
       /\ \A k \in 1..Len(types) : Done'[Len(handled) + k] = <<n, k, types[k]>>
  <2>1. handled \in Seq(Event) /\ Done = handled
    BY <1>1, <1>2, ConcatEmptySeq DEF HandledInv, Done
  <2>2. Done' = handled \o hand'
    BY <1>1 DEF Done
  <2> QED BY <1>11, <2>1, <2>2, SeqConcat
<1>13. /\ \A m : (Newline(m))' = Newline(m) /\ (Both(m))' = Both(m) /\ (Known(m) => (Known(m))')
       /\ TokensOf(Done)' = TokensOf(Done') /\ TokensOf(Stream)' = TokensOf(Stream')
  <2>1. \A m : (Newline(m))' = Newline(m) /\ (Both(m))' = Both(m)
    BY <1>1 DEF Newline, Both
  <2>2. TokensOf(Done)' = TokensOf(Done') /\ TokensOf(Stream)' = TokensOf(Stream')
    BY DEF TokensOf
  <2>3. \A m : Known(m) => (Known(m))'
    BY <1>1, <1>12, <2>2 DEF Known
  <2> QED BY <2>1, <2>2, <2>3
<1>18. ASSUME NEW m, m = n, types = sent[n].events PROVE (Known(m))'
  <2>1. \A k \in DOMAIN types : <<n, k, types[k]>> \in TokensOf(Done')
    BY <1>11, <1>12
  <2>2. \A k \in DOMAIN types : <<n, k, types[k]>>[1] = n /\ <<n, k, types[k]>>[2] = k
    OBVIOUS
  <2>3. \A k \in DOMAIN types : \E x \in TokensOf(Done') : x[1] = m /\ x[2] = k
    BY <1>18, <2>1, <2>2
  <2> QED BY <1>1, <1>13, <1>18, <2>3 DEF Known
<1>14. ASSUME n \notin excused
       PROVE  n \notin LinesOf(Stream') /\ types = sent[n].events
  <2>1. Both(n) \subseteq TokensOf(buf)
    <3>1. n \in LinesOf(buf)
      BY <1>4, <1>9
    <3> QED BY <1>2, <1>7, <1>14, <3>1 DEF WholeInv
  <2>2. buf[1][2] = 1 /\ e = Newline(n) /\ e <= Len(buf)
    BY <1>1, <1>2, <2>1, WholeLine DEF n, e
  <2>3. Len(f) = e /\ types = sent[n].events
    BY <1>4, <1>7, <2>2
  <2>4. n \notin LinesOf(Stream')
    <3> SUFFICES ASSUME NEW j \in 1..Len(Stream'), Stream'[j][1] = n PROVE FALSE
      BY <1>9 DEF LinesOf
    <3>1. Stream'[j][2] = 1 + (e + j - 1) /\ Stream'[j][2] \in 1..Newline(n)
      BY <1>8, <2>2, <2>3
    <3>2. j \in Nat /\ j >= 1 /\ e \in Nat
      BY <1>7, <1>9, <2>2
    <3> QED BY <1>7, <2>2, <3>1, <3>2
  <2> QED BY <2>3, <2>4
<1>15. WholeInv'
  <2> SUFFICES ASSUME NEW m \in 1..Len(sent), m \notin excused
               PROVE  /\ m \in LinesOf(OtherLines) => Both(m) \subseteq TokensOf(OtherLines)
                      /\ m \in LinesOf(Stream') => Both(m) \subseteq TokensOf(Stream')
                      /\ m \in LinesOf(Stream') \/ (Known(m))'
    BY <1>1, <1>13 DEF WholeInv, LinesOf, TokensOf
  <2>1. CASE m = n
    <3>1. n \notin LinesOf(Stream') /\ n \notin LinesOf(OtherLines) /\ types = sent[n].events
      BY <1>9, <1>14, <2>1
    <3>2. (Known(m))'
      BY <1>18, <2>1, <3>1
    <3> QED BY <2>1, <3>1, <3>2
  <2>2. CASE m # n
    <3>1. m \notin LinesOf(f) /\ \A t \in Both(m) : t \notin TokensOf(f)
      <4>1. m \notin LinesOf(f)
        BY <1>4, <2>2 DEF n
      <4> QED BY <4>1, LinesOfTokens DEF Both
    <3>2. /\ m \in LinesOf(buf) => Both(m) \subseteq TokensOf(buf)
          /\ m \in LinesOf(Stream) => Both(m) \subseteq TokensOf(Stream)
          /\ m \in LinesOf(Stream) \/ Known(m)
      BY <1>2 DEF WholeInv
    <3>3. m \in LinesOf(Stream') \/ (Known(m))'
      BY <1>9, <1>13, <3>1, <3>2
    <3> QED BY <1>9, <3>1, <3>2, <3>3
  <2> QED BY <2>1, <2>2
<1>16. ASSUME types # <<>>
       PROVE  /\ buf[1][2] = 1 /\ e = Newline(n) /\ types = sent[n].events
              /\ \A x \in TokensOf(Done) : x[1] < n
              /\ \A t \in TokensOf(Stream') : t[1] > n \/ t = <<n, Newline(n)>>
  <2>1. buf[1][2] = 1 /\ e = Newline(n) /\ types = sent[n].events
    BY <1>7, <1>16
  <2>2. ASSUME NEW x \in TokensOf(Done) PROVE x[1] < n
    <3>1. buf[1] \in TokensOf(Stream)
      <4>1. 1 \in 1..Len(f)
        BY <1>3, <1>4, <1>7
      <4>2. buf[1] \in TokensOf(buf) /\ unread \o rest \in Seq(Token)
        BY <1>3, Concat DEF TokensOf
      <4> QED BY <1>3, <4>2, Concat DEF Stream
    <3>2. buf[1] = <<n, 1>>
      <4>1. buf[1] \in Token
        BY <1>3
      <4> QED BY <2>1, <4>1 DEF Token, n
    <3>3. n > x[1] \/ <<n, 1>> = <<x[1], Newline(x[1])>>
      <4>1. <<n, 1>> \in TokensOf(Stream) /\ <<n, 1>>[1] = n
        BY <3>1, <3>2
      <4> QED BY <1>2, <4>1 DEF HandledInv
    <3>4. <<n, 1>> # <<x[1], Newline(x[1])>>
      <4> SUFFICES ASSUME n = x[1], 1 = Newline(x[1]) PROVE FALSE
        OBVIOUS
      <4>1. Newline(n) = 1
        OBVIOUS
      <4> QED BY <1>7, <4>1
    <3>5. x[1] \in Nat /\ n \in Nat
      <4>1. 1..Len(sent) \subseteq Nat
        BY <1>2 DEF StreamInv
      <4>2. x[1] \in 1..Len(sent)
        BY <1>2 DEF HandledInv, Meant
      <4> QED BY <1>7, <4>1, <4>2
    <3> QED BY <3>3, <3>4, <3>5
  <2>3. ASSUME NEW j \in 1..Len(Stream')
        PROVE  Stream'[j][1] > n \/ Stream'[j] = <<n, Newline(n)>>
    <3>1. Stream'[j] \in Token /\ n \in Nat /\ j \in Nat /\ j >= 1 /\ e \in Nat
      BY <1>2, <1>5, <1>7, <1>9, <2>1 DEF StreamInv
    <3>2. Stream'[j][1] \in Nat /\ Stream'[j][2] \in Nat /\ Stream'[j] = <<Stream'[j][1], Stream'[j][2]>>
      BY <3>1 DEF Token
    <3>3. CASE Stream'[j][1] = n
      <4>1. Stream'[j][2] = 1 + (Len(f) + j - 1) /\ Stream'[j][2] \in 1..Newline(n)
        BY <1>8, <2>1, <3>3
      <4>2. Len(f) >= e - 1 /\ Len(f) \in Nat
        BY <1>3, <1>4, <1>7 DEF e
      <4>3. Stream'[j][2] = Newline(n)
        BY <1>7, <2>1, <3>1, <4>1, <4>2
      <4> QED BY <3>2, <3>3, <4>3
    <3>4. CASE Stream'[j][1] # n
      BY <1>8, <3>1, <3>2, <3>4 DEF n
    <3> QED BY <3>3, <3>4
  <2> QED BY <1>9, <2>1, <2>2, <2>3 DEF TokensOf
<1>17. HandledInv'
  <2>1. ASSUME NEW x \in TokensOf(Done')
        PROVE  /\ Meant(x) /\ (x[1] \notin interrupted => (Known(x[1]))')
               /\ \A t \in TokensOf(Stream') : t[1] > x[1] \/ t = <<x[1], Newline(x[1])>>
    <3>1. CASE x \in TokensOf(Done)
      <4>1. TokensOf(Stream') \subseteq TokensOf(Stream)
        BY <1>9
      <4>2. /\ Meant(x) /\ (x[1] \notin interrupted => Known(x[1]))
            /\ \A t \in TokensOf(Stream) : t[1] > x[1] \/ t = <<x[1], Newline(x[1])>>
        BY <1>2, <3>1 DEF HandledInv
      <4> QED BY <1>13, <4>1, <4>2
    <3>2. CASE x \in TokensOf(hand')
      <4>1. PICK k \in DOMAIN types : x = <<n, k, types[k]>>
        BY <1>11, <3>2
      <4>2. types # <<>> /\ x[1] = n /\ x[2] = k /\ x[3] = types[k]
        BY <1>10, <4>1
      <4>3. /\ types = sent[n].events
            /\ \A t \in TokensOf(Stream') : t[1] > n \/ t = <<n, Newline(n)>>
        BY <1>16, <4>2
      <4>4. Meant(x)
        BY <1>7, <4>1, <4>2, <4>3 DEF Meant
      <4> QED BY <1>18, <4>2, <4>3, <4>4
    <3> QED BY <1>12, <2>1, <3>1, <3>2
  <2>2. \A x : (Meant(x))' <=> Meant(x)
    BY <1>1 DEF Meant
  <2>3. ASSUME NEW i \in 1..(Len(handled) + Len(types))
        PROVE  IF Done'[i][2] = 1 THEN i = 1 \/ Done'[i - 1][1] < Done'[i][1]
               ELSE i > 1 /\ Done'[i - 1][1] = Done'[i][1] /\ Done'[i - 1][2] = Done'[i][2] - 1
    <3>1. CASE i <= Len(handled)
      <4>1. i \in 1..Len(handled) /\ (i > 1 => i - 1 \in 1..Len(handled)) /\ InOrder(handled)
        BY <1>2, <1>12, <3>1 DEF HandledInv
      <4>2. Done'[i] = handled[i] /\ (i > 1 => Done'[i - 1] = handled[i - 1])
        BY <1>12, <4>1
      <4> QED BY <4>1, <4>2 DEF InOrder
    <3>2. CASE i > Len(handled)
      <4>1. PICK k \in 1..Len(types) : i = Len(handled) + k
        <5>1. i - Len(handled) \in 1..Len(types) /\ i = Len(handled) + (i - Len(handled))
          BY <1>10, <1>12, <3>2
        <5> QED BY <5>1
      <4>2. Done'[i] = <<n, k, types[k]>>
        BY <1>12, <4>1
      <4>3. Done'[i][1] = n /\ Done'[i][2] = k
        BY <4>2
      <4>4. CASE k = 1
        <5>1. types # <<>>
          BY <1>10, <4>1
        <5>2. i = Len(handled) + 1 /\ i - 1 = Len(handled)
          BY <1>12, <4>1, <4>4
        <5>3. Len(handled) >= 1 => Done'[i - 1] \in TokensOf(Done)
          <6>1. Len(handled) >= 1 => /\ Len(handled) \in 1..Len(handled)
                                     /\ handled[Len(handled)] \in TokensOf(handled)
            BY <1>12 DEF TokensOf
          <6> QED BY <1>12, <5>2, <6>1
        <5>4. Len(handled) >= 1 => Done'[i - 1][1] < n
          BY <1>16, <5>1, <5>3
        <5> QED BY <1>12, <4>3, <4>4, <5>2, <5>4
      <4>5. CASE k # 1
        <5>1. k - 1 \in 1..Len(types) /\ i - 1 = Len(handled) + (k - 1) /\ i > 1
          BY <1>10, <1>12, <4>1, <4>5
        <5>2. Done'[i - 1] = <<n, k - 1, types[k - 1]>>
          BY <1>12, <5>1
        <5>3. Done'[i - 1][1] = n /\ Done'[i - 1][2] = k - 1
          BY <5>2
        <5> QED BY <4>3, <4>5, <5>1, <5>3
      <4> QED BY <4>4, <4>5
    <3> QED BY <1>12, <3>1, <3>2
  <2>4. InOrder(Done)'
    BY <1>12, <2>3 DEF InOrder
  <2>5. handled' \in Seq(Event) /\ hand' \in Seq(Event) /\ (hand' # <<>> => child' = "running")
    BY <1>1, <1>11, <1>12
  <2> QED BY <1>1, <1>13, <2>1, <2>2, <2>4, <2>5 DEF HandledInv
<1> QED BY <1>6, <1>15, <1>17 DEF LineInv

\* A new line.
LEMMA LineBegins ==
  ASSUME LineInv, NEW l \in Lines, Begin(l)
  PROVE  LineInv'
<1>1. StreamInv /\ WholeInv /\ HandledInv
  BY DEF LineInv
<1> DEFINE N == Len(sent) + 1
<1>2. /\ StreamInv' /\ Stream' = Stream \o rest'
      /\ TokensOf(rest') = {<<N, k>> : k \in 1..(Len(l.text) + 1)}
      /\ \A n \in 1..Len(sent) : sent'[n] = sent[n] /\ (Newline(n))' = Newline(n)
      /\ Len(sent'[N].text) + 1 = Len(l.text) + 1 /\ Len(sent') = N
  BY <1>1, StreamBegins DEF Newline
<1>3. /\ Stream \in Seq(Token) /\ rest' \in Seq(Token) /\ buf \in Seq(Token)
      /\ Len(sent) \in Nat /\ Len(l.text) \in Nat
  BY <1>1, <1>2, StreamType, LinesAssumption DEF StreamInv
<1>4. /\ buf' = buf /\ excused' = excused /\ UNCHANGED <<lineVars, child>>
      /\ Done' = Done /\ TokensOf(Done)' = TokensOf(Done)
  <2>1. buf' = buf /\ excused' = excused /\ UNCHANGED <<lineVars, child>>
    BY DEF Begin, inputVars, mainVars
  <2> QED BY <2>1 DEF lineVars, Done, TokensOf
<1>5. /\ TokensOf(Stream') = TokensOf(Stream) \cup TokensOf(rest')
      /\ LinesOf(Stream') = LinesOf(Stream) \cup LinesOf(rest')
  BY <1>2, <1>3, Concat, LinesOfConcat
<1>6. LinesOf(rest') = {N}
  <2>1. 1 \in 1..(Len(l.text) + 1)
    BY <1>3
  <2>2. LinesOf(rest') = {t[1] : t \in {<<N, k>> : k \in 1..(Len(l.text) + 1)}}
    BY <1>2, LinesOfTokens
  <2>3. <<N, 1>> \in {<<N, k>> : k \in 1..(Len(l.text) + 1)}
    BY <2>1
  <2> HIDE DEF N
  <2>4. \A t \in {<<N, k>> : k \in 1..(Len(l.text) + 1)} : t[1] = N
    OBVIOUS
  <2>5. <<N, 1>>[1] = N
    OBVIOUS
  <2> QED BY <2>2, <2>3, <2>4, <2>5, Zenon
<1>7. N \in Nat /\ N \notin 1..Len(sent) /\ \A m \in 1..N : m = N \/ m \in 1..Len(sent)
  <2>1. Len(sent) \in Nat
    BY <1>3
  <2> HIDE DEF N
  <2>2. N = Len(sent) + 1
    BY DEF N
  <2> QED BY <2>1, <2>2
<1> HIDE DEF N
<1>8. WholeInv'
  <2> SUFFICES ASSUME NEW m \in 1..N, m \notin excused
               PROVE  /\ m \in LinesOf(buf) => (Both(m))' \subseteq TokensOf(buf)
                      /\ m \in LinesOf(Stream') => (Both(m))' \subseteq TokensOf(Stream')
                      /\ m \in LinesOf(Stream') \/ (Known(m))'
    <3>1. 1..Len(sent') = 1..N
      BY <1>2
    <3> QED BY <3>1, <1>4 DEF WholeInv, LinesOf, TokensOf
  <2>1. CASE m = N
    <3>1. m \notin LinesOf(buf)
      <4>1. \A n \in LinesOf(buf) : n \in 1..Len(sent)
        BY <1>1, BufferInStep, LinesOfTokens
      <4> QED BY <1>7, <2>1, <4>1
    <3>2. (Both(m))' \subseteq TokensOf(rest')
      <4>1. 1 \in 1..(Len(l.text) + 1) /\ Len(l.text) + 1 \in 1..(Len(l.text) + 1)
        BY <1>3
      <4>2. (Both(m))' = {<<N, 1>>, <<N, Len(l.text) + 1>>}
        BY <1>2, <2>1 DEF Both, Newline
      <4> QED BY <1>2, <4>1, <4>2
    <3> QED BY <1>5, <1>6, <2>1, <3>1, <3>2
  <2>2. CASE m \in 1..Len(sent)
    <3>1. m # N
      BY <1>7, <2>2
    <3>2. (Both(m))' = Both(m) /\ (Known(m) => (Known(m))')
      BY <1>2, <1>4, <2>2 DEF Both, Known
    <3> QED BY <1>1, <1>5, <1>6, <2>2, <3>1, <3>2 DEF WholeInv
  <2> QED BY <1>7, <2>1, <2>2
<1>9. HandledInv'
  <2>1. ASSUME NEW x \in TokensOf(Done)
        PROVE  /\ (Meant(x))' /\ (x[1] \notin interrupted => (Known(x[1]))')
               /\ \A t \in TokensOf(Stream') : t[1] > x[1] \/ t = <<x[1], (Newline(x[1]))'>>
    <3>1. /\ Meant(x) /\ (x[1] \notin interrupted => Known(x[1]))
          /\ \A t \in TokensOf(Stream) : t[1] > x[1] \/ t = <<x[1], Newline(x[1])>>
      BY <1>1, <2>1 DEF HandledInv
    <3>2. x[1] \in 1..Len(sent) /\ x[1] \in 1..N /\ x[1] < N
      <4>1. x[1] \in 1..Len(sent)
        BY <3>1 DEF Meant
      <4> QED BY <1>3, <4>1 DEF N
    <3>3. sent'[x[1]] = sent[x[1]] /\ (Newline(x[1]))' = Newline(x[1])
      BY <1>2, <3>2 DEF Newline
    <3>4. (Meant(x))' /\ (Known(x[1]) => (Known(x[1]))')
      BY <1>2, <1>4, <3>1, <3>2, <3>3 DEF Meant, Known
    <3>5. \A t \in TokensOf(rest') : t[1] > x[1]
      <4>1. \A t \in TokensOf(rest') : t[1] = N
        BY <1>2
      <4> QED BY <1>7, <3>2, <4>1
    <3> QED BY <1>5, <3>1, <3>3, <3>4, <3>5
  <2>2. InOrder(Done)'
    BY <1>1, <1>4 DEF HandledInv, InOrder
  <2>3. TokensOf(Stream)' = TokensOf(Stream')
    BY DEF TokensOf
  <2>4. /\ handled' = handled /\ hand' = hand /\ interrupted' = interrupted /\ child' = child
        /\ handled \in Seq(Event) /\ hand \in Seq(Event) /\ (hand # <<>> => child = "running")
    BY <1>1, <1>4 DEF lineVars, HandledInv
  <2> QED BY <1>4, <2>1, <2>2, <2>3, <2>4 DEF HandledInv
<1> QED BY <1>2, <1>8, <1>9 DEF LineInv

--------------------------------------------------------------------------
(* Every step *)

LEMMA LineStep ==
  ASSUME ChildInv, LineInv, NEW parser, Understood(parser), [PipeNext(parser[Line])]_pipeVars
  PROVE  LineInv'
<1> USE DEF clientSide, inputVars, mainVars, mainRest
<1>0. buf # <<>> \/ hand # <<>> => child = "running"
  BY DEF LineInv, StreamInv, HandledInv
<1>1. CASE UNCHANGED pipeVars
  BY <1>0, <1>1, LineStays DEF pipeVars
<1>2. CASE ClientNext
  <2>1. CASE \E l \in Lines : Begin(l)
    <3>1. PICK l \in Lines : Begin(l)
      BY <2>1
    <3> QED BY <3>1, LineBegins
  <2>2. CASE \E k \in DOMAIN rest : WritePiece(k)
    <3>1. PICK k \in DOMAIN rest : WritePiece(k)
      BY <2>2
    <3> QED BY <3>1, LineWrites
  <2> QED BY <1>2, <2>1, <2>2 DEF ClientNext
<1>3. CASE Read
  BY <1>3, LineReads
<1>4. CASE ProcessLine(parser[Line])
  BY <1>4, LineProcessed
<1>5. CASE GoAstray(parser[Line]) \/ HandleEvent
  BY <1>5, LineKilled, LineHandles DEF GoAstray
<1>6. CASE Fork
  BY <1>0, <1>6, LineStays DEF Fork, ChildInv
<1>7. CASE ForkFails
  BY <1>0, <1>7, LineStays DEF ForkFails
<1>8. CASE Open
  BY <1>8, LineOpens
<1>9. CASE Watch \/ WatchFails
  BY <1>0, <1>9, LineStays DEF Watch, WatchFails
<1>10. CASE \E code \in Codes : Return(code)
  BY <1>0, <1>10, LineStays DEF Return, Reading
<1>11. CASE Killed
  BY <1>11, LineKilled DEF Killed
<1>12. CASE Wait
  BY <1>0, <1>12, LineStays DEF Wait
<1>13. CASE Over
  BY <1>13, <1>1 DEF Over
<1> QED
  BY <1>1, <1>2, <1>3, <1>4, <1>5, <1>6, <1>7, <1>8, <1>9, <1>10, <1>11, <1>12, <1>13
     DEF PipeNext, MainNext

LEMMA LineGivesProperties == LineInv => EventsInOrder /\ LostExplained
<1> SUFFICES ASSUME LineInv PROVE EventsInOrder /\ LostExplained
  OBVIOUS
<1>1. StreamInv /\ WholeInv /\ HandledInv
  BY DEF LineInv
<1>2. /\ DOMAIN handled = 1..Len(handled) /\ DOMAIN sent = 1..Len(sent) /\ InOrder(Done)
      /\ handled \in Seq(Event) /\ hand \in Seq(Event)
  BY <1>1 DEF HandledInv, StreamInv
<1>3. /\ TokensOf(Done) = TokensOf(handled) \cup TokensOf(hand) /\ InOrder(handled)
  BY <1>2, DoneType, InOrderStart DEF Done
<1>4. ASSUME NEW n, n \notin LinesOf(hand), Known(n), NEW k \in DOMAIN sent[n].events
      PROVE  Handles(n, k)
  <2>1. PICK e \in TokensOf(Done) : e[1] = n /\ e[2] = k
    BY <1>4 DEF Known
  <2>2. e \in TokensOf(handled)
    BY <1>3, <1>4, <2>1, LinesOfTokens
  <2> QED BY <2>1, <2>2 DEF Handles, TokensOf
<1>5. EventsInOrder
  <2> SUFFICES ASSUME NEW i \in 1..Len(handled)
               PROVE  LET n == handled[i][1]
                          k == handled[i][2]
                      IN  /\ k \in DOMAIN sent[n].events /\ handled[i][3] = sent[n].events[k]
                          /\ IF k = 1 THEN i = 1 \/ handled[i - 1][1] < n
                             ELSE i > 1 /\ handled[i - 1][1] = n /\ handled[i - 1][2] = k - 1
                          /\ \/ n \in LinesOf(hand) \cup interrupted
                             \/ \A other \in DOMAIN sent[n].events : Handles(n, other)
    BY <1>2 DEF EventsInOrder
  <2>1. handled[i] \in TokensOf(Done)
    BY <1>2, <1>3 DEF TokensOf
  <2>2. Meant(handled[i]) /\ (handled[i][1] \notin interrupted => Known(handled[i][1]))
    BY <1>1, <2>1 DEF HandledInv
  <2>3. handled[i][1] \in LinesOf(hand) \cup interrupted
          \/ \A other \in DOMAIN sent[handled[i][1]].events : Handles(handled[i][1], other)
    BY <1>4, <2>2
  <2> QED BY <1>3, <2>2, <2>3 DEF Meant, InOrder
<1>6. LostExplained
  <2>1. LinesOf(Stream) = LinesOf(buf) \cup LinesOf(unread) \cup LinesOf(rest)
    BY <1>1, StreamType DEF StreamInv
  <2> QED BY <1>1, <1>2, <1>4, <2>1 DEF WholeInv, LostExplained
<1> QED BY <1>5, <1>6

\* With a parser that makes of a line what the client means, and nothing of any other piece of
\* one: the events are handled one after the other in the order in which they were written,
\* each at most once, and of a line all of them unless a child died in the middle of it,
\* however the client's writes and the reads cut the lines (process_client_event() and
\* process_client_json() of source/Main.cpp).
THEOREM LinesInOrder ==
  ASSUME NEW parser, Understood(parser) PROVE PipeSpec(parser) => []EventsInOrder
<1>1. ChildInv /\ LineInv /\ [PipeNext(parser[Line])]_pipeVars => ChildInv' /\ LineInv'
  BY ChildStep, LineStep
<1> QED BY <1>1, ChildInit, LineInit, LineGivesProperties, PTL DEF PipeSpec

\* With the same parser: no event of a line gets lost on its way but by a read that cut the line
\* or filled the buffer, with a child that died or with a file that was emptied.
THEOREM LossIsExplained ==
  ASSUME NEW parser, Understood(parser) PROVE PipeSpec(parser) => []LostExplained
<1>1. ChildInv /\ LineInv /\ [PipeNext(parser[Line])]_pipeVars => ChildInv' /\ LineInv'
  BY ChildStep, LineStep
<1> QED BY <1>1, ChildInit, LineInit, LineGivesProperties, PTL DEF PipeSpec
--------------------------------------------------------------------------
(* Types and bounds *)

\* What the type invariants say and the invariants above do not: a buffer that is kept is not
\* full, and a child is forked only while there may be another one.
BoundInv ==
  /\ medium \in Media /\ modified \in BOOLEAN
  /\ Len(sent) <= MaxLines /\ Len(buf) < BufSize
  /\ excused \subseteq 1..Len(sent) /\ interrupted \subseteq excused
  /\ wstatus \in Ended /\ status \in Codes
  /\ Len(ends) <= MaxChildren
  /\ child \in {"starting", "watching", "running", "stuck"} => Len(ends) < MaxChildren

LEMMA BoundInit == PipeInit => BoundInv
<1> SUFFICES ASSUME PipeInit PROVE BoundInv
  OBVIOUS
<1>1. Len(<<>>) = 0 /\ 0 \in Codes
  BY PipeAssumption
<1>2. 256 * 0 \in Ended /\ 256 * 0 = 0
  BY <1>1 DEF Ended
<1>3. /\ medium \in Media /\ modified = FALSE /\ sent = <<>> /\ buf = <<>>
      /\ excused = {} /\ interrupted = {}
      /\ wstatus = 0 /\ status = 0 /\ ends = <<>> /\ child = "none"
  BY DEF PipeInit
<1>4. Len(sent) <= MaxLines /\ Len(buf) < BufSize /\ Len(ends) <= MaxChildren
  BY <1>1, <1>3, PipeAssumption
<1> QED BY <1>1, <1>2, <1>3, <1>4 DEF BoundInv

LEMMA LinesKnown ==
  ASSUME LineInv
  PROVE  /\ LinesOf(buf) \subseteq 1..Len(sent) /\ LinesOf(unread) \subseteq 1..Len(sent)
         /\ LinesOf(hand) \subseteq 1..Len(sent)
<1>1. buf \in Seq(Token) /\ unread \in Seq(Token) /\ rest \in Seq(Token)
  BY BufferWhole
<1>2. /\ TokensOf(buf) \cup TokensOf(unread) \subseteq TokensOf(Stream)
      /\ \A t \in TokensOf(Stream) : t[1] \in 1..Len(sent)
  BY <1>1, StreamType DEF LineInv, StreamInv
<1>3. TokensOf(hand) \subseteq TokensOf(Done) /\ \A x \in TokensOf(Done) : x[1] \in 1..Len(sent)
  BY DoneType DEF LineInv, HandledInv, Meant
<1> QED BY <1>2, <1>3, LinesOfTokens

LEMMA BoundRead == ASSUME LineInv, BoundInv, Read PROVE BoundInv'
<1> DEFINE n == IF Len(unread) < BufSize THEN Len(unread) ELSE BufSize
           s == SubSeq(unread, 1, n)
<1>1. /\ buf' = (IF TooMuch(n) THEN <<>> ELSE s)
      /\ excused' = excused \cup (IF TooMuch(n) THEN LinesOf(s) ELSE CutBy(s))
      /\ modified' = FALSE /\ UNCHANGED <<medium, sent, child, wstatus, status, ends, interrupted>>
  BY DEF Read, clientSide, mainVars, lineVars
<1>2. unread \in Seq(Token) /\ BufSize \in Nat \ {0}
  BY BufferWhole, PipeAssumption
<1>3. n \in 0..Len(unread) /\ n <= BufSize
  BY <1>2
<1>4. Len(s) = n /\ \A i \in DOMAIN s : s[i] = unread[i] /\ i \in DOMAIN unread
  <2> HIDE DEF n
  <2> QED BY <1>2, <1>3
<1>5. LinesOf(s) \subseteq 1..Len(sent) /\ CutBy(s) \subseteq LinesOf(s)
  <2> HIDE DEF s
  <2>1. LinesOf(s) \subseteq LinesOf(unread)
    BY <1>4 DEF LinesOf
  <2> QED BY <2>1, LinesKnown DEF CutBy
<1>6. Len(buf') < BufSize
  <2> HIDE DEF s, n
  <2>1. Len(<<>>) = 0
    OBVIOUS
  <2> QED BY <1>1, <1>2, <1>3, <1>4, <2>1 DEF TooMuch
<1> HIDE DEF s, n
<1> QED BY <1>1, <1>5, <1>6 DEF BoundInv

LEMMA BoundEnds ==
  ASSUME ChildInv, BoundInv, child \in {"starting", "watching", "running", "stuck"},
         child' = "ended", NEW w \in Ended, wstatus' = w, ends' = Append(ends, w),
         UNCHANGED <<medium, sent, modified, status>>,
         excused' \subseteq 1..Len(sent), interrupted' \subseteq excused', Len(buf') < BufSize
  PROVE  BoundInv'
<1>1. ends \in Seq(Ended) /\ Len(ends) < MaxChildren
  BY DEF ChildInv, BoundInv
<1>2. Len(ends') <= MaxChildren
  BY <1>1, PipeAssumption
<1> QED BY <1>2 DEF BoundInv

LEMMA BoundKilled ==
  ASSUME ChildInv, LineInv, BoundInv, child \in {"starting", "watching", "running", "stuck"},
         NEW signal \in {SIGKILL, SIGSEGV}, Kill(signal),
         UNCHANGED <<medium, sent, modified, status>>
  PROVE  BoundInv'
<1>1. signal \in Ended /\ Len(<<>>) = 0 /\ 0 < BufSize
  BY PipeAssumption DEF Ended
<1>2. excused' \subseteq 1..Len(sent) /\ interrupted' \subseteq excused' /\ buf' = <<>>
  BY LinesKnown DEF Kill, BoundInv
<1> QED BY <1>1, <1>2, BoundEnds DEF Kill

LEMMA BoundStep ==
  ASSUME ChildInv, LineInv, BoundInv, NEW result, [PipeNext(result)]_pipeVars
  PROVE  BoundInv'
<1> USE DEF clientSide, inputVars, lineVars, mainVars, mainRest
<1>1. CASE UNCHANGED pipeVars \/ Over
  BY <1>1 DEF Over, pipeVars, BoundInv
<1>2. CASE ClientNext
  <2>1. CASE \E l \in Lines : Begin(l)
    <3>1. PICK l \in Lines : Begin(l)
      BY <2>1
    <3>2. sent \in Seq(Lines) /\ sent' = Append(sent, l) /\ Len(sent) < MaxLines
          /\ UNCHANGED <<medium, inputVars, mainVars>>
      BY <3>1 DEF Begin, LineInv, StreamInv
    <3>3. Len(sent') = Len(sent) + 1 /\ Len(sent') <= MaxLines /\ 1..Len(sent) \subseteq 1..Len(sent')
      BY <3>2, PipeAssumption
    <3> QED BY <3>2, <3>3 DEF BoundInv
  <2>2. CASE \E k \in DOMAIN rest : WritePiece(k)
    BY <2>2 DEF WritePiece, BoundInv
  <2> QED BY <1>2, <2>1, <2>2 DEF ClientNext
<1>3. CASE Read
  BY <1>3, BoundRead
<1>4. CASE ProcessLine(result)
  <2>1. /\ buf' = SubSeq(buf, LineEnd + 1, Len(buf))
        /\ UNCHANGED <<medium, sent, modified, excused, interrupted, mainVars>>
    BY <1>4 DEF ProcessLine, OtherLines
  <2>2. buf \in Seq(Token) /\ LineEnd \in 1..(Len(buf) + 1)
    BY BufferWhole, FirstNewline
  <2>3. Len(buf') <= Len(buf) /\ Len(buf') \in Nat
    BY <2>1, <2>2
  <2>4. Len(buf') < BufSize
    BY <2>2, <2>3, PipeAssumption DEF BoundInv
  <2> QED BY <2>1, <2>4 DEF BoundInv
<1>5. CASE GoAstray(result)
  BY <1>5, BoundKilled DEF GoAstray, Processing
<1>6. CASE Fork \/ ForkFails \/ Watch \/ WatchFails \/ HandleEvent
  BY <1>6 DEF Fork, ForkFails, Watch, WatchFails, HandleEvent, BoundInv
<1>7. CASE Open
  <2>1. excused' \subseteq 1..Len(sent) /\ interrupted' \subseteq excused'
    BY <1>7, LinesKnown DEF Open, BoundInv
  <2> QED BY <1>7, <2>1 DEF Open, BoundInv
<1>8. CASE \E code \in Codes : Return(code)
  <2>1. PICK code \in Codes : Return(code)
    BY <1>8
  <2>2. 256 * code \in Ended
    BY DEF Ended
  <2>3. excused' \subseteq 1..Len(sent) /\ interrupted' \subseteq excused' /\ Len(buf') < BufSize
    BY <2>1 DEF Return, BoundInv
  <2>4. child \in {"starting", "watching", "running", "stuck"}
    BY <2>1 DEF Return, Reading
  <2> QED BY <2>1, <2>2, <2>3, <2>4, BoundEnds DEF Return
<1>9. CASE Killed
  BY <1>9, BoundKilled DEF Killed
<1>10. CASE Wait
  <2>1. wstatus \in Ended /\ status' = WEXITSTATUS(wstatus) /\ child' = "none"
        /\ UNCHANGED <<medium, sent, modified, excused, interrupted, buf, wstatus, ends>>
    BY <1>10 DEF Wait, BoundInv
  <2>2. status' \in Codes
    BY <2>1, ExitCodes, SignalCodes, PipeAssumption DEF Ended
  <2> QED BY <2>1, <2>2 DEF BoundInv
<1> QED BY <1>1, <1>2, <1>3, <1>4, <1>5, <1>6, <1>7, <1>8, <1>9, <1>10 DEF PipeNext, MainNext

\* The words of the runs are no longer than their bound.
LEMMA WordBound ==
  ASSUME WordInv, Len(word) <= MaxWord[family], [WordNext]_wordVars
  PROVE  Len(word') <= MaxWord[family']
<1>1. CASE WordNext
  <2>1. /\ Len(word) < MaxWord[family] /\ Len(word) \in Nat /\ family' = family
        /\ \E t \in Family[family] : word' = Append(word, t)
    BY <1>1, WordAssumption DEF WordNext, Continued, WordInv
  <2> QED BY <2>1, WordAssumption DEF WordInv
<1>2. CASE UNCHANGED wordVars
  BY <1>2 DEF wordVars
<1> QED BY <1>1, <1>2

--------------------------------------------------------------------------
(* The pipe with json_parse_n() and process_client_json(), and the words *)

\* What holds of either part, a step of the other leaves as it is.
ClientInv == ChildInv /\ LineInv /\ WordInv

LEMMA ClientInit == Init => ClientInv
BY ChildInit, LineInit, WordsBegin DEF Init, ClientInv

LEMMA ClientStep == ClientInv /\ [Next]_vars => ClientInv'
<1> SUFFICES ASSUME ClientInv, [Next]_vars PROVE ClientInv'
  OBVIOUS
<1>1. ChildInv /\ LineInv /\ WordInv
  BY DEF ClientInv
<1>2. [PipeNext(Parsed[Line])]_pipeVars /\ [WordNext]_wordVars
  BY DEF Next, vars, Result
<1>3. ChildInv' /\ LineInv'
  BY <1>1, <1>2, ChildStep, LineStep, LinesUnderstood
<1>4. WordInv'
  BY <1>1, <1>2, WordsStep
<1> QED BY <1>3, <1>4 DEF ClientInv

LEMMA ClientKeeps == Spec => []ClientInv
BY ClientInit, ClientStep, PTL DEF Spec

\* The events of the lines that this parser understands are handled in the order in which
\* clients wrote them, each at most once, and of a line all of them unless a child died in the
\* middle of it (process_client_event(), process_client_json()).
THEOREM ClientHandlesInOrder == Spec => []EventsInOrder
<1>1. ClientInv => EventsInOrder
  BY LineGivesProperties DEF ClientInv
<1> QED BY <1>1, ClientKeeps, PTL

\* And none of their events is lost but with a read that cut the line or filled the buffer, with
\* a child that died or with a file that was emptied.
THEOREM ClientLossExplained == Spec => []LostExplained
<1>1. ClientInv => LostExplained
  BY LineGivesProperties DEF ClientInv
<1> QED BY <1>1, ClientKeeps, PTL

\* Every child but the last one asked for a restart, whatever its clients have sent (main()).
THEOREM ClientRestarts == Spec => []OnlyResetRestarts
<1>1. ClientInv => OnlyResetRestarts
  BY ChildGivesProperty DEF ClientInv
<1> QED BY <1>1, ClientKeeps, PTL

\* In every state of the same specification the parser accepts the texts of the grammar, and
\* beyond them strings with control characters and some numbers; it keeps the order of
\* elements, and reads an escaped string as it was (json_parse_n(), json_value_get(),
\* json_write_escape_string()).
THEOREM ClientParses == Spec => [](AcceptsTexts /\ OrderKept /\ EscapeInverts)
<1>1. ClientInv => AcceptsTexts /\ OrderKept /\ EscapeInverts
  BY AllAccepted, OrderIsKept, EscapeComesBack DEF ClientInv
<1> QED BY <1>1, ClientKeeps, PTL

\* The variables keep their types and bounds; in particular no buffer that is processed is a
\* full one, and every token in pipe and buffer is of a line begun (process_client_event()).
THEOREM ClientTypes == Spec => []TypeOK
<1> DEFINE Bounded == ClientInv /\ BoundInv /\ Len(word) <= MaxWord[family]
<1>1. Init => Bounded
  <2>1. WordInit => Len(word) <= MaxWord[family]
    BY WordAssumption DEF WordInit
  <2> QED BY <2>1, ClientInit, BoundInit DEF Init
<1>2. Bounded /\ [Next]_vars => Bounded'
  <2> SUFFICES ASSUME Bounded, [Next]_vars PROVE Bounded'
    OBVIOUS
  <2>1. [PipeNext(Result)]_pipeVars /\ [WordNext]_wordVars
    BY DEF Next, vars
  <2>2. BoundInv' /\ Len(word') <= MaxWord[family']
    BY <2>1, BoundStep, WordBound DEF ClientInv
  <2> QED BY <2>2, ClientStep
<1>3. Bounded => TypeOK
  <2> SUFFICES ASSUME Bounded PROVE PipeType /\ WordType
    BY DEF TypeOK
  <2>1. /\ sent \in Seq(Lines) /\ buf \in Seq(Token) /\ unread \in Seq(Token) /\ rest \in Seq(Token)
        /\ DOMAIN sent = 1..Len(sent)
    BY DEF ClientInv, LineInv, StreamInv
  <2>2. \A q \in {rest, unread, buf} : q \in Seq(Nat \X Nat) /\ \A i \in DOMAIN q : q[i][1] \in DOMAIN sent
    <3>1. /\ TokensOf(buf) \cup TokensOf(unread) \cup TokensOf(rest) = TokensOf(Stream)
          /\ \A t \in TokensOf(Stream) : t[1] \in 1..Len(sent)
      BY <2>1, StreamType DEF ClientInv, LineInv, StreamInv
    <3>2. \A q : \A i \in DOMAIN q : q[i] \in TokensOf(q)
      BY DEF TokensOf
    <3> QED BY <2>1, <3>1, <3>2 DEF Token
  <2>3. \A q \in {hand, handled} : q \in Seq((DOMAIN sent) \X Nat \X Types)
    <3>1. /\ handled \in Seq(Event) /\ hand \in Seq(Event)
          /\ TokensOf(Done) = TokensOf(handled) \cup TokensOf(hand)
          /\ \A x \in TokensOf(Done) : x[1] \in DOMAIN sent
      BY <2>1, DoneType DEF ClientInv, LineInv, HandledInv, Meant
    <3>2. ASSUME NEW q \in Seq(Event), TokensOf(q) \subseteq TokensOf(Done)
          PROVE  q \in Seq((DOMAIN sent) \X Nat \X Types)
      <4>1. \A i \in 1..Len(q) : q[i] \in Event /\ q[i] \in TokensOf(q)
        BY DEF TokensOf
      <4>2. \A i \in 1..Len(q) : q[i] \in (DOMAIN sent) \X Nat \X Types
        BY <3>1, <3>2, <4>1 DEF Event
      <4> QED BY <4>2
    <3> QED BY <3>1, <3>2
  <2>4. PipeType
    BY <2>1, <2>2, <2>3 DEF ClientInv, ChildInv, BoundInv, PipeType, Ended
  <2> QED BY <2>4 DEF ClientInv, WordInv, WordType
<1>4. Spec => []Bounded
  BY <1>1, <1>2, PTL DEF Spec
<1> QED BY <1>3, <1>4, PTL
=============================================================================
