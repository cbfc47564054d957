------------------------- MODULE StreamRelayProofs -------------------------
(***************************************************************************)
(* Proofs about a streaming request, for any number of attempts, any       *)
(* capacity of the channels and any length of the answers: what the client *)
(* sees is one upstream's answer in its order, what is billed is the usage *)
(* of that answer, and an upstream that broke off is not passed off as     *)
(* complete.                                                               *)
(***************************************************************************)
EXTENDS StreamRelay, TLAPS

\* A run of the events of an attempt that follow its first n.
InOrder(s, n, a) == \A i \in 1..Len(s) : s[i].from = a /\ s[i].n = n + i

Busy(mode) == IF mode = "send" THEN 1 ELSE 0

\* How many events of the attempt are ahead of the hand of each goroutine, and of
\* what is in the channel it receives from.
BeforeOut == Len(seen) + Len(buf[Out])
PastOut == BeforeOut + Busy(run[Out])
BeforeMerged == PastOut + Len(buf[Merged])
PastMerged == BeforeMerged + Busy(run[Merged])
BeforePump == PastMerged + Len(buf[attempt])

Held(c, n) == run[c] = "send" => hand[c].from = attempt /\ hand[c].n = n + 1

\* From the client back to the upstream, every event has its place in the answer.
Pipelined ==
    router \in {"wait", "committed"} /\ handler = "busy" =>
        /\ InOrder(buf[Out], Len(seen), attempt) /\ Held(Out, BeforeOut)
        /\ InOrder(buf[Merged], PastOut, attempt) /\ Held(Merged, BeforeMerged)
        /\ InOrder(buf[attempt], PastMerged, attempt) /\ Held(attempt, BeforePump)
        /\ run[attempt] = "read" => lines[attempt] = BeforePump
        /\ run[attempt] = "send" /\ hand[attempt].kind # "err" => lines[attempt] = BeforePump + 1

\* Before the first event nothing has left the router; attempts not made have no pump.
Uncommitted ==
    /\ router # "committed" =>
          /\ seen = <<>>
          /\ \A c \in {Merged, Out} : run[c] = "off" /\ buf[c] = <<>>
    /\ router \in {"try", "wait"} => handler = "busy"
    /\ router \in {"wait", "committed"} => attempt \in Attempts
    /\ \A a \in Attempts : a > attempt => run[a] = "off" /\ buf[a] = <<>> /\ lines[a] = 0

IInv ==
    /\ TypeOK
    /\ Uncommitted
    /\ Pipelined
    /\ InOrder(seen, 0, attempt)

-----------------------------------------------------------------------------
(* Sequences of events.                                                    *)

LEMMA Appended ==
    ASSUME NEW s \in Seq(Event), NEW e \in Event
    PROVE  /\ Append(s, e) \in Seq(Event) /\ Len(Append(s, e)) = Len(s) + 1 /\ Len(s) \in Nat
           /\ Append(s, e) # <<>>
           /\ \A n, a \in Nat :
                 InOrder(s, n, a) /\ e.from = a /\ e.n = n + Len(s) + 1 => InOrder(Append(s, e), n, a)
  <1>1. /\ Append(s, e) \in Seq(Event) /\ Len(Append(s, e)) = Len(s) + 1 /\ Len(s) \in Nat
        /\ Append(s, e) # <<>>
        /\ \A i \in 1..Len(s) + 1 : Append(s, e)[i] = IF i = Len(s) + 1 THEN e ELSE s[i]
    OBVIOUS
  <1>2. ASSUME NEW n \in Nat, NEW a \in Nat, InOrder(s, n, a), e.from = a, e.n = n + Len(s) + 1
        PROVE  InOrder(Append(s, e), n, a)
    <2>1. ASSUME NEW i \in 1..Len(Append(s, e))
          PROVE  Append(s, e)[i].from = a /\ Append(s, e)[i].n = n + i
      <3>1. CASE i = Len(s) + 1
        BY <1>1, <1>2, <3>1
      <3>2. CASE i \in 1..Len(s)
        BY <1>1, <1>2, <3>2 DEF InOrder
      <3>3. i = Len(s) + 1 \/ i \in 1..Len(s)
        BY <1>1
      <3>4. QED BY <3>1, <3>2, <3>3
    <2>2. QED BY <2>1 DEF InOrder
  <1>3. QED BY <1>1, <1>2

LEMMA Taken ==
    ASSUME NEW s \in Seq(Event), s # <<>>
    PROVE  /\ Head(s) \in Event /\ Tail(s) \in Seq(Event)
           /\ Len(Tail(s)) = Len(s) - 1 /\ Len(s) \in Nat \ {0}
           /\ \A n, a \in Nat :
                 InOrder(s, n, a) =>
                    Head(s).from = a /\ Head(s).n = n + 1 /\ InOrder(Tail(s), n + 1, a)
  <1>1. /\ Head(s) \in Event /\ Tail(s) \in Seq(Event)
        /\ Len(Tail(s)) = Len(s) - 1 /\ Len(s) \in Nat \ {0}
        /\ Head(s) = s[1] /\ \A i \in 1..Len(s) - 1 : Tail(s)[i] = s[i + 1]
    OBVIOUS
  <1>2. ASSUME NEW n \in Nat, NEW a \in Nat, InOrder(s, n, a)
        PROVE  /\ Head(s).from = a /\ Head(s).n = n + 1
               /\ InOrder(Tail(s), n + 1, a)
    <2>1. 1 \in 1..Len(s) /\ \A i \in 1..Len(s) - 1 : i + 1 \in 1..Len(s)
      BY <1>1
    <2>2. QED BY <1>1, <1>2, <2>1 DEF InOrder
  <1>3. QED BY <1>1, <1>2

LEMMA Names ==
    /\ Merged \in Channels /\ Out \in Channels /\ Merged # Out
    /\ Merged \notin Attempts /\ Out \notin Attempts
    /\ \A a \in Attempts : a \in Channels /\ a \in Nat
    /\ Nothing \notin Event
  BY StreamAssumption DEF Merged, Out, Channels, Attempts, Nothing, Event

LEMMA InitIInv == Init => IInv
  <1> SUFFICES ASSUME Init PROVE IInv
    OBVIOUS
  <1> USE StreamAssumption DEF Init
  <1>1. TypeOK
    <2>1. /\ run \in [Channels -> Running] /\ hand \in [Channels -> Event \cup {Nothing}]
          /\ \A c \in Channels : IF run[c] = "send" THEN hand[c] \in Event ELSE hand[c] = Nothing
      BY DEF Running
    <2>2. buf \in [Channels -> Seq(Event)] /\ \A c \in Channels : Len(buf[c]) <= Cap
      BY DEF Init
    <2>3. attempt \in 0..MaxAttempts /\ lines \in [Attempts -> 0..MaxEvents]
      BY DEF Init
    <2>4. seen \in Seq(Event) /\ billed \in Event \cup {Nothing} /\ usage \in Event \cup {Nothing}
      BY DEF Init
    <2>5. /\ router \in Routing /\ cancelled \subseteq Attempts /\ gone \in BOOLEAN
          /\ handler \in {"busy"} \cup Endings
      BY DEF Routing
    <2> HIDE DEF Init
    <2>6. QED BY <2>1, <2>2, <2>3, <2>4, <2>5 DEF TypeOK
  <1>2. Uncommitted
    BY Names DEF Uncommitted
  <1>3. Pipelined
    BY DEF Pipelined
  <1>4. InOrder(seen, 0, attempt)
    BY DEF InOrder
  <1>5. QED BY <1>1, <1>2, <1>3, <1>4 DEF IInv

-----------------------------------------------------------------------------
(* Type correctness.                                                       *)

LEMMA TypeRead ==
    ASSUME TypeOK, NEW a \in Attempts, Line(a) \/ ReadError(a) \/ EndOfBody(a)
    PROVE  TypeOK'
  <1>1. lines[a] \in 0..MaxEvents
    BY DEF TypeOK
  <1>2. CASE Line(a)
    <2>1. PICK k \in {"data", "usage", "done"} : Read(a, [from |-> a, n |-> lines[a] + 1, kind |-> k])
      BY <1>2 DEF Line
    <2>2. [from |-> a, n |-> lines[a] + 1, kind |-> k] \in Event
      BY <1>1, StreamAssumption DEF Event, Kinds
    <2>3. lines' \in [Attempts -> 0..MaxEvents]
      BY <1>1, <1>2, StreamAssumption DEF Line, TypeOK
    <2>4. QED BY <2>1, <2>2, <2>3, Names DEF TypeOK, Read, client, Running
  <1>3. CASE ReadError(a)
    <2>1. [from |-> a, n |-> lines[a] + 1, kind |-> "err"] \in Event
      BY <1>1, StreamAssumption DEF Event, Kinds
    <2>2. QED BY <1>3, <2>1, Names DEF TypeOK, ReadError, Read, client, Running
  <1>4. CASE EndOfBody(a)
    BY <1>4, Names DEF TypeOK, EndOfBody, client, Running
  <1>5. QED BY <1>2, <1>3, <1>4

LEMMA TypeSend ==
    ASSUME TypeOK, NEW c \in Channels, Send(c)
    PROVE  TypeOK'
  <1>1. hand[c] \in Event /\ buf[c] \in Seq(Event) /\ Len(buf[c]) < Cap /\ Cap \in Nat
    BY StreamAssumption DEF TypeOK, Send
  <1>2. /\ buf' = [buf EXCEPT ![c] = Append(buf[c], hand[c])]
        /\ hand' = [hand EXCEPT ![c] = Nothing] /\ run' = [run EXCEPT ![c] = AfterSend(c)]
        /\ AfterSend(c) \in {"read", "gone"}
    BY DEF Send, AfterSend
  <1>3. Append(buf[c], hand[c]) \in Seq(Event) /\ Len(Append(buf[c], hand[c])) <= Cap
    BY <1>1, Appended
  <1>4. buf' \in [Channels -> Seq(Event)] /\ \A d \in Channels : Len(buf'[d]) <= Cap
    BY <1>2, <1>3 DEF TypeOK
  <1>5. /\ run' \in [Channels -> Running] /\ hand' \in [Channels -> Event \cup {Nothing}]
        /\ \A d \in Channels : IF run'[d] = "send" THEN hand'[d] \in Event ELSE hand'[d] = Nothing
    BY <1>2 DEF TypeOK, Running
  <1>6. QED BY <1>4, <1>5 DEF TypeOK, Send, client

\* An event is taken from a channel.
LEMMA TypeTake ==
    ASSUME TypeOK, NEW c \in Channels, buf[c] # <<>>, buf' = [buf EXCEPT ![c] = Tail(buf[c])]
    PROVE  /\ Head(buf[c]) \in Event
           /\ buf' \in [Channels -> Seq(Event)] /\ \A d \in Channels : Len(buf'[d]) <= Cap
  <1>1. buf[c] \in Seq(Event) /\ Len(buf[c]) <= Cap /\ Cap \in Nat
    BY StreamAssumption DEF TypeOK
  <1>2. /\ Head(buf[c]) \in Event /\ Tail(buf[c]) \in Seq(Event)
        /\ Len(Tail(buf[c])) <= Cap
    BY <1>1, Taken
  <1>3. QED BY <1>2 DEF TypeOK

LEMMA TypeRoute ==
    ASSUME TypeOK, Uncommitted, Route \/ FirstTokenTimeout
    PROVE  TypeOK'
  <1> USE Names, StreamAssumption DEF client, pipeline
  <1>1. CASE Open
    <2>1. attempt + 1 \in Attempts
      BY <1>1 DEF Open, TypeOK, Attempts
    <2>2. run[attempt + 1] = "off"
      <3>1. attempt + 1 > attempt
        BY DEF TypeOK
      <3>2. QED BY <2>1, <3>1 DEF Uncommitted
    <2>3. attempt' \in 0..MaxAttempts
      BY <1>1, <2>1 DEF Open, Attempts
    <2>4. /\ run' \in [Channels -> Running]
          /\ \A c \in Channels : IF run'[c] = "send" THEN hand[c] \in Event ELSE hand[c] = Nothing
      BY <1>1, <2>1, <2>2 DEF Open, TypeOK, Running
    <2>5. QED BY <1>1, <2>3, <2>4 DEF TypeOK, Open, Routing
  <1>2. CASE Refused
    BY <1>2 DEF TypeOK, Refused, Attempts
  <1>3. CASE Exhausted
    BY <1>3 DEF TypeOK, Exhausted, Routing, Endings
  <1>4. CASE FirstTokenTimeout \/ ClosedBeforeFirst
    BY <1>4 DEF TypeOK, FirstTokenTimeout, ClosedBeforeFirst, Abandon, Routing, Uncommitted
  <1>5. CASE FirstIsError
    <2>1. attempt \in Channels /\ attempt \in Attempts
      BY <1>5 DEF FirstIsError, Uncommitted
    <2>2. buf' \in [Channels -> Seq(Event)] /\ \A d \in Channels : Len(buf'[d]) <= Cap
      BY <1>5, <2>1, TypeTake DEF FirstIsError
    <2>3. QED BY <1>5, <2>1, <2>2 DEF TypeOK, FirstIsError, Abandon, Routing
  <1>6. CASE Commit
    <2>1. attempt \in Channels /\ attempt \in Attempts
      BY <1>6 DEF Commit, Uncommitted
    <2>2. /\ buf' \in [Channels -> Seq(Event)] /\ \A d \in Channels : Len(buf'[d]) <= Cap
          /\ Head(buf[attempt]) \in Event
      BY <1>6, <2>1, TypeTake DEF Commit
    <2>3. run[Out] # "send"
      BY <1>6 DEF Commit, Uncommitted
    <2>4. QED BY <1>6, <2>1, <2>2, <2>3 DEF TypeOK, Commit, Routing, Running
  <1>7. QED BY <1>1, <1>2, <1>3, <1>4, <1>5, <1>6 DEF Route

LEMMA TypeRelay ==
    ASSUME TypeOK, Uncommitted, NEW c \in {Merged, Out}, Receive(c) \/ End(c)
    PROVE  TypeOK'
  <1> USE Names DEF client
  <1>1. router = "committed" /\ attempt \in Attempts /\ Input(c) \in Channels
    BY DEF Receive, End, Uncommitted, Input
  <1>2. CASE Receive(c)
    <2>1. /\ buf' \in [Channels -> Seq(Event)] /\ \A d \in Channels : Len(buf'[d]) <= Cap
          /\ Head(buf[Input(c)]) \in Event
      BY <1>1, <1>2, TypeTake DEF Receive
    <2>2. usage' \in Event \cup {Nothing}
      BY <1>2, <2>1 DEF Receive, Captured, TypeOK
    <2>3. QED BY <1>2, <2>1, <2>2 DEF TypeOK, Receive, Running
  <1>3. CASE End(c)
    BY <1>1, <1>3 DEF TypeOK, End, Running
  <1>4. QED BY <1>2, <1>3

LEMMA TypeCopy ==
    ASSUME TypeOK, Copy \/ Disconnect
    PROVE  TypeOK'
  <1> USE Names DEF client, pipeline
  <1>1. ASSUME NEW how, how \in {"clean", "error", "pipe"}, Finish(how)
        PROVE  handler' \in {"busy"} \cup Endings /\ billed' \in Event \cup {Nothing}
    BY <1>1 DEF Finish, UsageAfter, TypeOK, Endings
  <1>2. CASE Write
    <2>1. /\ buf' \in [Channels -> Seq(Event)] /\ \A d \in Channels : Len(buf'[d]) <= Cap
          /\ Head(buf[Out]) \in Event
      BY <1>2, TypeTake DEF Write
    <2>2. seen' \in Seq(Event)
      BY <1>2, <2>1, Appended DEF Write, TypeOK
    <2>3. handler' \in {"busy"} \cup Endings /\ billed' \in Event \cup {Nothing}
      <3>1. Finish("error") \/ Finish("clean") \/ UNCHANGED <<handler, billed>>
        BY <1>2 DEF Write
      <3>2. QED BY <1>1, <3>1 DEF TypeOK
    <2>4. QED BY <1>2, <2>1, <2>2, <2>3 DEF TypeOK, Write
  <1>3. CASE WriteFails
    <2>1. buf' \in [Channels -> Seq(Event)] /\ \A d \in Channels : Len(buf'[d]) <= Cap
      BY <1>3, TypeTake DEF WriteFails
    <2>2. QED BY <1>1, <1>3, <2>1 DEF TypeOK, WriteFails
  <1>4. CASE ChannelClosed
    BY <1>1, <1>4 DEF TypeOK, ChannelClosed
  <1>5. CASE Disconnect
    BY <1>5 DEF TypeOK, Disconnect
  <1>6. QED BY <1>2, <1>3, <1>4, <1>5 DEF Copy

-----------------------------------------------------------------------------
(* Where the router stands.                                                *)

LEMMA UncommittedPump ==
    ASSUME TypeOK, Uncommitted, NEW a \in Attempts, Line(a) \/ ReadError(a) \/ EndOfBody(a)
    PROVE  Uncommitted'
  <1>1. run[a] = "read" /\ attempt \in Nat /\ a \in Nat /\ a \in Channels
    BY Names DEF Line, ReadError, EndOfBody, Read, TypeOK
  <1>2. ~(a > attempt)
    BY <1>1 DEF Uncommitted
  <1>3. /\ UNCHANGED <<router, attempt, buf, seen, handler>>
        /\ \A c \in Channels \ {a} : run'[c] = run[c]
        /\ \A b \in Attempts \ {a} : lines'[b] = lines[b]
    BY <1>1 DEF Line, ReadError, EndOfBody, Read, TypeOK, client
  <1>4. QED BY <1>2, <1>3, Names DEF Uncommitted

LEMMA UncommittedSend ==
    ASSUME TypeOK, Uncommitted, NEW c \in Channels, Send(c)
    PROVE  Uncommitted'
  <1>1. run[c] = "send" /\ attempt \in Nat
    BY DEF Send, TypeOK
  <1>2. c \in {Merged, Out} => router = "committed"
    BY <1>1 DEF Uncommitted
  <1>3. c \in Attempts => ~(c > attempt)
    BY <1>1 DEF Uncommitted
  <1>4. /\ UNCHANGED <<router, attempt, lines, seen, handler>>
        /\ \A d \in Channels \ {c} : run'[d] = run[d] /\ buf'[d] = buf[d]
    BY DEF Send, TypeOK, client
  <1>5. QED BY <1>2, <1>3, <1>4, Names DEF Uncommitted

LEMMA UncommittedRoute ==
    ASSUME TypeOK, Uncommitted, Route \/ FirstTokenTimeout
    PROVE  Uncommitted'
  <1>0. attempt \in Nat /\ run \in [Channels -> Running] /\ buf \in [Channels -> Seq(Event)]
    BY DEF TypeOK
  <1> USE <1>0, Names DEF client, pipeline
  <1>1. CASE Open
    <2>1. attempt + 1 \in Attempts /\ attempt' = attempt + 1 /\ \A a \in Attempts : a > attempt + 1 => a > attempt
      BY <1>1, StreamAssumption DEF Open, Attempts
    <2>2. /\ router' = "wait" /\ UNCHANGED <<buf, seen, lines, handler>>
          /\ \A c \in Channels \ {attempt + 1} : run'[c] = run[c]
      BY <1>1 DEF Open
    <2>3. router = "try"
      BY <1>1 DEF Open
    <2>4. QED BY <2>1, <2>2, <2>3 DEF Uncommitted
  <1>2. CASE Refused
    <2>1. \A a \in Attempts : a > attempt + 1 => a > attempt
      OBVIOUS
    <2>2. QED BY <1>2, <2>1 DEF Refused, Uncommitted
  <1>3. CASE Exhausted
    BY <1>3 DEF Exhausted, Uncommitted
  <1>4. CASE FirstTokenTimeout \/ ClosedBeforeFirst
    BY <1>4 DEF FirstTokenTimeout, ClosedBeforeFirst, Abandon, Uncommitted
  <1>5. CASE FirstIsError
    <2>1. router = "wait" /\ router' = "try" /\ attempt \in Attempts /\ attempt' = attempt
      BY <1>5 DEF FirstIsError, Abandon, Uncommitted
    <2>2. /\ \A c \in Channels \ {attempt} : buf'[c] = buf[c]
          /\ UNCHANGED <<run, seen, handler, lines>>
      BY <1>5 DEF FirstIsError, Abandon
    <2>3. /\ \A a \in Attempts : a > attempt => a \in Channels \ {attempt}
          /\ \A c \in {Merged, Out} : c \in Channels \ {attempt}
      BY <2>1
    <2>4. handler' = "busy" /\ seen' = <<>>
      BY <2>1, <2>2 DEF Uncommitted
    <2> HIDE <1>0
    <2>5. QED BY <2>1, <2>2, <2>3, <2>4 DEF Uncommitted
  <1>6. CASE Commit
    <2>1. router = "wait" /\ router' = "committed" /\ attempt \in Attempts /\ attempt' = attempt
      BY <1>6 DEF Commit, Uncommitted
    <2>2. /\ \A c \in Channels \ {attempt} : buf'[c] = buf[c]
          /\ \A c \in Channels \ {Merged, Out} : run'[c] = run[c]
          /\ lines' = lines
      BY <1>6 DEF Commit
    <2>3. QED BY <2>1, <2>2 DEF Uncommitted
  <1>7. QED BY <1>1, <1>2, <1>3, <1>4, <1>5, <1>6 DEF Route

LEMMA UncommittedRelay ==
    ASSUME TypeOK, Uncommitted, NEW c \in {Merged, Out}, Receive(c) \/ End(c)
    PROVE  Uncommitted'
  <1>1. router = "committed" /\ attempt \in Attempts /\ Input(c) \in {attempt, Merged}
    BY DEF Receive, End, Uncommitted, Input
  <1>2. /\ UNCHANGED <<router, attempt, lines>>
        /\ \A a \in Attempts \ {attempt} : run'[a] = run[a] /\ buf'[a] = buf[a]
    BY <1>1, Names DEF Receive, End, TypeOK
  <1>3. ~(attempt > attempt)
    BY <1>1, Names
  <1>4. QED BY <1>1, <1>2, <1>3 DEF Uncommitted

LEMMA UncommittedCopy ==
    ASSUME TypeOK, Uncommitted, Copy \/ Disconnect
    PROVE  Uncommitted'
  <1>1. CASE Copy
    <2>1. router = "committed"
      BY <1>1 DEF Copy, Write, WriteFails, ChannelClosed, Closed, Uncommitted
    <2>2. /\ UNCHANGED <<router, attempt, run, lines>>
          /\ \A a \in Attempts : buf'[a] = buf[a]
      BY <1>1, Names DEF Copy, Write, WriteFails, ChannelClosed, pipeline, TypeOK
    <2>3. QED BY <2>1, <2>2 DEF Uncommitted
  <1>2. CASE Disconnect
    BY <1>2 DEF Disconnect, Uncommitted, pipeline, client
  <1>3. QED BY <1>1, <1>2

-----------------------------------------------------------------------------
(* The places of the events in the pipeline.                               *)

LEMMA Offsets ==
    ASSUME TypeOK, attempt \in Attempts
    PROVE  /\ Len(seen) \in Nat /\ BeforeOut \in Nat /\ PastOut \in Nat /\ BeforeMerged \in Nat
           /\ PastMerged \in Nat /\ BeforePump \in Nat
           /\ \A c \in Channels : Busy(run[c]) \in Nat /\ Len(buf[c]) \in Nat /\ buf[c] \in Seq(Event)
           /\ attempt \in Nat
  <1>1. \A c \in Channels : Busy(run[c]) \in Nat /\ Len(buf[c]) \in Nat /\ buf[c] \in Seq(Event)
    BY DEF TypeOK, Busy
  <1>2. Len(seen) \in Nat
    BY DEF TypeOK
  <1>3. BeforeOut \in Nat
    BY <1>1, <1>2, Names DEF BeforeOut
  <1>4. PastOut \in Nat
    BY <1>1, <1>3, Names DEF PastOut
  <1>5. BeforeMerged \in Nat
    BY <1>1, <1>4, Names DEF BeforeMerged
  <1>6. PastMerged \in Nat
    BY <1>1, <1>5, Names DEF PastMerged
  <1>7. BeforePump \in Nat /\ attempt \in Nat
    BY <1>1, <1>6, Names DEF BeforePump
  <1>8. QED BY <1>1, <1>2, <1>3, <1>4, <1>5, <1>6, <1>7

\* An event that moves one place leaves the count up to there as it was.
LEMMA Moved == \A m, n \in Nat : (m + 1) + (n - 1) = m + n
  OBVIOUS

\* The places before and after a step, unfolded.
LEMMA Equations ==
    /\ BeforeOut = Len(seen) + Len(buf[Out]) /\ BeforeOut' = Len(seen') + Len(buf'[Out])
    /\ PastOut = BeforeOut + Busy(run[Out]) /\ PastOut' = BeforeOut' + Busy(run'[Out])
    /\ BeforeMerged = PastOut + Len(buf[Merged]) /\ BeforeMerged' = PastOut' + Len(buf'[Merged])
    /\ PastMerged = BeforeMerged + Busy(run[Merged]) /\ PastMerged' = BeforeMerged' + Busy(run'[Merged])
    /\ BeforePump = PastMerged + Len(buf[attempt]) /\ BeforePump' = PastMerged' + Len(buf'[attempt'])
  BY DEF BeforeOut, PastOut, BeforeMerged, PastMerged, BeforePump, Out, Merged

\* The pump numbers what it reads.
LEMMA PipelinedPump ==
    ASSUME TypeOK, Uncommitted, Pipelined, NEW a \in Attempts, Line(a) \/ ReadError(a) \/ EndOfBody(a)
    PROVE  Pipelined'
  <1> SUFFICES ASSUME (router \in {"wait", "committed"} /\ handler = "busy")'
               PROVE  /\ InOrder(buf[Out], Len(seen), attempt)' /\ Held(Out, BeforeOut)'
                      /\ InOrder(buf[Merged], PastOut, attempt)' /\ Held(Merged, BeforeMerged)'
                      /\ InOrder(buf[attempt], PastMerged, attempt)' /\ Held(attempt, BeforePump)'
                      /\ (run[attempt] = "read" => lines[attempt] = BeforePump)'
                      /\ (run[attempt] = "send" /\ hand[attempt].kind # "err"
                            => lines[attempt] = BeforePump + 1)'
    BY DEF Pipelined
  <1>1. /\ UNCHANGED <<router, attempt, buf, seen, handler>> /\ run[a] = "read" /\ run'[a] \in {"send", "gone"}
        /\ \A c \in Channels \ {a} : run'[c] = run[c] /\ hand'[c] = hand[c]
        /\ run'[a] = "send" => /\ hand'[a].from = a /\ hand'[a].n = lines[a] + 1
                               /\ hand'[a].kind # "err" => lines'[a] = lines[a] + 1
        /\ \A b \in Attempts \ {a} : lines'[b] = lines[b]
    BY Names DEF Line, ReadError, EndOfBody, Read, TypeOK, client
  <1>2. attempt \in Attempts /\ attempt \in Channels /\ attempt # Merged /\ attempt # Out /\ a # Merged /\ a # Out
    BY <1>1, Names DEF Uncommitted
  <1>3. /\ InOrder(buf[Out], Len(seen), attempt) /\ Held(Out, BeforeOut)
        /\ InOrder(buf[Merged], PastOut, attempt) /\ Held(Merged, BeforeMerged)
        /\ InOrder(buf[attempt], PastMerged, attempt) /\ Held(attempt, BeforePump)
        /\ run[attempt] = "read" => lines[attempt] = BeforePump
        /\ run[attempt] = "send" /\ hand[attempt].kind # "err" => lines[attempt] = BeforePump + 1
    BY <1>1 DEF Pipelined
  <1>4. Busy(run'[Out]) = Busy(run[Out]) /\ Busy(run'[Merged]) = Busy(run[Merged])
    BY <1>1, <1>2, Names DEF Busy
  <1>5. /\ BeforeOut' = BeforeOut /\ PastOut' = PastOut /\ BeforeMerged' = BeforeMerged
        /\ PastMerged' = PastMerged /\ BeforePump' = BeforePump
    BY <1>1, <1>4, Equations
  <1>6. /\ InOrder(buf[Out], Len(seen), attempt)' /\ InOrder(buf[Merged], PastOut, attempt)'
        /\ InOrder(buf[attempt], PastMerged, attempt)'
    BY <1>1, <1>3, <1>5 DEF InOrder
  <1>7. Held(Out, BeforeOut)' /\ Held(Merged, BeforeMerged)'
    BY <1>1, <1>2, <1>3, <1>5, Names DEF Held
  <1>8. /\ Held(attempt, BeforePump)' /\ (run[attempt] = "read" => lines[attempt] = BeforePump)'
        /\ (run[attempt] = "send" /\ hand[attempt].kind # "err" => lines[attempt] = BeforePump + 1)'
    BY <1>1, <1>2, <1>3, <1>5 DEF Held
  <1>9. QED BY <1>6, <1>7, <1>8

\* A hand is emptied into its channel: what is ahead of it grows by one, what is past
\* it stays.
LEMMA PipelinedSend ==
    ASSUME TypeOK, Uncommitted, Pipelined, NEW c \in Channels, Send(c)
    PROVE  Pipelined'
  <1> SUFFICES ASSUME (router \in {"wait", "committed"} /\ handler = "busy")'
               PROVE  /\ InOrder(buf[Out], Len(seen), attempt)' /\ Held(Out, BeforeOut)'
                      /\ InOrder(buf[Merged], PastOut, attempt)' /\ Held(Merged, BeforeMerged)'
                      /\ InOrder(buf[attempt], PastMerged, attempt)' /\ Held(attempt, BeforePump)'
                      /\ (run[attempt] = "read" => lines[attempt] = BeforePump)'
                      /\ (run[attempt] = "send" /\ hand[attempt].kind # "err"
                            => lines[attempt] = BeforePump + 1)'
    BY DEF Pipelined
  <1>1. /\ UNCHANGED <<router, attempt, lines, seen, handler>> /\ run[c] = "send" /\ run'[c] \in {"read", "gone"}
        /\ \A d \in Channels \ {c} : run'[d] = run[d] /\ hand'[d] = hand[d] /\ buf'[d] = buf[d]
        /\ buf'[c] = Append(buf[c], hand[c]) /\ hand[c] \in Event
        /\ c \in Attempts /\ run'[c] = "read" => hand[c].kind # "err"
    BY DEF Send, AfterSend, Final, TypeOK, client
  <1>2. attempt \in Attempts /\ attempt \in Channels /\ attempt # Merged /\ attempt # Out
    BY <1>1, Names DEF Uncommitted
  <1>3. /\ InOrder(buf[Out], Len(seen), attempt) /\ Held(Out, BeforeOut)
        /\ InOrder(buf[Merged], PastOut, attempt) /\ Held(Merged, BeforeMerged)
        /\ InOrder(buf[attempt], PastMerged, attempt) /\ Held(attempt, BeforePump)
        /\ run[attempt] = "read" => lines[attempt] = BeforePump
        /\ run[attempt] = "send" /\ hand[attempt].kind # "err" => lines[attempt] = BeforePump + 1
    BY <1>1 DEF Pipelined
  <1>4. /\ Busy(run[c]) = 1 /\ Busy(run'[c]) = 0 /\ Len(buf'[c]) = Len(buf[c]) + 1
        /\ \A d \in Channels \ {c} : Busy(run'[d]) = Busy(run[d]) /\ Len(buf'[d]) = Len(buf[d])
    BY <1>1, Offsets, <1>2, Appended DEF Busy
  <1>5. \A n \in Nat : InOrder(buf[c], n, attempt) /\ hand[c].from = attempt /\ hand[c].n = n + Len(buf[c]) + 1
                          => InOrder(buf'[c], n, attempt)
    <2>1. buf[c] \in Seq(Event) /\ attempt \in Nat
      BY <1>2, Offsets
    <2>2. QED BY <1>1, <2>1, Appended
  <1>6. CASE c = Out
    <2>1. /\ BeforeOut' = BeforeOut + 1 /\ PastOut' = PastOut /\ BeforeMerged' = BeforeMerged
          /\ PastMerged' = PastMerged /\ BeforePump' = BeforePump
      <3>1. attempt' = attempt /\ seen' = seen
        BY <1>1
      <3>2. /\ Busy(run[Out]) = 1 /\ Busy(run'[Out]) = 0 /\ Len(buf'[Out]) = Len(buf[Out]) + 1
            /\ Busy(run'[Merged]) = Busy(run[Merged]) /\ Len(buf'[Merged]) = Len(buf[Merged])
            /\ Busy(run'[attempt]) = Busy(run[attempt]) /\ Len(buf'[attempt]) = Len(buf[attempt])
        BY <1>2, <1>4, <1>6, Names
      <3>3. /\ Len(seen) \in Nat /\ Len(buf[Out]) \in Nat /\ Len(buf[Merged]) \in Nat /\ Len(buf[attempt]) \in Nat
            /\ Busy(run[Out]) \in Nat /\ Busy(run[Merged]) \in Nat
        BY <1>2, Names, Offsets
      <3>4. BeforeOut' = BeforeOut + 1 /\ PastOut' = PastOut
        BY <3>1, <3>2, <3>3, Equations
      <3>5. BeforeMerged' = BeforeMerged /\ PastMerged' = PastMerged
        BY <3>2, <3>4, Equations
      <3>6. QED BY <3>1, <3>2, <3>4, <3>5, Equations
    <2>2. InOrder(buf[Out], Len(seen), attempt)'
      BY <1>1, <1>2, <1>3, <1>5, <1>6, Offsets DEF Held, BeforeOut
    <2>3. InOrder(buf[Merged], PastOut, attempt)' /\ InOrder(buf[attempt], PastMerged, attempt)'
      <3>1. buf'[Merged] = buf[Merged] /\ buf'[attempt] = buf[attempt] /\ attempt' = attempt
        BY <1>1, <1>2, <1>6, Names
      <3>2. QED BY <1>3, <2>1, <3>1 DEF InOrder
    <2>4. Held(Out, BeforeOut)' /\ Held(Merged, BeforeMerged)' /\ Held(attempt, BeforePump)'
      BY <1>1, <1>2, <1>3, <1>6, <2>1, Names DEF Held
    <2>5. QED BY <1>1, <1>2, <1>3, <1>6, <2>1, <2>2, <2>3, <2>4
  <1>7. CASE c = Merged
    <2>1. /\ BeforeOut' = BeforeOut /\ PastOut' = PastOut /\ BeforeMerged' = BeforeMerged + 1
          /\ PastMerged' = PastMerged /\ BeforePump' = BeforePump
      <3>1. attempt' = attempt /\ seen' = seen
        BY <1>1
      <3>2. /\ Busy(run[Merged]) = 1 /\ Busy(run'[Merged]) = 0 /\ Len(buf'[Merged]) = Len(buf[Merged]) + 1
            /\ Busy(run'[Out]) = Busy(run[Out]) /\ Len(buf'[Out]) = Len(buf[Out])
            /\ Busy(run'[attempt]) = Busy(run[attempt]) /\ Len(buf'[attempt]) = Len(buf[attempt])
        BY <1>2, <1>4, <1>7, Names
      <3>3. PastOut \in Nat /\ Len(buf[Merged]) \in Nat
        BY <1>2, Names, Offsets
      <3>4. BeforeOut' = BeforeOut /\ PastOut' = PastOut
        BY <3>1, <3>2, Equations
      <3>5. BeforeMerged' = BeforeMerged + 1 /\ PastMerged' = PastMerged
        BY <3>2, <3>3, <3>4, Equations
      <3>6. QED BY <3>1, <3>2, <3>4, <3>5, Equations
    <2>2. InOrder(buf[Merged], PastOut, attempt)'
      BY <1>1, <1>2, <1>3, <1>5, <1>7, <2>1, Offsets DEF Held, BeforeMerged, InOrder
    <2>3. InOrder(buf[Out], Len(seen), attempt)' /\ InOrder(buf[attempt], PastMerged, attempt)'
      <3>1. buf'[Out] = buf[Out] /\ buf'[attempt] = buf[attempt] /\ attempt' = attempt /\ seen' = seen
        BY <1>1, <1>2, <1>7, Names
      <3>2. QED BY <1>3, <2>1, <3>1 DEF InOrder
    <2>4. Held(Out, BeforeOut)' /\ Held(Merged, BeforeMerged)' /\ Held(attempt, BeforePump)'
      BY <1>1, <1>2, <1>3, <1>7, <2>1, Names DEF Held
    <2>5. QED BY <1>1, <1>2, <1>3, <1>7, <2>1, <2>2, <2>3, <2>4
  <1>8. CASE c = attempt
    <2>1. /\ BeforeOut' = BeforeOut /\ PastOut' = PastOut /\ BeforeMerged' = BeforeMerged
          /\ PastMerged' = PastMerged /\ BeforePump' = BeforePump + 1
      <3>1. attempt' = attempt /\ seen' = seen
        BY <1>1
      <3>2. /\ Busy(run[attempt]) = 1 /\ Busy(run'[attempt]) = 0 /\ Len(buf'[attempt]) = Len(buf[attempt]) + 1
            /\ Busy(run'[Out]) = Busy(run[Out]) /\ Len(buf'[Out]) = Len(buf[Out])
            /\ Busy(run'[Merged]) = Busy(run[Merged]) /\ Len(buf'[Merged]) = Len(buf[Merged])
        BY <1>2, <1>4, <1>8, Names
      <3>3. PastMerged \in Nat /\ Len(buf[attempt]) \in Nat
        BY <1>2, Names, Offsets
      <3>4. BeforeOut' = BeforeOut /\ PastOut' = PastOut
        BY <3>1, <3>2, Equations
      <3>5. BeforeMerged' = BeforeMerged /\ PastMerged' = PastMerged
        BY <3>2, <3>4, Equations
      <3>6. BeforePump' = BeforePump + 1
        BY <3>1, <3>2, <3>3, <3>5, Equations
      <3>7. QED BY <3>4, <3>5, <3>6
    <2>2. InOrder(buf[attempt], PastMerged, attempt)'
      BY <1>1, <1>2, <1>3, <1>5, <1>8, <2>1, Offsets DEF Held, BeforePump, InOrder
    <2>3. InOrder(buf[Out], Len(seen), attempt)' /\ InOrder(buf[Merged], PastOut, attempt)'
      <3>1. buf'[Out] = buf[Out] /\ buf'[Merged] = buf[Merged] /\ attempt' = attempt /\ seen' = seen
        BY <1>1, <1>2, <1>8, Names
      <3>2. QED BY <1>3, <2>1, <3>1 DEF InOrder
    <2>4. Held(Out, BeforeOut)' /\ Held(Merged, BeforeMerged)' /\ Held(attempt, BeforePump)'
      BY <1>1, <1>2, <1>3, <1>8, <2>1, Names DEF Held
    <2>5. QED BY <1>1, <1>2, <1>3, <1>8, <2>1, <2>2, <2>3, <2>4
  <1>9. CASE c \notin {Out, Merged, attempt}
    <2>1. /\ BeforeOut' = BeforeOut /\ PastOut' = PastOut /\ BeforeMerged' = BeforeMerged
          /\ PastMerged' = PastMerged /\ BeforePump' = BeforePump
      <3>1. attempt' = attempt /\ seen' = seen
        BY <1>1
      <3>2. /\ Busy(run'[Out]) = Busy(run[Out]) /\ Len(buf'[Out]) = Len(buf[Out])
            /\ Busy(run'[Merged]) = Busy(run[Merged]) /\ Len(buf'[Merged]) = Len(buf[Merged])
            /\ Len(buf'[attempt]) = Len(buf[attempt])
        BY <1>2, <1>4, <1>9, Names
      <3>3. QED BY <3>1, <3>2, Equations
    <2>2. /\ InOrder(buf[Out], Len(seen), attempt)' /\ InOrder(buf[Merged], PastOut, attempt)'
          /\ InOrder(buf[attempt], PastMerged, attempt)'
      <3>1. /\ buf'[Out] = buf[Out] /\ buf'[Merged] = buf[Merged] /\ buf'[attempt] = buf[attempt]
            /\ attempt' = attempt /\ seen' = seen
        BY <1>1, <1>2, <1>9, Names
      <3>2. QED BY <1>3, <2>1, <3>1 DEF InOrder
    <2>3. Held(Out, BeforeOut)' /\ Held(Merged, BeforeMerged)' /\ Held(attempt, BeforePump)'
      BY <1>1, <1>2, <1>3, <1>9, <2>1, Names DEF Held
    <2>4. QED BY <1>1, <1>2, <1>3, <1>9, <2>1, <2>2, <2>3
  <1>10. QED BY <1>6, <1>7, <1>8, <1>9

\* A new attempt starts an empty pipeline.
LEMMA PipelinedOpen ==
    ASSUME TypeOK, Uncommitted, Open
    PROVE  Pipelined'
  <1> SUFFICES ASSUME (router \in {"wait", "committed"} /\ handler = "busy")'
               PROVE  /\ InOrder(buf[Out], Len(seen), attempt)' /\ Held(Out, BeforeOut)'
                      /\ InOrder(buf[Merged], PastOut, attempt)' /\ Held(Merged, BeforeMerged)'
                      /\ InOrder(buf[attempt], PastMerged, attempt)' /\ Held(attempt, BeforePump)'
                      /\ (run[attempt] = "read" => lines[attempt] = BeforePump)'
                      /\ (run[attempt] = "send" /\ hand[attempt].kind # "err"
                            => lines[attempt] = BeforePump + 1)'
    BY DEF Pipelined
  <1>1. attempt' \in Attempts /\ attempt' > attempt /\ attempt' \notin {Out, Merged} /\ attempt' \in Channels
    <2>1. attempt \in Nat /\ attempt' = attempt + 1 /\ attempt < MaxAttempts
      BY DEF Open, TypeOK
    <2>2. attempt' \in Attempts
      BY <2>1, StreamAssumption DEF Attempts
    <2>3. QED BY <2>1, <2>2, Names
  <1>2. /\ run[attempt'] = "off" /\ buf[attempt'] = <<>> /\ lines[attempt'] = 0
        /\ seen = <<>> /\ run[Out] = "off" /\ run[Merged] = "off" /\ buf[Out] = <<>> /\ buf[Merged] = <<>>
    BY <1>1 DEF Open, Uncommitted
  <1>3. /\ UNCHANGED <<buf, lines, seen>>
        /\ run'[attempt'] = "read" /\ run'[Out] = "off" /\ run'[Merged] = "off"
    BY <1>1, <1>2, Names DEF Open, client, TypeOK
  <1>4. /\ Len(seen') = 0 /\ Len(buf'[Out]) = 0 /\ Len(buf'[Merged]) = 0 /\ Len(buf'[attempt']) = 0
        /\ Busy(run'[Out]) = 0 /\ Busy(run'[Merged]) = 0
    BY <1>2, <1>3 DEF Busy
  <1>5. BeforePump' = 0
    BY <1>4, Equations
  <1>6. InOrder(buf[Out], Len(seen), attempt)' /\ InOrder(buf[Merged], PastOut, attempt)'
        /\ InOrder(buf[attempt], PastMerged, attempt)'
    BY <1>4 DEF InOrder
  <1>7. Held(Out, BeforeOut)' /\ Held(Merged, BeforeMerged)' /\ Held(attempt, BeforePump)'
    BY <1>3 DEF Held
  <1>8. QED BY <1>2, <1>3, <1>5, <1>6, <1>7

\* The first event goes to the hand of the new merge and keeps its place.
LEMMA PipelinedCommit ==
    ASSUME TypeOK, Uncommitted, Pipelined, Commit
    PROVE  Pipelined'
  <1> SUFFICES ASSUME (router \in {"wait", "committed"} /\ handler = "busy")'
               PROVE  /\ InOrder(buf[Out], Len(seen), attempt)' /\ Held(Out, BeforeOut)'
                      /\ InOrder(buf[Merged], PastOut, attempt)' /\ Held(Merged, BeforeMerged)'
                      /\ InOrder(buf[attempt], PastMerged, attempt)' /\ Held(attempt, BeforePump)'
                      /\ (run[attempt] = "read" => lines[attempt] = BeforePump)'
                      /\ (run[attempt] = "send" /\ hand[attempt].kind # "err"
                            => lines[attempt] = BeforePump + 1)'
    BY DEF Pipelined
  <1>1. /\ attempt \in Attempts /\ attempt \in Channels /\ attempt # Merged /\ attempt # Out /\ attempt' = attempt
        /\ router = "wait" /\ handler = "busy"
        /\ seen = <<>> /\ run[Out] = "off" /\ run[Merged] = "off" /\ buf[Out] = <<>> /\ buf[Merged] = <<>>
    BY Names DEF Commit, Uncommitted
  <1>2. /\ InOrder(buf[Out], Len(seen), attempt) /\ Held(Out, BeforeOut)
        /\ InOrder(buf[Merged], PastOut, attempt) /\ Held(Merged, BeforeMerged)
        /\ InOrder(buf[attempt], PastMerged, attempt) /\ Held(attempt, BeforePump)
        /\ run[attempt] = "read" => lines[attempt] = BeforePump
        /\ run[attempt] = "send" /\ hand[attempt].kind # "err" => lines[attempt] = BeforePump + 1
    BY <1>1 DEF Pipelined
  <1>3. /\ UNCHANGED <<lines, seen>> /\ buf[attempt] # <<>>
        /\ buf'[attempt] = Tail(buf[attempt]) /\ buf'[Out] = buf[Out] /\ buf'[Merged] = buf[Merged]
        /\ hand'[Merged] = Head(buf[attempt]) /\ hand'[attempt] = hand[attempt]
        /\ run'[Merged] = "send" /\ run'[Out] = "read" /\ run'[attempt] = run[attempt]
    BY <1>1, Names DEF Commit, client, TypeOK
  <1>4. /\ Len(buf'[attempt]) = Len(buf[attempt]) - 1 /\ Len(buf[attempt]) \in Nat
        /\ \A n \in Nat : InOrder(buf[attempt], n, attempt) =>
              /\ Head(buf[attempt]).from = attempt /\ Head(buf[attempt]).n = n + 1
              /\ InOrder(Tail(buf[attempt]), n + 1, attempt)
    <2>1. buf[attempt] \in Seq(Event) /\ attempt \in Nat
      BY <1>1, Offsets
    <2>2. QED BY <1>3, <2>1, Taken
  <1>5. /\ Len(seen) = 0 /\ Len(buf[Out]) = 0 /\ Len(buf[Merged]) = 0 /\ Busy(run[Out]) = 0 /\ Busy(run[Merged]) = 0
        /\ Len(seen') = 0 /\ Len(buf'[Out]) = 0 /\ Len(buf'[Merged]) = 0
        /\ Busy(run'[Out]) = 0 /\ Busy(run'[Merged]) = 1
    BY <1>1, <1>3 DEF Busy
  <1>6. /\ PastMerged = 0 /\ BeforeMerged' = 0 /\ PastMerged' = 1 /\ BeforePump = Len(buf[attempt])
    BY <1>4, <1>5, Equations
  <1>7. BeforePump' = BeforePump
    BY <1>1, <1>4, <1>6, Equations
  <1>8. InOrder(buf'[attempt], 1, attempt) /\ hand'[Merged].from = attempt /\ hand'[Merged].n = 1
    BY <1>2, <1>3, <1>4, <1>6
  <1>9. InOrder(buf[Out], Len(seen), attempt)' /\ InOrder(buf[Merged], PastOut, attempt)'
    BY <1>5 DEF InOrder
  <1>10. InOrder(buf[attempt], PastMerged, attempt)'
    BY <1>1, <1>6, <1>8
  <1>11. Held(Out, BeforeOut)' /\ Held(Merged, BeforeMerged)' /\ Held(attempt, BeforePump)'
    BY <1>1, <1>2, <1>3, <1>6, <1>7, <1>8 DEF Held
  <1>12. QED BY <1>1, <1>2, <1>3, <1>7, <1>9, <1>10, <1>11

\* A goroutine takes the next event into its hand.
LEMMA PipelinedReceive ==
    ASSUME TypeOK, Uncommitted, Pipelined, NEW c \in {Merged, Out}, Receive(c)
    PROVE  Pipelined'
  <1> SUFFICES ASSUME (router \in {"wait", "committed"} /\ handler = "busy")'
               PROVE  /\ InOrder(buf[Out], Len(seen), attempt)' /\ Held(Out, BeforeOut)'
                      /\ InOrder(buf[Merged], PastOut, attempt)' /\ Held(Merged, BeforeMerged)'
                      /\ InOrder(buf[attempt], PastMerged, attempt)' /\ Held(attempt, BeforePump)'
                      /\ (run[attempt] = "read" => lines[attempt] = BeforePump)'
                      /\ (run[attempt] = "send" /\ hand[attempt].kind # "err"
                            => lines[attempt] = BeforePump + 1)'
    BY DEF Pipelined
  <1>1. /\ UNCHANGED <<router, attempt, lines, seen, handler>> /\ run[c] = "read"
        /\ router = "committed" /\ attempt \in Attempts
    BY DEF Receive, Uncommitted, client
  <1>2. attempt \in Channels /\ attempt # Merged /\ attempt # Out /\ attempt \in Nat
    BY <1>1, Names
  <1>3. /\ InOrder(buf[Out], Len(seen), attempt) /\ Held(Out, BeforeOut)
        /\ InOrder(buf[Merged], PastOut, attempt) /\ Held(Merged, BeforeMerged)
        /\ InOrder(buf[attempt], PastMerged, attempt) /\ Held(attempt, BeforePump)
        /\ run[attempt] = "read" => lines[attempt] = BeforePump
        /\ run[attempt] = "send" /\ hand[attempt].kind # "err" => lines[attempt] = BeforePump + 1
    BY <1>1 DEF Pipelined
  <1> DEFINE d == Input(c)
  <1>4. d \in Channels /\ d = IF c = Merged THEN attempt ELSE Merged
    BY <1>2, Names DEF Input
  <1>5. /\ buf[d] # <<>> /\ buf'[d] = Tail(buf[d]) /\ \A x \in Channels \ {d} : buf'[x] = buf[x]
        /\ hand'[c] = Head(buf[d]) /\ run'[c] = "send"
        /\ \A x \in Channels \ {c} : hand'[x] = hand[x] /\ run'[x] = run[x]
    BY <1>4, Names DEF Receive, TypeOK
  <1> HIDE DEF d
  <1>6. /\ Len(buf'[d]) = Len(buf[d]) - 1
        /\ \A n \in Nat : InOrder(buf[d], n, attempt) =>
              /\ Head(buf[d]).from = attempt /\ Head(buf[d]).n = n + 1
              /\ InOrder(Tail(buf[d]), n + 1, attempt)
    <2>1. buf[d] \in Seq(Event)
      BY <1>1, <1>4, Offsets
    <2>2. QED BY <1>2, <1>5, <2>1, Taken
  <1>7. Busy(run[c]) = 0 /\ Busy(run'[c]) = 1
    BY <1>1, <1>5 DEF Busy
  <1>8. CASE c = Out
    <2>1. /\ d = Merged /\ buf'[Out] = buf[Out] /\ buf'[attempt] = buf[attempt]
          /\ run'[Merged] = run[Merged] /\ hand'[Merged] = hand[Merged]
          /\ run'[attempt] = run[attempt] /\ hand'[attempt] = hand[attempt]
      BY <1>2, <1>4, <1>5, <1>8, Names
    <2>2. BeforeOut' = BeforeOut /\ PastOut' = PastOut + 1 /\ PastOut = BeforeOut
      <3>1. BeforeOut \in Nat /\ BeforeOut' = BeforeOut
        BY <1>1, <2>1, Offsets, Equations
      <3>2. Busy(run[Out]) = 0 /\ Busy(run'[Out]) = 1
        BY <1>7, <1>8
      <3>3. QED BY <3>1, <3>2, Equations
    <2>3. BeforeMerged' = BeforeMerged /\ PastMerged' = PastMerged
      <3>1. PastOut \in Nat /\ Len(buf[Merged]) \in Nat /\ Len(buf'[Merged]) = Len(buf[Merged]) - 1
        BY <1>1, <1>6, <2>1, Offsets, Names
      <3>2. PastOut' = PastOut + 1
        BY <2>2
      <3>3. BeforeMerged = PastOut + Len(buf[Merged]) /\ BeforeMerged' = PastOut' + Len(buf'[Merged])
        BY Equations
      <3>4. BeforeMerged' = BeforeMerged
        BY <3>1, <3>2, <3>3, Moved
      <3>5. QED BY <2>1, <3>4, Equations
    <2>4. BeforePump' = BeforePump
      BY <1>1, <2>1, <2>3, Equations
    <2>5. /\ InOrder(buf'[Merged], PastOut + 1, attempt)
          /\ hand'[Out].from = attempt /\ hand'[Out].n = PastOut + 1
      BY <1>1, <1>3, <1>5, <1>6, <1>8, <2>1, Offsets
    <2>6. /\ InOrder(buf[Out], Len(seen), attempt)' /\ InOrder(buf[Merged], PastOut, attempt)'
          /\ InOrder(buf[attempt], PastMerged, attempt)'
      BY <1>1, <1>3, <2>1, <2>2, <2>3, <2>5
    <2>7. Held(Out, BeforeOut)' /\ Held(Merged, BeforeMerged)' /\ Held(attempt, BeforePump)'
      BY <1>1, <1>3, <2>1, <2>2, <2>3, <2>4, <2>5 DEF Held
    <2>8. QED BY <1>1, <1>3, <2>1, <2>4, <2>6, <2>7
  <1>9. CASE c = Merged
    <2>1. /\ d = attempt /\ buf'[Out] = buf[Out] /\ buf'[Merged] = buf[Merged]
          /\ run'[Out] = run[Out] /\ hand'[Out] = hand[Out]
          /\ run'[attempt] = run[attempt] /\ hand'[attempt] = hand[attempt]
      BY <1>2, <1>4, <1>5, <1>9, Names
    <2>2. /\ BeforeOut' = BeforeOut /\ PastOut' = PastOut /\ BeforeMerged' = BeforeMerged
      BY <1>1, <2>1, Equations
    <2>3. PastMerged' = PastMerged + 1 /\ PastMerged = BeforeMerged
      BY <1>1, <1>7, <1>9, <2>2, Offsets, Equations
    <2>4. BeforePump' = BeforePump
      BY <1>1, <1>2, <1>6, <2>1, <2>3, Offsets, Equations
    <2>5. /\ InOrder(buf'[attempt], PastMerged + 1, attempt)
          /\ hand'[Merged].from = attempt /\ hand'[Merged].n = PastMerged + 1
      BY <1>1, <1>3, <1>5, <1>6, <1>9, <2>1, Offsets
    <2>6. /\ InOrder(buf[Out], Len(seen), attempt)' /\ InOrder(buf[Merged], PastOut, attempt)'
          /\ InOrder(buf[attempt], PastMerged, attempt)'
      BY <1>1, <1>3, <2>1, <2>2, <2>3, <2>5
    <2>7. Held(Out, BeforeOut)' /\ Held(Merged, BeforeMerged)' /\ Held(attempt, BeforePump)'
      BY <1>1, <1>3, <2>1, <2>2, <2>3, <2>4, <2>5 DEF Held
    <2>8. QED BY <1>1, <1>3, <2>1, <2>4, <2>6, <2>7
  <1>10. QED BY <1>8, <1>9

LEMMA PipelinedEnd ==
    ASSUME TypeOK, Uncommitted, Pipelined, NEW c \in {Merged, Out}, End(c)
    PROVE  Pipelined'
  <1> SUFFICES ASSUME (router \in {"wait", "committed"} /\ handler = "busy")'
               PROVE  /\ InOrder(buf[Out], Len(seen), attempt)' /\ Held(Out, BeforeOut)'
                      /\ InOrder(buf[Merged], PastOut, attempt)' /\ Held(Merged, BeforeMerged)'
                      /\ InOrder(buf[attempt], PastMerged, attempt)' /\ Held(attempt, BeforePump)'
                      /\ (run[attempt] = "read" => lines[attempt] = BeforePump)'
                      /\ (run[attempt] = "send" /\ hand[attempt].kind # "err"
                            => lines[attempt] = BeforePump + 1)'
    BY DEF Pipelined
  <1>1. /\ UNCHANGED <<router, attempt, lines, buf, hand, seen, handler>> /\ run[c] = "read" /\ run'[c] = "gone"
        /\ \A x \in Channels \ {c} : run'[x] = run[x]
        /\ router = "committed" /\ attempt \in Attempts
    BY Names DEF End, Uncommitted, client, TypeOK
  <1>2. /\ InOrder(buf[Out], Len(seen), attempt) /\ Held(Out, BeforeOut)
        /\ InOrder(buf[Merged], PastOut, attempt) /\ Held(Merged, BeforeMerged)
        /\ InOrder(buf[attempt], PastMerged, attempt) /\ Held(attempt, BeforePump)
        /\ run[attempt] = "read" => lines[attempt] = BeforePump
        /\ run[attempt] = "send" /\ hand[attempt].kind # "err" => lines[attempt] = BeforePump + 1
    BY <1>1 DEF Pipelined
  <1>3. run'[attempt] = run[attempt]
    BY <1>1, Names
  <1>4. Busy(run'[Out]) = Busy(run[Out]) /\ Busy(run'[Merged]) = Busy(run[Merged])
    BY <1>1, Names DEF Busy
  <1>5. /\ BeforeOut' = BeforeOut /\ PastOut' = PastOut /\ BeforeMerged' = BeforeMerged
        /\ PastMerged' = PastMerged /\ BeforePump' = BeforePump
    BY <1>1, <1>4, Equations
  <1>6. Held(Out, BeforeOut)' /\ Held(Merged, BeforeMerged)' /\ Held(attempt, BeforePump)'
    BY <1>1, <1>2, <1>3, <1>5, Names DEF Held
  <1>7. QED BY <1>1, <1>2, <1>3, <1>5, <1>6

\* The client gets the next event of the answer.
LEMMA PipelinedWrite ==
    ASSUME TypeOK, Uncommitted, Pipelined, InOrder(seen, 0, attempt), Write
    PROVE  Pipelined' /\ InOrder(seen, 0, attempt)'
  <1>1. /\ router = "committed" /\ attempt \in Attempts /\ handler = "busy" /\ buf[Out] # <<>>
        /\ UNCHANGED <<router, attempt, run, hand, lines>>
        /\ buf'[Out] = Tail(buf[Out]) /\ \A x \in Channels \ {Out} : buf'[x] = buf[x]
        /\ seen' = Append(seen, Head(buf[Out]))
    BY Names DEF Write, Uncommitted, TypeOK
  <1>2. /\ InOrder(buf[Out], Len(seen), attempt) /\ Held(Out, BeforeOut)
        /\ InOrder(buf[Merged], PastOut, attempt) /\ Held(Merged, BeforeMerged)
        /\ InOrder(buf[attempt], PastMerged, attempt) /\ Held(attempt, BeforePump)
        /\ run[attempt] = "read" => lines[attempt] = BeforePump
        /\ run[attempt] = "send" /\ hand[attempt].kind # "err" => lines[attempt] = BeforePump + 1
    BY <1>1 DEF Pipelined
  <1>3. /\ Head(buf[Out]) \in Event /\ Len(buf'[Out]) = Len(buf[Out]) - 1
        /\ Head(buf[Out]).from = attempt /\ Head(buf[Out]).n = Len(seen) + 1
        /\ InOrder(buf'[Out], Len(seen) + 1, attempt)
    <2>1. buf[Out] \in Seq(Event) /\ Len(seen) \in Nat /\ attempt \in Nat
      BY <1>1, Names, Offsets
    <2>2. QED BY <1>1, <1>2, <2>1, Taken
  <1>4. Len(seen') = Len(seen) + 1 /\ InOrder(seen', 0, attempt)
    <2>1. seen \in Seq(Event) /\ attempt \in Nat /\ Len(seen) \in Nat
      BY <1>1, Names, Offsets DEF TypeOK
    <2>2. QED BY <1>1, <1>3, <2>1, Appended
  <1>5. buf'[Merged] = buf[Merged] /\ buf'[attempt] = buf[attempt]
    BY <1>1, Names
  <1>6. BeforeOut' = BeforeOut
    <2>1. Len(seen) \in Nat /\ Len(buf[Out]) \in Nat
      BY <1>1, Names, Offsets
    <2>2. Len(seen') = Len(seen) + 1 /\ Len(buf'[Out]) = Len(buf[Out]) - 1
      BY <1>3, <1>4
    <2>3. BeforeOut = Len(seen) + Len(buf[Out]) /\ BeforeOut' = Len(seen') + Len(buf'[Out])
      BY Equations
    <2>4. QED BY <2>1, <2>2, <2>3, Moved
  <1>7. /\ PastOut' = PastOut /\ BeforeMerged' = BeforeMerged
        /\ PastMerged' = PastMerged /\ BeforePump' = BeforePump
    BY <1>1, <1>5, <1>6, Equations
  <1>8. Held(Out, BeforeOut)' /\ Held(Merged, BeforeMerged)' /\ Held(attempt, BeforePump)'
    BY <1>1, <1>2, <1>6, <1>7 DEF Held
  <1>9. /\ InOrder(buf[Out], Len(seen), attempt)' /\ InOrder(buf[Merged], PastOut, attempt)'
        /\ InOrder(buf[attempt], PastMerged, attempt)'
    BY <1>1, <1>2, <1>3, <1>4, <1>5, <1>7
  <1>10. QED BY <1>1, <1>2, <1>4, <1>7, <1>8, <1>9 DEF Pipelined

-----------------------------------------------------------------------------
(* The theorems.                                                           *)

LEMMA NextIInv == IInv /\ [Next]_vars => IInv'
  <1> SUFFICES ASSUME IInv, [Next]_vars PROVE IInv'
    OBVIOUS
  <1>0. TypeOK /\ Uncommitted /\ Pipelined /\ InOrder(seen, 0, attempt)
    BY DEF IInv
  <1> USE <1>0
  <1> HIDE DEF IInv
  <1>1. ASSUME UNCHANGED <<seen, attempt>> PROVE InOrder(seen, 0, attempt)'
    BY <1>1
  <1>2. ASSUME NEW a \in Attempts, Line(a) \/ ReadError(a) \/ EndOfBody(a) PROVE IInv'
    <2>1. UNCHANGED <<seen, attempt>>
      BY <1>2 DEF Line, ReadError, EndOfBody, Read, client
    <2>2. QED BY <1>1, <1>2, <2>1, TypeRead, UncommittedPump, PipelinedPump DEF IInv
  <1>3. ASSUME NEW c \in Channels, Send(c) PROVE IInv'
    <2>1. UNCHANGED <<seen, attempt>>
      BY <1>3 DEF Send, client
    <2>2. QED BY <1>1, <1>3, <2>1, TypeSend, UncommittedSend, PipelinedSend DEF IInv
  <1>4. CASE Route \/ FirstTokenTimeout
    <2>1. TypeOK' /\ Uncommitted'
      BY <1>4, TypeRoute, UncommittedRoute
    <2>2. CASE Open \/ Refused
      <3>1. seen' = <<>>
        BY <2>2 DEF Open, Refused, Uncommitted, client
      <3>2. InOrder(seen, 0, attempt)'
        BY <3>1 DEF InOrder
      <3>3. Pipelined'
        BY <2>2, PipelinedOpen DEF Refused, Pipelined
      <3>4. QED BY <2>1, <3>2, <3>3 DEF IInv
    <2>3. CASE Exhausted \/ FirstTokenTimeout \/ ClosedBeforeFirst \/ FirstIsError \/ Commit
      <3>1. UNCHANGED <<seen, attempt>>
        BY <2>3 DEF Exhausted, FirstTokenTimeout, ClosedBeforeFirst, FirstIsError, Abandon, Commit, client
      <3>2. Pipelined'
        <4>1. CASE Commit
          BY <4>1, PipelinedCommit
        <4>2. CASE Exhausted \/ FirstTokenTimeout \/ ClosedBeforeFirst \/ FirstIsError
          BY <4>2 DEF Exhausted, FirstTokenTimeout, ClosedBeforeFirst, FirstIsError, Abandon, Pipelined
        <4>3. QED BY <2>3, <4>1, <4>2
      <3>3. QED BY <1>1, <2>1, <3>1, <3>2 DEF IInv
    <2>4. QED BY <1>4, <2>2, <2>3 DEF Route
  <1>5. ASSUME NEW c \in {Merged, Out}, Receive(c) \/ End(c) PROVE IInv'
    <2>1. UNCHANGED <<seen, attempt>>
      BY <1>5 DEF Receive, End, client
    <2>2. QED BY <1>1, <1>5, <2>1, TypeRelay, UncommittedRelay, PipelinedReceive, PipelinedEnd DEF IInv
  <1>6. CASE Write
    BY <1>6, TypeCopy, UncommittedCopy, PipelinedWrite DEF Copy, IInv
  <1>7. CASE WriteFails \/ ChannelClosed
    <2>1. UNCHANGED <<seen, attempt>> /\ handler' # "busy"
      BY <1>7 DEF WriteFails, ChannelClosed, Finish, client
    <2>2. QED BY <1>1, <1>7, <2>1, TypeCopy, UncommittedCopy DEF Copy, Pipelined, IInv
  <1>8. CASE Disconnect \/ UNCHANGED vars
    <2>1. UNCHANGED <<router, attempt, cancelled, run, hand, buf, lines, usage, handler, seen, billed>>
          /\ gone' \in BOOLEAN
      BY <1>8 DEF Disconnect, vars, pipeline, client, TypeOK
    <2>2. TypeOK'
      BY <2>1 DEF TypeOK
    <2>3. Uncommitted'
      BY <2>1 DEF Uncommitted
    <2>4. Pipelined'
      BY <2>1 DEF Pipelined, Held, InOrder, BeforeOut, PastOut, BeforeMerged, PastMerged, BeforePump
    <2>5. QED BY <1>1, <2>1, <2>2, <2>3, <2>4 DEF IInv
  <1>9. QED
    BY <1>2, <1>3, <1>4, <1>5, <1>6, <1>7, <1>8, Names DEF Next, Pump, Relay, Copy, Idle

LEMMA IInvAlways == Spec => []IInv
  BY InitIInv, NextIInv, PTL DEF Spec

\* Channels keep to their capacity and goroutines to their hands, through retries,
\* timeouts, disconnections and abandoned pumps.
THEOREM TypeCorrect == Spec => []TypeOK
  <1>1. IInv => TypeOK
    BY DEF IInv
  <1>2. QED BY <1>1, IInvAlways, PTL

\* "NUNCA reconectar a otro provider post-primer-byte" (stream.go): for any number of
\* attempts and any capacity, the client sees a beginning of the answer of the one attempt
\* the router committed to, with no event lost, repeated or out of place.
THEOREM OneAnswerAlways == Spec => []OneAnswer
  <1>1. IInv => OneAnswer
    <2> SUFFICES ASSUME IInv, NEW i \in DOMAIN seen
                 PROVE  seen[i].from = attempt /\ seen[i].n = i
      BY DEF OneAnswer
    <2>1. i \in 1..Len(seen) /\ i \in Nat
      BY DEF IInv, TypeOK
    <2>2. seen[i].from = attempt /\ seen[i].n = 0 + i
      BY <2>1 DEF IInv, InOrder
    <2>3. QED BY <2>1, <2>2
  <1>2. QED BY <1>1, IInvAlways, PTL

-----------------------------------------------------------------------------
(* What is billed and what is told at the end.                             *)

Rng(s) == {s[i] : i \in 1..Len(s)}

\* The events a goroutine holds and has sent.
Content(c) == Rng(buf[c]) \cup (IF run[c] = "send" THEN {hand[c]} ELSE {})

\* The events of the attempt under way that the client has not got, and those that
\* CaptureUsage has seen.
Pipe == Content(attempt) \cup Content(Merged) \cup Content(Out)
Got == Rng(seen) \cup Content(Out)

\* All the events of the attempt under way.
Total == BeforePump + Busy(run[attempt])

\* The captured usage is the last of some events.
LastIn(got) ==
    /\ usage # Nothing => usage \in got /\ usage.kind = "usage"
    /\ \A e \in got : e.kind = "usage" => usage # Nothing /\ e.n <= usage.n

\* A terminator or an error is the last event, and its pump reads no more.
EndIsLast ==
    \A e \in Pipe : Final(e) =>
        e.n = Total /\ (run[attempt] = "gone" \/ (run[attempt] = "send" /\ e = hand[attempt]))

\* Every event but an error is a line.
LinesCounted ==
    \/ lines[attempt] = Total
    \/ lines[attempt] + 1 = Total /\ \E e \in Pipe : e.kind = "err"

\* Goroutines end from the upstream on, each with its input drained.
EndsInOrder ==
    /\ run[Merged] = "gone" => run[attempt] = "gone" /\ buf[attempt] = <<>>
    /\ run[Out] = "gone" => run[Merged] = "gone" /\ buf[Merged] = <<>>

Flowing ==
    router \in {"wait", "committed"} /\ handler = "busy" =>
        EndIsLast /\ LinesCounted /\ LastIn(Got) /\ EndsInOrder

\* Until the handler ends, nothing is billed and the client got no terminator.
Untold ==
    /\ handler = "busy" => billed = Nothing /\ \A i \in 1..Len(seen) : ~Final(seen[i])
    /\ router # "committed" => usage = Nothing
    /\ \A a \in Attempts : run[a] = "send" => hand[a].from = a

\* The answer is with the client to its last event.
Drained ==
    /\ attempt \in Attempts /\ run[attempt] = "gone" /\ run[Merged] # "send" /\ run[Out] # "send"
    /\ buf[attempt] = <<>> /\ buf[Merged] = <<>> /\ buf[Out] = <<>>
    /\ lines[attempt] = Len(seen) /\ billed = usage /\ LastIn(Rng(seen))

\* After the handler ended.
Ended ==
    handler # "busy" =>
        /\ handler # "clean" => billed = Nothing
        /\ handler = "error" => seen # <<>> /\ Final(seen[Len(seen)])
        /\ handler = "clean" => Drained
        /\ \A i \in 1..Len(seen) : Final(seen[i]) => i = Len(seen)

Told == Flowing /\ Untold /\ Ended

LEMMA RngMoves ==
    ASSUME NEW s \in Seq(Event)
    PROVE  /\ s = <<>> <=> Len(s) = 0
           /\ s = <<>> => Rng(s) = {}
           /\ \A e \in Event : Rng(Append(s, e)) = Rng(s) \cup {e}
           /\ s # <<>> => Rng(s) = {Head(s)} \cup Rng(Tail(s)) /\ Head(s) \in Rng(s)
  <1>1. (s = <<>> <=> Len(s) = 0) /\ (s = <<>> => Rng(s) = {})
    BY DEF Rng
  <1>2. ASSUME NEW e \in Event PROVE Rng(Append(s, e)) = Rng(s) \cup {e}
    <2>1. /\ Len(Append(s, e)) = Len(s) + 1 /\ Len(s) \in Nat
          /\ \A i \in 1..Len(s) + 1 : Append(s, e)[i] = IF i = Len(s) + 1 THEN e ELSE s[i]
      OBVIOUS
    <2>2. 1..Len(s) + 1 = 1..Len(s) \cup {Len(s) + 1} /\ Len(s) + 1 \notin 1..Len(s)
      BY <2>1
    <2>3. QED BY <2>1, <2>2 DEF Rng
  <1>3. ASSUME s # <<>> PROVE Rng(s) = {Head(s)} \cup Rng(Tail(s)) /\ Head(s) \in Rng(s)
    <2>1. /\ Len(Tail(s)) = Len(s) - 1 /\ Len(s) \in Nat \ {0} /\ Head(s) = s[1]
          /\ \A i \in 1..Len(s) - 1 : Tail(s)[i] = s[i + 1]
      BY <1>3
    <2>2. \A i \in 1..Len(s) : i = 1 \/ (i - 1 \in 1..Len(s) - 1 /\ i = (i - 1) + 1)
      BY <2>1
    <2>3. 1 \in 1..Len(s) /\ \A i \in 1..Len(s) - 1 : i + 1 \in 1..Len(s)
      BY <2>1
    <2>4. \A x \in Rng(s) : x \in {Head(s)} \cup Rng(Tail(s))
      BY <2>1, <2>2 DEF Rng
    <2>5. \A x \in {Head(s)} \cup Rng(Tail(s)) : x \in Rng(s)
      BY <2>1, <2>3 DEF Rng
    <2>6. QED BY <2>3, <2>4, <2>5
  <1>4. QED BY <1>1, <1>2, <1>3

\* The contents and the count before and after a step, unfolded.
LEMMA Contents ==
    /\ \A e : e \in Pipe <=> \/ e \in Rng(buf[attempt]) \/ (run[attempt] = "send" /\ e = hand[attempt])
                             \/ e \in Rng(buf[Merged]) \/ (run[Merged] = "send" /\ e = hand[Merged])
                             \/ e \in Rng(buf[Out]) \/ (run[Out] = "send" /\ e = hand[Out])
    /\ \A e : e \in Pipe' <=>
          \/ e \in Rng(buf'[attempt']) \/ (run'[attempt'] = "send" /\ e = hand'[attempt'])
          \/ e \in Rng(buf'[Merged]) \/ (run'[Merged] = "send" /\ e = hand'[Merged])
          \/ e \in Rng(buf'[Out]) \/ (run'[Out] = "send" /\ e = hand'[Out])
    /\ \A e : e \in Got <=> e \in Rng(seen) \/ e \in Rng(buf[Out]) \/ (run[Out] = "send" /\ e = hand[Out])
    /\ \A e : e \in Got' <=> e \in Rng(seen') \/ e \in Rng(buf'[Out]) \/ (run'[Out] = "send" /\ e = hand'[Out])
  <1>1. \A e, c : e \in Content(c) <=> e \in Rng(buf[c]) \/ (run[c] = "send" /\ e = hand[c])
    BY DEF Content
  <1>2. \A e : /\ e \in Pipe <=> e \in Content(attempt) \/ e \in Content(Merged) \/ e \in Content(Out)
               /\ e \in Got <=> e \in Rng(seen) \/ e \in Content(Out)
    BY DEF Pipe, Got
  <1>3. /\ Pipe' = (Rng(buf'[attempt']) \cup IF run'[attempt'] = "send" THEN {hand'[attempt']} ELSE {})
                  \cup (Rng(buf'[Merged]) \cup IF run'[Merged] = "send" THEN {hand'[Merged]} ELSE {})
                  \cup (Rng(buf'[Out]) \cup IF run'[Out] = "send" THEN {hand'[Out]} ELSE {})
        /\ Got' = Rng(seen') \cup (Rng(buf'[Out]) \cup IF run'[Out] = "send" THEN {hand'[Out]} ELSE {})
    BY DEF Pipe, Got, Content, Merged, Out, Rng
  <1>4. QED BY <1>1, <1>2, <1>3

LEMMA Sums ==
    /\ Total = Len(seen) + Len(buf[Out]) + Busy(run[Out]) + Len(buf[Merged]) + Busy(run[Merged])
                 + Len(buf[attempt]) + Busy(run[attempt])
    /\ Total' = Len(seen') + Len(buf'[Out]) + Busy(run'[Out]) + Len(buf'[Merged]) + Busy(run'[Merged])
                 + Len(buf'[attempt']) + Busy(run'[attempt'])
  BY DEF Total, BeforePump, PastMerged, BeforeMerged, PastOut, BeforeOut, Merged, Out

\* Events that move between a channel and the hand before it or after it.
LEMMA SumsKept ==
    ASSUME UNCHANGED <<seen, attempt>>, Len(seen) \in Nat,
           \A c \in {attempt, Merged, Out} :
              Len(buf[c]) \in Nat /\ Busy(run[c]) \in Nat /\ Len(buf'[c]) \in Nat /\ Busy(run'[c]) \in Nat,
           \/ \A c \in {attempt, Merged, Out} : Len(buf'[c]) + Busy(run'[c]) = Len(buf[c]) + Busy(run[c])
           \/ /\ Len(buf[Out]) + Busy(run[Out]) + Len(buf[Merged]) = Len(buf'[Out]) + Busy(run'[Out]) + Len(buf'[Merged])
              /\ Busy(run[Merged]) = Busy(run'[Merged])
              /\ Len(buf[attempt]) + Busy(run[attempt]) = Len(buf'[attempt]) + Busy(run'[attempt])
           \/ /\ Len(buf[Out]) + Busy(run[Out]) = Len(buf'[Out]) + Busy(run'[Out])
              /\ Len(buf[Merged]) + Busy(run[Merged]) + Len(buf[attempt])
                   = Len(buf'[Merged]) + Busy(run'[Merged]) + Len(buf'[attempt])
              /\ Busy(run[attempt]) = Busy(run'[attempt])
    PROVE  Total' = Total
  <1> DEFINE s == Len(seen)
             a0 == Len(buf[attempt])  a1 == Busy(run[attempt])  b0 == Len(buf'[attempt])  b1 == Busy(run'[attempt])
             m0 == Len(buf[Merged])  m1 == Busy(run[Merged])  n0 == Len(buf'[Merged])  n1 == Busy(run'[Merged])
             o0 == Len(buf[Out])  o1 == Busy(run[Out])  p0 == Len(buf'[Out])  p1 == Busy(run'[Out])
  <1>1. /\ Total = s + o0 + o1 + m0 + m1 + a0 + a1 /\ Total' = s + p0 + p1 + n0 + n1 + b0 + b1
    BY Sums
  <1>2. /\ s \in Nat /\ a0 \in Nat /\ a1 \in Nat /\ b0 \in Nat /\ b1 \in Nat /\ m0 \in Nat /\ m1 \in Nat
        /\ n0 \in Nat /\ n1 \in Nat /\ o0 \in Nat /\ o1 \in Nat /\ p0 \in Nat /\ p1 \in Nat
    OBVIOUS
  <1>3. \/ a0 + a1 = b0 + b1 /\ m0 + m1 = n0 + n1 /\ o0 + o1 = p0 + p1
        \/ o0 + o1 + m0 = p0 + p1 + n0 /\ m1 = n1 /\ a0 + a1 = b0 + b1
        \/ o0 + o1 = p0 + p1 /\ m0 + m1 + a0 = n0 + n1 + b0 /\ a1 = b1
    OBVIOUS
  <1> HIDE DEF s, a0, a1, b0, b1, m0, m1, n0, n1, o0, o1, p0, p1
  <1>4. QED BY <1>1, <1>2, <1>3

\* Events that change places within the pipeline.
LEMMA FlowingMoves ==
    ASSUME EndIsLast, LinesCounted,
           UNCHANGED <<attempt, lines>>, Pipe' \subseteq Pipe, Total' = Total,
           \A e \in Pipe : e.kind = "err" => e \in Pipe',
           \/ run'[attempt] = run[attempt] /\ hand'[attempt] = hand[attempt]
           \/ run[attempt] = "send" /\ run'[attempt] = AfterSend(attempt) /\ attempt \in Attempts
    PROVE  EndIsLast' /\ LinesCounted'
  <1>1. EndIsLast'
    <2> SUFFICES ASSUME NEW e \in Pipe', Final(e)
                 PROVE  e.n = Total' /\ (run'[attempt'] = "gone" \/ (run'[attempt'] = "send" /\ e = hand'[attempt']))
      BY DEF EndIsLast, Final
    <2>1. e.n = Total /\ (run[attempt] = "gone" \/ (run[attempt] = "send" /\ e = hand[attempt]))
      BY DEF EndIsLast
    <2>2. attempt' = attempt
      OBVIOUS
    <2>3. CASE run'[attempt] = run[attempt] /\ hand'[attempt] = hand[attempt]
      BY <2>1, <2>2, <2>3
    <2>4. CASE run[attempt] = "send" /\ run'[attempt] = AfterSend(attempt) /\ attempt \in Attempts
      BY <2>1, <2>2, <2>4 DEF AfterSend, Final
    <2>5. QED BY <2>3, <2>4
  <1>2. LinesCounted'
    BY DEF LinesCounted
  <1>3. QED BY <1>1, <1>2

LEMMA FlowingPump ==
    ASSUME TypeOK, Uncommitted, Pipelined, Flowing, NEW a \in Attempts,
           Line(a) \/ ReadError(a) \/ EndOfBody(a)
    PROVE  Flowing'
  <1> SUFFICES ASSUME (router \in {"wait", "committed"} /\ handler = "busy")'
               PROVE  EndIsLast' /\ LinesCounted' /\ LastIn(Got)' /\ EndsInOrder'
    BY DEF Flowing
  <1>1. /\ UNCHANGED <<router, attempt, buf, seen, handler, usage>> /\ run[a] = "read" /\ run'[a] \in {"send", "gone"}
        /\ \A c \in Channels \ {a} : run'[c] = run[c] /\ hand'[c] = hand[c]
        /\ \A b \in Attempts \ {a} : lines'[b] = lines[b]
    BY Names DEF Line, ReadError, EndOfBody, Read, client, TypeOK
  <1>2. /\ EndIsLast /\ LinesCounted /\ LastIn(Got) /\ EndsInOrder
        /\ attempt \in Attempts /\ attempt \in Channels /\ attempt # Merged /\ attempt # Out
    BY <1>1, Names DEF Flowing, Uncommitted
  <1>3. Got' = Got /\ LastIn(Got)'
    <2>1. \A e : e \in Got' <=> e \in Got
      BY <1>1, Names, Contents
    <2>2. QED BY <1>1, <1>2, <2>1 DEF LastIn
  <1>4. /\ run'[Merged] = run[Merged] /\ run'[Out] = run[Out]
        /\ hand'[Merged] = hand[Merged] /\ hand'[Out] = hand[Out]
    BY <1>1, Names
  <1>5. CASE a # attempt
    <2>1. /\ run'[attempt] = run[attempt] /\ hand'[attempt] = hand[attempt]
          /\ lines'[attempt] = lines[attempt]
      BY <1>1, <1>2, <1>5
    <2>2. \A e : e \in Pipe' <=> e \in Pipe
      BY <1>1, <1>4, <2>1, Contents
    <2>3. Total' = Total
      BY <1>1, <1>4, <2>1, Sums
    <2>4. EndIsLast'
      BY <1>1, <1>2, <2>1, <2>2, <2>3 DEF EndIsLast, Final
    <2>5. LinesCounted'
      BY <1>1, <1>2, <2>1, <2>2, <2>3 DEF LinesCounted
    <2>6. EndsInOrder'
      BY <1>1, <1>2, <1>4, <2>1 DEF EndsInOrder
    <2>7. QED BY <1>3, <2>4, <2>5, <2>6
  <1>6. CASE a = attempt
    <2>1. run[attempt] = "read" /\ \A e \in Pipe : ~Final(e)
      BY <1>1, <1>2, <1>6 DEF EndIsLast
    <2>2. lines[attempt] = Total
      BY <1>2, <2>1 DEF LinesCounted, Final
    <2>3. EndsInOrder'
      BY <1>1, <1>2, <1>4, <2>1 DEF EndsInOrder
    <2>4. Total \in Nat
      <3>1. BeforePump \in Nat /\ Busy(run[attempt]) \in Nat
        BY <1>2, Offsets
      <3>2. QED BY <3>1 DEF Total
    <2>5. Total' = Total + Busy(run'[attempt])
      <3>1. Busy(run[attempt]) = 0 /\ Busy(run'[attempt]) \in Nat
        BY <2>1 DEF Busy
      <3>2. BeforePump' = BeforePump /\ BeforePump \in Nat
        BY <1>1, <1>2, <1>4, Offsets, Equations
      <3>3. QED BY <1>1, <3>1, <3>2 DEF Total
    <2>6. CASE EndOfBody(a)
      <3>1. lines' = lines /\ run'[attempt] = "gone" /\ hand' = hand
        BY <1>1, <1>2, <1>6, <2>6 DEF EndOfBody, TypeOK
      <3>2. Total' = Total
        BY <2>4, <2>5, <3>1 DEF Busy
      <3>3. \A e \in Pipe' : e \in Pipe
        BY <1>1, <1>4, <3>1, Contents
      <3>4. EndIsLast'
        BY <2>1, <3>3 DEF EndIsLast, Final
      <3>5. QED BY <1>1, <1>3, <2>2, <2>3, <3>1, <3>2, <3>4 DEF LinesCounted
    <2>7. CASE Line(a) \/ ReadError(a)
      <3>1. run'[attempt] = "send" /\ Total' = Total + 1 /\ hand'[attempt].n = Total + 1
        <4>1. run'[attempt] = "send" /\ hand'[attempt].n = lines[attempt] + 1
          BY <1>2, <1>6, <2>7 DEF Line, ReadError, Read, TypeOK
        <4>2. QED BY <2>2, <2>5, <4>1 DEF Busy
      <3>2. \A e \in Pipe' : e \in Pipe \/ e = hand'[attempt']
        BY <1>1, <1>4, Contents
      <3>3. hand'[attempt'] \in Pipe'
        BY <1>1, <3>1, Contents
      <3>4. EndIsLast'
        BY <1>1, <2>1, <3>1, <3>2 DEF EndIsLast, Final
      <3>5. LinesCounted'
        <4>1. CASE Line(a)
          BY <1>1, <1>2, <1>6, <2>2, <3>1, <4>1 DEF LinesCounted, Line, TypeOK
        <4>2. CASE ReadError(a)
          <5>1. hand'[attempt'].kind = "err" /\ lines' = lines
            BY <1>1, <1>2, <1>6, <4>2 DEF ReadError, Read, TypeOK
          <5>2. QED BY <1>1, <2>2, <3>1, <3>3, <5>1 DEF LinesCounted
        <4>3. QED BY <2>7, <4>1, <4>2
      <3>6. QED BY <1>3, <2>3, <3>4, <3>5
    <2>8. QED BY <2>6, <2>7
  <1>7. QED BY <1>5, <1>6

LEMMA FlowingSend ==
    ASSUME TypeOK, Uncommitted, Flowing, NEW c \in Channels, Send(c)
    PROVE  Flowing'
  <1> SUFFICES ASSUME (router \in {"wait", "committed"} /\ handler = "busy")'
               PROVE  EndIsLast' /\ LinesCounted' /\ LastIn(Got)' /\ EndsInOrder'
    BY DEF Flowing
  <1>1. /\ UNCHANGED <<router, attempt, seen, handler, usage, lines>>
        /\ run[c] = "send" /\ run'[c] = AfterSend(c) /\ buf'[c] = Append(buf[c], hand[c])
        /\ \A d \in Channels \ {c} : run'[d] = run[d] /\ hand'[d] = hand[d] /\ buf'[d] = buf[d]
    BY DEF Send, client, TypeOK
  <1>2. /\ EndIsLast /\ LinesCounted /\ LastIn(Got) /\ EndsInOrder
        /\ attempt \in Attempts /\ attempt \in Channels /\ attempt # Merged /\ attempt # Out
        /\ Merged \in Channels /\ Out \in Channels /\ Merged # Out
    BY <1>1, Names DEF Flowing, Uncommitted
  <1>3. hand[c] \in Event /\ buf[c] \in Seq(Event) /\ run'[c] \in {"read", "gone"}
    BY <1>1 DEF TypeOK, AfterSend
  <1>4. /\ Rng(buf'[c]) = Rng(buf[c]) \cup {hand[c]} /\ Len(buf'[c]) = Len(buf[c]) + 1
        /\ Busy(run[c]) = 1 /\ Busy(run'[c]) = 0
    BY <1>1, <1>3, RngMoves, Appended DEF Busy
  <1>12. \A d \in Channels : \A e :
           (e \in Rng(buf'[d]) \/ (run'[d] = "send" /\ e = hand'[d]))
           <=> (e \in Rng(buf[d]) \/ (run[d] = "send" /\ e = hand[d]))
    BY <1>1, <1>3, <1>4
  <1>5. \A e : e \in Pipe' <=> e \in Pipe
    BY <1>1, <1>2, <1>12, Contents
  <1>6. \A e : e \in Got' <=> e \in Got
    BY <1>1, <1>2, <1>12, Contents
  <1>7. Total' = Total
    <2>1. /\ Len(seen) \in Nat
          /\ \A d \in Channels : Len(buf[d]) \in Nat /\ Busy(run[d]) \in Nat
      BY <1>2, Offsets
    <2>2. \A d \in Channels : Len(buf'[d]) + Busy(run'[d]) = Len(buf[d]) + Busy(run[d])
      <3>1. \A d \in Channels \ {c} : buf'[d] = buf[d] /\ run'[d] = run[d]
        BY <1>1
      <3>2. Len(buf'[c]) + Busy(run'[c]) = Len(buf[c]) + Busy(run[c])
        BY <1>4, <2>1
      <3>3. QED BY <3>1, <3>2
    <2>3. \A d \in Channels : Len(buf'[d]) \in Nat /\ Busy(run'[d]) \in Nat
      <3>1. \A d \in Channels \ {c} : buf'[d] = buf[d] /\ run'[d] = run[d]
        BY <1>1
      <3>2. Len(buf'[c]) \in Nat /\ Busy(run'[c]) \in Nat
        BY <1>4, <2>1
      <3>3. \A d \in Channels \ {c} : Len(buf'[d]) \in Nat /\ Busy(run'[d]) \in Nat
        BY <2>1, <3>1
      <3>4. QED BY <3>2, <3>3
    <2>4. QED BY <1>1, <1>2, <2>1, <2>2, <2>3, SumsKept
  <1>8. EndIsLast' /\ LinesCounted'
    BY <1>1, <1>2, <1>5, <1>7, FlowingMoves
  <1>9. LastIn(Got)'
    BY <1>1, <1>2, <1>6 DEF LastIn
  <1>10. EndsInOrder'
    <2>1. \A d \in Channels : run[d] = "gone" => d # c
      BY <1>1
    <2>2. run'[Merged] = "gone" => run'[attempt] = "gone" /\ buf'[attempt] = <<>>
      <3>1. CASE c = Merged
        BY <1>1, <1>2, <3>1, Names DEF AfterSend, EndsInOrder
      <3>2. CASE c # Merged
        BY <1>1, <1>2, <2>1, <3>2 DEF EndsInOrder
      <3>3. QED BY <3>1, <3>2
    <2>3. run'[Out] = "gone" => run'[Merged] = "gone" /\ buf'[Merged] = <<>>
      <3>1. CASE c = Out
        BY <1>1, <1>2, <3>1, Names DEF AfterSend, EndsInOrder
      <3>2. CASE c # Out
        BY <1>1, <1>2, <2>1, <3>2 DEF EndsInOrder
      <3>3. QED BY <3>1, <3>2
    <2>4. QED BY <1>1, <2>2, <2>3 DEF EndsInOrder
  <1>11. QED BY <1>8, <1>9, <1>10

\* What CaptureUsage has seen comes before what it takes next.
LEMMA GotPlaced ==
    ASSUME TypeOK, attempt \in Attempts, InOrder(seen, 0, attempt),
           InOrder(buf[Out], Len(seen), attempt), Held(Out, BeforeOut)
    PROVE  \A g \in Got : g.n <= PastOut
  <1>1. /\ Len(seen) \in Nat /\ Len(buf[Out]) \in Nat /\ BeforeOut = Len(seen) + Len(buf[Out])
        /\ PastOut = BeforeOut + Busy(run[Out]) /\ Busy(run[Out]) \in Nat
    BY Names, Offsets, Equations
  <1>2. \A g \in Rng(seen) : g.n <= PastOut
    BY <1>1 DEF Rng, InOrder
  <1>3. \A g \in Rng(buf[Out]) : g.n <= PastOut
    BY <1>1 DEF Rng, InOrder
  <1>4. run[Out] = "send" => hand[Out].n <= PastOut
    BY <1>1 DEF Held, Busy
  <1>5. QED BY <1>2, <1>3, <1>4, Contents

LEMMA FlowingReceive ==
    ASSUME TypeOK, Uncommitted, Pipelined, InOrder(seen, 0, attempt), Flowing,
           NEW c \in {Merged, Out}, Receive(c)
    PROVE  Flowing'
  <1> SUFFICES ASSUME (router \in {"wait", "committed"} /\ handler = "busy")'
               PROVE  EndIsLast' /\ LinesCounted' /\ LastIn(Got)' /\ EndsInOrder'
    BY DEF Flowing
  <1> DEFINE d == Input(c)
             e == Head(buf[d])
  <1>1. /\ UNCHANGED <<router, attempt, lines, seen, handler>> /\ run[c] = "read"
        /\ router = "committed" /\ attempt \in Attempts
    BY DEF Receive, Uncommitted, client
  <1>2. /\ EndIsLast /\ LinesCounted /\ LastIn(Got) /\ EndsInOrder
        /\ attempt \in Channels /\ attempt # Merged /\ attempt # Out
        /\ Merged \in Channels /\ Out \in Channels /\ Merged # Out
    BY <1>1, Names DEF Flowing
  <1>3. d \in Channels /\ d = IF c = Merged THEN attempt ELSE Merged
    BY <1>2 DEF Input
  <1>4. /\ buf[d] # <<>> /\ buf'[d] = Tail(buf[d]) /\ \A x \in Channels \ {d} : buf'[x] = buf[x]
        /\ hand'[c] = e /\ run'[c] = "send" /\ usage' = Captured(c, e)
        /\ \A x \in Channels \ {c} : hand'[x] = hand[x] /\ run'[x] = run[x]
    BY <1>3, Names DEF Receive, TypeOK
  <1>5. /\ e \in Event /\ Rng(buf[d]) = {e} \cup Rng(buf'[d])
        /\ Len(buf'[d]) = Len(buf[d]) - 1 /\ Len(buf[d]) \in Nat \ {0}
    <2>1. buf[d] \in Seq(Event)
      BY <1>1, <1>3, Offsets
    <2>2. QED BY <1>4, <2>1, RngMoves, Taken
  <1> HIDE DEF d, e
  <1>6. Busy(run[c]) = 0 /\ Busy(run'[c]) = 1
    BY <1>1, <1>4 DEF Busy
  <1>7. \A x \in Channels : Len(buf[x]) \in Nat /\ Busy(run[x]) \in Nat
    BY <1>1, Offsets
  <1>8. Len(seen) \in Nat
    BY <1>1, Offsets
  <1>9. CASE c = Out
    <2>1. /\ d = Merged /\ buf'[Out] = buf[Out] /\ buf'[attempt] = buf[attempt]
          /\ run'[Merged] = run[Merged] /\ hand'[Merged] = hand[Merged]
          /\ run'[attempt] = run[attempt] /\ hand'[attempt] = hand[attempt]
      BY <1>2, <1>3, <1>4, <1>9
    <2>2. \A x : x \in Pipe' <=> x \in Pipe
      BY <1>1, <1>4, <1>5, <1>9, <2>1, Contents
    <2>3. \A x : x \in Got' <=> x \in Got \/ x = e
      BY <1>1, <1>4, <1>5, <1>9, <2>1, Contents
    <2>4. Total' = Total
      <3>1. /\ Busy(run[Out]) = 0 /\ Busy(run'[Out]) = 1
            /\ Len(buf'[Merged]) = Len(buf[Merged]) - 1 /\ Len(buf[Merged]) \in Nat \ {0}
        BY <1>5, <1>6, <1>9, <2>1
      <3>2. /\ Len(buf'[attempt]) = Len(buf[attempt]) /\ Len(buf'[Out]) = Len(buf[Out])
            /\ Busy(run'[attempt]) = Busy(run[attempt]) /\ Busy(run'[Merged]) = Busy(run[Merged])
        BY <2>1
      <3>3. \A x \in {attempt, Merged, Out} : Len(buf[x]) \in Nat /\ Busy(run[x]) \in Nat
        BY <1>2, <1>7
      <3>4. \A x \in {attempt, Merged, Out} : Len(buf'[x]) \in Nat /\ Busy(run'[x]) \in Nat
        BY <3>1, <3>2, <3>3
      <3>5. /\ Len(buf[Out]) + Busy(run[Out]) + Len(buf[Merged]) = Len(buf'[Out]) + Busy(run'[Out]) + Len(buf'[Merged])
            /\ Len(buf[attempt]) + Busy(run[attempt]) = Len(buf'[attempt]) + Busy(run'[attempt])
        <4>1. \A m, n \in Nat : m + 0 + n = m + 1 + (n - 1)
          OBVIOUS
        <4>2. Len(buf[Out]) \in Nat /\ Len(buf[Merged]) \in Nat
          BY <3>3
        <4>3. Len(buf[Out]) + 0 + Len(buf[Merged]) = Len(buf[Out]) + 1 + (Len(buf[Merged]) - 1)
          BY <4>1, <4>2
        <4>4. QED BY <3>1, <3>2, <4>3
      <3>6. QED BY <1>1, <1>8, <3>2, <3>3, <3>4, <3>5, SumsKept
    <2>5. \A g \in Got : g.n <= PastOut
      BY <1>1, GotPlaced DEF Pipelined
    <2>6. e.n = PastOut + 1 /\ PastOut \in Nat
      <3>1. InOrder(buf[Merged], PastOut, attempt) /\ PastOut \in Nat /\ attempt \in Nat /\ buf[Merged] \in Seq(Event)
        BY <1>1, <1>2, Offsets DEF Pipelined
      <3>2. QED BY <1>4, <2>1, <3>1, Taken DEF e
    <2>7. LastIn(Got)'
      <3>1. CASE e.kind = "usage"
        <4>1. usage' = e /\ e # Nothing
          BY <1>4, <1>5, <1>9, <3>1, Names DEF Captured
        <4>2. \A g \in Got' : g.kind = "usage" => g.n <= usage'.n
          <5>2. \A g \in Got : g.kind = "usage" => g.n <= e.n
            <6> SUFFICES ASSUME NEW g \in Got, g.kind = "usage" PROVE g.n <= e.n
              OBVIOUS
            <6>1. usage # Nothing
              BY <1>2 DEF LastIn
            <6>2. g \in Event
              <7>1. \A x \in Channels : run[x] = "send" => hand[x] \in Event
                BY DEF TypeOK
              <7>2. \A s \in Seq(Event) : Rng(s) \subseteq Event
                BY DEF Rng
              <7>3. seen \in Seq(Event) /\ buf[Out] \in Seq(Event)
                BY <1>2 DEF TypeOK
              <7>4. QED BY <1>2, <7>1, <7>2, <7>3, Contents
            <6>3. g.n \in Nat
              BY <6>2, StreamAssumption DEF Event
            <6>4. QED BY <2>5, <2>6, <6>3
          <5>3. e.n <= e.n
            BY <2>6
          <5>4. QED BY <2>3, <4>1, <5>2, <5>3
        <4>3. QED BY <2>3, <3>1, <4>1, <4>2 DEF LastIn
      <3>2. CASE e.kind # "usage"
        <4>1. usage' = usage
          BY <1>4, <3>2 DEF Captured
        <4>2. QED BY <1>2, <2>3, <3>2, <4>1 DEF LastIn
      <3>3. QED BY <3>1, <3>2
    <2>8. EndIsLast' /\ LinesCounted'
      BY <1>1, <1>2, <2>1, <2>2, <2>4, FlowingMoves
    <2>9. EndsInOrder'
      BY <1>1, <1>2, <1>4, <1>9, <2>1 DEF EndsInOrder
    <2>10. QED BY <2>7, <2>8, <2>9
  <1>10. CASE c = Merged
    <2>1. /\ d = attempt /\ buf'[Out] = buf[Out] /\ buf'[Merged] = buf[Merged]
          /\ run'[Out] = run[Out] /\ hand'[Out] = hand[Out]
          /\ run'[attempt] = run[attempt] /\ hand'[attempt] = hand[attempt]
          /\ usage' = usage
      BY <1>2, <1>3, <1>4, <1>10 DEF Captured
    <2>2. \A x : x \in Pipe' <=> x \in Pipe
      BY <1>1, <1>4, <1>5, <1>10, <2>1, Contents
    <2>3. \A x : x \in Got' <=> x \in Got
      BY <1>1, <2>1, Contents
    <2>4. Total' = Total
      <3>1. /\ Busy(run[Merged]) = 0 /\ Busy(run'[Merged]) = 1
            /\ Len(buf'[attempt]) = Len(buf[attempt]) - 1 /\ Len(buf[attempt]) \in Nat \ {0}
        BY <1>5, <1>6, <1>10, <2>1
      <3>2. /\ Len(buf'[Merged]) = Len(buf[Merged]) /\ Len(buf'[Out]) = Len(buf[Out])
            /\ Busy(run'[attempt]) = Busy(run[attempt]) /\ Busy(run'[Out]) = Busy(run[Out])
        BY <2>1
      <3>3. \A x \in {attempt, Merged, Out} : Len(buf[x]) \in Nat /\ Busy(run[x]) \in Nat
        BY <1>2, <1>7
      <3>4. \A x \in {attempt, Merged, Out} : Len(buf'[x]) \in Nat /\ Busy(run'[x]) \in Nat
        BY <3>1, <3>2, <3>3
      <3>5. /\ Len(buf[Out]) + Busy(run[Out]) = Len(buf'[Out]) + Busy(run'[Out])
            /\ Len(buf[Merged]) + Busy(run[Merged]) + Len(buf[attempt])
                 = Len(buf'[Merged]) + Busy(run'[Merged]) + Len(buf'[attempt])
        <4>1. \A m, n \in Nat : m + 0 + n = m + 1 + (n - 1)
          OBVIOUS
        <4>2. Len(buf[attempt]) \in Nat /\ Len(buf[Merged]) \in Nat
          BY <3>3
        <4>3. Len(buf[Merged]) + 0 + Len(buf[attempt]) = Len(buf[Merged]) + 1 + (Len(buf[attempt]) - 1)
          BY <4>1, <4>2
        <4>4. QED BY <3>1, <3>2, <4>3
      <3>6. QED BY <1>1, <1>8, <3>2, <3>3, <3>4, <3>5, SumsKept
    <2>5. LastIn(Got)'
      BY <1>2, <2>1, <2>3 DEF LastIn
    <2>6. EndIsLast' /\ LinesCounted'
      BY <1>1, <1>2, <2>1, <2>2, <2>4, FlowingMoves
    <2>7. EndsInOrder'
      BY <1>1, <1>2, <1>4, <1>10, <2>1 DEF EndsInOrder
    <2>8. QED BY <2>5, <2>6, <2>7
  <1>11. QED BY <1>9, <1>10

LEMMA FlowingEnd ==
    ASSUME TypeOK, Uncommitted, Flowing, NEW c \in {Merged, Out}, End(c)
    PROVE  Flowing'
  <1> SUFFICES ASSUME (router \in {"wait", "committed"} /\ handler = "busy")'
               PROVE  EndIsLast' /\ LinesCounted' /\ LastIn(Got)' /\ EndsInOrder'
    BY DEF Flowing
  <1>1. /\ UNCHANGED <<router, attempt, lines, buf, hand, seen, handler, usage>>
        /\ run[c] = "read" /\ run'[c] = "gone" /\ Closed(Input(c))
        /\ \A x \in Channels \ {c} : run'[x] = run[x]
        /\ router = "committed" /\ attempt \in Attempts
    BY Names DEF End, Uncommitted, client, TypeOK
  <1>2. /\ EndIsLast /\ LinesCounted /\ LastIn(Got) /\ EndsInOrder
        /\ attempt \in Channels /\ attempt # Merged /\ attempt # Out
        /\ Merged \in Channels /\ Out \in Channels /\ Merged # Out
    BY <1>1, Names DEF Flowing
  <1>3. \A x \in Channels : /\ run'[x] = "send" <=> run[x] = "send"
                            /\ Busy(run'[x]) = Busy(run[x])
    BY <1>1 DEF Busy
  <1>4. \A x : (x \in Pipe' <=> x \in Pipe) /\ (x \in Got' <=> x \in Got)
    BY <1>1, <1>2, <1>3, Contents
  <1>5. Total' = Total
    BY <1>1, <1>2, <1>3, Sums
  <1>6. run'[attempt] = run[attempt] /\ hand'[attempt] = hand[attempt]
    BY <1>1, <1>2
  <1>7. EndIsLast' /\ LinesCounted'
    BY <1>1, <1>2, <1>4, <1>5, <1>6, FlowingMoves
  <1>8. LastIn(Got)'
    BY <1>1, <1>2, <1>4 DEF LastIn
  <1>9. EndsInOrder'
    BY <1>1, <1>2, <1>6 DEF EndsInOrder, Closed, Input
  <1>10. QED BY <1>7, <1>8, <1>9

\* A new attempt has sent nothing; the first event commits it.
LEMMA FlowingRoute ==
    ASSUME TypeOK, Uncommitted, Flowing, Untold, Route \/ FirstTokenTimeout
    PROVE  Flowing'
  <1>1. CASE Refused \/ Exhausted \/ FirstTokenTimeout \/ ClosedBeforeFirst \/ FirstIsError
    <2>1. router' \in {"try", "failed"}
      BY <1>1 DEF Refused, Exhausted, FirstTokenTimeout, ClosedBeforeFirst, FirstIsError, Abandon
    <2>2. QED BY <2>1 DEF Flowing
  <1>2. CASE Open
    <2>1. /\ attempt' = attempt + 1 /\ attempt + 1 \in Attempts /\ attempt + 1 > attempt
          /\ UNCHANGED <<hand, buf, lines, seen, usage>>
          /\ seen = <<>> /\ usage = Nothing
      BY <1>2, StreamAssumption DEF Open, client, Attempts, TypeOK, Uncommitted, Untold
    <2>2. /\ run[attempt'] = "off" /\ buf'[attempt'] = <<>> /\ lines'[attempt'] = 0
          /\ run[Merged] = "off" /\ run[Out] = "off" /\ buf'[Merged] = <<>> /\ buf'[Out] = <<>>
      BY <1>2, <2>1, Names DEF Open, Uncommitted
    <2>3. run'[attempt'] = "read" /\ run'[Merged] = "off" /\ run'[Out] = "off"
      BY <1>2, <2>1, <2>2, Names DEF Open, TypeOK
    <2>4. Rng(seen') = {} /\ Rng(buf'[attempt']) = {} /\ Rng(buf'[Merged]) = {} /\ Rng(buf'[Out]) = {}
      BY <2>1, <2>2 DEF Rng
    <2>5. \A e : e \notin Pipe' /\ e \notin Got'
      BY <2>3, <2>4, Contents
    <2>6. Total' = 0
      <3>1. Busy(run'[attempt']) = 0 /\ Busy(run'[Merged]) = 0 /\ Busy(run'[Out]) = 0
        BY <2>3 DEF Busy
      <3>2. Len(seen') = 0 /\ Len(buf'[attempt']) = 0 /\ Len(buf'[Merged]) = 0 /\ Len(buf'[Out]) = 0
        BY <2>1, <2>2
      <3>3. QED BY <3>1, <3>2, Sums
    <2>7. EndIsLast' /\ LinesCounted' /\ EndsInOrder'
      BY <2>2, <2>3, <2>5, <2>6 DEF EndIsLast, LinesCounted, EndsInOrder
    <2>8. LastIn(Got)'
      BY <2>1, <2>5 DEF LastIn
    <2>9. QED BY <2>7, <2>8 DEF Flowing
  <1>3. CASE Commit
    <2> DEFINE e == Head(buf[attempt])
    <2>1. /\ router = "wait" /\ handler = "busy" /\ attempt \in Attempts
          /\ UNCHANGED <<attempt, lines, seen, usage, handler>> /\ buf[attempt] # <<>>
          /\ seen = <<>> /\ usage = Nothing
          /\ run[Merged] = "off" /\ run[Out] = "off" /\ buf[Merged] = <<>> /\ buf[Out] = <<>>
      BY <1>3, Names DEF Commit, Uncommitted, Untold, client
    <2>2. /\ attempt \in Channels /\ attempt # Merged /\ attempt # Out
          /\ Merged \in Channels /\ Out \in Channels /\ Merged # Out
      BY <2>1, Names
    <2>3. EndIsLast /\ LinesCounted
      BY <2>1 DEF Flowing
    <2>4. /\ buf'[attempt] = Tail(buf[attempt]) /\ buf'[Merged] = <<>> /\ buf'[Out] = <<>>
          /\ hand'[Merged] = e /\ run'[Merged] = "send" /\ run'[Out] = "read"
          /\ run'[attempt] = run[attempt] /\ hand'[attempt] = hand[attempt]
      BY <1>3, <2>1, <2>2 DEF Commit, TypeOK
    <2>5. /\ Rng(buf[attempt]) = {e} \cup Rng(buf'[attempt])
          /\ Len(buf'[attempt]) = Len(buf[attempt]) - 1 /\ Len(buf[attempt]) \in Nat \ {0}
      <3>1. buf[attempt] \in Seq(Event)
        BY <2>2 DEF TypeOK
      <3>2. QED BY <2>1, <2>4, <3>1, RngMoves, Taken
    <2>6. Rng(<<>>) = {}
      BY DEF Rng
    <2> HIDE DEF e
    <2>7. \A x : (x \in Pipe' <=> x \in Pipe) /\ x \notin Got'
      BY <2>1, <2>4, <2>5, <2>6, Contents
    <2>8. Total' = Total
      <3>1. /\ Busy(run[Merged]) = 0 /\ Busy(run'[Merged]) = 1 /\ Busy(run[Out]) = 0 /\ Busy(run'[Out]) = 0
            /\ Len(buf'[Merged]) = 0 /\ Len(buf'[Out]) = 0 /\ Len(buf[Merged]) = 0 /\ Len(buf[Out]) = 0
        BY <2>1, <2>4 DEF Busy
      <3>2. Busy(run'[attempt]) = Busy(run[attempt]) /\ Busy(run[attempt]) \in Nat /\ Len(seen) \in Nat
        BY <2>1, <2>4 DEF Busy
      <3>3. \A x \in {attempt, Merged, Out} :
               Len(buf[x]) \in Nat /\ Busy(run[x]) \in Nat /\ Len(buf'[x]) \in Nat /\ Busy(run'[x]) \in Nat
        BY <2>5, <3>1, <3>2
      <3>4. /\ Len(buf[Out]) + Busy(run[Out]) = Len(buf'[Out]) + Busy(run'[Out])
            /\ Len(buf[Merged]) + Busy(run[Merged]) + Len(buf[attempt])
                 = Len(buf'[Merged]) + Busy(run'[Merged]) + Len(buf'[attempt])
        BY <2>5, <3>1
      <3>5. QED BY <2>1, <3>2, <3>3, <3>4, SumsKept
    <2>9. EndIsLast' /\ LinesCounted'
      BY <2>1, <2>3, <2>4, <2>7, <2>8, FlowingMoves
    <2>10. LastIn(Got)' /\ EndsInOrder'
      BY <2>1, <2>4, <2>7 DEF LastIn, EndsInOrder
    <2>11. QED BY <2>9, <2>10 DEF Flowing
  <1>4. QED BY <1>1, <1>2, <1>3 DEF Route

\* The client takes an event; what it got is what CaptureUsage has seen.
LEMMA Written ==
    ASSUME TypeOK, Uncommitted, Pipelined, Flowing, Write
    PROVE  /\ attempt \in Attempts /\ attempt \in Channels /\ EndIsLast /\ LinesCounted /\ LastIn(Got) /\ EndsInOrder
           /\ UNCHANGED <<router, attempt, run, hand, lines, usage>> /\ handler = "busy"
           /\ buf'[attempt] = buf[attempt] /\ buf'[Merged] = buf[Merged]
           /\ Head(buf[Out]) \in Event /\ Head(buf[Out]) \in Pipe /\ Head(buf[Out]).n = Len(seen) + 1
           /\ seen' = Append(seen, Head(buf[Out])) /\ Len(seen') = Len(seen) + 1 /\ seen \in Seq(Event)
           /\ Len(buf'[Out]) = Len(buf[Out]) - 1 /\ Len(buf[Out]) \in Nat \ {0}
           /\ Pipe' \subseteq Pipe
           /\ \A x \in Pipe : x = Head(buf[Out]) \/ x \in Pipe'
           /\ \A x : x \in Got' <=> x \in Got
           /\ Total' = Total
  <1> DEFINE e == Head(buf[Out])
  <1>1. /\ router = "committed" /\ attempt \in Attempts /\ handler = "busy" /\ buf[Out] # <<>>
        /\ UNCHANGED <<router, attempt, run, hand, lines, usage>>
        /\ buf'[Out] = Tail(buf[Out]) /\ \A x \in Channels \ {Out} : buf'[x] = buf[x]
        /\ seen' = Append(seen, e)
    BY Names DEF Write, Uncommitted, TypeOK
  <1>2. /\ EndIsLast /\ LinesCounted /\ LastIn(Got) /\ EndsInOrder
        /\ attempt \in Channels /\ attempt # Merged /\ attempt # Out
        /\ Merged \in Channels /\ Out \in Channels /\ Merged # Out
    BY <1>1, Names DEF Flowing
  <1>3. buf[Out] \in Seq(Event) /\ seen \in Seq(Event) /\ Len(seen) \in Nat /\ attempt \in Nat
    BY <1>1, <1>2, Offsets DEF TypeOK
  <1>4. /\ e \in Event /\ Rng(buf[Out]) = {e} \cup Rng(buf'[Out]) /\ Rng(seen') = Rng(seen) \cup {e}
        /\ Len(buf'[Out]) = Len(buf[Out]) - 1 /\ Len(buf[Out]) \in Nat \ {0} /\ Len(seen') = Len(seen) + 1
    BY <1>1, <1>3, RngMoves, Taken, Appended
  <1>5. e.n = Len(seen) + 1
    <2>1. InOrder(buf[Out], Len(seen), attempt)
      BY <1>1 DEF Pipelined
    <2>2. QED BY <1>1, <1>3, <2>1, Taken
  <1> HIDE DEF e
  <1>6. buf'[attempt] = buf[attempt] /\ buf'[Merged] = buf[Merged]
    BY <1>1, <1>2
  <1>7. /\ \A x \in Pipe' : x \in Pipe
        /\ \A x \in Pipe : x = e \/ x \in Pipe'
        /\ e \in Pipe
        /\ \A x : x \in Got' <=> x \in Got
    BY <1>1, <1>4, <1>6, Contents
  <1>8. Total' = Total
    <2>1. \A x \in {attempt, Merged, Out} : Len(buf[x]) \in Nat /\ Busy(run[x]) \in Nat
      BY <1>1, <1>2, Offsets
    <2>2. \A x \in {attempt, Merged, Out} : Busy(run'[x]) = Busy(run[x])
      BY <1>1
    <2>3. Len(buf'[attempt]) = Len(buf[attempt]) /\ Len(buf'[Merged]) = Len(buf[Merged])
      BY <1>6
    <2>4. Len(buf[Out]) \in Nat /\ Len(seen') + Len(buf'[Out]) = Len(seen) + Len(buf[Out])
      BY <1>3, <1>4, Moved
    <2>5. BeforeOut' = BeforeOut
      BY <2>4, Equations
    <2>6. PastOut' = PastOut /\ BeforeMerged' = BeforeMerged /\ PastMerged' = PastMerged /\ BeforePump' = BeforePump
      BY <1>1, <1>6, <2>5, Equations
    <2>7. QED BY <1>1, <2>6 DEF Total
  <1>9. QED BY <1>1, <1>2, <1>3, <1>4, <1>5, <1>6, <1>7, <1>8 DEF e

LEMMA FlowingCopy ==
    ASSUME TypeOK, Uncommitted, Pipelined, Flowing, Copy
    PROVE  Flowing'
  <1> SUFFICES ASSUME (router \in {"wait", "committed"} /\ handler = "busy")'
               PROVE  EndIsLast' /\ LinesCounted' /\ LastIn(Got)' /\ EndsInOrder'
    BY DEF Flowing
  <1>1. Write /\ Head(buf[Out]).kind # "err"
    BY DEF Copy, Write, WriteFails, ChannelClosed, Finish
  <1>2. EndIsLast' /\ LinesCounted'
    BY <1>1, Written, FlowingMoves
  <1>3. LastIn(Got)' /\ EndsInOrder'
    BY <1>1, Written DEF LastIn, EndsInOrder
  <1>4. QED BY <1>2, <1>3

LEMMA UntoldStep ==
    ASSUME TypeOK, Uncommitted, Untold, Next
    PROVE  Untold'
  <1>1. ASSUME NEW a \in Attempts, Line(a) \/ ReadError(a) \/ EndOfBody(a) PROVE Untold'
    <2>1. /\ UNCHANGED <<router, usage, handler, billed, seen>>
          /\ run'[a] = "send" => hand'[a].from = a
          /\ \A c \in Attempts \ {a} : run'[c] = run[c] /\ hand'[c] = hand[c]
      BY <1>1, Names DEF Line, ReadError, EndOfBody, Read, client, TypeOK
    <2>2. QED BY <2>1 DEF Untold, Final
  <1>2. ASSUME NEW c \in Channels, Send(c) PROVE Untold'
    <2>1. /\ UNCHANGED <<router, usage, handler, billed, seen>> /\ run'[c] # "send"
          /\ \A d \in Channels \ {c} : run'[d] = run[d] /\ hand'[d] = hand[d]
      BY <1>2 DEF Send, AfterSend, client, TypeOK
    <2>2. QED BY <2>1, Names DEF Untold, Final
  <1>3. CASE Route \/ FirstTokenTimeout
    <2>1. /\ UNCHANGED <<usage, billed, seen>>
          /\ handler' = "busy" => handler = "busy"
          /\ router # "committed"
      BY <1>3 DEF Route, Open, Refused, Exhausted, FirstTokenTimeout, ClosedBeforeFirst, FirstIsError,
                  Abandon, Commit, client
    <2>2. \A a \in Attempts : run'[a] = "send" => run[a] = "send" /\ hand'[a] = hand[a]
      <3>1. CASE Open
        BY <3>1, Names DEF Open, TypeOK
      <3>2. CASE Commit
        BY <3>2, Names DEF Commit, TypeOK
      <3>3. CASE Refused \/ Exhausted \/ FirstTokenTimeout \/ ClosedBeforeFirst \/ FirstIsError
        BY <3>3 DEF Refused, Exhausted, FirstTokenTimeout, ClosedBeforeFirst, FirstIsError, Abandon, pipeline
      <3>4. QED BY <1>3, <3>1, <3>2, <3>3 DEF Route
    <2>3. QED BY <2>1, <2>2 DEF Untold, Final
  <1>4. ASSUME NEW c \in {Merged, Out}, Receive(c) \/ End(c) PROVE Untold'
    <2>1. /\ UNCHANGED <<router, handler, billed, seen>> /\ router = "committed"
          /\ \A a \in Attempts : run'[a] = run[a] /\ hand'[a] = hand[a]
      BY <1>4, Names DEF Receive, End, Uncommitted, client, TypeOK
    <2>2. QED BY <2>1 DEF Untold, Final
  <1>5. CASE Copy
    <2>1. UNCHANGED <<router, usage, run, hand>>
      BY <1>5 DEF Copy, Write, WriteFails, ChannelClosed, pipeline
    <2>2. ASSUME handler' = "busy" PROVE billed' = Nothing /\ \A i \in 1..Len(seen') : ~Final(seen'[i])
      <3>1. /\ Write /\ handler = "busy" /\ buf[Out] # <<>> /\ seen' = Append(seen, Head(buf[Out]))
            /\ ~Final(Head(buf[Out])) /\ billed' = billed
        BY <1>5, <2>2 DEF Copy, Write, WriteFails, ChannelClosed, Finish, Final
      <3>2. Head(buf[Out]) \in Event /\ seen \in Seq(Event)
        BY <3>1, Taken, Names DEF TypeOK
      <3>3. \A i \in 1..Len(seen') : seen'[i] = Head(buf[Out]) \/ (i \in 1..Len(seen) /\ seen'[i] = seen[i])
        BY <3>1, <3>2
      <3>4. QED BY <3>1, <3>3 DEF Untold, Final
    <2>3. QED BY <2>1, <2>2 DEF Untold, Final
  <1>6. CASE Disconnect \/ Idle
    BY <1>6 DEF Disconnect, Idle, vars, pipeline, client, Untold, Final
  <1>7. QED BY <1>1, <1>2, <1>3, <1>4, <1>5, <1>6, Names DEF Next, Pump, Relay

\* With all of the answer written nothing else is under way.
LEMMA AllWritten ==
    ASSUME TypeOK, attempt \in Attempts, NEW n \in {0, 1}, Total = Len(seen) + n, Len(buf[Out]) >= n
    PROVE  /\ Len(buf[Out]) = n /\ buf[Merged] = <<>> /\ buf[attempt] = <<>>
           /\ run[attempt] # "send" /\ run[Merged] # "send" /\ run[Out] # "send"
  <1> DEFINE s == Len(seen)
             a0 == Len(buf[attempt])  a1 == Busy(run[attempt])
             m0 == Len(buf[Merged])  m1 == Busy(run[Merged])
             o0 == Len(buf[Out])  o1 == Busy(run[Out])
  <1>1. /\ s \in Nat /\ a0 \in Nat /\ a1 \in Nat /\ m0 \in Nat /\ m1 \in Nat /\ o0 \in Nat /\ o1 \in Nat
        /\ buf[Merged] \in Seq(Event) /\ buf[attempt] \in Seq(Event)
    BY Names, Offsets
  <1>2. s + n = s + o0 + o1 + m0 + m1 + a0 + a1 /\ o0 >= n
    BY Sums
  <1>3. /\ m0 = 0 => buf[Merged] = <<>>
        /\ a0 = 0 => buf[attempt] = <<>>
        /\ a1 = 0 => run[attempt] # "send"
        /\ m1 = 0 => run[Merged] # "send"
        /\ o1 = 0 => run[Out] # "send"
    BY <1>1, RngMoves DEF Busy
  <1>4. o0 = n => Len(buf[Out]) = n
    OBVIOUS
  <1> HIDE DEF s, a0, a1, m0, m1, o0, o1
  <1>5. o0 = n /\ o1 = 0 /\ m0 = 0 /\ m1 = 0 /\ a0 = 0 /\ a1 = 0
    BY <1>1, <1>2
  <1>6. QED BY <1>3, <1>4, <1>5

\* A handler that ended stays where it is.
LEMMA EndedKept ==
    ASSUME TypeOK, Uncommitted, Ended, handler # "busy", Next
    PROVE  Ended'
  <1>1. UNCHANGED <<handler, billed, seen>>
    BY DEF Next, Pump, Relay, Line, ReadError, EndOfBody, Read, Send, Route, Open, Refused, Exhausted,
           FirstTokenTimeout, ClosedBeforeFirst, FirstIsError, Abandon, Commit, Receive, End, Copy, Write,
           WriteFails, ChannelClosed, Disconnect, Idle, vars, client, Uncommitted
  <1>2. ASSUME Drained PROVE Drained'
    <2>0. /\ attempt \in Attempts /\ attempt \in Channels /\ attempt # Merged /\ attempt # Out
          /\ Merged \in Channels /\ Out \in Channels /\ Merged # Out
          /\ run[attempt] = "gone" /\ run[Merged] # "send" /\ run[Out] # "send"
          /\ buf[attempt] = <<>> /\ buf[Merged] = <<>> /\ buf[Out] = <<>>
      BY <1>2, Names DEF Drained
    <2>1. ASSUME UNCHANGED <<attempt, usage>>, lines'[attempt] = lines[attempt],
                 \A c \in {attempt, Merged, Out} : buf'[c] = buf[c] /\ (run'[c] = run[c] \/ run'[c] = "gone")
          PROVE  Drained'
      BY <1>1, <1>2, <2>0, <2>1 DEF Drained, LastIn
    <2>2. ASSUME NEW a \in Attempts, Line(a) \/ ReadError(a) \/ EndOfBody(a) PROVE Drained'
      <3>1. /\ run[a] = "read" /\ UNCHANGED <<attempt, usage, buf>>
            /\ \A c \in Channels \ {a} : run'[c] = run[c]
            /\ \A b \in Attempts \ {a} : lines'[b] = lines[b]
        BY <2>2 DEF Line, ReadError, EndOfBody, Read, TypeOK
      <3>2. QED BY <2>0, <2>1, <3>1, Names
    <2>3. ASSUME NEW c \in Channels, Send(c) PROVE Drained'
      <3>1. /\ run[c] = "send" /\ UNCHANGED <<attempt, usage, lines>>
            /\ \A d \in Channels \ {c} : run'[d] = run[d] /\ buf'[d] = buf[d]
        BY <2>3 DEF Send, TypeOK
      <3>2. c # attempt /\ c # Merged /\ c # Out
        BY <2>0, <3>1
      <3>3. QED BY <2>0, <2>1, <3>1, <3>2
    <2>4. ASSUME NEW c \in {Merged, Out}, Receive(c) \/ End(c) PROVE Drained'
      <3>1. Input(c) \in {attempt, Merged}
        BY DEF Input
      <3>2. End(c)
        BY <2>0, <2>4, <3>1 DEF Receive
      <3>3. /\ UNCHANGED <<attempt, usage, lines, buf>> /\ run'[c] = "gone"
            /\ \A d \in Channels \ {c} : run'[d] = run[d]
        BY <2>0, <2>4, <3>2 DEF End, TypeOK
      <3>4. QED BY <2>0, <2>1, <3>3
    <2>5. CASE Route \/ FirstTokenTimeout \/ Copy \/ Disconnect
      BY <2>5 DEF Route, Open, Refused, Exhausted, FirstTokenTimeout, ClosedBeforeFirst, FirstIsError, Commit,
                  Copy, Write, WriteFails, ChannelClosed, Disconnect, Uncommitted
    <2>6. CASE Idle
      BY <2>1, <2>6 DEF Idle, vars, pipeline
    <2>7. QED BY <2>2, <2>3, <2>4, <2>5, <2>6, Names DEF Next, Pump, Relay
  <1>3. QED BY <1>1, <1>2 DEF Ended, Final

\* The steps that end a handler.
LEMMA EndedStep ==
    ASSUME TypeOK, Uncommitted, Pipelined, InOrder(seen, 0, attempt), Flowing, Untold, handler = "busy", Next
    PROVE  Ended'
  <1> SUFFICES ASSUME handler' # "busy" PROVE Ended'
    BY DEF Ended
  <1>0. billed = Nothing /\ \A i \in 1..Len(seen) : ~Final(seen[i])
    BY DEF Untold
  <1>1. Exhausted \/ Write \/ WriteFails \/ ChannelClosed
    BY DEF Next, Pump, Relay, Line, ReadError, EndOfBody, Read, Send, Route, Open, Refused,
           FirstTokenTimeout, ClosedBeforeFirst, FirstIsError, Abandon, Commit, Receive, End, Copy,
           Disconnect, Idle, vars, client
  <1>2. CASE Exhausted
    BY <1>0, <1>2 DEF Exhausted, Ended, Final
  <1>3. CASE WriteFails
    BY <1>0, <1>3 DEF WriteFails, Finish, UsageAfter, Ended, Final
  <1>4. CASE Write
    <2> DEFINE e == Head(buf[Out])
    <2>1. /\ e \in Event /\ seen \in Seq(Event) /\ seen' = Append(seen, e) /\ Len(seen') = Len(seen) + 1
          /\ Len(seen) \in Nat
      BY <1>4, Written, Appended
    <2>2. \/ e.kind = "err" /\ handler' = "error" /\ billed' = Nothing
          \/ e.kind = "done" /\ handler' = "clean" /\ billed' = usage
      BY <1>4 DEF Write, Finish, UsageAfter
    <2>3. seen' # <<>> /\ seen'[Len(seen')] = e /\ Final(e)
      BY <2>1, <2>2 DEF Final
    <2>4. \A i \in 1..Len(seen') : Final(seen'[i]) => i = Len(seen')
      <3>1. \A i \in 1..Len(seen') : i # Len(seen') => i \in 1..Len(seen) /\ seen'[i] = seen[i]
        BY <2>1
      <3>2. QED BY <1>0, <3>1
    <2>5. ASSUME e.kind = "done" PROVE Drained'
      <3>1. /\ attempt \in Attempts /\ EndIsLast /\ LinesCounted /\ LastIn(Got) /\ e \in Pipe /\ e.n = Len(seen) + 1
            /\ Len(buf[Out]) \in Nat \ {0} /\ Len(buf'[Out]) = Len(buf[Out]) - 1
            /\ UNCHANGED <<attempt, run, hand, lines, usage>>
            /\ buf'[attempt] = buf[attempt] /\ buf'[Merged] = buf[Merged]
        BY <1>4, Written
      <3> HIDE DEF e
      <3>2. e.n = Total /\ (run[attempt] = "gone" \/ (run[attempt] = "send" /\ e = hand[attempt]))
        BY <2>5, <3>1 DEF EndIsLast, Final
      <3>3. Total = Len(seen) + 1 /\ Len(buf[Out]) >= 1
        BY <3>1, <3>2
      <3>4. /\ Len(buf[Out]) = 1 /\ buf[Merged] = <<>> /\ buf[attempt] = <<>>
            /\ run[attempt] # "send" /\ run[Merged] # "send" /\ run[Out] # "send"
        BY <3>1, <3>3, AllWritten
      <3>5. buf'[Out] = <<>>
        <4>1. Len(buf'[Out]) = 0 /\ buf'[Out] \in Seq(Event)
          <5>1. buf[Out] \in Seq(Event) /\ buf[Out] # <<>> /\ buf'[Out] = Tail(buf[Out])
            BY <1>4, Names DEF Write, TypeOK
          <5>2. QED BY <3>1, <3>4, <5>1, Taken
        <4>2. QED BY <4>1, RngMoves
      <3>6. \A x : x \notin Pipe'
        <4>1. Rng(<<>>) = {}
          BY DEF Rng
        <4>2. QED BY <3>1, <3>4, <3>5, <4>1, Contents
      <3>7. \A x \in Pipe : x = e
        BY <1>4, <3>6, Written DEF e
      <3>8. lines[attempt] = Len(seen')
        BY <2>1, <2>5, <3>1, <3>3, <3>7 DEF LinesCounted
      <3>9. \A x : x \in Rng(seen') <=> x \in Got
        <4>1. Rng(<<>>) = {}
          BY DEF Rng
        <4>2. \A x : x \in Rng(seen') <=> x \in Got'
          BY <3>1, <3>4, <3>5, <4>1, Contents
        <4>3. QED BY <1>4, <4>2, Written
      <3>10. LastIn(Rng(seen))'
        BY <3>1, <3>9 DEF LastIn
      <3>11. billed' = usage'
        BY <2>2, <2>5, <3>1 DEF e
      <3>12. QED BY <3>1, <3>2, <3>4, <3>5, <3>8, <3>10, <3>11 DEF Drained
    <2>6. QED BY <2>2, <2>3, <2>4, <2>5 DEF Ended, Final
  <1>5. CASE ChannelClosed
    <2>1. /\ run[Out] = "gone" /\ buf[Out] = <<>> /\ handler' = "clean" /\ billed' = usage
          /\ UNCHANGED <<attempt, run, hand, buf, lines, usage, seen>>
      BY <1>5 DEF ChannelClosed, Closed, Finish, UsageAfter, pipeline
    <2>2. router = "committed" /\ attempt \in Attempts
      BY <2>1 DEF Uncommitted
    <2>3. /\ EndIsLast /\ LinesCounted /\ LastIn(Got)
          /\ run[attempt] = "gone" /\ buf[attempt] = <<>> /\ run[Merged] = "gone" /\ buf[Merged] = <<>>
      BY <2>1, <2>2 DEF Flowing, EndsInOrder
    <2>4. Rng(<<>>) = {}
      BY DEF Rng
    <2>5. \A x : x \notin Pipe /\ (x \in Got <=> x \in Rng(seen))
      BY <2>1, <2>3, <2>4, Contents
    <2>6. Total = Len(seen)
      <3>1. Busy(run[attempt]) = 0 /\ Busy(run[Merged]) = 0 /\ Busy(run[Out]) = 0
        BY <2>1, <2>3 DEF Busy
      <3>2. Len(buf[attempt]) = 0 /\ Len(buf[Merged]) = 0 /\ Len(buf[Out]) = 0 /\ Len(seen) \in Nat
        BY <2>1, <2>3 DEF TypeOK
      <3>3. QED BY <3>1, <3>2, Sums
    <2>7. lines[attempt] = Len(seen)
      BY <2>3, <2>5, <2>6 DEF LinesCounted
    <2>8. LastIn(Rng(seen))
      BY <2>3, <2>5 DEF LastIn
    <2>9. Drained'
      BY <2>1, <2>2, <2>3, <2>7, <2>8 DEF Drained, LastIn
    <2>10. QED BY <1>0, <2>1, <2>9 DEF Ended, Final
  <1>6. QED BY <1>1, <1>2, <1>3, <1>4, <1>5

LEMMA InitTold == Init => Told
  <1> SUFFICES ASSUME Init PROVE Told
    OBVIOUS
  <1>1. router = "try" /\ handler = "busy" /\ seen = <<>> /\ billed = Nothing /\ usage = Nothing
        /\ \A a \in Attempts : run[a] = "off"
    BY Names DEF Init
  <1>2. QED BY <1>1 DEF Told, Flowing, Untold, Ended

LEMMA NextTold == IInv /\ Told /\ [Next]_vars => Told'
  <1> SUFFICES ASSUME IInv, Told, [Next]_vars PROVE Told'
    OBVIOUS
  <1>1. TypeOK /\ Uncommitted /\ Pipelined /\ InOrder(seen, 0, attempt) /\ Flowing /\ Untold /\ Ended
    BY DEF IInv, Told
  <1> USE <1>1
  <1>2. CASE UNCHANGED vars
    <2>1. /\ UNCHANGED <<router, attempt, run, hand, buf, lines, usage, handler, seen, billed>>
          /\ \A x : (x \in Pipe' <=> x \in Pipe) /\ (x \in Got' <=> x \in Got)
      BY <1>2, Contents DEF vars, pipeline, client
    <2>2. Total' = Total
      BY <2>1, Sums
    <2>3. Flowing'
      BY <2>1, <2>2 DEF Flowing, EndIsLast, LinesCounted, LastIn, EndsInOrder, Final
    <2>4. Untold' /\ Ended'
      BY <2>1 DEF Untold, Ended, Drained, LastIn, Final
    <2>5. QED BY <2>3, <2>4 DEF Told
  <1>3. CASE Next
    <2>1. Untold'
      BY <1>3, UntoldStep
    <2>2. Ended'
      BY <1>3, EndedKept, EndedStep
    <2>3. Flowing'
      <3>1. ASSUME NEW a \in Attempts, Line(a) \/ ReadError(a) \/ EndOfBody(a) PROVE Flowing'
        BY <3>1, FlowingPump
      <3>2. ASSUME NEW c \in Channels, Send(c) PROVE Flowing'
        BY <3>2, FlowingSend
      <3>3. ASSUME NEW c \in {Merged, Out}, Receive(c) \/ End(c) PROVE Flowing'
        BY <3>3, FlowingReceive, FlowingEnd
      <3>4. CASE Route \/ FirstTokenTimeout
        BY <3>4, FlowingRoute
      <3>5. CASE Copy
        BY <3>5, FlowingCopy
      <3>6. CASE Disconnect \/ Idle
        <4>1. /\ UNCHANGED <<router, attempt, run, hand, buf, lines, usage, handler, seen, billed>>
              /\ \A x : (x \in Pipe' <=> x \in Pipe) /\ (x \in Got' <=> x \in Got)
          BY <3>6, Contents DEF Disconnect, Idle, vars, pipeline, client
        <4>2. Total' = Total
          BY <4>1, Sums
        <4>3. QED BY <4>1, <4>2 DEF Flowing, EndIsLast, LinesCounted, LastIn, EndsInOrder, Final
      <3>7. QED BY <1>3, <3>1, <3>2, <3>3, <3>4, <3>5, <3>6, Names DEF Next, Pump, Relay
    <2>4. QED BY <2>1, <2>2, <2>3 DEF Told
  <1>4. QED BY <1>2, <1>3

LEMMA ToldAlways == Spec => [](IInv /\ Told)
  <1>1. Init => IInv /\ Told
    BY InitIInv, InitTold
  <1>2. IInv /\ Told /\ [Next]_vars => (IInv /\ Told)'
    BY NextIInv, NextTold
  <1>3. QED BY <1>1, <1>2, PTL DEF Spec

\* P4 of 003-001: what handleStream bills is the last usage of the answer the client got,
\* nothing if it did not get all of it, and no goroutine changes it afterwards.
THEOREM UsageIsTheClientsAlways == Spec => []UsageIsTheClients
  <1>1. IInv /\ Told => UsageIsTheClients
    <2> SUFFICES ASSUME IInv, Told, billed # Nothing
                 PROVE  /\ \E i \in DOMAIN seen :
                              seen[i] = billed /\ \A j \in i+1..Len(seen) : seen[j].kind # "usage"
                        /\ usage = billed
                        /\ Len(seen) = lines[attempt] /\ run[attempt] = "gone"
      BY DEF UsageIsTheClients
    <2>1. handler = "clean" /\ Drained
      BY DEF Told, Untold, Ended
    <2>2. /\ usage = billed /\ Len(seen) = lines[attempt] /\ run[attempt] = "gone"
          /\ billed \in Rng(seen) /\ \A e \in Rng(seen) : e.kind = "usage" => e.n <= billed.n
      BY <2>1 DEF Drained, LastIn
    <2>3. PICK i \in 1..Len(seen) : seen[i] = billed
      BY <2>2 DEF Rng
    <2>4. seen \in Seq(Event) /\ Len(seen) \in Nat /\ DOMAIN seen = 1..Len(seen)
      BY DEF IInv, TypeOK
    <2>5. \A j \in 1..Len(seen) : seen[j].n = j /\ seen[j] \in Rng(seen)
      <3>1. \A j \in 1..Len(seen) : seen[j].n = 0 + j /\ seen[j] \in Rng(seen)
        BY DEF IInv, InOrder, Rng
      <3>2. QED BY <2>4, <3>1
    <2>6. ASSUME NEW j \in i+1..Len(seen), seen[j].kind = "usage" PROVE FALSE
      <3>1. j \in 1..Len(seen) /\ j > i
        BY <2>4
      <3>2. seen[j].n <= billed.n
        BY <2>2, <2>5, <2>6, <3>1
      <3>3. j <= i
        BY <2>3, <2>5, <3>1, <3>2
      <3>4. QED BY <2>4, <3>1, <3>3
    <2>7. QED BY <2>2, <2>3, <2>4, <2>6
  <1>2. QED BY <1>1, ToldAlways, PTL

\* The answer ends once, a client that stayed is told of a break, and no error of the
\* upstream is left behind by an answer that ended clean.
THEOREM BreakIsToldAlways == Spec => []BreakIsTold
  <1>1. IInv /\ Told => BreakIsTold
    <2> SUFFICES ASSUME IInv, Told PROVE BreakIsTold
      OBVIOUS
    <2>1. seen \in Seq(Event) /\ DOMAIN seen = 1..Len(seen)
      BY DEF IInv, TypeOK
    <2>2. \A i \in DOMAIN seen : Final(seen[i]) => i = Len(seen) /\ handler # "busy"
      BY <2>1 DEF Told, Untold, Ended
    <2>3. ASSUME handler = "clean", NEW c \in Channels, hand[c].from = attempt PROVE hand[c].kind # "err"
      <3>1. Drained
        BY <2>3 DEF Told, Ended
      <3>2. run[attempt] # "send" /\ run[Merged] # "send" /\ run[Out] # "send" /\ attempt \in Attempts
        BY <3>1 DEF Drained
      <3>3. CASE run[c] = "send"
        <4>1. c \in Attempts
          BY <3>2, <3>3, StreamAssumption DEF Channels, Attempts, Merged, Out
        <4>2. QED BY <2>3, <3>2, <3>3, <4>1 DEF Told, Untold
      <3>4. CASE run[c] # "send"
        BY <3>4 DEF IInv, TypeOK, Nothing
      <3>5. QED BY <3>3, <3>4
    <2>4. ASSUME handler \in {"error", "clean"}
          PROVE  \/ seen # <<>> /\ Final(seen[Len(seen)])
                 \/ handler = "clean" /\ Len(seen) = lines[attempt]
      BY <2>4 DEF Told, Ended, Drained
    <2>5. QED BY <2>2, <2>3, <2>4 DEF BreakIsTold
  <1>2. QED BY <1>1, ToldAlways, PTL

=============================================================================
