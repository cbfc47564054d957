---------------------------- MODULE StreamRelay ----------------------------
(***************************************************************************)
(* One streaming request: the attempts of the router up to the first       *)
(* event, then the pipeline of goroutines that carries the events of the   *)
(* attempt that answered to the client.                                    *)
(*                                                                         *)
(*   pump of the attempt --ch--> merge --merged--> capture --out--> Copy   *)
(*                                                                         *)
(* A goroutine is named by the channel it sends on, which it closes as it  *)
(* ends.  No send looks at a context.  An event is its attempt, its number *)
(* in the upstream's answer and its kind.                                  *)
(***************************************************************************)
EXTENDS Integers, Sequences

CONSTANTS
    MaxAttempts,  \* bound: tries of all candidates, in the order of the chain
    Cap,          \* capacity of every channel, 8 in the code
    MaxEvents,    \* bound: lines of one upstream's answer
    Timed         \* whether a first-token timeout is configured

ASSUME StreamAssumption ==
    /\ MaxAttempts \in Nat \ {0} /\ Cap \in Nat \ {0} /\ MaxEvents \in Nat
    /\ Timed \in BOOLEAN

Attempts == 1..MaxAttempts
Merged == MaxAttempts + 1
Out == MaxAttempts + 2
Channels == 1..(MaxAttempts + 2)

Kinds == {"data", "usage", "done", "err"}
Event == [from : Attempts, n : 1..(MaxEvents + 1), kind : Kinds]
Nothing == [from |-> 0, n |-> 0, kind |-> "none"]

VARIABLES
    router,     \* the router's side of the handler: "try", "wait", "committed", "failed"
    attempt,    \* the attempt under way, or the one committed to
    cancelled,  \* attempts whose own context was cancelled
    run,        \* of each goroutine: "off", "read", "send", "gone"
    hand,       \* the event each goroutine received and has not sent
    buf,        \* what is in each channel
    lines,      \* lines each attempt's pump has read
    usage,      \* cs.usage
    handler,    \* "busy", or how handleStream ended: "answered", "clean", "error", "pipe"
    seen,       \* the events written to the client
    billed,     \* the usage handleStream returned
    gone        \* the client's connection failed

pipeline == <<run, hand, buf>>
client == <<handler, seen, billed>>
vars == <<router, attempt, cancelled, pipeline, lines, usage, client, gone>>

Init ==
    /\ router = "try" /\ attempt = 0 /\ cancelled = {}
    /\ run = [c \in Channels |-> "off"] /\ hand = [c \in Channels |-> Nothing]
    /\ buf = [c \in Channels |-> <<>>] /\ lines = [a \in Attempts |-> 0]
    /\ usage = Nothing
    /\ handler = "busy" /\ seen = <<>> /\ billed = Nothing
    /\ gone = FALSE

Closed(c) == run[c] = "gone" /\ buf[c] = <<>>
Final(e) == e.kind \in {"done", "err"}

\* The context of an attempt is a child of the request's, which ends with the
\* client's connection or as the handler returns.
Dead(a) == a \in cancelled \/ gone \/ handler # "busy"

-----------------------------------------------------------------------------
(* The goroutine of Client.Stream.                                         *)

Read(a, e) ==
    /\ run[a] = "read"
    /\ run' = [run EXCEPT ![a] = "send"]
    /\ hand' = [hand EXCEPT ![a] = e]
    /\ UNCHANGED <<router, attempt, cancelled, buf, usage, client, gone>>

\* A line of the answer, which may have been buffered before the context ended.
Line(a) ==
    /\ lines[a] < MaxEvents
    /\ lines' = [lines EXCEPT ![a] = @ + 1]
    /\ \E k \in {"data", "usage", "done"} :
          Read(a, [from |-> a, n |-> lines[a] + 1, kind |-> k])

\* The connection breaks, a line is too long or the context ended.
ReadError(a) ==
    /\ Read(a, [from |-> a, n |-> lines[a] + 1, kind |-> "err"])
    /\ UNCHANGED lines

\* The upstream closes its answer without a terminator.
EndOfBody(a) ==
    /\ run[a] = "read"
    /\ run' = [run EXCEPT ![a] = "gone"]
    /\ UNCHANGED <<router, attempt, cancelled, hand, buf, lines, usage, client, gone>>

SlipPumpGoesOn(c) ==
    IF c \in Attempts /\ hand[c].kind = "err" THEN "gone" ELSE "read"

\* A pump returns once it has sent a terminator or an error.
AfterSend(c) == IF c \in Attempts /\ Final(hand[c]) THEN "gone" ELSE "read"

Send(c) ==
    /\ run[c] = "send" /\ Len(buf[c]) < Cap
    /\ buf' = [buf EXCEPT ![c] = Append(@, hand[c])]
    /\ hand' = [hand EXCEPT ![c] = Nothing]
    /\ run' = [run EXCEPT ![c] = AfterSend(c)]
    /\ UNCHANGED <<router, attempt, cancelled, lines, usage, client, gone>>

-----------------------------------------------------------------------------
(* The tries of the router, until an event commits it.                     *)

\* Provider.Stream returns a channel.
Open ==
    /\ router = "try" /\ attempt < MaxAttempts
    /\ attempt' = attempt + 1
    /\ router' = "wait"
    /\ run' = [run EXCEPT ![attempt + 1] = "read"]
    /\ UNCHANGED <<cancelled, hand, buf, lines, usage, client, gone>>

\* Provider.Stream fails.
Refused ==
    /\ router = "try" /\ attempt < MaxAttempts
    /\ attempt' = attempt + 1
    /\ cancelled' = cancelled \cup {attempt + 1}
    /\ UNCHANGED <<router, pipeline, lines, usage, client, gone>>

\* No candidate is left, or the client went during a delay: the chain's error is
\* the answer.
Exhausted ==
    /\ router = "try"
    /\ attempt = MaxAttempts \/ gone
    /\ router' = "failed" /\ handler' = "answered"
    /\ UNCHANGED <<attempt, cancelled, pipeline, lines, usage, seen, billed, gone>>

Abandon ==
    /\ router' = "try"
    /\ cancelled' = cancelled \cup {attempt}
    /\ UNCHANGED <<attempt, run, hand, lines, usage, client, gone>>

FirstTokenTimeout == Timed /\ router = "wait" /\ Abandon /\ UNCHANGED buf

ClosedBeforeFirst == router = "wait" /\ Closed(attempt) /\ Abandon /\ UNCHANGED buf

FirstIsError ==
    /\ router = "wait" /\ buf[attempt] # <<>> /\ Head(buf[attempt]).kind = "err"
    /\ buf' = [buf EXCEPT ![attempt] = Tail(@)]
    /\ Abandon

SlipCommitLosesFirst ==
    /\ router = "wait" /\ buf[attempt] # <<>> /\ Head(buf[attempt]).kind # "err"
    /\ router' = "committed"
    /\ buf' = [buf EXCEPT ![attempt] = Tail(@)]
    /\ run' = [run EXCEPT ![Merged] = "read", ![Out] = "read"]
    /\ UNCHANGED <<attempt, cancelled, hand, lines, usage, client, gone>>

\* The first event is in the hand of the new merge; CaptureUsage follows it.
Commit ==
    /\ router = "wait" /\ buf[attempt] # <<>> /\ Head(buf[attempt]).kind # "err"
    /\ router' = "committed"
    /\ buf' = [buf EXCEPT ![attempt] = Tail(@)]
    /\ hand' = [hand EXCEPT ![Merged] = Head(buf[attempt])]
    /\ run' = [run EXCEPT ![Merged] = "send", ![Out] = "read"]
    /\ UNCHANGED <<attempt, cancelled, lines, usage, client, gone>>

-----------------------------------------------------------------------------
(* The goroutines of commitStream and of CaptureUsage.                     *)

Input(c) == IF c = Merged THEN attempt ELSE Merged

\* CaptureUsage keeps the usage of the last chunk that has one.
Captured(c, e) == IF c = Out /\ e.kind = "usage" THEN e ELSE usage

Receive(c) ==
    LET e == Head(buf[Input(c)])
    IN  /\ run[c] = "read" /\ buf[Input(c)] # <<>>
        /\ buf' = [buf EXCEPT ![Input(c)] = Tail(@)]
        /\ hand' = [hand EXCEPT ![c] = e]
        /\ run' = [run EXCEPT ![c] = "send"]
        /\ usage' = Captured(c, e)
        /\ UNCHANGED <<router, attempt, cancelled, lines, client, gone>>

\* The input is closed and drained; merge cancels the attempt as it ends.
End(c) ==
    /\ run[c] = "read" /\ Closed(Input(c))
    /\ run' = [run EXCEPT ![c] = "gone"]
    /\ cancelled' = IF c = Merged THEN cancelled \cup {attempt} ELSE cancelled
    /\ UNCHANGED <<router, attempt, hand, buf, lines, usage, client, gone>>

-----------------------------------------------------------------------------
(* Copy, and what handleStream makes of its result.                        *)

SlipReadsUsageAnyway(how) == usage

\* The usage is read only if Copy returned nil.
UsageAfter(how) == IF how = "clean" THEN usage ELSE Nothing

Finish(how) == handler' = how /\ billed' = UsageAfter(how)

SlipErrorUnsaid ==
    /\ handler = "busy" /\ buf[Out] # <<>>
    /\ buf' = [buf EXCEPT ![Out] = Tail(@)]
    /\ IF Head(buf[Out]).kind = "err"
       THEN seen' = seen /\ Finish("error")
       ELSE /\ seen' = Append(seen, Head(buf[Out]))
            /\ IF Head(buf[Out]).kind = "done" THEN Finish("clean")
               ELSE UNCHANGED <<handler, billed>>
    /\ UNCHANGED <<router, attempt, cancelled, run, hand, lines, usage, gone>>

\* An event is written; a terminator or an error (with its [DONE]) ends the answer.
Write ==
    LET e == Head(buf[Out])
    IN  /\ handler = "busy" /\ buf[Out] # <<>>
        /\ buf' = [buf EXCEPT ![Out] = Tail(@)]
        /\ seen' = Append(seen, e)
        /\ CASE e.kind = "err"  -> Finish("error")
             [] e.kind = "done" -> Finish("clean")
             [] OTHER           -> UNCHANGED <<handler, billed>>
        /\ UNCHANGED <<router, attempt, cancelled, run, hand, lines, usage, gone>>

\* The connection does not take the event: Copy returns, nobody drains the channel.
WriteFails ==
    /\ handler = "busy" /\ buf[Out] # <<>> /\ gone
    /\ buf' = [buf EXCEPT ![Out] = Tail(@)]
    /\ Finish("pipe")
    /\ UNCHANGED <<router, attempt, cancelled, run, hand, lines, usage, seen, gone>>

\* The channel is closed before a terminator: Copy returns nil and writes nothing.
ChannelClosed ==
    /\ handler = "busy" /\ Closed(Out)
    /\ Finish("clean")
    /\ UNCHANGED <<router, attempt, cancelled, pipeline, lines, usage, seen, gone>>

-----------------------------------------------------------------------------
\* The client disconnects or the write deadline passes, while the request is served.
Disconnect ==
    /\ ~gone /\ handler = "busy"
    /\ gone' = TRUE
    /\ UNCHANGED <<router, attempt, cancelled, pipeline, lines, usage, client>>

Pump(a) == Line(a) \/ ReadError(a) \/ EndOfBody(a) \/ Send(a)
Relay(c) == Receive(c) \/ End(c) \/ Send(c)
Route == Open \/ Refused \/ Exhausted \/ ClosedBeforeFirst \/ FirstIsError \/ Commit
Copy == Write \/ WriteFails \/ ChannelClosed

\* Nothing is left to run; a pump may be blocked for good (see Ends).
Idle ==
    /\ handler # "busy"
    /\ \A c \in Channels : run[c] = "read" => c \notin Attempts /\ ~Closed(Input(c)) /\ buf[Input(c)] = <<>>
    /\ \A c \in Channels : run[c] = "send" => Len(buf[c]) = Cap
    /\ UNCHANGED vars

Next ==
    \/ \E a \in Attempts : Pump(a)
    \/ \E c \in {Merged, Out} : Relay(c)
    \/ Route \/ FirstTokenTimeout \/ Copy \/ Disconnect \/ Idle

Spec == Init /\ [][Next]_vars

(* Goroutines run and the timer fires.  The upstream may stall for good,   *)
(* unless the context of its attempt ended: then the read of the body      *)
(* fails.                                                                  *)
FairSpec ==
    /\ Spec
    /\ WF_vars(Route) /\ WF_vars(FirstTokenTimeout) /\ WF_vars(Copy)
    /\ \A c \in Channels : WF_vars(Send(c))
    /\ \A c \in {Merged, Out} : WF_vars(Receive(c) \/ End(c))
    /\ \A a \in Attempts : WF_vars(Dead(a) /\ (ReadError(a) \/ EndOfBody(a)))

-----------------------------------------------------------------------------
Routing == {"try", "wait", "committed", "failed"}
Running == {"off", "read", "send", "gone"}
Endings == {"answered", "clean", "error", "pipe"}

\* Channels stay within their capacity and hold events; a goroutine that sends has
\* an event in its hand.
TypeOK ==
    /\ router \in Routing /\ attempt \in 0..MaxAttempts /\ cancelled \subseteq Attempts
    /\ run \in [Channels -> Running] /\ hand \in [Channels -> Event \cup {Nothing}]
    /\ \A c \in Channels : IF run[c] = "send" THEN hand[c] \in Event ELSE hand[c] = Nothing
    /\ buf \in [Channels -> Seq(Event)] /\ \A c \in Channels : Len(buf[c]) <= Cap
    /\ lines \in [Attempts -> 0..MaxEvents]
    /\ usage \in Event \cup {Nothing}
    /\ handler \in {"busy"} \cup Endings
    /\ seen \in Seq(Event) /\ billed \in Event \cup {Nothing}
    /\ gone \in BOOLEAN

\* "NUNCA reconectar a otro provider post-primer-byte" (stream.go): what the client
\* sees is a beginning of one upstream's answer, every event of it in its place.
OneAnswer ==
    \A i \in DOMAIN seen : seen[i].from = attempt /\ seen[i].n = i

\* P4 of 003-001: the usage that is billed is the last one of the answer the client
\* got, nothing if it did not get it all, and no goroutine changes it later (H1).
UsageIsTheClients ==
    billed # Nothing =>
        /\ \E i \in DOMAIN seen :
              seen[i] = billed /\ \A j \in i+1..Len(seen) : seen[j].kind # "usage"
        /\ usage = billed
        /\ Len(seen) = lines[attempt] /\ run[attempt] = "gone"

\* The answer ends once, and an upstream that broke is never passed off as complete:
\* a client that stayed got the error.
BreakIsTold ==
    /\ \A i \in DOMAIN seen : Final(seen[i]) => i = Len(seen) /\ handler # "busy"
    /\ handler = "clean" /\ attempt > 0 =>
          \A c \in Channels : hand[c].from = attempt => hand[c].kind # "err"
    /\ handler \in {"error", "clean"} /\ ~gone =>
          \/ seen # <<>> /\ Final(seen[Len(seen)])
          \/ handler = "clean" /\ Len(seen) = lines[attempt]

Serving == {attempt, Merged, Out} \cap Channels

\* A client that disconnects releases its handler, wherever it is; with a
\* first-token timeout nothing keeps a request from an answer or an error; and
\* "libera el context del hijo al terminar el drenado" (commitStream): when Copy read
\* the answer to its end, its pump, merge and capture end as well.  After a write
\* that failed they need not (stream.go:206): nobody drains what they send to.
Ends ==
    /\ gone ~> handler # "busy"
    /\ Timed => (router \in {"try", "wait"} ~> router \in {"committed", "failed"})
    /\ handler \in {"clean", "error"} ~> \A c \in Serving : run[c] = "gone"

=============================================================================
