--------------------------- MODULE TcpConnStream ---------------------------
(***************************************************************************)
(* net/src/tcp_conn.cpp, the bytes of one established connection: send()    *)
(* on the loop's thread and on another one, output_buffer_, partial writes, *)
(* the write complete and high water mark callbacks, shutdown() and the     *)
(* delayed force_close(), and input_buffer_ between readv and the message   *)
(* callback.  How a connection comes and goes is TcpConn.tla; here          *)
(* handle_close() takes it down at any moment.                              *)
(*                                                                         *)
(* The user is a server that takes frames, a byte with the length and then  *)
(* as many bytes, out of input_buffer_ and sends each one back; it may shut *)
(* the connection down when it has answered something.  Another thread      *)
(* sends the messages of a program, and may then shut down.  A message is   *)
(* posted as the bytes it has when send() is called: the user leaves alone, *)
(* until the functor has run, the memory that the overloads of send() other *)
(* than the one for a moved Buffer point to.                                *)
(***************************************************************************)
EXTENDS Buffer, SequencesExt

CONSTANTS
  Input,            \* the bytes that the peer sends
  Program,          \* the messages of the other thread: [kind, data]
  high_water_mark_

ASSUME StreamAssumption ==
  /\ Input \in Seq(Byte) /\ high_water_mark_ \in Nat
  /\ CHEAP_PREPEND > 0   \* Framed puts a byte in front
  /\ Program \in Seq([kind : {"raw", "buffer"}, data : Seq(Byte)])

VARIABLES
  conn,             \* the connection's fields for writing, see Connection
  input_buffer_,
  arrived,          \* how many bytes of Input readv has returned
  received,         \* history: the payloads the message callback took
  in_callback,      \* the loop is inside the message callback
  next,             \* the other thread's next message, counted from 1
  tested            \* it has found state_ CONNECTED and will post the message

vars == <<conn, input_buffer_, arrived, received, in_callback, next, tested>>

\* queue: the functors of the loop that concern the connection.  accepted: the
\* messages that send_in_loop gave to the kernel or to output_buffer_.  owed: a
\* write complete callback is due.  warned: the crossing of the high water mark
\* was announced.  shut: shutdown() found the connection open.
Connection ==
  [state_ |-> "CONNECTED", writing |-> FALSE, output_buffer_ |-> New(INITIAL_SIZE),
   queue |-> <<>>, sent |-> <<>>, fin |-> FALSE, reset |-> FALSE,
   shut |-> FALSE, accepted |-> <<>>, owed |-> FALSE, warned |-> FALSE]

Init ==
  /\ conn = Connection
  /\ input_buffer_ = New(INITIAL_SIZE)
  /\ arrived = 0 /\ received = <<>>
  /\ in_callback = FALSE /\ next = 1 /\ tested = FALSE

Pending(c) == Content(c.output_buffer_)

QueueInLoop(c, functor) == [c EXCEPT !.queue = Append(@, functor)]

-----------------------------------------------------------------------------
(* Writing.                                                                 *)

\* send_in_loop(), when `rest` remains: into output_buffer_, and writing enabled.
Buffered(c, rest) ==
  LET written == Len(Pending(c))
      crosses == written + Len(rest) >= high_water_mark_ /\ written < high_water_mark_
      warned == IF crosses THEN QueueInLoop(c, [fn |-> "high_water"]) ELSE c
  IN  [warned EXCEPT !.output_buffer_ = AppendBytes(@, rest), !.writing = TRUE,
                     !.warned = @ \/ crosses]

\* Mutant: a direct write of all the bytes tells nobody.
TakenUntold(c, data, n) ==
  LET given == [c EXCEPT !.sent = @ \o SubSeq(data, 1, n)]
  IN  IF n = Len(data) THEN given ELSE Buffered(given, SubSeq(data, n + 1, Len(data)))

\* send_in_loop(), when the kernel took the first n bytes.
Taken(c, data, n) ==
  LET given == [c EXCEPT !.sent = @ \o SubSeq(data, 1, n)]
  IN  IF n = Len(data)
      THEN [QueueInLoop(given, [fn |-> "write_complete"]) EXCEPT !.owed = FALSE]
      ELSE Buffered(given, SubSeq(data, n + 1, Len(data)))

\* Mutant: a write that would block is taken for a failed one.
SendInLoopGivesUp(c, m) ==
  LET noted == [c EXCEPT !.accepted = Append(@, m), !.owed = TRUE] IN
  IF c.state_ = "DISCONNECTED" THEN {c}
  ELSE IF c.writing \/ readable_bytes(c.output_buffer_) > 0 THEN {Buffered(noted, m.data)}
  ELSE IF c.fin \/ c.reset THEN {c}
  ELSE {c} \cup {Taken(noted, m.data, n) : n \in 1..Len(m.data)}

\* send_in_loop(): what the connection may be afterwards.  The kernel takes any
\* part, nothing if it would block; after the end of the stream or a reset the
\* write fails and the message is dropped.
SendInLoop(c, m) ==
  LET noted == [c EXCEPT !.accepted = Append(@, m), !.owed = TRUE] IN
  IF c.state_ = "DISCONNECTED" THEN {c}
  ELSE IF c.writing \/ readable_bytes(c.output_buffer_) > 0 THEN {Buffered(noted, m.data)}
  ELSE IF c.fin \/ c.reset THEN {c}
  ELSE {Taken(noted, m.data, n) : n \in 0..Len(m.data)}

\* Our half of the stream ends.
ShutdownWrite(c) == [c EXCEPT !.fin = TRUE]

\* Mutant: shuts down for writing although output_buffer_ is not empty.
ShutdownInLoopAtOnce(c) == ShutdownWrite(c)

ShutdownInLoop(c) == IF c.writing THEN c ELSE ShutdownWrite(c)

\* shutdown() on the loop's thread.
Shutdown(c) ==
  IF c.state_ = "CONNECTED"
  THEN ShutdownInLoop([c EXCEPT !.state_ = "DISCONNECTING", !.shut = TRUE])
  ELSE c

\* The write complete callback, which may shut the connection down.
WriteComplete(c) ==
  LET told == [c EXCEPT !.owed = FALSE] IN {told, Shutdown(told)}

\* Mutant: handle_write() leaves the end of the stream to shutdown().
DrainedForgets(c) == WriteComplete([c EXCEPT !.writing = FALSE])

\* handle_write(), when output_buffer_ has become empty.
Drained(c) ==
  {IF d.state_ = "DISCONNECTING" THEN ShutdownInLoop(d) ELSE d :
     d \in WriteComplete([c EXCEPT !.writing = FALSE])}

\* handle_write(), when the kernel took n bytes.
Flushed(c, n) ==
  LET d == [c EXCEPT !.sent = @ \o SubSeq(Pending(c), 1, n),
                     !.output_buffer_ = Pop(@, n),
                     !.warned = @ /\ Len(Pending(c)) - n >= high_water_mark_]
  IN  IF readable_bytes(d.output_buffer_) = 0 THEN Drained(d) ELSE {d}

-----------------------------------------------------------------------------
(* The loop: a reported channel, functors, and the user in its callbacks.   *)

HandleWrite ==
  /\ ~in_callback /\ conn.writing /\ ~conn.reset
  /\ \E n \in 1..Len(Pending(conn)) : conn' \in Flushed(conn, n)
  /\ UNCHANGED <<input_buffer_, arrived, received, in_callback, next, tested>>

\* send() of the loop's own thread.
Send(c, m) == IF c.state_ = "CONNECTED" THEN SendInLoop(c, m) ELSE {c}

\* The functor of send(): with a Buffer it calls send() again.
RunSend(c, m) == IF m.kind = "buffer" THEN Send(c, m) ELSE SendInLoop(c, m)

RunFunctor ==
  /\ ~in_callback /\ conn.queue # <<>>
  /\ LET f == Head(conn.queue)
         c == [conn EXCEPT !.queue = Tail(@)]
     IN  conn' \in CASE f.fn = "send" -> RunSend(c, f.message)
                     [] f.fn = "write_complete" -> {c, Shutdown(c)}
                     [] f.fn = "high_water" -> {c}
                     [] f.fn = "shutdown_in_loop" -> {ShutdownInLoop(c)}
  /\ UNCHANGED <<input_buffer_, arrived, received, in_callback, next, tested>>

\* handle_read(), up to the message callback.
HandleRead ==
  /\ ~in_callback /\ conn.state_ # "DISCONNECTED" /\ arrived < Len(Input)
  /\ \E n \in 1..Len(Input) - arrived :
       /\ n <= ReadLimit(input_buffer_)
       /\ arrived' = arrived + n
       /\ input_buffer_' = AppendFromFd(input_buffer_, SubSeq(Input, arrived + 1, arrived + n))
  /\ in_callback' = TRUE
  /\ UNCHANGED <<conn, received, next, tested>>

\* A frame is there; a negative length announces none.
FrameReady(b) ==
  readable_bytes(b) >= 1 /\ PeekInt(b, 1) \in 0..readable_bytes(b) - 1

\* A frame as the user makes it for sending, its length put in front.
Framed(payload) ==
  PopAllAsString(PrependInt(AppendBytes(New(INITIAL_SIZE), payload), Len(payload), 1)).string

\* The message callback takes a frame and sends its payload back, framed.
TakeFrame ==
  /\ in_callback /\ FrameReady(input_buffer_)
  /\ \E length \in {ReadInt(input_buffer_, 1)} :
     \E payload \in {PopAsString(length.buffer, length.value)} :
     \E reply \in {[kind |-> "echo", data |-> Framed(payload.string)]} :
       /\ input_buffer_' = payload.buffer
       /\ received' = received \o payload.string
       /\ conn' \in Send(conn, reply)
  /\ UNCHANGED <<arrived, in_callback, next, tested>>

\* The message callback returns, having made input_buffer_ small or not.
CallbackReturns ==
  /\ in_callback /\ ~FrameReady(input_buffer_)
  /\ in_callback' = FALSE
  /\ input_buffer_' \in {input_buffer_, Shrink(input_buffer_, 0)}
  /\ UNCHANGED <<conn, arrived, received, next, tested>>

\* force_close_with_delay(): the timer's callback makes a weak callback and does
\* not call it.  To make it, it uses the 'this' it captured: a program that lets the
\* connection go before the timer expires is not modelled.
ForceCloseWithDelay ==
  /\ in_callback /\ conn.state_ \in {"CONNECTED", "DISCONNECTING"}
  /\ conn' = [conn EXCEPT !.state_ = "DISCONNECTING"]
  /\ UNCHANGED <<input_buffer_, arrived, received, in_callback, next, tested>>

\* handle_close(): the channel is disabled.
TakeDown ==
  /\ ~in_callback /\ conn.state_ # "DISCONNECTED"
  /\ conn' = [conn EXCEPT !.state_ = "DISCONNECTED", !.writing = FALSE]
  /\ UNCHANGED <<input_buffer_, arrived, received, in_callback, next, tested>>

PeerResets ==
  /\ ~conn.reset
  /\ conn' = [conn EXCEPT !.reset = TRUE]
  /\ UNCHANGED <<input_buffer_, arrived, received, in_callback, next, tested>>

-----------------------------------------------------------------------------
(* The other thread.                                                        *)

\* send() tests state_ ...
ThreadTests ==
  /\ ~tested /\ next <= Len(Program)
  /\ IF conn.state_ = "CONNECTED"
     THEN tested' = TRUE /\ UNCHANGED next
     ELSE next' = next + 1 /\ UNCHANGED tested
  /\ UNCHANGED <<conn, input_buffer_, arrived, received, in_callback>>

\* ... and posts send_in_loop.
ThreadPosts ==
  /\ tested
  /\ tested' = FALSE /\ next' = next + 1
  /\ conn' = QueueInLoop(conn, [fn |-> "send", message |-> Program[next]])
  /\ UNCHANGED <<input_buffer_, arrived, received, in_callback>>

\* shutdown(), when nothing takes the connection down between its test of state_
\* and its assignment (TcpConn.tla is about what happens otherwise).
ThreadShuts ==
  /\ ~tested /\ conn.state_ = "CONNECTED"
  /\ conn' = QueueInLoop([conn EXCEPT !.state_ = "DISCONNECTING", !.shut = TRUE],
                         [fn |-> "shutdown_in_loop"])
  /\ UNCHANGED <<input_buffer_, arrived, received, in_callback, next, tested>>

-----------------------------------------------------------------------------
Next ==
  \/ HandleWrite \/ RunFunctor \/ HandleRead \/ TakeFrame \/ CallbackReturns
  \/ ForceCloseWithDelay \/ TakeDown \/ PeerResets
  \/ ThreadTests \/ ThreadPosts \/ ThreadShuts

\* The loop runs its functors and returns from callbacks, and the kernel takes
\* bytes again and again while the peer reads.
Spec ==
  /\ Init /\ [][Next]_vars
  /\ WF_vars(HandleWrite) /\ WF_vars(RunFunctor) /\ WF_vars(TakeFrame \/ CallbackReturns)

-----------------------------------------------------------------------------
\* The payloads of a sequence of whole frames.
Payloads(s) ==
  LET from[i \in Nat \ {0}] ==
        IF i > Len(s) THEN <<>> ELSE SubSeq(s, i + 1, i + s[i]) \o from[i + 1 + s[i]]
  IN  from[1]

\* The bytes of the messages, in order.
Bytes(messages) == FlattenSeq([i \in 1..Len(messages) |-> messages[i].data])

\* The messages of some kinds, in order.
Of(messages, kinds) ==
  FlattenSeq([i \in 1..Len(messages) |->
                IF messages[i].kind \in kinds THEN <<messages[i]>> ELSE <<>>])

\* The messages of send() that wait in the queue of the loop, in order.
Queued(queue) ==
  FlattenSeq([i \in 1..Len(queue) |->
                IF queue[i].fn = "send" THEN <<queue[i].message>> ELSE <<>>])

\* No byte is lost, repeated, changed or overtaken between readv and the callback
\* and between send_in_loop and write: through the growing and moving of the
\* buffers, partial reads and partial writes, and with other messages between
\* (tcp_conn.cpp, handle_read, send_in_loop and handle_write; buffer.cpp).
BytesIntact ==
  /\ conn.sent \o Pending(conn) = Bytes(conn.accepted)
  /\ \E taken \in 0..arrived :
       /\ Content(input_buffer_) = SubSeq(Input, taken + 1, arrived)
       /\ received = Payloads(SubSeq(Input, 1, taken))
  /\ conn.state_ = "CONNECTED" /\ ~conn.reset =>
       Payloads(Bytes(Of(conn.accepted, {"echo"}))) = received

\* While nobody has shut the connection down and it is not reset, what the other
\* thread was told to have sent is in the stream or still queued, in its order.
\* Afterwards it may be lost although send() came first: the loop can drain
\* output_buffer_ and end the stream before it runs the functor, and the functor
\* of a Buffer tests state_ again (tcp_conn.cpp:57, 286, 304).
NoneLostWhileOpen ==
  conn.state_ = "CONNECTED" /\ ~conn.reset =>
    Of(conn.accepted, {"raw", "buffer"}) \o Queued(conn.queue) = SubSeq(Program, 1, next - 1)

\* When all is written the write complete callback was called or is queued, and
\* when high_water_mark_ bytes wait the crossing was announced (tcp_conn.cpp:51,
\* 103 and 126).
CallbacksTold ==
  conn.state_ # "DISCONNECTED" =>
    /\ Pending(conn) = <<>> => ~conn.owed
    /\ Len(Pending(conn)) >= high_water_mark_ /\ high_water_mark_ > 0 => conn.warned

\* A connection that was shut down ends its stream, unless it goes down or is
\* reset: at once, from the functor, or when output_buffer_ is drained
\* (tcp_conn.cpp:57, 144 and 311).
ShutdownCompletes ==
  conn.shut ~> conn.fin \/ conn.state_ = "DISCONNECTED" \/ conn.reset

\* The connection is a ByteStream: in particular it ends the stream only when
\* nothing is left to write, and writes nothing afterwards.
Stream == INSTANCE ByteStream WITH
  pending <- Pending(conn), delivered <- conn.sent,
  status <- IF conn.state_ = "DISCONNECTED" THEN "down"
            ELSE IF conn.fin THEN "closed" ELSE "open"
ImplementsStream == Stream!Spec
=============================================================================
