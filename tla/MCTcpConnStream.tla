-------------------------- MODULE MCTcpConnStream --------------------------
(* A small instance of TcpConnStream for TLC: buffers of two bytes behind   *)
(* one, and checks of the conversions of integers for all small values.     *)
EXTENDS TcpConnStream

\* Two frames.
MCInput == <<1, 4>> \o <<2, 5, 6>>

\* The other thread sends bytes, and a frame that it builds in a Buffer.
Frame(payload) == Content(AppendBytes(PushInt(New(INITIAL_SIZE), Len(payload), 1), payload))

MCProgram == <<[kind |-> "raw", data |-> <<7, 7>>], [kind |-> "buffer", data |-> Frame(<<3, 3>>)]>>

\* What is appended or prepended as an integer is read as that integer, also when
\* it is negative and when other bytes follow (buffer.cpp:55-143).
ASSUME IntsKeepTheirValue ==
  \A width \in 1..2 : \A value \in -(Power[width] \div 2)..(Power[width] \div 2) - 1 :
    /\ PeekInt(AppendBytes(AppendInt(New(INITIAL_SIZE), value, width), <<1>>), width) = value
    /\ width <= CHEAP_PREPEND =>
         PeekInt(PrependInt(AppendBytes(New(0), <<1>>), value, width), width) = value
=============================================================================
