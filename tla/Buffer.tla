------------------------------- MODULE Buffer -------------------------------
(***************************************************************************)
(* core/src/buffer.cpp: Buffer as an operator library.  A buffer is a       *)
(* record with the fields of Buffer::Impl; buffer_ is the whole vector, so  *)
(* that memory that is not readable keeps what it held.  Cell i of the code *)
(* is buffer_[i + 1].  The readable bytes lie between read_pos_ and         *)
(* write_pos_:                                                              *)
(*                                                                         *)
(*   0 <= read_pos_ <= write_pos_ <= size(b)                                *)
(*                                                                         *)
(* An operator is what a member function leaves in the buffer.  Its         *)
(* assertions are named Can...: whoever calls it has to see to them.        *)
(***************************************************************************)
EXTENDS Integers, Sequences

CONSTANTS
  CHEAP_PREPEND,        \* the room kept in front, 8 in the code
  INITIAL_SIZE,         \* the room behind it in a new buffer, 1024
  EXTRA_BUFFER_SIZE,    \* the array on the stack of append_from_fd, 65536
  MAX_BUFFER_THRESHOLD, \* clear() shrinks a buffer that is larger, 65536
  ByteBase              \* the values of a byte: 0..ByteBase-1, 256 in the code

ASSUME SizesAssumption ==
  /\ CHEAP_PREPEND \in Nat /\ INITIAL_SIZE \in Nat
  /\ EXTRA_BUFFER_SIZE \in Nat /\ MAX_BUFFER_THRESHOLD \in Nat
  /\ ByteBase \in Nat \ {0, 1}

Byte == 0..ByteBase - 1

size(b) == Len(b.buffer_)

\* The buffers with cells out of S.
BuffersOf(S) == {b \in [buffer_ : Seq(S), read_pos_ : Nat, write_pos_ : Nat, initial_size_ : Nat] :
                   /\ b.read_pos_ <= b.write_pos_
                   /\ b.write_pos_ <= size(b)
                   /\ CHEAP_PREPEND <= size(b)}

Buffers == BuffersOf(Byte)

readable_bytes(b) == b.write_pos_ - b.read_pos_
writable_bytes(b) == size(b) - b.write_pos_
prependable_bytes(b) == b.read_pos_

\* to_string(): the readable bytes.
Content(b) == SubSeq(b.buffer_, b.read_pos_ + 1, b.write_pos_)

Zeros(n) == [i \in 1..n |-> 0]

\* A constructor.
New(initial_size) ==
  [buffer_ |-> Zeros(CHEAP_PREPEND + initial_size),
   read_pos_ |-> CHEAP_PREPEND, write_pos_ |-> CHEAP_PREPEND,
   initial_size_ |-> initial_size]

\* vector::resize: new cells are zero.
Resized(b, n) ==
  [b EXCEPT !.buffer_ = IF n <= size(b) THEN SubSeq(@, 1, n) ELSE @ \o Zeros(n - size(b))]

\* copy_n of data to the cells from `at` on.
Written(b, at, data) ==
  [b EXCEPT !.buffer_ = SubSeq(@, 1, at) \o data \o SubSeq(@, at + Len(data) + 1, size(b))]

-----------------------------------------------------------------------------
Clear(b) ==
  LET c == [b EXCEPT !.read_pos_ = CHEAP_PREPEND, !.write_pos_ = CHEAP_PREPEND]
  IN  IF size(b) > MAX_BUFFER_THRESHOLD
      THEN Resized(c, b.initial_size_ + CHEAP_PREPEND) ELSE c

\* pop(), and pop_util() with the distance to `end`.
Pop(b, bytes) ==
  IF bytes < readable_bytes(b) THEN [b EXCEPT !.read_pos_ = @ + bytes] ELSE Clear(b)

\* pop_as_string() and pop_all_as_string(): what they return, and the buffer.
CanPopAsString(b, len) == len <= readable_bytes(b)

PopAsString(b, len) == [string |-> SubSeq(Content(b), 1, len), buffer |-> Pop(b, len)]

PopAllAsString(b) == PopAsString(b, readable_bytes(b))

CanPrepend(b, data) == Len(data) <= prependable_bytes(b)

PrependBytes(b, data) ==
  Written([b EXCEPT !.read_pos_ = @ - Len(data)], b.read_pos_ - Len(data), data)

CanSeek(b, len) ==
  IF len > 0 THEN len <= writable_bytes(b) ELSE -len <= readable_bytes(b)

WriteSeek(b, len) == [b EXCEPT !.write_pos_ = @ + len]

\* alloc_more_memory(): the readable bytes move to the front, or the vector grows.
MustGrow(b, len) == writable_bytes(b) + prependable_bytes(b) < len + CHEAP_PREPEND

CanMove(b) == CHEAP_PREPEND < b.read_pos_

Move(b) ==
  [Written(b, CHEAP_PREPEND, Content(b))
     EXCEPT !.read_pos_ = CHEAP_PREPEND, !.write_pos_ = CHEAP_PREPEND + readable_bytes(b)]

AllocMoreMemory(b, len) ==
  IF MustGrow(b, len) THEN Resized(b, b.write_pos_ + len) ELSE Move(b)

CheckWritableBytes(b, len) ==
  IF len > writable_bytes(b) THEN AllocMoreMemory(b, len) ELSE b

AppendBytes(b, data) ==
  LET c == CheckWritableBytes(b, Len(data))
  IN  WriteSeek(Written(c, c.write_pos_, data), Len(data))

\* What readv can return at most: the room in the buffer, and the array on the
\* stack if that room is smaller than the array.
ReadLimit(b) ==
  writable_bytes(b) + (IF writable_bytes(b) < EXTRA_BUFFER_SIZE THEN EXTRA_BUFFER_SIZE ELSE 0)

\* Mutant: what did not fit is appended without moving write_pos_ to the end.
AppendFromFdEarly(b, data) ==
  LET writable == writable_bytes(b) IN
  IF Len(data) <= writable
  THEN WriteSeek(Written(b, b.write_pos_, data), Len(data))
  ELSE LET full == Written(b, b.write_pos_, SubSeq(data, 1, writable))
       IN  AppendBytes(full, SubSeq(data, writable + 1, Len(data)))

\* append_from_fd(), when readv returned `data`.
AppendFromFd(b, data) ==
  LET writable == writable_bytes(b) IN
  IF Len(data) <= writable
  THEN WriteSeek(Written(b, b.write_pos_, data), Len(data))
  ELSE LET full == Written(b, b.write_pos_, SubSeq(data, 1, writable))
       IN  AppendBytes([full EXCEPT !.write_pos_ = size(b)], SubSeq(data, writable + 1, Len(data)))

\* Impl::swap leaves initial_size_ where it is.
Swapped(b, other) == [other EXCEPT !.initial_size_ = b.initial_size_]

Shrink(b, reserve) ==
  LET other == CheckWritableBytes(New(INITIAL_SIZE), readable_bytes(b) + reserve)
  IN  Swapped(b, AppendBytes(other, Content(b)))

-----------------------------------------------------------------------------
(* Integers of `width` bytes, in network order.                             *)

\* ByteBase to the power w.
Power[w \in Nat] == IF w = 0 THEN 1 ELSE ByteBase * Power[w - 1]

\* htobe16, htobe32, htobe64: an int, negative or not, as bytes.
BigEndian(value, width) ==
  [i \in 1..width |-> ((value % Power[width]) \div Power[width - i]) % ByteBase]

\* be16toh, be32toh, be64toh of the first bytes, as a signed int.
Unsigned(s, width) ==
  LET sum[i \in 0..width] == IF i = 0 THEN 0 ELSE sum[i - 1] * ByteBase + s[i]
  IN  sum[width]

HostInt(s, width) ==
  LET u == Unsigned(s, width)
  IN  IF 2 * u < Power[width] THEN u ELSE u - Power[width]

AppendInt(b, value, width) == AppendBytes(b, BigEndian(value, width))

PushInt(b, value, width) == AppendBytes(b, BigEndian(value, width))

PrependInt(b, value, width) == PrependBytes(b, BigEndian(value, width))

\* peek_int() copies the bytes at read_ptr(), whether they are readable or not.
PeekInt(b, width) ==
  HostInt([i \in 1..width |-> b.buffer_[b.read_pos_ + i]], width)

\* read_int(): peek_int() and pop_int().
ReadInt(b, width) == [value |-> PeekInt(b, width), buffer |-> Pop(b, width)]
=============================================================================
