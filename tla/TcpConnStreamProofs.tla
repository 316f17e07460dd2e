------------------------- MODULE TcpConnStreamProofs -------------------------
(***************************************************************************)
(* Proofs about Buffer (room is made when it is needed, what is written is   *)
(* read back in order, and an int as the int it was) and, with them, about   *)
(* TcpConnStream: no byte is lost or changed, no message is lost while the   *)
(* connection is open, the callbacks are told, and the connection is a       *)
(* ByteStream.                                                              *)
(***************************************************************************)
EXTENDS TcpConnStream, SequenceTheorems, WellFoundedInduction, TLAPS

-----------------------------------------------------------------------------
(* Vectors, of bytes or anything else.                                      *)

\* A piece of a vector.
LEMMA Piece ==
  ASSUME NEW S, NEW s \in Seq(S), NEW m \in Nat, NEW n \in Nat, 1 <= m, m <= n + 1, n <= Len(s)
  PROVE  /\ SubSeq(s, m, n) \in Seq(S) /\ Len(SubSeq(s, m, n)) = n + 1 - m
         /\ \A i \in 1..n + 1 - m : SubSeq(s, m, n)[i] = s[m + i - 1]
<1>1. \A i \in m..n : s[i] \in S
  BY ElementOfSeq, LenProperties
<1>2. /\ SubSeq(s, m, n) \in Seq(S)
      /\ Len(SubSeq(s, m, n)) = IF m <= n THEN n - m + 1 ELSE 0
      /\ \A i \in 1..n - m + 1 : SubSeq(s, m, n)[i] = s[m + i - 1]
  BY <1>1, SubSeqProperties
<1> QED
  BY <1>2

\* copy_n of data into the cells of s behind the first `at`.
Over(s, at, data) == SubSeq(s, 1, at) \o data \o SubSeq(s, at + Len(data) + 1, Len(s))

\* It changes those cells and no others.
LEMMA Overlay ==
  ASSUME NEW S, NEW s \in Seq(S), NEW data \in Seq(S), NEW at \in Nat, at + Len(data) <= Len(s)
  PROVE  /\ Over(s, at, data) \in Seq(S) /\ Len(Over(s, at, data)) = Len(s)
         /\ \A i \in 1..Len(s) :
              Over(s, at, data)[i] = IF i <= at \/ i > at + Len(data) THEN s[i] ELSE data[i - at]
<1> DEFINE front == SubSeq(s, 1, at)
           n     == Len(s)
           end   == at + Len(data)
           back  == SubSeq(s, end + 1, n)
           both  == front \o data
           cells == both \o back
<1>1. /\ n \in Nat /\ Len(data) \in Nat /\ end \in Nat /\ end <= n /\ at <= end
      /\ end - at = Len(data)
  BY LenProperties
<1>2. /\ front \in Seq(S) /\ Len(front) = at
      /\ \A i \in 1..at : front[i] = s[i]
  <2>1. /\ front \in Seq(S) /\ Len(front) = at + 1 - 1
        /\ \A i \in 1..at + 1 - 1 : front[i] = s[1 + i - 1]
    BY <1>1, Piece
  <2> HIDE DEF front
  <2> QED
    BY <2>1
<1>3. /\ back \in Seq(S) /\ Len(back) = n - end
      /\ \A i \in 1..n - end : back[i] = s[end + i]
  <2> HIDE DEF end
  <2>1. /\ back \in Seq(S) /\ Len(back) = n + 1 - (end + 1)
        /\ \A i \in 1..n + 1 - (end + 1) : back[i] = s[(end + 1) + i - 1]
    BY <1>1, Piece
  <2> HIDE DEF back, n
  <2> QED
    BY <1>1, <2>1
<1>4. /\ both \in Seq(S) /\ Len(both) = end
      /\ \A i \in 1..end : both[i] = IF i <= at THEN front[i] ELSE data[i - at]
  <2> HIDE DEF front
  <2>1. /\ both \in Seq(S) /\ Len(both) = Len(front) + Len(data)
        /\ \A i \in 1..Len(front) + Len(data) :
             both[i] = IF i <= Len(front) THEN front[i] ELSE data[i - Len(front)]
    BY <1>2, ConcatProperties
  <2> HIDE DEF both
  <2> QED
    BY <1>2, <2>1
<1>5. Over(s, at, data) = cells
  BY DEF Over
<1>6. /\ cells \in Seq(S) /\ Len(cells) = n
      /\ \A i \in 1..n : cells[i] = IF i <= end THEN both[i] ELSE back[i - end]
  <2> HIDE DEF both, back, n, end
  <2>1. both \in Seq(S) /\ back \in Seq(S)
    BY <1>3, <1>4
  <2>2. /\ cells \in Seq(S) /\ Len(cells) = Len(both) + Len(back)
        /\ \A i \in 1..Len(both) + Len(back) :
             cells[i] = IF i <= Len(both) THEN both[i] ELSE back[i - Len(both)]
    BY <2>1, ConcatProperties
  <2> HIDE DEF cells
  <2>3. Len(both) = end /\ Len(both) + Len(back) = n
    BY <1>1, <1>3, <1>4
  <2> QED
    BY <2>2, <2>3
<1> HIDE DEF front, both, back, cells
<1>7. ASSUME NEW i \in 1..n
      PROVE  cells[i] = IF i <= at \/ i > end THEN s[i] ELSE data[i - at]
  <2> HIDE DEF n, end
  <2>1. CASE i <= at
    BY <1>1, <1>2, <1>4, <1>6, <2>1
  <2>2. CASE at < i /\ i <= end
    BY <1>1, <1>4, <1>6, <2>2
  <2>3. CASE i > end
    <3>1. i - end \in 1..n - end /\ end + (i - end) = i
      BY <1>1, <2>3
    <3>2. back[i - end] = s[end + (i - end)]
      BY <1>3, <3>1
    <3>3. cells[i] = back[i - end]
      <4>1. ~(i <= end)
        BY <1>1, <2>3
      <4> QED
        BY <1>6, <4>1
    <3> QED
      BY <1>1, <2>3, <3>1, <3>2, <3>3
  <2> QED
    BY <1>1, <2>1, <2>2, <2>3
<1> QED
  BY <1>5, <1>6, <1>7

\* Written behind the readable cells, which are those from r to w, data is read
\* behind what was read before.
LEMMA ReadBehind ==
  ASSUME NEW S, NEW s \in Seq(S), NEW data \in Seq(S), NEW r \in Nat, NEW w \in Nat, r <= w,
         w + Len(data) <= Len(s)
  PROVE  SubSeq(Over(s, w, data), r + 1, w + Len(data)) = SubSeq(s, r + 1, w) \o data
<1> DEFINE cells  == Over(s, w, data)
           end    == w + Len(data)
           after  == SubSeq(cells, r + 1, end)
           before == SubSeq(s, r + 1, w)
           whole  == before \o data
           n      == Len(s)
           k      == w - r
<1>1. /\ n \in Nat /\ Len(data) \in Nat /\ end \in Nat /\ end <= n /\ w <= end
      /\ k \in Nat /\ r + k = w /\ k + Len(data) = end - r
  BY LenProperties
<1>2. /\ cells \in Seq(S) /\ Len(cells) = n
      /\ \A i \in 1..n : cells[i] = IF i <= w \/ i > end THEN s[i] ELSE data[i - w]
  BY Overlay
<1> HIDE DEF cells
<1>3. /\ after \in Seq(S) /\ Len(after) = end - r
      /\ \A i \in 1..end - r : after[i] = cells[r + i]
  <2> HIDE DEF end, n
  <2>1. /\ after \in Seq(S) /\ Len(after) = end + 1 - (r + 1)
        /\ \A i \in 1..end + 1 - (r + 1) : after[i] = cells[(r + 1) + i - 1]
    BY <1>1, <1>2, Piece
  <2> HIDE DEF after
  <2> QED
    BY <1>1, <2>1
<1>4. /\ before \in Seq(S) /\ Len(before) = k
      /\ \A i \in 1..k : before[i] = s[r + i]
  <2>1. /\ before \in Seq(S) /\ Len(before) = w + 1 - (r + 1)
        /\ \A i \in 1..w + 1 - (r + 1) : before[i] = s[(r + 1) + i - 1]
    BY <1>1, Piece
  <2> HIDE DEF before
  <2> QED
    BY <1>1, <2>1
<1> HIDE DEF before, after, end, n, k
<1>5. /\ whole \in Seq(S) /\ Len(whole) = end - r
      /\ \A i \in 1..end - r : whole[i] = IF i <= k THEN before[i] ELSE data[i - k]
  <2>1. /\ whole \in Seq(S) /\ Len(whole) = Len(before) + Len(data)
        /\ \A i \in 1..Len(before) + Len(data) :
             whole[i] = IF i <= Len(before) THEN before[i] ELSE data[i - Len(before)]
    BY <1>4, ConcatProperties
  <2> HIDE DEF whole
  <2> QED
    BY <1>1, <1>4, <2>1
<1> HIDE DEF whole
<1>6. ASSUME NEW i \in 1..end - r PROVE after[i] = whole[i]
  <2>1. after[i] = cells[r + i] /\ r + i \in 1..n
    BY <1>1, <1>3
  <2>2. CASE i <= k
    <3>1. before[i] = s[r + i]
      BY <1>1, <1>4, <2>2
    <3>2. cells[r + i] = s[r + i]
      BY <1>1, <1>2, <2>1, <2>2
    <3> QED
      BY <1>5, <2>1, <2>2, <3>1, <3>2
  <2>3. CASE i > k
    <3>1. ~(r + i <= w \/ r + i > end) /\ (r + i) - w = i - k
      BY <1>1, <2>3
    <3>2. cells[r + i] = data[(r + i) - w]
      BY <1>2, <2>1, <3>1
    <3> QED
      BY <1>1, <1>5, <2>1, <2>3, <3>1, <3>2
  <2> QED
    BY <1>1, <2>2, <2>3
<1>7. after = whole
  BY <1>3, <1>5, <1>6, SeqEqual
<1> QED
  BY <1>7 DEF after, whole, before, cells, end

\* What is written anywhere is read there.
LEMMA ReadBack ==
  ASSUME NEW S, NEW s \in Seq(S), NEW data \in Seq(S), NEW at \in Nat, at + Len(data) <= Len(s)
  PROVE  SubSeq(Over(s, at, data), at + 1, at + Len(data)) = data
<1>1. SubSeq(Over(s, at, data), at + 1, at + Len(data)) = SubSeq(s, at + 1, at) \o data
  <2>1. at <= at
    OBVIOUS
  <2> QED
    BY <2>1, ReadBehind, Zenon
<1>2. SubSeq(s, at + 1, at) = <<>>
  BY SubSeqEmpty
<1>3. <<>> \o data = data
  BY ConcatEmptySeq
<1> QED
  BY <1>1, <1>2, <1>3

\* Cells behind the vector do not change what is read in it.
LEMMA ReadBefore ==
  ASSUME NEW S, NEW s \in Seq(S), NEW t \in Seq(S), NEW r \in Nat, NEW w \in Nat, r <= w, w <= Len(s)
  PROVE  SubSeq(s \o t, r + 1, w) = SubSeq(s, r + 1, w)
<1> DEFINE both == s \o t
           old  == SubSeq(s, r + 1, w)
           new  == SubSeq(both, r + 1, w)
<1>1. /\ both \in Seq(S) /\ Len(both) = Len(s) + Len(t)
      /\ \A i \in 1..Len(s) + Len(t) : both[i] = IF i <= Len(s) THEN s[i] ELSE t[i - Len(s)]
  BY ConcatProperties
<1>2. Len(s) \in Nat /\ Len(t) \in Nat
  BY LenProperties
<1> HIDE DEF both
<1>3. /\ old \in Seq(S) /\ Len(old) = w + 1 - (r + 1)
      /\ \A i \in 1..w + 1 - (r + 1) : old[i] = s[(r + 1) + i - 1]
  BY <1>2, Piece
<1>4. /\ new \in Seq(S) /\ Len(new) = w + 1 - (r + 1)
      /\ \A i \in 1..w + 1 - (r + 1) : new[i] = both[(r + 1) + i - 1]
  <2>1. w <= Len(both)
    BY <1>1, <1>2
  <2> QED
    BY <1>1, <2>1, Piece
<1> HIDE DEF old, new
<1>5. ASSUME NEW i \in 1..w + 1 - (r + 1) PROVE new[i] = old[i]
  <2>1. (r + 1) + i - 1 \in 1..Len(s)
    BY <1>2
  <2>2. both[(r + 1) + i - 1] = s[(r + 1) + i - 1]
    BY <1>1, <1>2, <2>1
  <2> QED
    BY <1>3, <1>4, <2>2
<1>6. new = old
  BY <1>3, <1>4, <1>5, SeqEqual
<1> QED
  BY <1>6 DEF new, old, both

-----------------------------------------------------------------------------
(* Buffers.                                                                 *)

\* The fields of a buffer.
LEMMA Fields ==
  ASSUME NEW S, NEW b \in BuffersOf(S)
  PROVE  /\ b.buffer_ \in Seq(S) /\ size(b) \in Nat
         /\ b.read_pos_ \in Nat /\ b.write_pos_ \in Nat /\ b.initial_size_ \in Nat
         /\ b.read_pos_ <= b.write_pos_ /\ b.write_pos_ <= size(b) /\ CHEAP_PREPEND <= size(b)
<1>1. b.buffer_ \in Seq(S)
  BY DEF BuffersOf
<1>2. size(b) \in Nat
  BY <1>1, LenProperties DEF size
<1> QED
  BY <1>1, <1>2 DEF BuffersOf

\* What is read.
LEMMA Readable ==
  ASSUME NEW S, NEW b \in BuffersOf(S)
  PROVE  Content(b) \in Seq(S) /\ Len(Content(b)) = readable_bytes(b)
<1> DEFINE r == b.read_pos_
           w == b.write_pos_
<1>1. r \in Nat /\ w \in Nat /\ r <= w /\ w <= Len(b.buffer_)
  BY Fields DEF size
<1> HIDE DEF r, w
<1>2. 1 <= r + 1 /\ r + 1 <= w + 1 /\ r + 1 \in Nat
  BY <1>1
<1>3. /\ SubSeq(b.buffer_, r + 1, w) \in Seq(S)
      /\ Len(SubSeq(b.buffer_, r + 1, w)) = w + 1 - (r + 1)
  BY <1>1, <1>2, Fields, Piece
<1>4. w + 1 - (r + 1) = w - r
  BY <1>1
<1> QED
  BY <1>3, <1>4 DEF Content, readable_bytes, r, w

\* Another vector of the same size or a larger one, and other positions, make a buffer.
LEMMA Made ==
  ASSUME NEW S, NEW b \in BuffersOf(S), NEW cells \in Seq(S), NEW r \in Nat, NEW w \in Nat,
         r <= w, w <= Len(cells), size(b) <= Len(cells)
  PROVE  [b EXCEPT !.buffer_ = cells, !.read_pos_ = r, !.write_pos_ = w] \in BuffersOf(S)
<1> DEFINE c == [b EXCEPT !.buffer_ = cells, !.read_pos_ = r, !.write_pos_ = w]
<1>1. c \in [buffer_ : Seq(S), read_pos_ : Nat, write_pos_ : Nat, initial_size_ : Nat]
  BY DEF BuffersOf
<1>2. c.buffer_ = cells /\ c.read_pos_ = r /\ c.write_pos_ = w
  BY DEF BuffersOf
<1>3. CHEAP_PREPEND <= Len(cells)
  BY Fields, SizesAssumption, LenProperties
<1> HIDE DEF c
<1>4. c \in BuffersOf(S)
  BY <1>1, <1>2, <1>3 DEF BuffersOf, size
<1> QED
  BY <1>4 DEF c

\* resize() to more than there is keeps what is read.
LEMMA Growth ==
  ASSUME NEW S, 0 \in S, NEW b \in BuffersOf(S), NEW n \in Nat, size(b) < n
  PROVE  /\ Resized(b, n) \in BuffersOf(S) /\ size(Resized(b, n)) = n
         /\ Resized(b, n).write_pos_ = b.write_pos_
         /\ Content(Resized(b, n)) = Content(b)
<1> DEFINE zeros == Zeros(n - size(b))
           cells == b.buffer_ \o zeros
           c     == [b EXCEPT !.buffer_ = cells]
<1>1. n - size(b) \in Nat
  BY Fields
<1>2. zeros \in Seq(S) /\ Len(zeros) = n - size(b)
  <2> DEFINE k == n - size(b)
             z == [i \in 1..k |-> 0]
  <2>1. 0 \in S
    OBVIOUS
  <2>2. k \in Nat
    BY <1>1
  <2> HIDE DEF k
  <2>3. z \in Seq(S)
    <3>1. z \in [1..k -> S]
      BY <2>1
    <3> QED
      BY <2>2, <3>1, IsASeq
  <2>4. Len(z) = k
    <3>1. DOMAIN z = 1..k
      OBVIOUS
    <3>2. DOMAIN z = 1..Len(z) /\ Len(z) \in Nat
      BY <2>3, LenProperties
    <3> HIDE DEF z
    <3> QED
      BY <2>2, <3>1, <3>2
  <2> QED
    BY <2>3, <2>4 DEF Zeros, k
<1> HIDE DEF zeros
<1>3. cells \in Seq(S) /\ Len(cells) = n
  <2>1. cells \in Seq(S) /\ Len(cells) = Len(b.buffer_) + Len(zeros)
    BY <1>2, Fields, ConcatProperties
  <2> HIDE DEF cells
  <2> QED
    BY <1>2, <2>1, Fields DEF size
<1>4. Resized(b, n) = c
  <2>1. ~(n <= size(b))
    BY Fields
  <2> QED
    BY <2>1 DEF Resized, zeros
<1>5. c.buffer_ = cells /\ c.read_pos_ = b.read_pos_ /\ c.write_pos_ = b.write_pos_
  BY DEF BuffersOf
<1>6. c = [b EXCEPT !.buffer_ = cells, !.read_pos_ = b.read_pos_, !.write_pos_ = b.write_pos_]
  BY DEF BuffersOf
<1>7. Content(c) = Content(b)
  <2>1. SubSeq(cells, b.read_pos_ + 1, b.write_pos_) = SubSeq(b.buffer_, b.read_pos_ + 1, b.write_pos_)
    <3> DEFINE old == b.buffer_
               r   == b.read_pos_
               w   == b.write_pos_
    <3>1. old \in Seq(S) /\ r \in Nat /\ w \in Nat /\ r <= w /\ w <= Len(old)
      BY Fields DEF size
    <3> HIDE DEF old, r, w
    <3>2. SubSeq(old \o zeros, r + 1, w) = SubSeq(old, r + 1, w)
      BY <1>2, <3>1, ReadBefore, Zenon
    <3> QED
      BY <3>2 DEF old, r, w
  <2> HIDE DEF c, cells
  <2> QED
    BY <1>5, <2>1 DEF Content
<1> HIDE DEF c, cells
<1>8. c \in BuffersOf(S)
  <2>1. /\ b.read_pos_ \in Nat /\ b.write_pos_ \in Nat /\ b.read_pos_ <= b.write_pos_
        /\ b.write_pos_ <= Len(cells) /\ size(b) <= Len(cells)
    BY <1>3, Fields
  <2> QED
    BY <1>3, <1>6, <2>1, Made, Zenon
<1> QED
  BY <1>3, <1>4, <1>5, <1>7, <1>8 DEF size

\* If the room in front is enough, the assertion of alloc_more_memory holds.
LEMMA RoomInFront ==
  ASSUME NEW S, NEW b \in BuffersOf(S), NEW len \in Nat, len > writable_bytes(b), ~MustGrow(b, len)
  PROVE  CanMove(b)
BY Fields, SizesAssumption DEF MustGrow, CanMove, writable_bytes, prependable_bytes

\* Moving what is read to the front keeps it and joins the room on both sides.
LEMMA Motion ==
  ASSUME NEW S, NEW b \in BuffersOf(S), CanMove(b)
  PROVE  /\ Move(b) \in BuffersOf(S) /\ Content(Move(b)) = Content(b)
         /\ writable_bytes(Move(b)) = writable_bytes(b) + prependable_bytes(b) - CHEAP_PREPEND
<1> DEFINE data  == Content(b)
           cells == Over(b.buffer_, CHEAP_PREPEND, data)
           end   == CHEAP_PREPEND + readable_bytes(b)
           c     == [b EXCEPT !.buffer_ = cells, !.read_pos_ = CHEAP_PREPEND, !.write_pos_ = end]
<1>1. /\ CHEAP_PREPEND \in Nat /\ end \in Nat /\ CHEAP_PREPEND <= end /\ end <= size(b)
      /\ readable_bytes(b) \in Nat
  BY Fields, SizesAssumption DEF CanMove, readable_bytes
<1>2. data \in Seq(S) /\ Len(data) = readable_bytes(b)
  BY Readable
<1> HIDE DEF data
<1>3. Move(b) = c
  BY <1>2 DEF Move, Written, Over, size, data, BuffersOf
<1>4. cells \in Seq(S) /\ Len(cells) = size(b)
  BY <1>1, <1>2, Fields, Overlay DEF size
<1>5. SubSeq(cells, CHEAP_PREPEND + 1, end) = data
  BY <1>1, <1>2, Fields, ReadBack DEF size
<1>6. c.buffer_ = cells /\ c.read_pos_ = CHEAP_PREPEND /\ c.write_pos_ = end
  BY DEF BuffersOf
<1> HIDE DEF cells
<1>7. c \in BuffersOf(S)
  <2> HIDE DEF end
  <2>1. end <= Len(cells) /\ size(b) <= Len(cells)
    BY <1>1, <1>4, Fields
  <2> QED
    BY <1>1, <1>4, <2>1, Made, Zenon
<1> HIDE DEF c
<1>8. Content(c) = data
  BY <1>5, <1>6 DEF Content
<1>9. writable_bytes(c) = writable_bytes(b) + prependable_bytes(b) - CHEAP_PREPEND
  BY <1>1, <1>4, <1>6, Fields, SMTT(30) DEF writable_bytes, prependable_bytes, readable_bytes, size
<1> QED
  BY <1>3, <1>7, <1>8, <1>9 DEF data

\* check_writable_bytes() makes room for len bytes and changes nothing that is
\* read, and the assertion on its way holds.
THEOREM RoomIsMade ==
  ASSUME NEW S, 0 \in S, NEW b \in BuffersOf(S), NEW len \in Nat
  PROVE  /\ CheckWritableBytes(b, len) \in BuffersOf(S)
         /\ len <= writable_bytes(CheckWritableBytes(b, len))
         /\ Content(CheckWritableBytes(b, len)) = Content(b)
         /\ len > writable_bytes(b) /\ ~MustGrow(b, len) => CanMove(b)
<1>1. writable_bytes(b) \in Nat
  BY Fields DEF writable_bytes
<1>2. CASE len <= writable_bytes(b)
  BY <1>1, <1>2 DEF CheckWritableBytes
<1>3. CASE len > writable_bytes(b) /\ MustGrow(b, len)
  <2> DEFINE n == b.write_pos_ + len
             c == Resized(b, n)
  <2>1. CheckWritableBytes(b, len) = c
    BY <1>3 DEF CheckWritableBytes, AllocMoreMemory
  <2>2. n \in Nat /\ size(b) < n /\ n - b.write_pos_ = len
    BY <1>3, Fields DEF writable_bytes
  <2> HIDE DEF n
  <2>3. /\ c \in BuffersOf(S) /\ size(c) = n /\ c.write_pos_ = b.write_pos_
        /\ Content(c) = Content(b)
    BY <2>2, Growth
  <2> HIDE DEF c
  <2>4. writable_bytes(c) = len
    BY <2>2, <2>3 DEF writable_bytes
  <2> QED
    BY <1>3, <2>1, <2>3, <2>4
<1>4. CASE len > writable_bytes(b) /\ ~MustGrow(b, len)
  <2>1. CheckWritableBytes(b, len) = Move(b)
    BY <1>4 DEF CheckWritableBytes, AllocMoreMemory
  <2>2. CanMove(b)
    BY <1>4, RoomInFront
  <2>3. /\ Move(b) \in BuffersOf(S) /\ Content(Move(b)) = Content(b)
        /\ writable_bytes(Move(b)) = writable_bytes(b) + prependable_bytes(b) - CHEAP_PREPEND
    BY <2>2, Motion
  <2>4. len <= writable_bytes(b) + prependable_bytes(b) - CHEAP_PREPEND
    BY <1>1, <1>4, Fields, SizesAssumption DEF MustGrow, prependable_bytes
  <2> QED
    BY <2>1, <2>2, <2>3, <2>4
<1> QED
  BY <1>1, <1>2, <1>3, <1>4

\* copy_n behind the readable bytes, then write_seek: if there is room, they are
\* read behind what was read before.
LEMMA Copied ==
  ASSUME NEW S, NEW b \in BuffersOf(S), NEW data \in Seq(S), Len(data) <= writable_bytes(b)
  PROVE  /\ WriteSeek(Written(b, b.write_pos_, data), Len(data)) \in BuffersOf(S)
         /\ Content(WriteSeek(Written(b, b.write_pos_, data), Len(data))) = Content(b) \o data
<1> DEFINE r     == b.read_pos_
           w     == b.write_pos_
           end   == w + Len(data)
           cells == Over(b.buffer_, w, data)
           c     == [b EXCEPT !.buffer_ = cells, !.read_pos_ = r, !.write_pos_ = end]
<1>1. /\ r \in Nat /\ w \in Nat /\ Len(data) \in Nat /\ end \in Nat
      /\ r <= w /\ r <= end /\ end <= size(b)
  BY Fields, LenProperties DEF writable_bytes
<1>2. WriteSeek(Written(b, w, data), Len(data)) = c
  BY DEF WriteSeek, Written, Over, size, BuffersOf
<1>3. cells \in Seq(S) /\ Len(cells) = size(b)
  BY <1>1, Fields, Overlay DEF size
<1>4. SubSeq(cells, r + 1, end) = SubSeq(b.buffer_, r + 1, w) \o data
  <2> DEFINE old == b.buffer_
  <2>1. old \in Seq(S) /\ end <= Len(old)
    BY <1>1, Fields DEF size
  <2> HIDE DEF old, r
  <2>2. SubSeq(Over(old, w, data), r + 1, w + Len(data)) = SubSeq(old, r + 1, w) \o data
    <3>1. /\ old \in Seq(S) /\ r \in Nat /\ w \in Nat /\ r <= w
          /\ w + Len(data) <= Len(old)
      BY <1>1, <2>1
    <3> HIDE DEF w, end, cells, c
    <3> QED
      BY <3>1, ReadBehind
  <2> QED
    BY <2>2 DEF old
<1>5. c.buffer_ = cells /\ c.read_pos_ = r /\ c.write_pos_ = end
  BY DEF BuffersOf
<1> HIDE DEF cells
<1>6. c \in BuffersOf(S)
  <2> HIDE DEF end, r
  <2>1. end <= Len(cells) /\ size(b) <= Len(cells)
    BY <1>1, <1>3, Fields
  <2> QED
    BY <1>1, <1>3, <2>1, Made, Zenon
<1> HIDE DEF c
<1>7. Content(c) = Content(b) \o data
  BY <1>4, <1>5 DEF Content
<1> QED
  BY <1>2, <1>6, <1>7

\* append() puts its bytes behind the readable ones, whatever it had to do for room.
THEOREM AppendedInOrder ==
  ASSUME NEW S, 0 \in S, NEW b \in BuffersOf(S), NEW data \in Seq(S)
  PROVE  /\ AppendBytes(b, data) \in BuffersOf(S)
         /\ Content(AppendBytes(b, data)) = Content(b) \o data
<1> DEFINE c == CheckWritableBytes(b, Len(data))
<1>1. Len(data) \in Nat
  BY LenProperties
<1>2. c \in BuffersOf(S) /\ Len(data) <= writable_bytes(c) /\ Content(c) = Content(b)
  BY <1>1, RoomIsMade
<1>3. AppendBytes(b, data) = WriteSeek(Written(c, c.write_pos_, data), Len(data))
  BY DEF AppendBytes
<1> HIDE DEF c
<1>4. /\ WriteSeek(Written(c, c.write_pos_, data), Len(data)) \in BuffersOf(S)
      /\ Content(WriteSeek(Written(c, c.write_pos_, data), Len(data))) = Content(c) \o data
  BY <1>2, Copied
<1> QED
  BY <1>2, <1>3, <1>4

\* A vector is its first k cells and the others.
LEMMA Split ==
  ASSUME NEW S, NEW s \in Seq(S), NEW k \in Nat, k <= Len(s)
  PROVE  /\ SubSeq(s, 1, k) \in Seq(S) /\ SubSeq(s, k + 1, Len(s)) \in Seq(S)
         /\ Len(SubSeq(s, 1, k)) = k
         /\ SubSeq(s, 1, k) \o SubSeq(s, k + 1, Len(s)) = s
<1> DEFINE n     == Len(s)
           front == SubSeq(s, 1, k)
           back  == SubSeq(s, k + 1, n)
           both  == front \o back
<1>1. n \in Nat /\ k <= n
  BY LenProperties
<1>2. /\ front \in Seq(S) /\ Len(front) = k
      /\ \A i \in 1..k : front[i] = s[i]
  <2>1. /\ front \in Seq(S) /\ Len(front) = k + 1 - 1
        /\ \A i \in 1..k + 1 - 1 : front[i] = s[1 + i - 1]
    BY <1>1, Piece
  <2> HIDE DEF front
  <2> QED
    BY <2>1
<1>3. /\ back \in Seq(S) /\ Len(back) = n - k
      /\ \A i \in 1..n - k : back[i] = s[k + i]
  <2>1. /\ back \in Seq(S) /\ Len(back) = n + 1 - (k + 1)
        /\ \A i \in 1..n + 1 - (k + 1) : back[i] = s[(k + 1) + i - 1]
    BY <1>1, Piece
  <2> HIDE DEF back, n
  <2> QED
    BY <1>1, <2>1
<1> HIDE DEF front, back
<1>4. /\ both \in Seq(S) /\ Len(both) = n
      /\ \A i \in 1..n : both[i] = IF i <= k THEN front[i] ELSE back[i - k]
  <2>1. /\ both \in Seq(S) /\ Len(both) = Len(front) + Len(back)
        /\ \A i \in 1..Len(front) + Len(back) :
             both[i] = IF i <= Len(front) THEN front[i] ELSE back[i - Len(front)]
    BY <1>2, <1>3, ConcatProperties
  <2>2. Len(front) = k /\ Len(front) + Len(back) = n
    BY <1>1, <1>2, <1>3
  <2> HIDE DEF both
  <2> QED
    BY <2>1, <2>2
<1> HIDE DEF both, n
<1>5. ASSUME NEW i \in 1..n PROVE both[i] = s[i]
  <2>1. CASE i <= k
    BY <1>1, <1>2, <1>4, <2>1
  <2>2. CASE ~(i <= k)
    <3>1. i - k \in 1..n - k /\ k + (i - k) = i
      BY <1>1, <2>2
    <3>2. back[i - k] = s[k + (i - k)]
      BY <1>3, <3>1
    <3>3. both[i] = back[i - k]
      BY <1>4, <2>2
    <3> QED
      BY <3>1, <3>2, <3>3
  <2> QED
    BY <2>1, <2>2
<1>6. both = s
  <2>1. Len(s) = n
    BY DEF n
  <2> QED
    BY <1>4, <1>5, <2>1, SeqEqual
<1> QED
  BY <1>2, <1>3, <1>6 DEF both, front, back, n

\* append_from_fd() loses and reorders nothing, whether what readv returned fits
\* behind the readable bytes or goes over the array on the stack.
THEOREM ReadInOrder ==
  ASSUME NEW S, 0 \in S, NEW b \in BuffersOf(S), NEW data \in Seq(S)
  PROVE  /\ AppendFromFd(b, data) \in BuffersOf(S)
         /\ Content(AppendFromFd(b, data)) = Content(b) \o data
<1> DEFINE writable == writable_bytes(b)
<1>1. writable \in Nat /\ Len(data) \in Nat
  BY Fields, LenProperties DEF writable_bytes
<1>2. CASE Len(data) <= writable
  BY <1>2, Copied DEF AppendFromFd
<1>3. CASE ~(Len(data) <= writable)
  <2> DEFINE first == SubSeq(data, 1, writable)
             rest  == SubSeq(data, writable + 1, Len(data))
             full  == [Written(b, b.write_pos_, first) EXCEPT !.write_pos_ = size(b)]
  <2> HIDE DEF writable
  <2>1. /\ first \in Seq(S) /\ rest \in Seq(S) /\ Len(first) = writable
        /\ first \o rest = data
    <3>1. writable <= Len(data)
      BY <1>1, <1>3
    <3> QED
      BY <1>1, <3>1, Split, Zenon
  <2> HIDE DEF first, rest
  <2>2. AppendFromFd(b, data) = AppendBytes(full, rest)
    BY <1>3 DEF AppendFromFd, first, rest, writable
  <2>3. full = WriteSeek(Written(b, b.write_pos_, first), Len(first))
    <3>1. b.write_pos_ + Len(first) = size(b)
      BY <2>1, Fields DEF writable, writable_bytes
    <3>2. Written(b, b.write_pos_, first).write_pos_ = b.write_pos_
      BY DEF Written, BuffersOf
    <3> QED
      BY <3>1, <3>2 DEF WriteSeek, Written
  <2> HIDE DEF full
  <2>4. full \in BuffersOf(S) /\ Content(full) = Content(b) \o first
    <3>1. Len(first) <= writable_bytes(b)
      BY <1>1, <2>1 DEF writable
    <3> QED
      BY <2>1, <2>3, <3>1, Copied
  <2>5. /\ AppendBytes(full, rest) \in BuffersOf(S)
        /\ Content(AppendBytes(full, rest)) = Content(full) \o rest
    BY <2>1, <2>4, AppendedInOrder
  <2>6. (Content(b) \o first) \o rest = Content(b) \o (first \o rest)
    <3> DEFINE old == Content(b)
    <3>1. old \in Seq(S) /\ first \in Seq(S) /\ rest \in Seq(S)
      BY <2>1, Readable
    <3> HIDE DEF old
    <3>2. (old \o first) \o rest = old \o (first \o rest)
      BY <3>1, ConcatAssociative
    <3> QED
      BY <3>2 DEF old
  <2> QED
    BY <2>1, <2>2, <2>4, <2>5, <2>6
<1> QED
  BY <1>2, <1>3


\* A new buffer has nothing to read, and its room in front is whole.
LEMMA Created ==
  ASSUME NEW S, 0 \in S, NEW n \in Nat
  PROVE  /\ New(n) \in BuffersOf(S) /\ Content(New(n)) = <<>> /\ readable_bytes(New(n)) = 0
         /\ prependable_bytes(New(n)) = CHEAP_PREPEND /\ ~CanMove(New(n))
<1> DEFINE k == CHEAP_PREPEND + n
           z == Zeros(k)
           b == New(n)
<1>1. k \in Nat /\ CHEAP_PREPEND \in Nat /\ CHEAP_PREPEND <= k
  BY SizesAssumption
<1>2. z \in Seq(S) /\ Len(z) = k
  <2> HIDE DEF k
  <2>1. z \in [1..k -> S]
    BY DEF Zeros
  <2>2. z \in Seq(S)
    BY <1>1, <2>1, SeqDef
  <2>3. DOMAIN z = 1..k
    BY <2>1
  <2>4. DOMAIN z = 1..Len(z) /\ Len(z) \in Nat
    BY <2>2, LenProperties
  <2> HIDE DEF z
  <2> QED
    BY <1>1, <2>2, <2>3, <2>4
<1>3. /\ b.buffer_ = z /\ b.read_pos_ = CHEAP_PREPEND /\ b.write_pos_ = CHEAP_PREPEND
      /\ b.initial_size_ = n
      /\ b = [buffer_ |-> z, read_pos_ |-> CHEAP_PREPEND, write_pos_ |-> CHEAP_PREPEND,
              initial_size_ |-> n]
  BY DEF New
<1> HIDE DEF z, k, b
<1>4. b \in BuffersOf(S)
  <2>1. b \in [buffer_ : Seq(S), read_pos_ : Nat, write_pos_ : Nat, initial_size_ : Nat]
    BY <1>1, <1>2, <1>3
  <2> QED
    BY <1>1, <1>2, <1>3, <2>1 DEF BuffersOf, size
<1>5. Content(b) = <<>>
  BY <1>1, <1>3, SubSeqEmpty DEF Content
<1>6. readable_bytes(b) = 0 /\ prependable_bytes(b) = CHEAP_PREPEND /\ ~CanMove(b)
  BY <1>1, <1>3 DEF readable_bytes, prependable_bytes, CanMove
<1> QED
  BY <1>4, <1>5, <1>6 DEF b

\* clear() leaves nothing to read, also when it gives memory back.
LEMMA Cleared ==
  ASSUME NEW S, 0 \in S, NEW b \in BuffersOf(S)
  PROVE  Clear(b) \in BuffersOf(S) /\ Content(Clear(b)) = <<>>
<1> DEFINE c == [b EXCEPT !.read_pos_ = CHEAP_PREPEND, !.write_pos_ = CHEAP_PREPEND]
           n == b.initial_size_ + CHEAP_PREPEND
<1>1. /\ CHEAP_PREPEND \in Nat /\ n \in Nat /\ CHEAP_PREPEND <= n /\ CHEAP_PREPEND <= size(b)
      /\ size(b) \in Nat /\ b.buffer_ \in Seq(S)
  BY Fields, SizesAssumption
<1>2. /\ c \in BuffersOf(S) /\ size(c) = size(b) /\ c.buffer_ = b.buffer_
      /\ c.read_pos_ = CHEAP_PREPEND /\ c.write_pos_ = CHEAP_PREPEND
  <2>1. /\ c \in [buffer_ : Seq(S), read_pos_ : Nat, write_pos_ : Nat, initial_size_ : Nat]
        /\ c.buffer_ = b.buffer_ /\ c.read_pos_ = CHEAP_PREPEND /\ c.write_pos_ = CHEAP_PREPEND
    BY <1>1 DEF BuffersOf
  <2> HIDE DEF c
  <2> QED
    BY <1>1, <2>1 DEF BuffersOf, size
<1>3. Content(c) = <<>>
  BY <1>1, <1>2, SubSeqEmpty DEF Content
<1>4. Clear(b) = IF size(b) > MAX_BUFFER_THRESHOLD THEN Resized(c, n) ELSE c
  BY DEF Clear
<1> HIDE DEF c, n
<1>5. CASE size(b) > MAX_BUFFER_THRESHOLD /\ size(c) < n
  BY <1>1, <1>2, <1>3, <1>4, <1>5, Growth
<1>6. CASE size(b) > MAX_BUFFER_THRESHOLD /\ ~(size(c) < n)
  <2> DEFINE cells == SubSeq(c.buffer_, 1, n)
             d     == [c EXCEPT !.buffer_ = cells]
  <2>1. n <= size(c) /\ n <= Len(c.buffer_) /\ 1 \in Nat /\ 1 <= n + 1
    BY <1>1, <1>2, <1>6 DEF size
  <2>2. Clear(b) = d
    BY <1>4, <1>6, <2>1 DEF Resized
  <2>3. cells \in Seq(S) /\ Len(cells) = n
    <3>1. cells \in Seq(S) /\ Len(cells) = n + 1 - 1
      BY <1>1, <1>2, <2>1, Piece
    <3> HIDE DEF cells
    <3> QED
      BY <1>1, <3>1
  <2> HIDE DEF cells
  <2>4. /\ d \in [buffer_ : Seq(S), read_pos_ : Nat, write_pos_ : Nat, initial_size_ : Nat]
        /\ d.buffer_ = cells /\ d.read_pos_ = CHEAP_PREPEND /\ d.write_pos_ = CHEAP_PREPEND
    BY <1>2, <2>3 DEF BuffersOf
  <2> HIDE DEF d
  <2>5. d \in BuffersOf(S)
    BY <1>1, <2>3, <2>4 DEF BuffersOf, size
  <2>6. Content(d) = <<>>
    BY <1>1, <2>4, SubSeqEmpty DEF Content
  <2> QED
    BY <2>2, <2>5, <2>6
<1>7. CASE ~(size(b) > MAX_BUFFER_THRESHOLD)
  BY <1>2, <1>3, <1>4, <1>7
<1> QED
  BY <1>5, <1>6, <1>7

\* pop() takes bytes from the front and leaves the others.
THEOREM PoppedInOrder ==
  ASSUME NEW S, 0 \in S, NEW b \in BuffersOf(S), NEW n \in Nat
  PROVE  /\ Pop(b, n) \in BuffersOf(S)
         /\ Content(Pop(b, n)) = SubSeq(Content(b), n + 1, Len(Content(b)))
<1> DEFINE r == b.read_pos_
           w == b.write_pos_
           k == w - r
           s == b.buffer_
<1>1. /\ r \in Nat /\ w \in Nat /\ r <= w /\ w <= Len(s) /\ s \in Seq(S) /\ k \in Nat
      /\ readable_bytes(b) = k /\ Content(b) = SubSeq(s, r + 1, w) /\ size(b) = Len(s)
  BY Fields DEF size, readable_bytes, Content
<1>2. Content(b) \in Seq(S) /\ Len(Content(b)) = k
  BY <1>1, Readable
<1>3. CASE n < k
  <2> DEFINE c == [b EXCEPT !.buffer_ = s, !.read_pos_ = r + n, !.write_pos_ = w]
  <2>1. Pop(b, n) = c
    BY <1>1, <1>3 DEF Pop, BuffersOf
  <2>2. r + n \in Nat /\ r + n <= w /\ size(b) <= Len(s)
    BY <1>1, <1>3
  <2>3. c.buffer_ = s /\ c.read_pos_ = r + n /\ c.write_pos_ = w
    BY DEF BuffersOf
  <2> HIDE DEF r, w, s
  <2>4. c \in BuffersOf(S)
    <3> DEFINE q == r + n
    <3>1. q \in Nat /\ q <= w /\ w <= Len(s)
      BY <1>1, <2>2
    <3> HIDE DEF q
    <3>2. [b EXCEPT !.buffer_ = s, !.read_pos_ = q, !.write_pos_ = w] \in BuffersOf(S)
      BY <1>1, <2>2, <3>1, Made, Zenon
    <3> QED
      BY <3>2 DEF q
  <2> HIDE DEF c
  <2>5. SubSeq(SubSeq(s, r + 1, w), n + 1, k) = SubSeq(s, r + n + 1, w)
    <3> DEFINE whole == SubSeq(s, r + 1, w)
               left  == SubSeq(whole, n + 1, k)
               right == SubSeq(s, r + n + 1, w)
    <3>1. whole \in Seq(S) /\ Len(whole) = k /\ \A i \in 1..k : whole[i] = s[r + i]
      <4>1. /\ whole \in Seq(S) /\ Len(whole) = w + 1 - (r + 1)
            /\ \A i \in 1..w + 1 - (r + 1) : whole[i] = s[(r + 1) + i - 1]
        BY <1>1, Piece
      <4>2. r \in Nat /\ w \in Nat /\ r <= w /\ k = w - r
        BY <1>1
      <4> HIDE DEF whole, k
      <4>3. /\ w + 1 - (r + 1) = k
            /\ \A i \in 1..k : (r + 1) + i - 1 = r + i
        BY <4>2
      <4> QED
        BY <4>1, <4>3
    <3> HIDE DEF whole, k
    <3>2. left \in Seq(S) /\ Len(left) = k - n /\ \A i \in 1..k - n : left[i] = whole[n + i]
      <4>1. /\ left \in Seq(S) /\ Len(left) = k + 1 - (n + 1)
            /\ \A i \in 1..k + 1 - (n + 1) : left[i] = whole[(n + 1) + i - 1]
        BY <1>1, <1>3, <3>1, Piece
      <4> HIDE DEF left
      <4> QED
        BY <1>1, <4>1
    <3>3. right \in Seq(S) /\ Len(right) = k - n /\ \A i \in 1..k - n : right[i] = s[r + n + i]
      <4> DEFINE m == r + n + 1
      <4>1. m \in Nat /\ 1 <= m /\ m <= w + 1 /\ w + 1 - m = k - n /\ \A i \in Nat : m + i - 1 = r + n + i
        BY <1>1, <2>2 DEF k
      <4> HIDE DEF m
      <4>2. /\ SubSeq(s, m, w) \in Seq(S) /\ Len(SubSeq(s, m, w)) = w + 1 - m
            /\ \A i \in 1..w + 1 - m : SubSeq(s, m, w)[i] = s[m + i - 1]
        BY <1>1, <4>1, Piece
      <4>3. right = SubSeq(s, m, w)
        BY DEF m
      <4> HIDE DEF right
      <4>4. \A i \in 1..k - n : m + i - 1 = r + n + i
        BY <1>1, <4>1
      <4> QED
        BY <4>1, <4>2, <4>3, <4>4
    <3> HIDE DEF left, right
    <3>4. ASSUME NEW i \in 1..k - n PROVE left[i] = right[i]
      <4>1. n + i \in 1..k /\ r + (n + i) = r + n + i
        BY <1>1
      <4> QED
        BY <3>1, <3>2, <3>3, <4>1
    <3>5. left = right
      BY <3>2, <3>3, <3>4, SeqEqual
    <3> QED
      BY <3>5 DEF left, right, whole
  <2>6. Content(c) = SubSeq(s, r + n + 1, w)
    BY <2>3 DEF Content
  <2> QED
    BY <1>1, <1>2, <2>1, <2>4, <2>5, <2>6
<1>4. CASE ~(n < k)
  <2>1. Pop(b, n) = Clear(b)
    BY <1>1, <1>4 DEF Pop
  <2>2. SubSeq(Content(b), n + 1, k) = <<>>
    BY <1>1, <1>4, SubSeqEmpty
  <2>3. Clear(b) \in BuffersOf(S) /\ Content(Clear(b)) = <<>>
    BY Cleared
  <2> HIDE DEF k
  <2> QED
    BY <1>2, <2>1, <2>2, <2>3
<1> QED
  BY <1>1, <1>3, <1>4

\* shrink() keeps what is read.
THEOREM ShrunkInOrder ==
  ASSUME NEW S, 0 \in S, NEW b \in BuffersOf(S), NEW reserve \in Nat
  PROVE  Shrink(b, reserve) \in BuffersOf(S) /\ Content(Shrink(b, reserve)) = Content(b)
<1> DEFINE data  == Content(b)
           fresh == New(INITIAL_SIZE)
           other == CheckWritableBytes(fresh, readable_bytes(b) + reserve)
           full  == AppendBytes(other, data)
           c     == [full EXCEPT !.initial_size_ = b.initial_size_]
<1>1. data \in Seq(S)
  BY Readable
<1>2. readable_bytes(b) + reserve \in Nat /\ b.initial_size_ \in Nat /\ INITIAL_SIZE \in Nat
  BY Fields, SizesAssumption DEF readable_bytes
<1>3. fresh \in BuffersOf(S) /\ Content(fresh) = <<>>
  BY <1>2, Created
<1> HIDE DEF fresh, data
<1>4. other \in BuffersOf(S) /\ Content(other) = <<>>
  BY <1>2, <1>3, RoomIsMade
<1> HIDE DEF other
<1>5. full \in BuffersOf(S) /\ Content(full) = Content(other) \o data
  BY <1>1, <1>4, AppendedInOrder
<1>6. Content(full) = data
  BY <1>1, <1>4, <1>5, ConcatEmptySeq
<1>7. Shrink(b, reserve) = c
  BY DEF Shrink, Swapped, full, other, fresh, data
<1> HIDE DEF full
<1>8. /\ c \in [buffer_ : Seq(S), read_pos_ : Nat, write_pos_ : Nat, initial_size_ : Nat]
      /\ c.buffer_ = full.buffer_ /\ c.read_pos_ = full.read_pos_ /\ c.write_pos_ = full.write_pos_
  BY <1>2, <1>5 DEF BuffersOf
<1> HIDE DEF c
<1>9. c \in BuffersOf(S) /\ Content(c) = data
  BY <1>5, <1>6, <1>8 DEF BuffersOf, Content, size
<1> QED
  BY <1>7, <1>9 DEF data

\* Written before the readable cells, which are those from r to w, data is read
\* before what was read before.
LEMMA ReadInFront ==
  ASSUME NEW S, NEW s \in Seq(S), NEW data \in Seq(S), NEW at \in Nat, NEW w \in Nat,
         at + Len(data) <= w, w <= Len(s)
  PROVE  SubSeq(Over(s, at, data), at + 1, w) = data \o SubSeq(s, at + Len(data) + 1, w)
<1> DEFINE cells == Over(s, at, data)
           r     == at + Len(data)
           n     == Len(s)
<1>1. n \in Nat /\ r \in Nat /\ at <= r /\ r <= w /\ w <= n
  BY LenProperties
<1>2. cells \in Seq(S) /\ Len(cells) = n /\ \A i \in r + 1..n : cells[i] = s[i]
  <2>1. at + Len(data) <= Len(s)
    BY <1>1
  <2>2. /\ cells \in Seq(S) /\ Len(cells) = Len(s)
        /\ \A i \in 1..Len(s) :
             cells[i] = IF i <= at \/ i > at + Len(data) THEN s[i] ELSE data[i - at]
    BY <2>1, Overlay
  <2> HIDE DEF cells
  <2> QED
    BY <1>1, <2>2
<1>3. SubSeq(cells, at + 1, r) = data
  <2>1. at + Len(data) <= Len(s)
    BY <1>1
  <2> QED
    BY <2>1, ReadBack, Zenon
<1> HIDE DEF cells, r
<1>4. SubSeq(cells, at + 1, w) = SubSeq(cells, at + 1, r) \o SubSeq(cells, r + 1, w)
  <2> DEFINE m == at + 1
  <2>1. m \in 1..Len(cells) + 1 /\ r \in m - 1..Len(cells) /\ w \in r..Len(cells)
    BY <1>1, <1>2
  <2> HIDE DEF m
  <2>2. SubSeq(cells, m, r) \o SubSeq(cells, r + 1, w) = SubSeq(cells, m, w)
    BY <1>2, <2>1, ConcatAdjacentSubSeq
  <2> QED
    BY <2>2 DEF m
<1>5. SubSeq(cells, r + 1, w) = SubSeq(s, r + 1, w)
  <2> DEFINE m   == r + 1
             new == SubSeq(cells, m, w)
             old == SubSeq(s, m, w)
  <2>1. m \in Nat /\ 1 <= m /\ m <= w + 1 /\ w <= Len(cells) /\ w <= Len(s)
    BY <1>1, <1>2 DEF n
  <2>2. \A i \in 1..w + 1 - m : cells[m + i - 1] = s[m + i - 1]
    BY <1>1, <1>2
  <2> HIDE DEF m
  <2>3. /\ new \in Seq(S) /\ Len(new) = w + 1 - m
        /\ \A i \in 1..w + 1 - m : new[i] = cells[m + i - 1]
    BY <1>2, <2>1, Piece
  <2>4. /\ old \in Seq(S) /\ Len(old) = w + 1 - m
        /\ \A i \in 1..w + 1 - m : old[i] = s[m + i - 1]
    BY <2>1, Piece
  <2> HIDE DEF new, old
  <2>5. new = old
    BY <2>2, <2>3, <2>4, SeqEqual
  <2> QED
    BY <2>5 DEF new, old, m
<1> QED
  BY <1>3, <1>4, <1>5 DEF cells, r

\* prepend() puts its bytes before the readable ones, if they fit.
THEOREM PrependedInOrder ==
  ASSUME NEW S, NEW b \in BuffersOf(S), NEW data \in Seq(S), CanPrepend(b, data)
  PROVE  /\ PrependBytes(b, data) \in BuffersOf(S)
         /\ Content(PrependBytes(b, data)) = data \o Content(b)
<1> DEFINE r     == b.read_pos_
           w     == b.write_pos_
           s     == b.buffer_
           at    == r - Len(data)
           cells == Over(s, at, data)
           c     == [b EXCEPT !.buffer_ = cells, !.read_pos_ = at, !.write_pos_ = w]
<1>1. /\ r \in Nat /\ w \in Nat /\ r <= w /\ w <= Len(s) /\ s \in Seq(S) /\ Len(s) \in Nat
      /\ size(b) = Len(s) /\ Len(data) \in Nat /\ Len(data) <= r
  BY Fields, LenProperties DEF size, CanPrepend, prependable_bytes
<1>2. PrependBytes(b, data) = c
  BY DEF PrependBytes, Written, Over, size, BuffersOf
<1>3. c.buffer_ = cells /\ c.read_pos_ = at /\ c.write_pos_ = w
  BY DEF BuffersOf
<1>4. Content(b) = SubSeq(s, r + 1, w)
  BY DEF Content
<1>5. at \in Nat /\ at + Len(data) = r /\ at <= w /\ at + Len(data) <= w /\ at + Len(data) <= Len(s)
  BY <1>1
<1> HIDE DEF r, w, s, at
<1>6. cells \in Seq(S) /\ Len(cells) = Len(s)
  BY <1>1, <1>5, Overlay
<1>7. SubSeq(cells, at + 1, w) = data \o SubSeq(s, at + Len(data) + 1, w)
  <2>1. s \in Seq(S) /\ at \in Nat /\ w \in Nat /\ at + Len(data) <= w /\ w <= Len(s)
    BY <1>1, <1>5
  <2> HIDE DEF cells
  <2>2. SubSeq(Over(s, at, data), at + 1, w) = data \o SubSeq(s, at + Len(data) + 1, w)
    BY <2>1, ReadInFront, ZenonT(60)
  <2> QED
    BY <2>2 DEF cells
<1> HIDE DEF cells
<1>8. c \in BuffersOf(S)
  <2>1. w <= Len(cells) /\ size(b) <= Len(cells)
    BY <1>1, <1>6
  <2> QED
    BY <1>1, <1>5, <1>6, <2>1, Made, Zenon
<1> HIDE DEF c
<1>9. Content(c) = data \o Content(b)
  BY <1>3, <1>4, <1>5, <1>7 DEF Content
<1> QED
  BY <1>2, <1>8, <1>9

\* append() leaves the room in front alone, unless it moves the readable bytes.
LEMMA FrontIsKept ==
  ASSUME NEW S, NEW b \in BuffersOf(S), NEW data \in Seq(S), ~CanMove(b)
  PROVE  prependable_bytes(AppendBytes(b, data)) = prependable_bytes(b)
<1> DEFINE len == Len(data)
           c   == CheckWritableBytes(b, len)
<1>1. len \in Nat
  BY LenProperties
<1> HIDE DEF len
<1>2. c = b \/ c = Resized(b, b.write_pos_ + len)
  BY <1>1, RoomInFront DEF CheckWritableBytes, AllocMoreMemory
<1>3. c.read_pos_ = b.read_pos_ /\ c \in [buffer_ : {c.buffer_}, read_pos_ : {c.read_pos_},
        write_pos_ : {c.write_pos_}, initial_size_ : {c.initial_size_}]
  BY <1>2 DEF Resized, BuffersOf
<1> HIDE DEF c
<1>4. AppendBytes(b, data) = WriteSeek(Written(c, c.write_pos_, data), Len(data))
  BY DEF AppendBytes, c, len
<1>5. WriteSeek(Written(c, c.write_pos_, data), Len(data)).read_pos_ = c.read_pos_
  BY <1>3 DEF WriteSeek, Written
<1> QED
  BY <1>3, <1>4, <1>5 DEF prependable_bytes

\* A frame is its length and then its payload.
THEOREM FramedInOrder ==
  ASSUME NEW S, 0 \in S, NEW payload \in Seq(S), BigEndian(Len(payload), 1) \in Seq(S)
  PROVE  Framed(payload) = BigEndian(Len(payload), 1) \o payload
<1> DEFINE length == BigEndian(Len(payload), 1)
           fresh  == New(INITIAL_SIZE)
           b      == AppendBytes(fresh, payload)
           c      == PrependBytes(b, length)
           whole  == Content(c)
<1>1. Len(length) = 1
  <2>1. DOMAIN length = 1..1
    BY DEF BigEndian
  <2>2. DOMAIN length = 1..Len(length) /\ Len(length) \in Nat
    BY LenProperties
  <2> HIDE DEF length
  <2> QED
    BY <2>1, <2>2
<1>2. /\ fresh \in BuffersOf(S) /\ Content(fresh) = <<>> /\ ~CanMove(fresh)
      /\ prependable_bytes(fresh) = CHEAP_PREPEND
  BY SizesAssumption, Created
<1>3. Framed(payload) = SubSeq(whole, 1, readable_bytes(c))
  BY DEF Framed, PopAllAsString, PopAsString, PrependInt
<1> HIDE DEF length, fresh
<1>4. b \in BuffersOf(S) /\ Content(b) = Content(fresh) \o payload
  BY <1>2, AppendedInOrder
<1>5. Content(b) = payload
  BY <1>2, <1>4, ConcatEmptySeq
<1>6. prependable_bytes(b) = CHEAP_PREPEND
  BY <1>2, FrontIsKept
<1> HIDE DEF b
<1>7. CanPrepend(b, length)
  BY <1>1, <1>6, StreamAssumption, SizesAssumption DEF CanPrepend
<1>8. length \in Seq(S)
  BY DEF length
<1>9. c \in BuffersOf(S) /\ Content(c) = length \o Content(b)
  BY <1>4, <1>7, <1>8, PrependedInOrder
<1> HIDE DEF c
<1>10. whole \in Seq(S) /\ Len(whole) = readable_bytes(c)
  BY <1>9, Readable
<1>11. SubSeq(whole, 1, Len(whole)) = whole
  BY <1>10, SubSeqFull
<1> QED
  BY <1>3, <1>5, <1>9, <1>10, <1>11 DEF length

-----------------------------------------------------------------------------
(* Induction and recursion, from the least element of a set of numbers.     *)

\* A set of numbers that is not empty has a least element.
LEMMA LeastElement ==
  ASSUME NEW T, T \subseteq Nat, T # {}
  PROVE  \E x \in T : \A y \in T : x <= y
<1> DEFINE R == {p \in Nat \X Nat : p[1] < p[2]}
<1>1. IsWellFoundedOn(R, Nat)
  BY NatLessThanWellFounded DEF OpToRel
<1> HIDE DEF R
<1>2. PICK x \in T : \A y \in T : ~(<<y, x>> \in R)
  BY <1>1, WFMin, Zenon
<1>3. ASSUME NEW y \in T PROVE x <= y
  <2>1. y \in Nat /\ x \in Nat
    OBVIOUS
  <2>2. <<y, x>> \in Nat \X Nat /\ <<y, x>>[1] = y /\ <<y, x>>[2] = x
    BY <2>1
  <2>3. ~(y < x)
    BY <1>2, <2>2 DEF R
  <2> QED
    BY <2>1, <2>3
<1> QED
  BY <1>3

\* What holds of 0, and of n + 1 when of n, holds of every number.
LEMMA Induction ==
  ASSUME NEW T, 0 \in T, \A n \in Nat : n \in T => n + 1 \in T
  PROVE  \A n \in Nat : n \in T
<1> SUFFICES ASSUME NEW k \in Nat, k \notin T PROVE FALSE
  OBVIOUS
<1> DEFINE U == Nat \ T
<1>1. PICK x \in U : \A y \in U : x <= y
  BY LeastElement
<1>2. x # 0 /\ x - 1 \in Nat /\ x - 1 \notin U
  BY <1>1
<1>3. x - 1 \in T
  BY <1>2
<1>4. x - 1 + 1 \in T
  BY <1>2, <1>3
<1> QED
  BY <1>1, <1>2, <1>4

\* What holds of n when it holds of all greater numbers up to the last, holds of
\* all up to the last.
LEMMA Downward ==
  ASSUME NEW T, NEW last \in Nat,
         \A n \in 0..last : (\A m \in n + 1..last : m \in T) => n \in T
  PROVE  \A n \in 0..last : n \in T
<1> SUFFICES ASSUME NEW k \in 0..last, k \notin T PROVE FALSE
  OBVIOUS
<1> DEFINE U == {d \in 0..last : last - d \notin T}
<1>1. last - k \in U
  OBVIOUS
<1>2. PICK d \in U : \A y \in U : d <= y
  <2>1. U # {}
    BY <1>1
  <2>2. U \subseteq Nat
    OBVIOUS
  <2> HIDE DEF U
  <2> QED
    BY <2>1, <2>2, LeastElement
<1>3. ASSUME NEW m \in last - d + 1..last PROVE m \in T
  <2>1. last - m \in 0..last /\ last - m < d /\ last - (last - m) = m
    BY <1>2
  <2> QED
    BY <1>2, <2>1
<1>4. last - d \in 0..last
  BY <1>2
<1> QED
  BY <1>2, <1>3, <1>4

\* The functions defined by primitive recursion: step[n] leads from the value at
\* n - 1 to the one at n.
Recursive(S, a, step) ==
  {f \in [Nat -> S] : f[0] = a /\ \A n \in Nat \ {0} : f[n] = step[n][f[n - 1]]}

\* There is one.
LEMMA Recursion ==
  ASSUME NEW S, NEW a \in S, NEW step \in [Nat -> [S -> S]]
  PROVE  \E f : f \in Recursive(S, a, step)
<1> DEFINE Part(n, h) == h[0] = a /\ \A i \in 1..n : h[i] = step[i][h[i - 1]]
           Has == {n \in Nat : \E h \in [0..n -> S] : Part(n, h)}
<1>1. \A n \in Nat : n \in Has
  <2>1. 0 \in Has
    <3> DEFINE h == [i \in 0..0 |-> a]
    <3>1. h \in [0..0 -> S] /\ Part(0, h)
      OBVIOUS
    <3> QED
      BY <3>1
  <2>2. ASSUME NEW n \in Nat, n \in Has PROVE n + 1 \in Has
    <3>1. PICK h \in [0..n -> S] : Part(n, h)
      BY <2>2
    <3> DEFINE k == n + 1
               g == [i \in 0..k |-> IF i = k THEN step[k][h[n]] ELSE h[i]]
    <3>2. k \in Nat /\ k - 1 = n /\ h[n] \in S /\ step[k][h[n]] \in S
      OBVIOUS
    <3>3. g \in [0..k -> S]
      BY <3>2
    <3>4. g[0] = a
      BY <3>1
    <3>5. ASSUME NEW i \in 1..k PROVE g[i] = step[i][g[i - 1]]
      <4>1. CASE i = k
        BY <3>2, <4>1
      <4>2. CASE i # k
        <5>1. i \in 1..n /\ i - 1 \in 0..k /\ i - 1 # k /\ i \in 0..k
          BY <4>2
        <5>2. h[i] = step[i][h[i - 1]]
          BY <3>1, <5>1
        <5> QED
          BY <4>2, <5>1, <5>2
      <4> QED
        BY <4>1, <4>2
    <3> HIDE DEF g
    <3>6. Part(k, g)
      BY <3>4, <3>5
    <3> QED
      BY <3>2, <3>3, <3>6
  <2> HIDE DEF Has
  <2> QED
    BY <2>1, <2>2, Induction
<1>2. ASSUME NEW m \in Nat, NEW n \in Nat, m <= n, NEW g, Part(m, g), NEW h, Part(n, h)
      PROVE  g[m] = h[m]
  <2> DEFINE T == {i \in Nat : i <= m => g[i] = h[i]}
  <2>1. 0 \in T
    BY <1>2
  <2>2. ASSUME NEW i \in Nat, i \in T PROVE i + 1 \in T
    <3>1. CASE i + 1 <= m
      <4>1. i + 1 \in 1..m /\ i + 1 \in 1..n /\ i + 1 - 1 = i /\ i <= m
        BY <1>2, <3>1
      <4>2. g[i + 1] = step[i + 1][g[i]] /\ h[i + 1] = step[i + 1][h[i]]
        BY <1>2, <4>1
      <4> QED
        BY <2>2, <4>1, <4>2
    <3>2. CASE ~(i + 1 <= m)
      BY <3>2
    <3> QED
      BY <3>1, <3>2
  <2> HIDE DEF T
  <2>3. m \in T
    BY <2>1, <2>2, Induction
  <2> QED
    BY <2>3 DEF T
<1> DEFINE Chosen(n) == CHOOSE h \in [0..n -> S] : Part(n, h)
           f == [n \in Nat |-> Chosen(n)[n]]
<1>3. ASSUME NEW n \in Nat PROVE Chosen(n) \in [0..n -> S] /\ Part(n, Chosen(n))
  <2>1. \E h \in [0..n -> S] : Part(n, h)
    BY <1>1
  <2> HIDE DEF Part
  <2> QED
    BY <2>1
<1> HIDE DEF Chosen
<1>4. f \in [Nat -> S]
  <2>1. ASSUME NEW n \in Nat PROVE Chosen(n)[n] \in S
    BY <1>3
  <2> QED
    BY <2>1
<1>5. f[0] = a
  BY <1>3
<1>6. ASSUME NEW n \in Nat \ {0} PROVE f[n] = step[n][f[n - 1]]
  <2> DEFINE m == n - 1
  <2>1. m \in Nat /\ m <= n /\ n \in 1..n /\ n \in Nat
    OBVIOUS
  <2>2. Part(m, Chosen(m)) /\ Part(n, Chosen(n))
    BY <1>3, <2>1
  <2>3. Chosen(m)[m] = Chosen(n)[m]
    <3> DEFINE g == Chosen(m)
               h == Chosen(n)
    <3>1. Part(m, g) /\ Part(n, h)
      BY <2>2
    <3> HIDE DEF g, h, m, Part
    <3>2. g[m] = h[m]
      BY <1>2, <2>1, <3>1
    <3> QED
      BY <3>2 DEF g, h
  <2>4. Chosen(n)[n] = step[n][Chosen(n)[n - 1]]
    BY <2>1, <2>2
  <2> QED
    BY <2>1, <2>3, <2>4
<1> HIDE DEF f
<1>7. f \in Recursive(S, a, step)
  BY <1>4, <1>5, <1>6 DEF Recursive
<1> QED
  BY <1>7

-----------------------------------------------------------------------------
(* Numbers and bytes.                                                       *)

\* The powers of the base.
LEMMA Powers ==
  /\ Power[0] = 1
  /\ \A w \in Nat : Power[w] \in Nat \ {0} /\ Power[w + 1] = ByteBase * Power[w]
<1>1. ByteBase \in Nat \ {0}
  BY SizesAssumption
<1> DEFINE step == [n \in Nat |-> [x \in Nat |-> ByteBase * x]]
<1>2. step \in [Nat -> [Nat -> Nat]] /\ \A n, x \in Nat : step[n][x] = ByteBase * x
  BY <1>1
<1> HIDE DEF step
<1>3. PICK f \in [Nat -> Nat] : f[0] = 1 /\ \A n \in Nat \ {0} : f[n] = step[n][f[n - 1]]
  <2> DEFINE one == 1
  <2>1. one \in Nat /\ step \in [Nat -> [Nat -> Nat]]
    BY <1>2
  <2> HIDE DEF one
  <2>2. PICK f : f \in Recursive(Nat, one, step)
    BY <2>1, Recursion, Zenon
  <2> QED
    BY <2>2 DEF Recursive, one
<1>4. f = [w \in Nat |-> IF w = 0 THEN 1 ELSE ByteBase * f[w - 1]]
  <2>1. ASSUME NEW w \in Nat PROVE f[w] = IF w = 0 THEN 1 ELSE ByteBase * f[w - 1]
    <3>1. CASE w = 0
      BY <1>3, <3>1
    <3>2. CASE w # 0
      <4>1. f[w] = step[w][f[w - 1]] /\ w - 1 \in Nat
        BY <1>3, <3>2
      <4>2. f[w - 1] \in Nat
        BY <1>3, <4>1
      <4> QED
        BY <1>2, <3>2, <4>1, <4>2
    <3> QED
      BY <3>1, <3>2
  <2> QED
    BY <1>3, <2>1
<1>5. Power = [w \in Nat |-> IF w = 0 THEN 1 ELSE ByteBase * Power[w - 1]]
  BY <1>4 DEF Power
<1> DEFINE T == {w \in Nat : Power[w] \in Nat \ {0}}
<1>6. \A w \in Nat : Power[w + 1] = ByteBase * Power[w]
  BY <1>5
<1>7. Power[0] = 1
  BY <1>5
<1>8. \A w \in Nat : w \in T
  <2>1. 0 \in T
    BY <1>7
  <2>2. ASSUME NEW w \in Nat, w \in T PROVE w + 1 \in T
    <3>1. ByteBase * Power[w] \in Nat \ {0}
      BY <1>1, <2>2
    <3> QED
      BY <1>6, <3>1
  <2> HIDE DEF T
  <2> QED
    BY <2>1, <2>2, Induction
<1> QED
  BY <1>6, <1>7, <1>8

\* Quotient and remainder.
LEMMA Division ==
  ASSUME NEW b \in Nat \ {0}, NEW a \in Int, NEW q, q = a \div b, NEW r, r = a % b
  PROVE  q \in Int /\ r \in 0..b - 1 /\ a = b * q + r
  OBVIOUS

\* A quotient is recognised by its remainder.
LEMMA Quotient ==
  ASSUME NEW b \in Nat \ {0}, NEW a \in Int, NEW q \in Int, NEW r \in 0..b - 1, a = b * q + r
  PROVE  a \div b = q /\ a % b = r
<1>1. a = q * b + r
  OBVIOUS
<1> QED
  BY <1>1

\* Dividing twice is dividing by the product.
LEMMA DivideTwice ==
  ASSUME NEW p \in Nat \ {0}, NEW b \in Nat \ {0}, NEW a \in Int
  PROVE  b * p \in Nat \ {0} /\ (a \div p) \div b = a \div (b * p)
<1> DEFINE q  == a \div p
           r  == a % p
           qq == q \div b
           rr == q % b
           bp == b * p
<1>1. q \in Int /\ r \in 0..p - 1 /\ a = p * q + r
  BY Division
<1>2. qq \in Int /\ rr \in 0..b - 1 /\ q = b * qq + rr
  BY <1>1, Division
<1> HIDE DEF q, r, qq, rr
<1>3. bp \in Nat \ {0}
  OBVIOUS
<1>4. a = bp * qq + (p * rr + r)
  <2>1. p * (b * qq + rr) = (b * p) * qq + p * rr
    BY <1>2
  <2> QED
    BY <1>1, <1>2, <2>1
<1>5. p * rr + r \in 0..bp - 1
  <2>1. p * rr \in Nat
    BY <1>2
  <2>2. p * rr <= p * (b - 1)
    BY <1>2
  <2>3. p * (b - 1) = b * p - p
    OBVIOUS
  <2> QED
    BY <1>1, <1>3, <2>1, <2>2, <2>3
<1> HIDE DEF bp
<1>6. a \div bp = qq
  BY <1>2, <1>3, <1>4, <1>5, Quotient
<1> QED
  BY <1>3, <1>6 DEF q, qq, bp

\* The number that bytes stand for, byte by byte.
LEMMA UnsignedSum ==
  ASSUME NEW width \in Nat, NEW s, \A i \in 1..width : s[i] \in Byte
  PROVE  \E sum \in [0..width -> Nat] :
           /\ sum[0] = 0 /\ \A i \in 1..width : sum[i] = sum[i - 1] * ByteBase + s[i]
           /\ Unsigned(s, width) = sum[width]
<1>1. ByteBase \in Nat \ {0} /\ \A i \in 1..width : s[i] \in Nat
  BY SizesAssumption DEF Byte
<1> DEFINE digit == [n \in Nat |-> IF n \in 1..width THEN s[n] ELSE 0]
           step  == [n \in Nat |-> [x \in Nat |-> x * ByteBase + digit[n]]]
<1>2. digit \in [Nat -> Nat] /\ \A n \in 1..width : digit[n] = s[n]
  BY <1>1
<1> HIDE DEF digit
<1>3. step \in [Nat -> [Nat -> Nat]] /\ \A n, x \in Nat : step[n][x] = x * ByteBase + digit[n]
  BY <1>1, <1>2
<1> HIDE DEF step
<1>4. PICK f \in [Nat -> Nat] : f[0] = 0 /\ \A n \in Nat \ {0} : f[n] = step[n][f[n - 1]]
  <2> DEFINE zero == 0
  <2>1. zero \in Nat /\ step \in [Nat -> [Nat -> Nat]]
    BY <1>3
  <2> HIDE DEF zero
  <2>2. PICK f : f \in Recursive(Nat, zero, step)
    BY <2>1, Recursion, Zenon
  <2> QED
    BY <2>2 DEF Recursive, zero
<1> DEFINE h == [i \in 0..width |-> f[i]]
<1>5. /\ h \in [0..width -> Nat] /\ h[0] = 0
      /\ \A i \in 1..width : h[i] = h[i - 1] * ByteBase + s[i]
  <2>1. ASSUME NEW i \in 1..width PROVE f[i] = f[i - 1] * ByteBase + s[i]
    <3>1. i \in Nat \ {0} /\ i - 1 \in Nat
      OBVIOUS
    <3>2. f[i] = step[i][f[i - 1]] /\ f[i - 1] \in Nat
      BY <1>4, <3>1
    <3>3. step[i][f[i - 1]] = f[i - 1] * ByteBase + digit[i]
      BY <1>3, <3>1, <3>2
    <3> QED
      BY <1>2, <3>2, <3>3
  <2>2. \A i \in 1..width : i \in 0..width /\ i - 1 \in 0..width
    OBVIOUS
  <2> QED
    BY <1>4, <2>1, <2>2
<1>6. h = [i \in 0..width |-> IF i = 0 THEN 0 ELSE h[i - 1] * ByteBase + s[i]]
  <2>1. \A i \in 0..width : h[i] = IF i = 0 THEN 0 ELSE h[i - 1] * ByteBase + s[i]
    <3> HIDE DEF h
    <3> QED
      BY <1>5
  <2> QED
    BY <1>5, <2>1
<1> HIDE DEF h
<1> DEFINE sum[i \in 0..width] == IF i = 0 THEN 0 ELSE sum[i - 1] * ByteBase + s[i]
<1>7. sum = [i \in 0..width |-> IF i = 0 THEN 0 ELSE sum[i - 1] * ByteBase + s[i]]
  BY <1>6
<1>8. Unsigned(s, width) = sum[width]
  BY DEF Unsigned
<1> HIDE DEF sum
<1>9. \A j \in 1..width : sum[j] = sum[j - 1] * ByteBase + s[j]
  <2> SUFFICES ASSUME NEW j \in 1..width PROVE sum[j] = sum[j - 1] * ByteBase + s[j]
    OBVIOUS
  <2>1. j \in 0..width /\ j # 0
    OBVIOUS
  <2> QED
    BY <1>7, <2>1, Zenon
<1> DEFINE T == {i \in Nat : i <= width => sum[i] = h[i]}
<1>10. \A i \in Nat : i \in T
  <2>1. 0 \in T
    BY <1>5, <1>7
  <2>2. ASSUME NEW i \in Nat, i \in T PROVE i + 1 \in T
    <3>1. CASE i + 1 <= width
      <4>1. i + 1 \in 1..width /\ i + 1 - 1 = i /\ i <= width /\ i + 1 \in 0..width /\ i + 1 # 0
        BY <3>1
      <4>2. sum[i + 1] = sum[i + 1 - 1] * ByteBase + s[i + 1]
        <5> DEFINE j == i + 1
        <5>1. j \in 1..width
          BY <4>1
        <5> HIDE DEF j
        <5>2. sum[j] = sum[j - 1] * ByteBase + s[j]
          BY <1>9, <5>1
        <5> QED
          BY <5>2 DEF j
      <4>3. h[i + 1] = h[i] * ByteBase + s[i + 1]
        BY <1>5, <4>1
      <4> QED
        BY <2>2, <4>1, <4>2, <4>3
    <3>2. CASE ~(i + 1 <= width)
      BY <3>2
    <3> QED
      BY <3>1, <3>2
  <2> HIDE DEF T
  <2> QED
    BY <2>1, <2>2, Induction
<1>11. sum[width] = h[width]
  BY <1>10
<1> QED
  BY <1>5, <1>8, <1>11

\* The bytes of an integer stand for it, modulo the power of the width.
LEMMA BytesOfInt ==
  ASSUME NEW value \in Int, NEW width \in Nat
  PROVE  /\ BigEndian(value, width) \in Seq(Byte) /\ Len(BigEndian(value, width)) = width
         /\ Unsigned(BigEndian(value, width), width) = value % Power[width]
<1> DEFINE s == BigEndian(value, width)
           u == value % Power[width]
<1>1. ByteBase \in Nat \ {0} /\ \A w \in Nat : Power[w] \in Nat \ {0}
  BY SizesAssumption, Powers
<1>2. u \in Nat /\ u < Power[width] /\ u \in Int
  <2> DEFINE p == Power[width]
             q == value \div p
  <2>1. p \in Nat \ {0}
    BY <1>1
  <2> HIDE DEF p
  <2>2. u \in 0..p - 1
    BY <2>1 DEF p
  <2> QED
    BY <2>1, <2>2 DEF p
<1>3. \A i \in 1..width : s[i] = (u \div Power[width - i]) % ByteBase
  BY DEF BigEndian
<1>4. \A i \in 1..width : s[i] \in Byte
  <2> SUFFICES ASSUME NEW i \in 1..width PROVE s[i] \in Byte
    OBVIOUS
  <2>1. width - i \in Nat
    OBVIOUS
  <2>2. Power[width - i] \in Nat \ {0}
    BY <1>1, <2>1
  <2> DEFINE p == Power[width - i]
             x == u \div p
  <2>3. x \in Int
    BY <1>2, <2>2, Division
  <2>4. s[i] = x % ByteBase
    BY <1>3
  <2> HIDE DEF p, x
  <2>5. x % ByteBase \in 0..ByteBase - 1
    BY <1>1, <2>3, Division
  <2> QED
    BY <2>4, <2>5 DEF Byte
<1>5. DOMAIN s = 1..width /\ s = [i \in 1..width |-> s[i]]
  BY DEF BigEndian
<1> HIDE DEF s, u
<1>6. s \in Seq(Byte) /\ Len(s) = width
  <2>1. s \in [1..width -> Byte]
    BY <1>4, <1>5
  <2>2. s \in Seq(Byte)
    BY <2>1, SeqDef
  <2>3. DOMAIN s = 1..Len(s) /\ Len(s) \in Nat
    BY <2>2, LenProperties
  <2> QED
    BY <1>5, <2>2, <2>3
<1>7. PICK sum \in [0..width -> Nat] :
        /\ sum[0] = 0 /\ \A i \in 1..width : sum[i] = sum[i - 1] * ByteBase + s[i]
        /\ Unsigned(s, width) = sum[width]
  BY <1>4, UnsignedSum
<1> DEFINE T == {i \in Nat : i <= width => sum[i] = u \div Power[width - i]}
<1>8. \A i \in Nat : i \in T
  <2>1. 0 \in T
    <3> DEFINE p == Power[width]
    <3>1. p \in Nat \ {0} /\ u \in 0..p - 1
      BY <1>1, <1>2
    <3>2. width - 0 = width
      OBVIOUS
    <3> HIDE DEF p
    <3>3. u \div p = 0
      <4> DEFINE zero == 0
      <4>1. zero \in Int /\ u = p * zero + u
        BY <1>2, <3>1
      <4> HIDE DEF zero
      <4>2. u \div p = zero
        BY <1>2, <3>1, <4>1, Quotient
      <4> QED
        BY <4>2 DEF zero
    <3> QED
      BY <1>7, <3>2, <3>3 DEF p
  <2>2. ASSUME NEW i \in Nat, i \in T PROVE i + 1 \in T
    <3>1. CASE i + 1 <= width
      <4> DEFINE k == width - (i + 1)
                 p == Power[k]
                 x == u \div p
      <4>1. k \in Nat /\ k + 1 = width - i /\ i + 1 \in 1..width /\ i + 1 - 1 = i /\ i <= width
        BY <3>1
      <4>2. p \in Nat \ {0} /\ Power[width - i] = ByteBase * p
        BY <1>1, <4>1, Powers
      <4>3. sum[i] = u \div (ByteBase * p)
        BY <2>2, <4>1, <4>2
      <4>4. s[i + 1] = x % ByteBase
        BY <1>3, <4>1
      <4>5. sum[i + 1] = sum[i] * ByteBase + s[i + 1]
        BY <1>7, <4>1
      <4> HIDE DEF p, k
      <4>6. x \in Int /\ x \div ByteBase = u \div (ByteBase * p)
        BY <1>1, <1>2, <4>2, Division, DivideTwice
      <4> HIDE DEF x
      <4> DEFINE q == x \div ByteBase
                 r == x % ByteBase
      <4>7. q \in Int /\ r \in 0..ByteBase - 1 /\ x = ByteBase * q + r
        BY <1>1, <4>6
      <4>8. sum[i + 1] = q * ByteBase + r
        BY <4>3, <4>4, <4>5, <4>6
      <4> HIDE DEF q, r
      <4>9. q * ByteBase = ByteBase * q
        BY <1>1, <4>7
      <4>10. sum[i + 1] = x
        BY <4>7, <4>8, <4>9
      <4> QED
        BY <4>10 DEF x, p, k
    <3>2. CASE ~(i + 1 <= width)
      BY <3>2
    <3> QED
      BY <3>1, <3>2
  <2> HIDE DEF T
  <2> QED
    BY <2>1, <2>2, Induction
<1>9. sum[width] = u
  <2>1. width - width = 0
    OBVIOUS
  <2>2. sum[width] = u \div Power[0]
    BY <1>8, <2>1
  <2>3. u \div 1 = u
    BY <1>2
  <2> QED
    BY <2>2, <2>3, Powers
<1> QED
  BY <1>6, <1>7, <1>9 DEF s, u

-----------------------------------------------------------------------------
(* Sequences one behind the other.                                          *)

\* FlattenSeq adds them up from the first.
LEMMA Flattened ==
  ASSUME NEW X, NEW seqs \in Seq(Seq(X))
  PROVE  \E f \in [0..Len(seqs) -> Seq(X)] :
           /\ f[0] = <<>> /\ \A i \in 1..Len(seqs) : f[i] = f[i - 1] \o seqs[i]
           /\ FlattenSeq(seqs) = f[Len(seqs)]
<1> DEFINE n == Len(seqs)
           Y == Seq(X)
<1>1. n \in Nat /\ \A i \in 1..n : seqs[i] \in Y
  BY LenProperties, ElementOfSeq
<1>2. \A x, y \in Y : x \o y \in Y
  BY ConcatProperties
<1>3. <<>> \in Y /\ \A y \in Y : <<>> \o y = y
  BY EmptySeq, ConcatEmptySeq
<1> HIDE DEF n, Y
<1> DEFINE step == [k \in Nat |-> [x \in Y |-> IF k \in 1..n THEN x \o seqs[k] ELSE x]]
           empty == <<>>
<1>4. /\ step \in [Nat -> [Y -> Y]]
      /\ \A k \in 1..n : \A x \in Y : step[k][x] = x \o seqs[k]
  <2>1. \A k \in 1..n : k \in Nat
    BY <1>1
  <2> QED
    BY <1>1, <1>2, <2>1
<1>5. empty \in Y
  BY <1>3
<1> HIDE DEF step, empty
<1>6. PICK g : g \in Recursive(Y, empty, step)
  BY <1>4, <1>5, Recursion, Zenon
<1>7. /\ g \in [Nat -> Y] /\ g[0] = empty
      /\ \A k \in Nat \ {0} : g[k] = step[k][g[k - 1]]
  BY <1>6 DEF Recursive
<1>8. \A i \in 1..n : g[i] = g[i - 1] \o seqs[i]
  <2> SUFFICES ASSUME NEW i \in 1..n PROVE g[i] = g[i - 1] \o seqs[i]
    OBVIOUS
  <2>1. i \in Nat \ {0} /\ i - 1 \in Nat
    BY <1>1
  <2>2. g[i] = step[i][g[i - 1]] /\ g[i - 1] \in Y
    BY <1>7, <2>1
  <2> QED
    BY <1>4, <2>2
<1> DEFINE f == [i \in 0..n |-> g[i]]
<1>9. f \in [0..n -> Y] /\ f[0] = empty /\ \A i \in 1..n : f[i] = f[i - 1] \o seqs[i]
  <2>1. \A i \in 0..n : i \in Nat
    BY <1>1
  <2>2. \A i \in 1..n : i \in 0..n /\ i - 1 \in 0..n
    BY <1>1
  <2>3. 0 \in 0..n
    BY <1>1
  <2> QED
    BY <1>7, <1>8, <2>1, <2>2, <2>3
<1>10. f[n] = g[n]
  BY <1>1
<1> HIDE DEF f
<1>11. FlattenSeq(seqs) = f[n]
  <2>1. CASE n = 0
    <3>1. seqs = <<>>
      BY <2>1, EmptySeq DEF n
    <3>2. FlattenSeq(seqs) = seqs
      BY <2>1 DEF FlattenSeq, n
    <3> QED
      BY <1>9, <2>1, <3>1, <3>2 DEF empty
  <2>2. CASE n # 0
    <3> DEFINE flatten[i \in 1..n] == IF i = 1 THEN seqs[i] ELSE flatten[i - 1] \o seqs[i]
               h == [i \in 1..n |-> g[i]]
    <3>1. FlattenSeq(seqs) = flatten[n]
      BY <2>2 DEF FlattenSeq, n
    <3>2. h = [i \in 1..n |-> IF i = 1 THEN seqs[i] ELSE h[i - 1] \o seqs[i]]
      <4>1. ASSUME NEW i \in 1..n
            PROVE  h[i] = IF i = 1 THEN seqs[i] ELSE h[i - 1] \o seqs[i]
        <5>1. CASE i = 1
          <6>1. g[1] = g[0] \o seqs[1]
            <7> DEFINE one == 1
            <7>1. one \in 1..n /\ one - 1 = 0
              BY <5>1
            <7> HIDE DEF one
            <7>2. g[one] = g[one - 1] \o seqs[one]
              BY <1>8, <7>1
            <7> QED
              BY <7>1, <7>2 DEF one
          <6>2. seqs[1] \in Y
            BY <1>1, <5>1
          <6>3. g[1] = seqs[1]
            BY <1>3, <1>7, <6>1, <6>2 DEF empty
          <6> QED
            BY <5>1, <6>3
        <5>2. CASE i # 1
          <6>1. i - 1 \in 1..n
            BY <1>1, <5>2
          <6> QED
            BY <1>8, <5>2, <6>1
        <5> QED
          BY <5>1, <5>2
      <4>2. h = [i \in 1..n |-> h[i]]
        OBVIOUS
      <4> HIDE DEF h
      <4> QED
        BY <4>1, <4>2
    <3>3. flatten = [i \in 1..n |-> IF i = 1 THEN seqs[i] ELSE flatten[i - 1] \o seqs[i]]
      <4> HIDE DEF h
      <4> QED
        BY <3>2
    <3> HIDE DEF flatten
    <3> DEFINE T == {i \in Nat : i \in 1..n => flatten[i] = g[i]}
    <3>4. \A i \in Nat : i \in T
      <4>1. 0 \in T
        OBVIOUS
      <4>2. ASSUME NEW i \in Nat, i \in T PROVE i + 1 \in T
        <5> DEFINE j == i + 1
        <5>1. CASE j \in 1..n
          <6>1. flatten[j] = IF j = 1 THEN seqs[j] ELSE flatten[j - 1] \o seqs[j]
            <7> HIDE DEF j
            <7> QED
              BY <3>3, <5>1
          <6>2. h[j] = IF j = 1 THEN seqs[j] ELSE h[j - 1] \o seqs[j]
            <7> HIDE DEF j, h
            <7> QED
              BY <3>2, <5>1
          <6>3. h[j] = g[j] /\ (j # 1 => h[j - 1] = g[j - 1] /\ flatten[j - 1] = g[j - 1])
            <7>1. j # 1 => j - 1 \in 1..n /\ j - 1 = i
              BY <1>1, <5>1
            <7> QED
              BY <4>2, <5>1, <7>1
          <6> HIDE DEF j, h
          <6>4. flatten[j] = g[j]
            BY <6>1, <6>2, <6>3
          <6> QED
            BY <6>4 DEF j
        <5>2. CASE j \notin 1..n
          BY <5>2
        <5> QED
          BY <5>1, <5>2
      <4> HIDE DEF T
      <4> QED
        BY <4>1, <4>2, Induction
    <3>5. n \in 1..n
      BY <1>1, <2>2
    <3>6. flatten[n] = g[n]
      BY <1>1, <3>4, <3>5
    <3> QED
      BY <1>10, <3>1, <3>6
  <2> QED
    BY <2>1, <2>2
<1> QED
  BY <1>9, <1>11 DEF n, Y, empty

\* One more at the end.
LEMMA FlattenAppend ==
  ASSUME NEW X, NEW seqs \in Seq(Seq(X)), NEW s \in Seq(X)
  PROVE  /\ FlattenSeq(seqs) \in Seq(X) /\ Append(seqs, s) \in Seq(Seq(X))
         /\ FlattenSeq(Append(seqs, s)) = FlattenSeq(seqs) \o s
<1> DEFINE more == Append(seqs, s)
           n == Len(seqs)
           k == Len(more)
<1>1. /\ more \in Seq(Seq(X)) /\ n \in Nat /\ k = n + 1 /\ more[k] = s
      /\ \A i \in 1..n : more[i] = seqs[i]
  <2> DEFINE Y == Seq(X)
  <2>1. seqs \in Seq(Y) /\ s \in Y
    OBVIOUS
  <2> HIDE DEF Y
  <2>2. /\ more \in Seq(Y) /\ Len(more) = Len(seqs) + 1 /\ more[Len(seqs) + 1] = s
        /\ \A i \in 1..Len(seqs) : more[i] = seqs[i]
    BY <2>1, AppendProperties
  <2>3. Len(seqs) \in Nat
    BY <2>1, LenProperties
  <2> QED
    BY <2>2, <2>3 DEF Y
<1>2. PICK f \in [0..n -> Seq(X)] :
        /\ f[0] = <<>> /\ \A i \in 1..n : f[i] = f[i - 1] \o seqs[i]
        /\ FlattenSeq(seqs) = f[n]
  BY Flattened
<1> HIDE DEF more
<1>3. PICK g \in [0..k -> Seq(X)] :
        /\ g[0] = <<>> /\ \A i \in 1..k : g[i] = g[i - 1] \o more[i]
        /\ FlattenSeq(more) = g[k]
  BY <1>1, Flattened
<1> HIDE DEF n, k
<1> DEFINE T == {i \in Nat : i <= n => g[i] = f[i]}
<1>4. \A i \in Nat : i \in T
  <2>1. 0 \in T
    BY <1>2, <1>3
  <2>2. ASSUME NEW i \in Nat, i \in T PROVE i + 1 \in T
    <3> DEFINE j == i + 1
    <3>1. CASE j <= n
      <4>1. j \in 1..n /\ j \in 1..k /\ j - 1 = i /\ i <= n
        BY <1>1, <3>1
      <4> HIDE DEF j
      <4>2. f[j] = f[j - 1] \o seqs[j] /\ g[j] = g[j - 1] \o more[j] /\ more[j] = seqs[j]
        BY <1>1, <1>2, <1>3, <4>1
      <4>3. g[j] = f[j]
        BY <2>2, <4>1, <4>2
      <4> QED
        BY <4>3 DEF j
    <3>2. CASE ~(j <= n)
      BY <3>2
    <3> QED
      BY <3>1, <3>2
  <2> HIDE DEF T
  <2> QED
    BY <2>1, <2>2, Induction
<1>5. g[n] = f[n]
  BY <1>1, <1>4
<1>6. k \in 1..k /\ k - 1 = n
  BY <1>1
<1>7. g[k] = g[n] \o s
  BY <1>1, <1>3, <1>6
<1>8. f[n] \in Seq(X)
  BY <1>1, <1>2
<1> QED
  BY <1>1, <1>2, <1>3, <1>5, <1>7, <1>8 DEF more

\* The first apart.
LEMMA FlattenFirst ==
  ASSUME NEW X, NEW seqs \in Seq(Seq(X)), seqs # <<>>
  PROVE  /\ Head(seqs) \in Seq(X) /\ Tail(seqs) \in Seq(Seq(X))
         /\ FlattenSeq(seqs) = Head(seqs) \o FlattenSeq(Tail(seqs))
<1> DEFINE rest == Tail(seqs)
           s == Head(seqs)
           n == Len(seqs)
           k == Len(rest)
<1>1. /\ rest \in Seq(Seq(X)) /\ k \in Nat /\ n = k + 1 /\ s = seqs[1] /\ s \in Seq(X)
      /\ \A i \in 1..k : rest[i] = seqs[i + 1]
  <2> DEFINE Y == Seq(X)
  <2>1. seqs \in Seq(Y)
    OBVIOUS
  <2> HIDE DEF Y
  <2>2. /\ s \in Y /\ rest \in Seq(Y) /\ Len(rest) = Len(seqs) - 1
        /\ \A i \in 1..Len(rest) : rest[i] = seqs[i + 1]
    BY <2>1, HeadTailProperties
  <2>3. Len(seqs) \in Nat /\ Len(rest) \in Nat
    BY <2>1, <2>2, LenProperties
  <2> QED
    BY <2>1, <2>2, <2>3 DEF Y
<1>7. \A x, y \in Seq(X) : (s \o x) \o y = s \o (x \o y)
  <2>1. s \in Seq(X)
    BY <1>1
  <2> HIDE DEF s
  <2> QED
    BY <2>1, ConcatAssociative, SMTT(30)
<1>2. PICK f \in [0..n -> Seq(X)] :
        /\ f[0] = <<>> /\ \A i \in 1..n : f[i] = f[i - 1] \o seqs[i]
        /\ FlattenSeq(seqs) = f[n]
  BY Flattened
<1> HIDE DEF rest, s
<1>3. PICK g \in [0..k -> Seq(X)] :
        /\ g[0] = <<>> /\ \A i \in 1..k : g[i] = g[i - 1] \o rest[i]
        /\ FlattenSeq(rest) = g[k]
  BY <1>1, Flattened
<1> HIDE DEF n, k
<1>4. s \o <<>> = s /\ <<>> \o s = s
  BY <1>1, ConcatEmptySeq
<1> DEFINE T == {i \in Nat : i <= k => f[i + 1] = s \o g[i]}
<1>5. \A i \in Nat : i \in T
  <2>1. 0 \in T
    <3> DEFINE j == 1
    <3>1. j \in 1..n /\ j - 1 = 0 /\ 0 + 1 = j
      BY <1>1
    <3> HIDE DEF j
    <3>2. f[j] = f[j - 1] \o seqs[j]
      BY <1>2, <3>1
    <3>3. f[j] = s
      BY <1>1, <1>2, <1>4, <3>1, <3>2 DEF j
    <3> QED
      BY <1>3, <1>4, <3>1, <3>3
  <2>2. ASSUME NEW i \in Nat, i \in T PROVE i + 1 \in T
    <3> DEFINE j == i + 1
               m == j + 1
    <3>1. CASE j <= k
      <4>1. j \in 1..k /\ m \in 1..n /\ j - 1 = i /\ m - 1 = j /\ i <= k /\ i \in 0..k /\ j \in 0..k
        BY <1>1, <3>1
      <4> HIDE DEF j, m
      <4>2. f[m] = f[m - 1] \o seqs[m]
        BY <1>2, <4>1
      <4>3. g[j] = g[j - 1] \o rest[j] /\ rest[j] = seqs[m]
        BY <1>1, <1>3, <4>1 DEF m
      <4>4. f[j] = s \o g[i]
        BY <2>2, <4>1 DEF j
      <4>5. g[i] \in Seq(X) /\ rest[j] \in Seq(X)
        <5>1. rest[j] \in Seq(X)
          <6> DEFINE Y == Seq(X)
          <6>1. rest \in Seq(Y) /\ j \in 1..Len(rest)
            BY <1>1, <4>1 DEF k
          <6> HIDE DEF Y
          <6>2. rest[j] \in Y
            BY <6>1, ElementOfSeq
          <6> QED
            BY <6>2 DEF Y
        <5> QED
          BY <1>3, <4>1, <5>1
      <4>6. f[m] = (s \o g[i]) \o rest[j]
        BY <4>1, <4>2, <4>3, <4>4
      <4>7. (s \o g[i]) \o rest[j] = s \o (g[i] \o rest[j])
        BY <1>7, <4>5
      <4>8. f[m] = s \o g[j]
        BY <4>1, <4>3, <4>6, <4>7
      <4> QED
        BY <4>8 DEF j, m
    <3>2. CASE ~(j <= k)
      BY <3>2
    <3> QED
      BY <3>1, <3>2
  <2> HIDE DEF T
  <2> QED
    BY <2>1, <2>2, Induction
<1>6. f[n] = s \o g[k]
  <2>1. k \in T
    BY <1>1, <1>5
  <2> QED
    BY <1>1, <2>1
<1> QED
  BY <1>1, <1>2, <1>3, <1>6 DEF rest, s

\* Nothing.
LEMMA FlattenNothing == FlattenSeq(<<>>) = <<>>
<1> DEFINE none == <<>>
<1>1. Len(none) = 0
  BY EmptySeq
<1> HIDE DEF none
<1>2. FlattenSeq(none) = none
  BY <1>1 DEF FlattenSeq
<1> QED
  BY <1>2 DEF none

\* A function applied to the elements of a sequence.
Each(g, s) == [i \in 1..Len(s) |-> g[s[i]]]

\* Each element of M is given an element of Y.
Maps(g, M, Y) == \A x \in M : g[x] \in Y

\* Each of s gives a sequence of elements of Y ...
LEMMA EachTyped ==
  ASSUME NEW M, NEW Y, NEW g, Maps(g, M, Y), NEW s \in Seq(M)
  PROVE  Each(g, s) \in Seq(Y)
<1> USE DEF Maps
<1>1. Len(s) \in Nat /\ \A i \in 1..Len(s) : s[i] \in M
  BY LenProperties, ElementOfSeq
<1>2. Each(g, s) \in [1..Len(s) -> Y]
  BY <1>1 DEF Each
<1> QED
  BY <1>1, <1>2, SeqDef

\* ... as long as s ...
LEMMA EachLen ==
  ASSUME NEW M, NEW Y, NEW g, Maps(g, M, Y), NEW s \in Seq(M)
  PROVE  Len(Each(g, s)) = Len(s)
<1> USE DEF Maps
<1>1. DOMAIN Each(g, s) = 1..Len(Each(g, s)) /\ Len(Each(g, s)) \in Nat
  BY EachTyped, LenProperties
<1>2. Len(s) \in Nat /\ DOMAIN Each(g, s) = 1..Len(s)
  BY LenProperties DEF Each
<1> QED
  BY <1>1, <1>2

\* ... which grows with s ...
LEMMA EachAppend ==
  ASSUME NEW M, NEW Y, NEW g, Maps(g, M, Y), NEW s \in Seq(M), NEW m \in M
  PROVE  Each(g, Append(s, m)) = Append(Each(g, s), g[m])
<1> USE DEF Maps
<1> DEFINE t == Append(s, m)
           a == Each(g, t)
           e == Each(g, s)
           y == g[m]
           b == Append(e, y)
<1>1. /\ t \in Seq(M) /\ Len(t) = Len(s) + 1 /\ t[Len(s) + 1] = m
      /\ \A i \in 1..Len(s) : t[i] = s[i]
  BY AppendProperties
<1> HIDE DEF t
<1>2. a \in Seq(Y) /\ Len(a) = Len(t) /\ e \in Seq(Y) /\ Len(e) = Len(s) /\ y \in Y
  <2>1. a \in Seq(Y) /\ Len(a) = Len(t)
    <3>1. a \in Seq(Y)
      BY <1>1, EachTyped
    <3>2. Len(a) = Len(t)
      BY <1>1, EachLen, ZenonT(60)
    <3> QED
      BY <3>1, <3>2
  <2>2. e \in Seq(Y) /\ Len(e) = Len(s)
    <3>1. e \in Seq(Y)
      BY EachTyped
    <3>2. Len(e) = Len(s)
      BY EachLen, ZenonT(60)
    <3> QED
      BY <3>1, <3>2
  <2> QED
    BY <2>1, <2>2
<1>3. \A i \in 1..Len(t) : a[i] = g[t[i]]
  BY DEF Each
<1>4. \A i \in 1..Len(s) : e[i] = g[s[i]]
  BY DEF Each
<1> HIDE DEF a, e, y
<1>5. /\ b \in Seq(Y) /\ Len(b) = Len(e) + 1 /\ b[Len(e) + 1] = y
      /\ \A i \in 1..Len(e) : b[i] = e[i]
  BY <1>2, AppendProperties
<1> HIDE DEF b
<1>6. Len(a) = Len(b) /\ Len(s) \in Nat
  BY <1>1, <1>2, <1>5, LenProperties
<1>7. ASSUME NEW i \in 1..Len(a) PROVE a[i] = b[i]
  <2>1. CASE i = Len(s) + 1
    BY <1>1, <1>2, <1>3, <1>5, <2>1 DEF y
  <2>2. CASE i # Len(s) + 1
    <3>1. i \in 1..Len(s) /\ i \in 1..Len(t)
      BY <1>1, <1>2, <1>6, <2>2
    <3> QED
      BY <1>1, <1>2, <1>3, <1>4, <1>5, <3>1, SMTT(30)
  <2> QED
    BY <2>1, <2>2
<1> QED
  BY <1>2, <1>5, <1>6, <1>7, SeqEqual DEF a, b, t, e, y

\* ... and shrinks with it.
LEMMA EachFirst ==
  ASSUME NEW M, NEW Y, NEW g, Maps(g, M, Y), NEW s \in Seq(M), s # <<>>
  PROVE  /\ Each(g, s) # <<>> /\ Head(Each(g, s)) = g[Head(s)]
         /\ Tail(Each(g, s)) = Each(g, Tail(s))
<1> USE DEF Maps
<1> DEFINE t == Tail(s)
           a == Each(g, s)
           b == Tail(a)
           c == Each(g, t)
<1>1. /\ Head(s) = s[1] /\ t \in Seq(M) /\ Len(t) = Len(s) - 1 /\ Len(s) \in Nat \ {0}
      /\ \A i \in 1..Len(t) : t[i] = s[i + 1]
  BY HeadTailProperties, LenProperties, EmptySeq
<1> HIDE DEF t
<1>2. a \in Seq(Y) /\ Len(a) = Len(s) /\ c \in Seq(Y) /\ Len(c) = Len(t)
  <2>1. c \in Seq(Y) /\ Len(c) = Len(t)
    <3>1. t \in Seq(M)
      BY <1>1
    <3>2. c \in Seq(Y)
      BY <3>1, EachTyped
    <3>3. Len(c) = Len(t)
      BY <3>1, EachLen, ZenonT(60)
    <3> QED
      BY <3>2, <3>3
  <2>2. a \in Seq(Y) /\ Len(a) = Len(s)
    <3>1. a \in Seq(Y)
      BY EachTyped
    <3>2. Len(a) = Len(s)
      BY EachLen, ZenonT(60)
    <3> QED
      BY <3>1, <3>2
  <2> QED
    BY <2>1, <2>2
<1>3. \A i \in 1..Len(s) : a[i] = g[s[i]]
  BY DEF Each
<1>4. \A i \in 1..Len(t) : c[i] = g[t[i]]
  BY DEF Each
<1> HIDE DEF a, c
<1>5. a # <<>>
  BY <1>1, <1>2, EmptySeq
<1>6. /\ Head(a) = a[1] /\ b \in Seq(Y) /\ Len(b) = Len(a) - 1
      /\ \A i \in 1..Len(b) : b[i] = a[i + 1]
  BY <1>2, <1>5, HeadTailProperties
<1> HIDE DEF b
<1>7. Len(b) = Len(c)
  BY <1>1, <1>2, <1>6
<1>8. ASSUME NEW i \in 1..Len(b) PROVE b[i] = c[i]
  <2>1. i \in 1..Len(t) /\ i + 1 \in 1..Len(s)
    BY <1>1, <1>2, <1>7
  <2> QED
    BY <1>1, <1>3, <1>4, <1>6, <2>1
<1>9. b = c
  BY <1>2, <1>6, <1>7, <1>8, SeqEqual
<1>10. Head(a) = g[Head(s)]
  <2>1. 1 \in 1..Len(s)
    BY <1>1
  <2> QED
    BY <1>1, <1>3, <1>6, <2>1
<1> QED
  BY <1>5, <1>9, <1>10 DEF a, b, c, t

-----------------------------------------------------------------------------
(* Frames.                                                                  *)

\* The payloads are read off from a function, position by position.
LEMMA PayloadsFrom ==
  ASSUME NEW s \in Seq(Byte)
  PROVE  \E f : /\ Payloads(s) = f[1]
                /\ \A i \in Nat \ {0} :
                     f[i] = IF i > Len(s) THEN <<>>
                            ELSE SubSeq(s, i + 1, i + s[i]) \o f[i + 1 + s[i]]
<1> DEFINE n == Len(s)
           V == {s[j] : j \in Nat}
           Y == Seq(V)
           P == Nat \ {0}
           piece == [i \in P |-> IF i > n THEN <<>> ELSE SubSeq(s, i + 1, i + s[i])]
           after == [i \in P |-> IF i > n THEN i ELSE i + 1 + s[i]]
<1>1. n \in Nat /\ \A i \in 1..n : s[i] \in Nat
  <2>1. \A i \in 1..n : s[i] \in Byte
    BY ElementOfSeq
  <2> QED
    BY <2>1, LenProperties, SizesAssumption DEF Byte
<1>2. ASSUME NEW i \in P, ~(i > n) PROVE SubSeq(s, i + 1, i + s[i]) \in Y /\ s[i] \in Nat
  <2>1. i \in 1..n
    BY <1>1, <1>2
  <2> DEFINE a == i + 1
             b == i + s[i]
  <2>2. a \in Int /\ b \in Int /\ s[i] \in Nat /\ \A j \in a..b : j \in Nat
    BY <1>1, <2>1
  <2> HIDE DEF a, b
  <2>3. \A j \in a..b : s[j] \in V
    BY <2>2
  <2> HIDE DEF V
  <2>4. SubSeq(s, a, b) \in Seq(V)
    BY <2>2, <2>3, SubSeqProperties
  <2> QED
    BY <2>2, <2>4 DEF a, b
<1> HIDE DEF V, Y
<1>3. <<>> \in Y /\ (\A x, y \in Y : x \o y \in Y)
  BY EmptySeq, ConcatProperties DEF Y
<1>4. \A i \in P : /\ piece[i] \in Y /\ after[i] \in P
                   /\ i <= n => after[i] > i /\ piece[i] = SubSeq(s, i + 1, i + s[i])
                                /\ after[i] = i + 1 + s[i]
  <2> SUFFICES ASSUME NEW i \in P
               PROVE  /\ piece[i] \in Y /\ after[i] \in P
                      /\ i <= n => after[i] > i /\ piece[i] = SubSeq(s, i + 1, i + s[i])
                                   /\ after[i] = i + 1 + s[i]
    OBVIOUS
  <2>1. CASE i > n
    BY <1>1, <1>3, <2>1
  <2>2. CASE ~(i > n)
    <3>1. SubSeq(s, i + 1, i + s[i]) \in Y /\ s[i] \in Nat
      BY <1>2, <2>2
    <3> QED
      BY <1>1, <2>2, <3>1
  <2> QED
    BY <2>1, <2>2
<1> HIDE DEF piece, after
<1> DEFINE H == [P -> Y]
           apply(h) == [i \in P |-> IF i > n THEN <<>> ELSE piece[i] \o h[after[i]]]
           step == [k \in Nat |-> [h \in H |-> apply(h)]]
           nothing == [i \in P |-> <<>>]
<1>5. ASSUME NEW h \in H PROVE apply(h) \in H
  <2>1. \A i \in P : piece[i] \o h[after[i]] \in Y
    BY <1>3, <1>4, <1>5
  <2> QED
    BY <1>3, <2>1
<1>6. nothing \in H /\ \A i \in P : nothing[i] = <<>>
  BY <1>3
<1>7. step \in [Nat -> [H -> H]] /\ \A k \in Nat : \A h \in H : step[k][h] = apply(h)
  <2> HIDE DEF H, apply
  <2> QED
    BY <1>5
<1>8. ASSUME NEW h \in H, NEW i \in P
      PROVE  apply(h)[i] = IF i > n THEN <<>> ELSE piece[i] \o h[after[i]]
  OBVIOUS
<1> HIDE DEF H, apply, step, nothing
<1>9. PICK F : F \in Recursive(H, nothing, step)
  BY <1>6, <1>7, Recursion, Zenon
<1>10. /\ F[0] = nothing /\ \A k \in Nat : F[k] \in H
       /\ \A k \in Nat : F[k + 1] = apply(F[k])
  <2>1. /\ F \in [Nat -> H] /\ F[0] = nothing
        /\ \A k \in Nat \ {0} : F[k] = step[k][F[k - 1]]
    BY <1>9 DEF Recursive
  <2>2. ASSUME NEW k \in Nat PROVE F[k + 1] = apply(F[k])
    <3> DEFINE m == k + 1
    <3>1. m \in Nat \ {0} /\ m - 1 = k /\ m \in Nat
      OBVIOUS
    <3> HIDE DEF m
    <3>2. F[m] = step[m][F[k]] /\ F[k] \in H
      BY <2>1, <3>1
    <3>3. F[m] = apply(F[k])
      BY <1>7, <3>1, <3>2
    <3> QED
      BY <3>3 DEF m
  <2> QED
    BY <2>1, <2>2
<1> DEFINE T == {k \in Nat : \A i \in P : i > n - k => F[k][i] = F[k + 1][i]}
<1>11. \A k \in Nat : k \in T
  <2>1. 0 \in T
    <3>1. ASSUME NEW i \in P, i > n PROVE F[0][i] = F[0 + 1][i]
      <4>1. F[0][i] = <<>>
        BY <1>6, <1>10
      <4>2. apply(F[0])[i] = <<>>
        BY <1>8, <1>10, <3>1
      <4> QED
        BY <1>10, <4>1, <4>2
    <3>2. n - 0 = n
      BY <1>1
    <3> QED
      BY <3>1, <3>2
  <2>2. ASSUME NEW k \in Nat, k \in T PROVE k + 1 \in T
    <3> DEFINE m == k + 1
    <3>1. ASSUME NEW i \in P, i > n - m PROVE F[m][i] = F[m + 1][i]
      <4>1. /\ F[m][i] = IF i > n THEN <<>> ELSE piece[i] \o F[k][after[i]]
            /\ F[m + 1][i] = IF i > n THEN <<>> ELSE piece[i] \o F[m][after[i]]
        <5>1. m \in Nat /\ F[m] = apply(F[k]) /\ F[m + 1] = apply(F[m]) /\ F[m] \in H /\ F[k] \in H
          BY <1>10
        <5> HIDE DEF m
        <5> QED
          BY <1>8, <5>1
      <4>2. CASE i > n
        BY <4>1, <4>2
      <4>3. CASE ~(i > n)
        <5>1. after[i] \in P /\ after[i] > i
          BY <1>1, <1>4, <4>3
        <5>2. after[i] > n - k
          <6> DEFINE b == after[i]
          <6>1. b \in Nat /\ b > i /\ i > n - m /\ i \in Nat
            BY <3>1, <5>1
          <6> HIDE DEF b
          <6>2. b > n - k
            BY <1>1, <6>1
          <6> QED
            BY <6>2 DEF b
        <5>3. F[k][after[i]] = F[m][after[i]]
          BY <2>2, <5>1, <5>2
        <5> HIDE DEF m
        <5> QED
          BY <4>1, <4>3, <5>3
      <4> QED
        BY <4>2, <4>3
    <3>2. m \in Nat
      OBVIOUS
    <3> HIDE DEF m
    <3>3. m \in T
      BY <3>1, <3>2
    <3> QED
      BY <3>3 DEF m
  <2> HIDE DEF T
  <2> QED
    BY <2>1, <2>2, Induction
<1> DEFINE G == F[n]
<1>12. G \in H /\ \A i \in P : G[i] = apply(G)[i]
  <2>1. n \in T /\ G \in H /\ F[n + 1] = apply(G)
    BY <1>1, <1>10, <1>11
  <2>2. \A i \in P : i > n - n
    BY <1>1
  <2> QED
    BY <2>1, <2>2
<1> HIDE DEF G
<1>13. \A i \in P : G[i] = IF i > n THEN <<>> ELSE SubSeq(s, i + 1, i + s[i]) \o G[i + 1 + s[i]]
  <2> SUFFICES ASSUME NEW i \in P
               PROVE  G[i] = IF i > n THEN <<>> ELSE SubSeq(s, i + 1, i + s[i]) \o G[i + 1 + s[i]]
    OBVIOUS
  <2>1. G[i] = IF i > n THEN <<>> ELSE piece[i] \o G[after[i]]
    BY <1>8, <1>12
  <2>2. ~(i > n) => piece[i] = SubSeq(s, i + 1, i + s[i]) /\ after[i] = i + 1 + s[i]
    BY <1>1, <1>4
  <2> QED
    BY <2>1, <2>2
<1>14. G = [i \in P |-> IF i > n THEN <<>> ELSE SubSeq(s, i + 1, i + s[i]) \o G[i + 1 + s[i]]]
  <2>1. G = [i \in P |-> G[i]]
    BY <1>12 DEF H
  <2> HIDE DEF P
  <2> QED
    BY <1>13, <2>1
<1> DEFINE from[i \in Nat \ {0}] ==
             IF i > Len(s) THEN <<>> ELSE SubSeq(s, i + 1, i + s[i]) \o from[i + 1 + s[i]]
<1>15. Payloads(s) = from[1]
  BY DEF Payloads
<1>16. from = [i \in Nat \ {0} |-> IF i > Len(s) THEN <<>>
                                   ELSE SubSeq(s, i + 1, i + s[i]) \o from[i + 1 + s[i]]]
  BY <1>14
<1> HIDE DEF from
<1>17. \A i \in Nat \ {0} : from[i] = IF i > Len(s) THEN <<>>
                                      ELSE SubSeq(s, i + 1, i + s[i]) \o from[i + 1 + s[i]]
  BY <1>16, Zenon
<1> QED
  BY <1>15, <1>17

\* The places where frames begin, the place behind the last among them.
Cuts(s, F) ==
  /\ 1 \in F /\ Len(s) + 1 \in F
  /\ \A i \in F : i <= Len(s) => i + 1 + s[i] \in F

\* Nothing but whole frames.
Whole(s) == \E F \in SUBSET (1..Len(s) + 1) : Cuts(s, F)

\* Nothing is no frames.
LEMMA NoFrames == Whole(<<>>) /\ Payloads(<<>>) = <<>>
<1> DEFINE none == <<>>
<1>1. none \in Seq(Byte) /\ Len(none) = 0
  BY EmptySeq
<1> HIDE DEF none
<1>2. Cuts(none, {1}) /\ {1} \in SUBSET (1..Len(none) + 1)
  BY <1>1 DEF Cuts
<1>3. PICK f : /\ Payloads(none) = f[1]
               /\ \A i \in Nat \ {0} :
                    f[i] = IF i > Len(none) THEN <<>>
                           ELSE SubSeq(none, i + 1, i + none[i]) \o f[i + 1 + none[i]]
  BY <1>1, PayloadsFrom
<1>4. f[1] = <<>>
  <2> DEFINE i == 1
  <2>1. i \in Nat \ {0} /\ i > Len(none)
    BY <1>1
  <2> HIDE DEF i
  <2>2. f[i] = <<>>
    BY <1>3, <2>1
  <2> QED
    BY <2>2 DEF i
<1>5. Whole(none)
  BY <1>2, Zenon DEF Whole
<1> QED
  BY <1>3, <1>4, <1>5 DEF none

\* Whatever is put in front of p.
LEMMA Associates ==
  ASSUME NEW S, NEW p \in Seq(S)
  PROVE  \A x, y \in Seq(S) : (x \o y) \o p = x \o (y \o p)
  BY ConcatAssociative

\* One frame more.
LEMMA PayloadsAppend ==
  ASSUME NEW s \in Seq(Byte), Whole(s), NEW p \in Seq(Byte),
         NEW z \in Seq(Byte), Len(z) = Len(p) + 1, z[1] = Len(p),
         \A i \in 1..Len(p) : z[i + 1] = p[i]
  PROVE  Whole(s \o z) /\ Payloads(s \o z) = Payloads(s) \o p /\ Payloads(s) \in Seq(Byte)
<1> DEFINE t == s \o z
           n == Len(s)
           k == Len(p)
           last == Len(t)
<1>0. \A x, y \in Seq(Byte) : (x \o y) \o p = x \o (y \o p)
  BY Associates
<1>1. n \in Nat /\ k \in Nat /\ \A i \in 1..n : s[i] \in Nat
  <2>1. \A i \in 1..n : s[i] \in Byte
    BY ElementOfSeq
  <2> QED
    BY <2>1, LenProperties, SizesAssumption DEF Byte
<1>2. /\ t \in Seq(Byte) /\ last = n + k + 1 /\ \A i \in 1..n : t[i] = s[i]
      /\ t[n + 1] = k /\ \A i \in 1..k : t[n + 1 + i] = p[i]
  <2>1. /\ t \in Seq(Byte) /\ last = n + Len(z)
        /\ \A i \in 1..n + Len(z) : t[i] = IF i <= n THEN s[i] ELSE z[i - n]
    BY ConcatProperties
  <2>2. Len(z) = k + 1 /\ z[1] = k /\ \A i \in 1..k : z[i + 1] = p[i]
    OBVIOUS
  <2> HIDE DEF t, last, n, k
  <2>3. t[n + 1] = k
    <3> DEFINE j == n + 1
    <3>1. j \in 1..n + Len(z) /\ j - n = 1 /\ ~(j <= n)
      BY <1>1, <2>2
    <3> HIDE DEF j
    <3>2. t[j] = z[j - n]
      BY <2>1, <3>1
    <3> QED
      BY <2>2, <3>1, <3>2 DEF j
  <2>4. ASSUME NEW i \in 1..k PROVE t[n + 1 + i] = p[i]
    <3> DEFINE j == n + 1 + i
    <3>1. j \in 1..n + Len(z) /\ j - n = i + 1 /\ ~(j <= n)
      BY <1>1, <2>2
    <3> HIDE DEF j
    <3>2. t[j] = z[j - n]
      BY <2>1, <3>1
    <3> QED
      BY <2>2, <3>1, <3>2 DEF j
  <2>5. \A i \in 1..n : t[i] = s[i]
    <3>1. \A i \in 1..n : i \in 1..n + Len(z) /\ i <= n
      BY <1>1, <2>2
    <3> QED
      BY <2>1, <3>1
  <2> QED
    BY <1>1, <2>1, <2>2, <2>3, <2>4, <2>5
<1>3. PICK F \in SUBSET (1..n + 1) : Cuts(s, F)
  BY DEF Whole
<1>4. /\ F \subseteq 1..n + 1 /\ 1 \in F /\ n + 1 \in F
      /\ \A i \in F : i <= n => i + 1 + s[i] \in F
  BY <1>3 DEF Cuts
<1>5. PICK f : /\ Payloads(s) = f[1]
               /\ \A i \in Nat \ {0} :
                    f[i] = IF i > n THEN <<>> ELSE SubSeq(s, i + 1, i + s[i]) \o f[i + 1 + s[i]]
  BY PayloadsFrom
<1> HIDE DEF t
<1>6. PICK g : /\ Payloads(t) = g[1]
               /\ \A i \in Nat \ {0} :
                    g[i] = IF i > last THEN <<>> ELSE SubSeq(t, i + 1, i + t[i]) \o g[i + 1 + t[i]]
  BY <1>2, PayloadsFrom
<1> HIDE DEF n, k, last
<1>7. g[n + 1] = p /\ f[n + 1] = <<>>
  <2> DEFINE i == n + 1
             j == i + 1 + k
             w == SubSeq(t, i + 1, i + k)
  <2>1. i \in Nat \ {0} /\ j \in Nat \ {0} /\ i > n /\ ~(i > last) /\ j > last /\ t[i] = k
    BY <1>1, <1>2
  <2>2. g[i] = w \o g[j] /\ g[j] = <<>> /\ f[i] = <<>>
    <3> HIDE DEF i
    <3> QED
      BY <1>5, <1>6, <2>1
  <2>3. w = p
    <3> DEFINE a == i + 1
               b == i + k
    <3>1. /\ w \in Seq(Byte) /\ Len(w) = k /\ \A m \in 1..k : w[m] = t[i + m]
      <4>1. a \in Nat /\ b \in Nat /\ 1 <= a /\ a <= b + 1 /\ b <= Len(t) /\ b + 1 - a = k
            /\ \A m \in 1..k : a + m - 1 = i + m
        BY <1>1, <1>2 DEF last
      <4> HIDE DEF a, b
      <4>2. /\ SubSeq(t, a, b) \in Seq(Byte) /\ Len(SubSeq(t, a, b)) = b + 1 - a
            /\ \A m \in 1..b + 1 - a : SubSeq(t, a, b)[m] = t[a + m - 1]
        BY <1>2, <4>1, Piece
      <4>3. w = SubSeq(t, a, b)
        BY DEF a, b
      <4> HIDE DEF w, i
      <4> QED
        BY <4>1, <4>2, <4>3
    <3> HIDE DEF w
    <3>2. Len(w) = Len(p) /\ \A m \in 1..Len(w) : w[m] = p[m]
      BY <1>2, <3>1 DEF k
    <3> QED
      BY <3>1, <3>2, SeqEqual
  <2>4. p \o <<>> = p
    BY ConcatEmptySeq
  <2> QED
    BY <2>2, <2>3, <2>4
<1> DEFINE T == {i \in Nat : i \in F => f[i] \in Seq(Byte) /\ g[i] = f[i] \o p}
           N == n + 1
<1>8. \A i \in 0..N : i \in T
  <2>1. ASSUME NEW i \in 0..N, \A m \in i + 1..N : m \in T PROVE i \in T
    <3>1. CASE i \notin F
      BY <3>1
    <3>2. CASE i = n + 1
      <4>1. <<>> \in Seq(Byte) /\ <<>> \o p = p
        BY EmptySeq, ConcatEmptySeq
      <4> HIDE DEF N
      <4>2. i \in Nat
        BY <1>1, <3>2
      <4> QED
        BY <1>7, <3>2, <4>1, <4>2
    <3>3. CASE i \in F /\ i # n + 1
      <4> DEFINE a == i + 1
                 b == i + s[i]
                 j == i + 1 + s[i]
                 w == SubSeq(s, a, b)
      <4>1. i \in 1..n /\ s[i] \in Nat /\ i \in Nat \ {0} /\ i <= n /\ ~(i > n)
        BY <1>1, <1>4, <3>3
      <4>2. j \in F /\ j \in i + 1..N /\ j \in Nat
        <5>1. j \in F
          BY <1>4, <3>3, <4>1
        <5>2. j \in 1..n + 1 /\ j >= i + 1
          BY <1>4, <4>1, <5>1
        <5> HIDE DEF j
        <5> QED
          BY <1>1, <4>1, <5>1, <5>2
      <4>3. f[j] \in Seq(Byte) /\ g[j] = f[j] \o p
        BY <2>1, <4>2
      <4>4. t[i] = s[i] /\ ~(i > last)
        BY <1>1, <1>2, <4>1
      <4>5. f[i] = w \o f[j] /\ g[i] = SubSeq(t, a, b) \o g[j]
        <5>1. f[i] = SubSeq(s, i + 1, i + s[i]) \o f[i + 1 + s[i]]
          BY <1>5, <4>1
        <5>2. g[i] = SubSeq(t, i + 1, i + t[i]) \o g[i + 1 + t[i]]
          BY <1>6, <4>1, <4>4
        <5> QED
          BY <4>4, <5>1, <5>2
      <4>6. a \in Nat /\ b \in Nat /\ 1 <= a /\ a <= b + 1 /\ b <= Len(s)
        BY <1>1, <1>4, <4>1, <4>2 DEF n
      <4> HIDE DEF a, b, j
      <4>7. w \in Seq(Byte)
        BY <4>6, Piece
      <4>8. SubSeq(t, a, b) = w
        <5>1. /\ Len(w) = b + 1 - a /\ \A m \in 1..b + 1 - a : w[m] = s[a + m - 1]
          BY <4>6, Piece
        <5>2. b <= Len(t)
          BY <1>1, <1>2, <4>6 DEF n, last
        <5> DEFINE v == SubSeq(t, a, b)
        <5>3. /\ v \in Seq(Byte) /\ Len(v) = b + 1 - a
              /\ \A m \in 1..b + 1 - a : v[m] = t[a + m - 1]
          BY <1>2, <4>6, <5>2, Piece
        <5> HIDE DEF v, w
        <5>4. \A m \in 1..b + 1 - a : a + m - 1 \in 1..n
          BY <1>1, <4>6 DEF n
        <5>5. \A m \in 1..Len(v) : v[m] = w[m]
          BY <1>2, <5>1, <5>3, <5>4, SMTT(30)
        <5> QED
          BY <4>7, <5>1, <5>3, <5>5, SeqEqual DEF v
      <4> HIDE DEF w
      <4>9. w \o (f[j] \o p) = (w \o f[j]) \o p
        BY <1>0, <4>3, <4>7
      <4>10. f[i] \in Seq(Byte)
        BY <4>3, <4>5, <4>7, ConcatProperties
      <4> QED
        BY <4>1, <4>3, <4>5, <4>8, <4>9, <4>10
    <3> QED
      BY <3>1, <3>2, <3>3
  <2>2. N \in Nat
    BY <1>1
  <2> HIDE DEF T, N
  <2> QED
    BY <2>1, <2>2, Downward
<1>9. f[1] \in Seq(Byte) /\ g[1] = f[1] \o p
  <2> DEFINE i == 1
  <2>1. i \in 0..N /\ i \in F
    BY <1>1, <1>4
  <2> HIDE DEF i
  <2>2. f[i] \in Seq(Byte) /\ g[i] = f[i] \o p
    BY <1>8, <2>1
  <2> QED
    BY <2>2 DEF i
<1>10. Cuts(t, F \cup {last + 1}) /\ F \cup {last + 1} \in SUBSET (1..last + 1)
  <2> DEFINE E == F \cup {last + 1}
  <2>1. E \subseteq 1..last + 1 /\ 1 \in E /\ last + 1 \in E
    BY <1>1, <1>2, <1>4
  <2>2. ASSUME NEW i \in E, i <= last PROVE i + 1 + t[i] \in E
    <3>1. i \in F
      BY <1>1, <1>2, <2>2
    <3>2. CASE i <= n
      <4>1. t[i] = s[i]
        BY <1>2, <1>4, <3>1, <3>2
      <4> QED
        BY <1>4, <3>1, <3>2, <4>1
    <3>3. CASE ~(i <= n)
      <4>1. i = n + 1
        BY <1>1, <1>4, <3>1, <3>3
      <4>2. i + 1 + t[i] = last + 1
        <5> DEFINE c == t[i]
        <5>1. c = k
          BY <1>2, <4>1
        <5> HIDE DEF c
        <5>2. i + 1 + c = last + 1
          BY <1>1, <1>2, <4>1, <5>1
        <5> QED
          BY <5>2 DEF c
      <4> QED
        BY <4>2
    <3> QED
      BY <3>2, <3>3
  <2> QED
    BY <2>1, <2>2 DEF Cuts, last
<1>11. Whole(t)
  <2> DEFINE E == F \cup {last + 1}
  <2>1. Cuts(t, E) /\ E \in SUBSET (1..Len(t) + 1)
    BY <1>10 DEF last
  <2> HIDE DEF E
  <2> QED
    BY <2>1, Zenon DEF Whole
<1> QED
  BY <1>5, <1>6, <1>9, <1>11 DEF t

-----------------------------------------------------------------------------
(* Integers in a buffer.                                                    *)

\* peek_int() looks at the first bytes of the content, if there are that many.
LEMMA PeekedBytes ==
  ASSUME NEW b \in Buffers, NEW width \in Nat, width <= readable_bytes(b)
  PROVE  /\ Content(b) \in Seq(Byte) /\ Len(Content(b)) = readable_bytes(b)
         /\ \A i \in 1..width : b.buffer_[b.read_pos_ + i] = Content(b)[i]
<1>1. b \in BuffersOf(Byte)
  BY DEF Buffers
<1>2. Content(b) \in Seq(Byte) /\ Len(Content(b)) = readable_bytes(b)
  BY <1>1, Readable
<1>3. /\ b.buffer_ \in Seq(Byte) /\ b.read_pos_ \in Nat /\ b.write_pos_ \in Nat
      /\ b.read_pos_ <= b.write_pos_ /\ b.write_pos_ <= Len(b.buffer_)
  BY <1>1 DEF BuffersOf, size
<1> DEFINE s == b.buffer_
           r == b.read_pos_ + 1
           w == b.write_pos_
<1>4. /\ s \in Seq(Byte) /\ r \in Nat /\ w \in Nat /\ 1 <= r /\ r <= w + 1 /\ w <= Len(s)
      /\ Content(b) = SubSeq(s, r, w) /\ w + 1 - r = readable_bytes(b)
      /\ readable_bytes(b) \in Nat
  BY <1>3 DEF Content, readable_bytes
<1>5. \A i \in 1..width : b.read_pos_ + i = r + i - 1 /\ i \in 1..readable_bytes(b)
  BY <1>3, <1>4, SMTT(30)
<1> HIDE DEF s, r, w
<1>6. \A i \in 1..w + 1 - r : SubSeq(s, r, w)[i] = s[r + i - 1]
  BY <1>4, Piece
<1> QED
  BY <1>2, <1>4, <1>5, <1>6 DEF s

\* An int that fits into `width` bytes, in front of the content, is what peek_int()
\* returns, negative or not (buffer.cpp: append_int, prepend_int and peek_int, of 8
\* to 64 bits).
THEOREM IntIsReadBack ==
  ASSUME NEW b \in Buffers, NEW value \in Int, NEW width \in Nat, NEW rest \in Seq(Byte),
         Content(b) = BigEndian(value, width) \o rest,
         -Power[width] <= 2 * value, 2 * value < Power[width]
  PROVE  PeekInt(b, width) = value
<1> DEFINE e == BigEndian(value, width)
           P == Power[width]
           x == [i \in 1..width |-> b.buffer_[b.read_pos_ + i]]
           u == Unsigned(x, width)
<1>1. e \in Seq(Byte) /\ Len(e) = width /\ Unsigned(e, width) = value % P
  BY BytesOfInt
<1>2. P \in Nat \ {0}
  BY Powers
<1>3. e = [i \in 1..width |-> e[i]]
  BY DEF BigEndian
<1> HIDE DEF e
<1>4. width <= readable_bytes(b) /\ \A i \in 1..width : Content(b)[i] = e[i]
  <2>1. Content(b) = e \o rest
    BY DEF e
  <2>2. Len(rest) \in Nat
    BY LenProperties
  <2>3. /\ Len(e \o rest) = Len(e) + Len(rest)
        /\ \A i \in 1..Len(e) + Len(rest) : (e \o rest)[i] = IF i <= Len(e) THEN e[i] ELSE rest[i - Len(e)]
    BY <1>1, ConcatProperties
  <2>4. Len(Content(b)) = readable_bytes(b)
    BY Readable DEF Buffers
  <2>5. width <= readable_bytes(b)
    BY <1>1, <2>1, <2>2, <2>3, <2>4
  <2>6. \A i \in 1..width : i \in 1..Len(e) + Len(rest) /\ i <= Len(e)
    BY <1>1, <2>2
  <2> QED
    BY <2>1, <2>3, <2>5, <2>6
<1>5. \A i \in 1..width : b.buffer_[b.read_pos_ + i] = e[i]
  BY <1>4, PeekedBytes
<1>6. x = e
  BY <1>3, <1>5
<1>7. PeekInt(b, width) = IF 2 * u < P THEN u ELSE u - P
  BY DEF PeekInt, HostInt
<1> HIDE DEF x
<1>8. u = value % P
  BY <1>1, <1>6
<1> HIDE DEF u
<1>9. -P <= 2 * value /\ 2 * value < P
  OBVIOUS
<1> HIDE DEF P
<1>10. CASE value >= 0
  <2> DEFINE q == 0
  <2>1. q \in Int /\ value \in 0..P - 1 /\ value = P * q + value
    BY <1>2, <1>9, <1>10
  <2> HIDE DEF q
  <2>2. value % P = value
    BY <1>2, <2>1, Quotient
  <2> QED
    BY <1>7, <1>8, <1>9, <2>2
<1>11. CASE value < 0
  <2> DEFINE q == -1
             r == value + P
  <2>1. q \in Int /\ r \in 0..P - 1 /\ value = P * q + r
    BY <1>2, <1>9, <1>11
  <2> HIDE DEF q, r
  <2>2. value % P = r
    BY <1>2, <2>1, Quotient
  <2>3. ~(2 * r < P) /\ r - P = value
    BY <1>2, <1>9 DEF r
  <2> QED
    BY <1>7, <1>8, <2>2, <2>3
<1> QED
  BY <1>10, <1>11

\* One byte is itself.
LEMMA OneByte ==
  /\ Power[1] = ByteBase
  /\ \A n \in Byte : BigEndian(n, 1) \in Seq(Byte) /\ Len(BigEndian(n, 1)) = 1 /\ BigEndian(n, 1)[1] = n
<1>1. ByteBase \in Nat \ {0} /\ Power[0] = 1
  BY SizesAssumption, Powers
<1>2. Power[1] = ByteBase
  <2>1. Power[0 + 1] = ByteBase * Power[0]
    BY Powers
  <2> QED
    BY <1>1, <2>1
<1>3. ASSUME NEW n \in Byte
      PROVE  BigEndian(n, 1) \in Seq(Byte) /\ Len(BigEndian(n, 1)) = 1 /\ BigEndian(n, 1)[1] = n
  <2> DEFINE one == 1
             e == BigEndian(n, one)
  <2>1. one \in Nat /\ n \in Int /\ n \in 0..ByteBase - 1
    BY <1>1 DEF Byte
  <2>2. e[1] = ((n % Power[1]) \div Power[0]) % ByteBase
    BY DEF BigEndian
  <2> HIDE DEF one
  <2>3. e \in Seq(Byte) /\ Len(e) = one
    BY <2>1, BytesOfInt
  <2>4. n % ByteBase = n
    <3> DEFINE q == 0
    <3>1. q \in Int /\ n = ByteBase * q + n
      BY <1>1, <2>1
    <3> HIDE DEF q
    <3> QED
      BY <1>1, <2>1, <3>1, Quotient
  <2>5. n \div 1 = n
    BY <2>1
  <2> HIDE DEF e
  <2>6. e[1] = n
    BY <1>1, <1>2, <2>2, <2>4, <2>5
  <2> QED
    BY <2>3, <2>6 DEF e, one
<1> QED
  BY <1>2, <1>3

\* A length that peek_int() finds not to be negative is the first byte.
LEMMA LengthRead ==
  ASSUME NEW b \in Buffers, readable_bytes(b) >= 1, PeekInt(b, 1) >= 0
  PROVE  PeekInt(b, 1) = Content(b)[1] /\ Content(b)[1] \in Byte
<1> DEFINE one == 1
           s == Content(b)
           x == [i \in 1..one |-> b.buffer_[b.read_pos_ + i]]
<1>1. one \in Nat /\ one <= readable_bytes(b)
  OBVIOUS
<1>2. one \in 1..one
  OBVIOUS
<1> HIDE DEF one
<1>3. s \in Seq(Byte) /\ Len(s) = readable_bytes(b) /\ b.buffer_[b.read_pos_ + one] = s[one]
  BY <1>1, <1>2, PeekedBytes
<1>4. s[one] \in Byte /\ x[one] = s[one]
  <2>1. one \in 1..Len(s)
    <3>1. readable_bytes(b) \in Nat
      BY <1>3, LenProperties
    <3> QED
      BY <1>1, <1>3, <3>1 DEF one
  <2> QED
    BY <1>2, <1>3, <2>1, ElementOfSeq
<1> DEFINE u == Unsigned(x, one)
<1>5. PeekInt(b, one) = IF 2 * u < Power[one] THEN u ELSE u - Power[one]
  BY DEF PeekInt, HostInt
<1> HIDE DEF s
<1>6. u = s[one]
  <2>1. \A i \in 1..one : x[i] \in Byte
    BY <1>4 DEF one
  <2> HIDE DEF x
  <2>2. PICK sum \in [0..one -> Nat] :
          /\ sum[0] = 0 /\ \A i \in 1..one : sum[i] = sum[i - 1] * ByteBase + x[i]
          /\ Unsigned(x, one) = sum[one]
    BY <1>1, <2>1, UnsignedSum
  <2>3. sum[one] = sum[one - 1] * ByteBase + x[one]
    BY <1>2, <2>2
  <2>4. one - 1 = 0 /\ ByteBase \in Nat /\ x[one] \in Nat
    BY <1>2, <2>1, SizesAssumption DEF one, Byte
  <2>5. 0 * ByteBase + x[one] = x[one]
    BY <2>4
  <2> QED
    BY <1>4, <2>2, <2>3, <2>4, <2>5
<1>7. u \in Nat /\ u < ByteBase /\ ByteBase \in Nat /\ Power[one] = ByteBase
  BY <1>4, <1>6, SizesAssumption, OneByte DEF Byte, one
<1> HIDE DEF u
<1>8. PeekInt(b, one) = u
  BY <1>5, <1>7 DEF one
<1> QED
  BY <1>4, <1>6, <1>8 DEF one, s

-----------------------------------------------------------------------------
(* The connection.                                                          *)

\* The messages of the other thread, and all of them.
Posting == [kind : {"raw", "buffer"}, data : Seq(Byte)]

Message == [kind : {"raw", "buffer", "echo"}, data : Seq(Byte)]

Functor == [fn : {"write_complete", "high_water", "shutdown_in_loop"}]
             \cup [fn : {"send"}, message : Posting]

ConnTyped(c) ==
  c \in [state_ : {"CONNECTED", "DISCONNECTING", "DISCONNECTED"}, writing : BOOLEAN,
         output_buffer_ : BuffersOf(Byte), queue : Seq(Functor), sent : Seq(Byte),
         fin : BOOLEAN, reset : BOOLEAN, shut : BOOLEAN, accepted : Seq(Message),
         owed : BOOLEAN, warned : BOOLEAN]

Up(c) == c.state_ # "DISCONNECTED"

\* Writing is enabled exactly while bytes wait, the stream has ended only when
\* none do, and the callbacks are told.
WritesMatch(c) ==
  /\ Up(c) => (c.writing <=> Pending(c) # <<>>)
  /\ Up(c) /\ c.fin => Pending(c) = <<>>
  /\ ~Up(c) => ~c.writing

Told(c) ==
  Up(c) => /\ Pending(c) = <<>> => ~c.owed
           /\ Len(Pending(c)) >= high_water_mark_ /\ high_water_mark_ > 0 => c.warned

Good(c) == ConnTyped(c) /\ WritesMatch(c) /\ Told(c)

StreamInv ==
  /\ Good(conn)
  /\ input_buffer_ \in Buffers
  /\ arrived \in 0..Len(Input)
  /\ next \in Nat \ {0} /\ (tested => next <= Len(Program))

\* What a step of the connection may do to the stream.
Status(c) == IF c.state_ = "DISCONNECTED" THEN "down" ELSE IF c.fin THEN "closed" ELSE "open"

Stays(c, d) == d.sent = c.sent /\ Pending(d) = Pending(c) /\ Status(d) = Status(c)

Advances(c, d) ==
  /\ Status(c) = "open"
  /\ \E taken \in Seq(Byte), more \in Seq(Byte) :
       /\ d.sent = c.sent \o taken
       /\ d.sent \o Pending(d) = (c.sent \o Pending(c)) \o more
  /\ Status(d) = "open" \/ (Status(d) = "closed" /\ Pending(d) = <<>>)

Moves(c, d) == Stays(c, d) \/ Advances(c, d)

\* What a step of the connection may do to the messages: none is accepted ...
Quiet(c, d) ==
  /\ d.accepted = c.accepted /\ d.queue = c.queue /\ d.reset = c.reset
  /\ d.state_ = "CONNECTED" => c.state_ = "CONNECTED" /\ d.fin = c.fin

\* ... or one is.
Takes(c, d, m) ==
  /\ d.accepted = Append(c.accepted, m)
  /\ d.sent \o Pending(d) = (c.sent \o Pending(c)) \o m.data

\* A callback is posted, or nothing.
Calls(c, d) ==
  d.queue = c.queue \/ \E f \in Functor : /\ f.fn \in {"write_complete", "high_water"}
                                          /\ d.queue = Append(c.queue, f)

\* A byte may be 0, which is what a new array holds.
LEMMA ByteFacts == 0 \in Byte
BY SizesAssumption DEF Byte

\* The fields of a connection.
LEMMA ConnFields ==
  ASSUME NEW c, ConnTyped(c)
  PROVE  /\ c.state_ \in {"CONNECTED", "DISCONNECTING", "DISCONNECTED"}
         /\ c.writing \in BOOLEAN /\ c.fin \in BOOLEAN /\ c.reset \in BOOLEAN
         /\ c.owed \in BOOLEAN /\ c.warned \in BOOLEAN
         /\ c.output_buffer_ \in BuffersOf(Byte) /\ c.queue \in Seq(Functor)
         /\ c.sent \in Seq(Byte) /\ c.accepted \in Seq(Message)
         /\ Pending(c) \in Seq(Byte) /\ Len(Pending(c)) \in Nat
         /\ Len(Pending(c)) = readable_bytes(c.output_buffer_)
         /\ (Pending(c) = <<>> <=> Len(Pending(c)) = 0)
<1>1. c.output_buffer_ \in BuffersOf(Byte)
  BY DEF ConnTyped
<1>2. Pending(c) \in Seq(Byte) /\ Len(Pending(c)) = readable_bytes(c.output_buffer_)
  BY <1>1, Readable DEF Pending
<1>3. Len(Pending(c)) \in Nat /\ (Pending(c) = <<>> <=> Len(Pending(c)) = 0)
  BY <1>2, LenProperties, EmptySeq
<1> QED
  BY <1>1, <1>2, <1>3 DEF ConnTyped

\* A functor is posted.
LEMMA Posted ==
  ASSUME NEW c, ConnTyped(c), NEW f \in Functor
  PROVE  /\ ConnTyped(QueueInLoop(c, f)) /\ Pending(QueueInLoop(c, f)) = Pending(c)
         /\ QueueInLoop(c, f).sent = c.sent /\ QueueInLoop(c, f).fin = c.fin
         /\ QueueInLoop(c, f).state_ = c.state_ /\ QueueInLoop(c, f).writing = c.writing
         /\ QueueInLoop(c, f).owed = c.owed /\ QueueInLoop(c, f).warned = c.warned
         /\ QueueInLoop(c, f).accepted = c.accepted /\ QueueInLoop(c, f).reset = c.reset
         /\ QueueInLoop(c, f).queue = Append(c.queue, f)
<1> DEFINE q == Append(c.queue, f)
<1>1. q \in Seq(Functor)
  BY ConnFields, AppendProperties
<1>2. QueueInLoop(c, f) = [c EXCEPT !.queue = q]
  BY DEF QueueInLoop, ConnTyped
<1> HIDE DEF q
<1>3. /\ ConnTyped(QueueInLoop(c, f)) /\ Pending(QueueInLoop(c, f)) = Pending(c)
      /\ QueueInLoop(c, f).sent = c.sent /\ QueueInLoop(c, f).fin = c.fin
      /\ QueueInLoop(c, f).state_ = c.state_ /\ QueueInLoop(c, f).writing = c.writing
      /\ QueueInLoop(c, f).owed = c.owed /\ QueueInLoop(c, f).warned = c.warned
      /\ QueueInLoop(c, f).accepted = c.accepted /\ QueueInLoop(c, f).reset = c.reset
      /\ QueueInLoop(c, f).queue = q
  BY <1>1, <1>2 DEF ConnTyped, Pending
<1> QED
  BY <1>3 DEF q

\* What does not fit is buffered, and whoever has to be warned is.
LEMMA BufferedStep ==
  ASSUME NEW c, ConnTyped(c), NEW rest \in Seq(Byte)
  PROVE  LET d == Buffered(c, rest) IN
         /\ ConnTyped(d) /\ d.sent = c.sent /\ d.fin = c.fin /\ d.state_ = c.state_
         /\ d.writing = TRUE /\ d.owed = c.owed /\ Pending(d) = Pending(c) \o rest
         /\ Len(Pending(d)) = Len(Pending(c)) + Len(rest)
         /\ d.accepted = c.accepted /\ d.reset = c.reset /\ Calls(c, d)
         /\ (c.warned => d.warned)
         /\ (Len(Pending(d)) >= high_water_mark_ /\ Len(Pending(c)) < high_water_mark_ => d.warned)
<1> DEFINE written == Len(Pending(c))
           crosses == written + Len(rest) >= high_water_mark_ /\ written < high_water_mark_
           f       == [fn |-> "high_water"]
           warned  == IF crosses THEN QueueInLoop(c, f) ELSE c
           b       == AppendBytes(c.output_buffer_, rest)
           d       == Buffered(c, rest)
<1>1. f \in Functor
  BY DEF Functor
<1>2. /\ ConnTyped(warned) /\ Pending(warned) = Pending(c) /\ warned.sent = c.sent
      /\ warned.fin = c.fin /\ warned.state_ = c.state_ /\ warned.owed = c.owed
      /\ warned.warned = c.warned /\ warned.output_buffer_ = c.output_buffer_
      /\ warned.accepted = c.accepted /\ warned.reset = c.reset /\ Calls(c, warned)
  <2>1. QueueInLoop(c, f).output_buffer_ = c.output_buffer_
    BY DEF QueueInLoop, ConnTyped
  <2>2. f.fn = "high_water"
    OBVIOUS
  <2> HIDE DEF f
  <2>3. CASE crosses
    <3>1. warned = QueueInLoop(c, f)
      BY <2>3
    <3> HIDE DEF warned, crosses
    <3>2. /\ ConnTyped(warned) /\ Pending(warned) = Pending(c) /\ warned.sent = c.sent
          /\ warned.fin = c.fin /\ warned.state_ = c.state_ /\ warned.owed = c.owed
          /\ warned.warned = c.warned /\ warned.accepted = c.accepted
          /\ warned.reset = c.reset /\ warned.queue = Append(c.queue, f)
      BY <1>1, <3>1, Posted
    <3>3. Calls(c, warned)
      BY <1>1, <2>2, <3>2 DEF Calls
    <3> QED
      BY <2>1, <3>1, <3>2, <3>3
  <2>4. CASE ~crosses
    <3>1. warned = c
      BY <2>4
    <3> HIDE DEF warned, crosses
    <3> QED
      BY <3>1 DEF Calls
  <2> QED
    BY <2>3, <2>4
<1>3. b \in BuffersOf(Byte) /\ Content(b) = Pending(c) \o rest
  BY ByteFacts, ConnFields, AppendedInOrder DEF Pending
<1>4. d = [warned EXCEPT !.output_buffer_ = b, !.writing = TRUE, !.warned = c.warned \/ crosses]
  BY <1>2 DEF Buffered, ConnTyped
<1>5. c.warned \/ crosses \in BOOLEAN
  BY ConnFields
<1> HIDE DEF warned, b, d, crosses
<1>6. /\ ConnTyped(d) /\ d.sent = c.sent /\ d.fin = c.fin /\ d.state_ = c.state_
      /\ d.writing = TRUE /\ d.owed = c.owed /\ d.output_buffer_ = b
      /\ d.accepted = c.accepted /\ d.reset = c.reset /\ d.queue = warned.queue
      /\ d.warned = (c.warned \/ crosses)
  BY <1>2, <1>3, <1>4, <1>5 DEF ConnTyped
<1>7. Pending(d) = Pending(c) \o rest
  BY <1>3, <1>6 DEF Pending
<1>8. Len(Pending(d)) = Len(Pending(c)) + Len(rest)
  BY <1>7, ConnFields, ConcatProperties
<1>9. Calls(c, d)
  BY <1>2, <1>6 DEF Calls
<1> QED
  BY <1>6, <1>7, <1>8, <1>9, ConnFields DEF d, crosses

\* The first n bytes of the data, and the others.
LEMMA Halves ==
  ASSUME NEW S, NEW data \in Seq(S), NEW n \in 0..Len(data)
  PROVE  /\ SubSeq(data, 1, n) \in Seq(S) /\ SubSeq(data, n + 1, Len(data)) \in Seq(S)
         /\ Len(SubSeq(data, n + 1, Len(data))) = Len(data) - n
         /\ SubSeq(data, 1, n) \o SubSeq(data, n + 1, Len(data)) = data
<1> DEFINE front == SubSeq(data, 1, n)
           back  == SubSeq(data, n + 1, Len(data))
<1>1. n \in Nat /\ n <= Len(data) /\ Len(data) \in Nat
  BY LenProperties
<1>2. front \in Seq(S) /\ back \in Seq(S) /\ Len(front) = n /\ front \o back = data
  BY <1>1, Split, Zenon
<1> HIDE DEF front, back
<1>3. Len(data) = Len(front) + Len(back) /\ Len(back) \in Nat
  BY <1>2, ConcatProperties, LenProperties
<1>4. Len(back) = Len(data) - n
  BY <1>1, <1>2, <1>3
<1> QED
  BY <1>2, <1>4 DEF front, back

\* Writing at once, when nothing waits.
LEMMA TakenStep ==
  ASSUME NEW c, Good(c), Status(c) = "open", Pending(c) = <<>>, ~c.writing,
         NEW m \in Message, NEW n \in 0..Len(m.data)
  PROVE  LET d == Taken([c EXCEPT !.accepted = Append(@, m), !.owed = TRUE], m.data, n) IN
         /\ Good(d) /\ Advances(c, d) /\ Takes(c, d, m) /\ Calls(c, d)
         /\ d.state_ = c.state_ /\ d.fin = c.fin /\ d.reset = c.reset
<1> DEFINE data  == m.data
           front == SubSeq(data, 1, n)
           back  == SubSeq(data, n + 1, Len(data))
           noted == [c EXCEPT !.accepted = Append(@, m), !.owed = TRUE]
           sent  == c.sent \o front
           given == [noted EXCEPT !.sent = @ \o front]
           d     == Taken(noted, data, n)
<1>1. ConnTyped(c) /\ Up(c) /\ ~c.fin
  BY DEF Good, Up, Status
<1>2. data \in Seq(Byte) /\ Len(data) \in Nat
  <2>1. data \in Seq(Byte)
    BY DEF Message
  <2> QED
    BY <2>1, LenProperties
<1>3. /\ front \in Seq(Byte) /\ back \in Seq(Byte) /\ Len(back) = Len(data) - n
      /\ front \o back = data
  <2>1. n \in 0..Len(data)
    OBVIOUS
  <2> HIDE DEF data
  <2> QED
    BY <1>2, <2>1, Halves, Zenon
<1> HIDE DEF front, back
<1>4. sent \in Seq(Byte) /\ Append(c.accepted, m) \in Seq(Message)
  BY <1>1, <1>3, ConnFields, ConcatProperties, AppendProperties
<1>5. /\ ConnTyped(given) /\ given.sent = sent /\ Pending(given) = <<>>
      /\ given.fin = c.fin /\ given.state_ = c.state_ /\ given.writing = c.writing
      /\ given.owed = TRUE /\ given.accepted = Append(c.accepted, m)
      /\ given.reset = c.reset /\ given.queue = c.queue
  <2> DEFINE accepted == Append(c.accepted, m)
  <2>1. given = [c EXCEPT !.accepted = accepted, !.owed = TRUE, !.sent = sent]
    BY <1>1 DEF ConnTyped
  <2> HIDE DEF accepted, sent
  <2>2. accepted \in Seq(Message)
    BY <1>4 DEF accepted
  <2> HIDE DEF given
  <2>3. given.accepted = accepted
    BY <1>1, <2>1 DEF ConnTyped
  <2>4. /\ ConnTyped(given) /\ given.sent = sent /\ Pending(given) = <<>>
        /\ given.fin = c.fin /\ given.state_ = c.state_ /\ given.writing = c.writing
        /\ given.owed = TRUE /\ given.reset = c.reset /\ given.queue = c.queue
    BY <1>1, <1>4, <2>1, <2>2 DEF ConnTyped, Pending
  <2> QED
    BY <2>3, <2>4 DEF accepted
<1>6. d = IF n = Len(data)
          THEN [QueueInLoop(given, [fn |-> "write_complete"]) EXCEPT !.owed = FALSE]
          ELSE Buffered(given, back)
  BY DEF Taken, front, back
<1> HIDE DEF given, d
<1>7. CASE n = Len(data)
  <2> DEFINE f == [fn |-> "write_complete"]
             q == QueueInLoop(given, f)
  <2>1. f \in Functor /\ f.fn = "write_complete"
    BY DEF Functor
  <2> HIDE DEF f
  <2>2. /\ ConnTyped(q) /\ Pending(q) = <<>> /\ q.sent = sent /\ q.fin = c.fin
        /\ q.state_ = c.state_ /\ q.writing = c.writing
        /\ q.accepted = Append(c.accepted, m) /\ q.reset = c.reset
        /\ q.queue = Append(c.queue, f)
    BY <1>5, <2>1, Posted, SMTT(30)
  <2>3. d = [q EXCEPT !.owed = FALSE]
    BY <1>6, <1>7 DEF f
  <2> HIDE DEF q
  <2>4. /\ ConnTyped(d) /\ Pending(d) = <<>> /\ d.sent = sent /\ d.fin = c.fin
        /\ d.state_ = c.state_ /\ d.writing = c.writing /\ d.owed = FALSE
        /\ d.accepted = q.accepted /\ d.reset = q.reset /\ d.queue = q.queue
    BY <2>2, <2>3 DEF ConnTyped, Pending
  <2>5. Good(d)
    <3>1. Len(Pending(d)) = 0
      BY <2>4, ConnFields
    <3>2. Told(d)
      BY <2>4, <3>1, StreamAssumption DEF Told
    <3>3. WritesMatch(d)
      BY <1>1, <2>4 DEF WritesMatch, Up
    <3> QED
      BY <2>4, <3>2, <3>3 DEF Good
  <2>6. Advances(c, d) /\ Takes(c, d, m)
    <3> DEFINE none == <<>>
    <3>1. none \in Seq(Byte)
      BY EmptySeq
    <3>2. Status(d) = "open"
      BY <1>1, <2>4 DEF Status, Up
    <3>3. d.sent \o none = d.sent /\ c.sent \o none = c.sent
      BY <1>1, <1>4, <2>4, ConnFields, ConcatEmptySeq
    <3>4. Pending(d) = none /\ Pending(c) = none
      BY <2>4
    <3> HIDE DEF none
    <3>5. d.sent = c.sent \o front /\ d.sent \o Pending(d) = (c.sent \o Pending(c)) \o front
      BY <2>4, <3>3, <3>4
    <3>6. front = data
      <4>1. front \o none = front /\ n = Len(data)
        BY <1>3, <1>7, ConcatEmptySeq DEF none
      <4>2. Len(back) = 0
        BY <1>2, <1>3, <4>1
      <4>3. back = none
        BY <1>3, <4>2, EmptySeq DEF none
      <4> QED
        BY <1>3, <4>1, <4>3
    <3>7. Takes(c, d, m)
      BY <2>2, <2>4, <3>5, <3>6 DEF Takes
    <3> QED
      BY <1>3, <3>2, <3>5, <3>7 DEF Advances
  <2>7. Calls(c, d)
    BY <2>1, <2>2, <2>4 DEF Calls
  <2> QED
    BY <2>2, <2>4, <2>5, <2>6, <2>7 DEF d
<1>8. CASE n # Len(data)
  <2>1. d = Buffered(given, back)
    BY <1>6, <1>8
  <2>2. /\ ConnTyped(d) /\ d.sent = sent /\ d.fin = c.fin /\ d.state_ = c.state_
        /\ d.writing = TRUE /\ Pending(d) = Pending(given) \o back
        /\ Len(Pending(d)) = Len(Pending(given)) + Len(back)
        /\ d.accepted = given.accepted /\ d.reset = given.reset /\ Calls(given, d)
        /\ (Len(Pending(d)) >= high_water_mark_ /\ Len(Pending(given)) < high_water_mark_
              => d.warned)
    BY <1>3, <1>5, <2>1, BufferedStep, ZenonT(60)
  <2>3. Pending(d) = back
    BY <1>3, <1>5, <2>2, ConcatEmptySeq
  <2>4. Len(Pending(given)) = 0 /\ Len(Pending(d)) > 0
    BY <1>2, <1>3, <1>5, <1>8, <2>3, ConnFields
  <2>5. Good(d)
    <3>1. Pending(d) # <<>>
      BY <2>2, <2>4, ConnFields
    <3>2. Told(d)
      BY <2>2, <2>4, <3>1, StreamAssumption DEF Told
    <3>3. WritesMatch(d)
      BY <1>1, <2>2, <3>1 DEF WritesMatch, Up
    <3> QED
      BY <2>2, <3>2, <3>3 DEF Good
  <2>6. Advances(c, d) /\ Takes(c, d, m)
    <3>1. Status(d) = "open"
      BY <1>1, <2>2 DEF Status, Up
    <3>2. d.sent = c.sent \o front
      BY <2>2
    <3>3. d.sent \o Pending(d) = (c.sent \o Pending(c)) \o data
      <4> DEFINE old == c.sent
      <4>1. old \in Seq(Byte)
        BY <1>1, ConnFields
      <4>2. old \o Pending(c) = old
        BY <4>1, ConcatEmptySeq
      <4>3. d.sent = old \o front
        BY <3>2
      <4> HIDE DEF old
      <4>4. (old \o front) \o back = old \o (front \o back)
        <5>1. old \in Seq(Byte) /\ front \in Seq(Byte) /\ back \in Seq(Byte)
          BY <1>3, <4>1
        <5> QED
          BY <5>1, ConcatAssociative
      <4> QED
        BY <1>3, <2>3, <4>2, <4>3, <4>4 DEF old
    <3>4. Takes(c, d, m)
      BY <1>5, <2>2, <3>3 DEF Takes
    <3> QED
      BY <1>2, <1>3, <3>1, <3>2, <3>3, <3>4 DEF Advances
  <2>7. Calls(c, d)
    BY <1>5, <2>2 DEF Calls
  <2> QED
    BY <1>5, <2>2, <2>5, <2>6, <2>7 DEF d
<1> QED
  BY <1>7, <1>8

\* send_in_loop() moves the stream forward or leaves it.
LEMMA SendInLoopStep ==
  ASSUME NEW c, Good(c), NEW m \in Message, NEW d \in SendInLoop(c, m)
  PROVE  /\ Good(d) /\ Moves(c, d) /\ Calls(c, d)
         /\ d.state_ = c.state_ /\ d.fin = c.fin /\ d.reset = c.reset
         /\ Takes(c, d, m) \/ (d = c /\ (c.state_ = "DISCONNECTED" \/ c.fin \/ c.reset))
<1> DEFINE noted == [c EXCEPT !.accepted = Append(@, m), !.owed = TRUE]
<1>1. ConnTyped(c)
  BY DEF Good
<1>2. CASE d = c /\ (c.state_ = "DISCONNECTED" \/ c.fin \/ c.reset)
  BY <1>2 DEF Moves, Stays, Calls
<1>3. CASE Up(c) /\ (c.writing \/ readable_bytes(c.output_buffer_) > 0) /\ d = Buffered(noted, m.data)
  <2>1. Pending(c) # <<>> /\ ~c.fin
    BY <1>1, <1>3, ConnFields DEF Good, WritesMatch
  <2>2. m.data \in Seq(Byte) /\ Len(m.data) \in Nat
    <3>1. m.data \in Seq(Byte)
      BY DEF Message
    <3> QED
      BY <3>1, LenProperties
  <2>3. /\ ConnTyped(noted) /\ noted.sent = c.sent /\ Pending(noted) = Pending(c)
        /\ noted.fin = c.fin /\ noted.state_ = c.state_ /\ noted.warned = c.warned
        /\ noted.accepted = Append(c.accepted, m) /\ noted.reset = c.reset
        /\ noted.queue = c.queue
    <3> DEFINE accepted == Append(c.accepted, m)
    <3>1. noted = [c EXCEPT !.accepted = accepted, !.owed = TRUE]
      BY <1>1 DEF ConnTyped
    <3>2. accepted \in Seq(Message)
      BY <1>1, ConnFields, AppendProperties
    <3> HIDE DEF accepted, noted
    <3>3. /\ ConnTyped(noted) /\ noted.sent = c.sent /\ Pending(noted) = Pending(c)
          /\ noted.fin = c.fin /\ noted.state_ = c.state_ /\ noted.warned = c.warned
          /\ noted.accepted = accepted /\ noted.reset = c.reset /\ noted.queue = c.queue
      BY <1>1, <3>1, <3>2 DEF ConnTyped, Pending
    <3> QED
      BY <3>3 DEF accepted
  <2> HIDE DEF noted
  <2>4. /\ ConnTyped(d) /\ d.sent = c.sent /\ d.fin = c.fin /\ d.state_ = c.state_
        /\ d.writing = TRUE /\ Pending(d) = Pending(c) \o m.data
        /\ Len(Pending(d)) = Len(Pending(c)) + Len(m.data)
        /\ (c.warned => d.warned)
        /\ (Len(Pending(d)) >= high_water_mark_ /\ Len(Pending(c)) < high_water_mark_ => d.warned)
        /\ d.accepted = noted.accepted /\ d.reset = noted.reset /\ Calls(noted, d)
    <3> DEFINE rest == m.data
    <3>1. d = Buffered(noted, rest) /\ rest \in Seq(Byte)
      BY <1>3, <2>2
    <3> HIDE DEF rest
    <3>2. /\ ConnTyped(d) /\ d.sent = noted.sent /\ d.fin = noted.fin
          /\ d.state_ = noted.state_ /\ d.writing = TRUE /\ Pending(d) = Pending(noted) \o rest
          /\ Len(Pending(d)) = Len(Pending(noted)) + Len(rest)
          /\ (noted.warned => d.warned)
          /\ (Len(Pending(d)) >= high_water_mark_ /\ Len(Pending(noted)) < high_water_mark_
                => d.warned)
          /\ d.accepted = noted.accepted /\ d.reset = noted.reset /\ Calls(noted, d)
      BY <2>3, <3>1, BufferedStep, Zenon
    <3> QED
      BY <2>3, <3>2, Zenon DEF rest
  <2>5. Pending(d) # <<>>
    BY <1>1, <2>1, <2>2, <2>4, ConnFields
  <2>6. Good(d)
    <3>1. Told(d)
      <4>1. Len(Pending(c)) \in Nat /\ c.warned \in BOOLEAN /\ d.warned \in BOOLEAN
        BY <1>1, <2>4, ConnFields
      <4>2. Len(Pending(c)) >= high_water_mark_ /\ high_water_mark_ > 0 => c.warned
        BY <1>3 DEF Good, Told
      <4> QED
        BY <2>4, <2>5, <4>1, <4>2, StreamAssumption DEF Told
    <3>2. WritesMatch(d)
      BY <1>3, <2>1, <2>4, <2>5 DEF WritesMatch, Up
    <3> QED
      BY <2>4, <3>1, <3>2 DEF Good
  <2>7. Advances(c, d) /\ Takes(c, d, m)
    <3> DEFINE none == <<>>
    <3>1. none \in Seq(Byte) /\ d.sent = c.sent \o none
      BY <1>1, <2>4, ConnFields, EmptySeq, ConcatEmptySeq
    <3> HIDE DEF none
    <3>2. Status(c) = "open" /\ Status(d) = "open"
      BY <1>3, <2>1, <2>4 DEF Status, Up
    <3>3. d.sent \o Pending(d) = (c.sent \o Pending(c)) \o m.data
      <4> DEFINE s == c.sent
                 p == Pending(c)
                 t == m.data
      <4>1. s \in Seq(Byte) /\ p \in Seq(Byte) /\ t \in Seq(Byte) /\ d.sent = s /\ Pending(d) = p \o t
        BY <1>1, <2>2, <2>4, ConnFields
      <4> HIDE DEF s, p, t
      <4>2. (s \o p) \o t = s \o (p \o t)
        BY <4>1, ConcatAssociative
      <4> QED
        BY <4>1, <4>2 DEF s, p, t
    <3>4. Takes(c, d, m)
      BY <2>3, <2>4, <3>3 DEF Takes
    <3> QED
      BY <2>2, <3>1, <3>2, <3>3, <3>4 DEF Advances
  <2>8. Calls(c, d)
    BY <2>3, <2>4 DEF Calls
  <2> QED
    BY <2>3, <2>4, <2>6, <2>7, <2>8 DEF Moves
<1>4. CASE /\ Up(c) /\ ~(c.writing \/ readable_bytes(c.output_buffer_) > 0) /\ ~c.fin
           /\ \E n \in 0..Len(m.data) : d = Taken(noted, m.data, n)
  <2>1. PICK n \in 0..Len(m.data) : d = Taken(noted, m.data, n)
    BY <1>4
  <2>2. Status(c) = "open" /\ Pending(c) = <<>> /\ ~c.writing
    BY <1>1, <1>4, ConnFields DEF Status, Up, Good, WritesMatch
  <2> QED
    BY <2>1, <2>2, TakenStep DEF Moves
<1> QED
  BY <1>2, <1>3, <1>4 DEF SendInLoop, Up

\* The stream ends, if nothing waits.
LEMMA ShutdownInLoopStep ==
  ASSUME NEW c, Good(c)
  PROVE  LET d == ShutdownInLoop(c) IN
         /\ Good(d) /\ d.sent = c.sent /\ Pending(d) = Pending(c) /\ d.state_ = c.state_
         /\ d.accepted = c.accepted /\ d.queue = c.queue /\ d.reset = c.reset
         /\ Status(d) = Status(c) \/ (Status(d) = "closed" /\ Status(c) = "open" /\ Pending(d) = <<>>)
<1> DEFINE d == ShutdownInLoop(c)
<1>1. ConnTyped(c)
  BY DEF Good
<1>2. CASE c.writing
  BY <1>2 DEF ShutdownInLoop
<1>3. CASE ~c.writing
  <2>1. d = [c EXCEPT !.fin = TRUE]
    BY <1>3 DEF ShutdownInLoop, ShutdownWrite
  <2> HIDE DEF d
  <2>2. /\ ConnTyped(d) /\ d.sent = c.sent /\ Pending(d) = Pending(c) /\ d.state_ = c.state_
        /\ d.writing = c.writing /\ d.owed = c.owed /\ d.warned = c.warned /\ d.fin = TRUE
        /\ d.accepted = c.accepted /\ d.queue = c.queue /\ d.reset = c.reset
    BY <1>1, <2>1 DEF ConnTyped, Pending
  <2>3. Up(c) => Pending(c) = <<>>
    BY <1>3 DEF Good, WritesMatch
  <2>4. Good(d)
    <3>1. Told(d)
      BY <2>2 DEF Good, Told, Up
    <3>2. WritesMatch(d)
      BY <2>2, <2>3 DEF Good, WritesMatch, Up
    <3> QED
      BY <2>2, <3>1, <3>2 DEF Good
  <2>5. Status(d) = Status(c) \/ (Status(d) = "closed" /\ Status(c) = "open" /\ Pending(d) = <<>>)
    BY <2>2, <2>3 DEF Status, Up
  <2> QED
    BY <2>2, <2>4, <2>5 DEF d
<1> QED
  BY <1>2, <1>3

\* shutdown(): the stream ends or goes on, and is otherwise left alone.
LEMMA ShutdownStep ==
  ASSUME NEW c, Good(c)
  PROVE  LET d == Shutdown(c) IN
         /\ Good(d) /\ d.sent = c.sent /\ Pending(d) = Pending(c) /\ Quiet(c, d)
         /\ Status(d) = Status(c) \/ (Status(d) = "closed" /\ Status(c) = "open" /\ Pending(d) = <<>>)
<1>1. CASE c.state_ # "CONNECTED"
  BY <1>1 DEF Shutdown, Quiet
<1>2. CASE c.state_ = "CONNECTED"
  <2> DEFINE e == [c EXCEPT !.state_ = "DISCONNECTING", !.shut = TRUE]
  <2>1. Shutdown(c) = ShutdownInLoop(e)
    BY <1>2 DEF Shutdown
  <2>2. /\ ConnTyped(e) /\ e.sent = c.sent /\ Pending(e) = Pending(c) /\ e.fin = c.fin
        /\ e.writing = c.writing /\ e.owed = c.owed /\ e.warned = c.warned
        /\ e.state_ = "DISCONNECTING" /\ e.accepted = c.accepted
        /\ e.queue = c.queue /\ e.reset = c.reset
    BY DEF Good, ConnTyped, Pending
  <2> HIDE DEF e
  <2>3. Good(e) /\ Status(e) = Status(c)
    BY <1>2, <2>2 DEF Good, Told, WritesMatch, Up, Status
  <2>4. LET d == ShutdownInLoop(e) IN
        /\ Good(d) /\ d.sent = e.sent /\ Pending(d) = Pending(e) /\ d.state_ = e.state_
        /\ d.accepted = e.accepted /\ d.queue = e.queue /\ d.reset = e.reset
        /\ Status(d) = Status(e) \/ (Status(d) = "closed" /\ Status(e) = "open" /\ Pending(d) = <<>>)
    BY <2>3, ShutdownInLoopStep
  <2> QED
    BY <2>1, <2>2, <2>3, <2>4 DEF Quiet
<1> QED
  BY <1>1, <1>2

\* Nothing taken, nothing added: the stream ended or is what it was.
LEMMA EndedOrSame ==
  ASSUME NEW c, NEW d, ConnTyped(c), d.sent = c.sent, Pending(d) = Pending(c),
         Status(d) = Status(c) \/ (Status(d) = "closed" /\ Status(c) = "open" /\ Pending(d) = <<>>)
  PROVE  Moves(c, d)
<1>1. CASE Status(d) = Status(c)
  BY <1>1 DEF Moves, Stays
<1>2. CASE Status(d) = "closed" /\ Status(c) = "open" /\ Pending(d) = <<>>
  <2> DEFINE none == <<>>
             s    == c.sent
             p    == Pending(c)
             all  == s \o p
  <2>1. none \in Seq(Byte) /\ s \in Seq(Byte) /\ p \in Seq(Byte) /\ all \in Seq(Byte)
    BY ConnFields, EmptySeq, ConcatProperties
  <2>2. s \o none = s /\ all \o none = all
    <3> HIDE DEF s, all
    <3> QED
      BY <2>1, ConcatEmptySeq
  <2>3. d.sent = c.sent \o none /\ d.sent \o Pending(d) = (c.sent \o Pending(c)) \o none
    BY <2>2
  <2> HIDE DEF none
  <2> QED
    BY <1>2, <2>1, <2>3 DEF Moves, Advances
<1> QED
  BY <1>1, <1>2

\* The write complete callback was called: whoever waited for it is told.
LEMMA WriteCompleteStep ==
  ASSUME NEW c, Good(c), NEW d \in WriteComplete(c)
  PROVE  /\ Good(d) /\ d.sent = c.sent /\ Pending(d) = Pending(c) /\ Quiet(c, d)
         /\ Status(d) = Status(c) \/ (Status(d) = "closed" /\ Status(c) = "open" /\ Pending(d) = <<>>)
<1> DEFINE told == [c EXCEPT !.owed = FALSE]
<1>1. /\ ConnTyped(told) /\ told.sent = c.sent /\ Pending(told) = Pending(c)
      /\ told.fin = c.fin /\ told.writing = c.writing /\ told.warned = c.warned
      /\ told.state_ = c.state_ /\ told.owed = FALSE /\ Quiet(c, told)
  BY DEF Good, ConnTyped, Pending, Quiet
<1>2. d = told \/ d = Shutdown(told)
  BY DEF WriteComplete
<1> HIDE DEF told
<1>3. Good(told) /\ Status(told) = Status(c)
  BY <1>1 DEF Good, Told, WritesMatch, Up, Status
<1>4. LET e == Shutdown(told) IN
      /\ Good(e) /\ e.sent = told.sent /\ Pending(e) = Pending(told) /\ Quiet(told, e)
      /\ Status(e) = Status(told) \/ (Status(e) = "closed" /\ Status(told) = "open" /\ Pending(e) = <<>>)
  BY <1>3, ShutdownStep
<1> QED
  BY <1>1, <1>2, <1>3, <1>4 DEF Quiet

\* handle_write(), the output buffer being empty.
LEMMA DrainedStep ==
  ASSUME NEW c, ConnTyped(c), Up(c), Pending(c) = <<>>, NEW d \in Drained(c)
  PROVE  /\ Good(d) /\ d.sent = c.sent /\ Pending(d) = <<>> /\ Quiet(c, d)
         /\ Status(d) = Status(c) \/ (Status(d) = "closed" /\ Status(c) = "open")
<1> DEFINE off == [c EXCEPT !.writing = FALSE]
<1>1. PICK e \in WriteComplete(off) :
        d = IF e.state_ = "DISCONNECTING" THEN ShutdownInLoop(e) ELSE e
  BY DEF Drained
<1> DEFINE told == [c EXCEPT !.writing = FALSE, !.owed = FALSE]
<1>2. /\ ConnTyped(told) /\ told.sent = c.sent /\ Pending(told) = Pending(c)
      /\ told.fin = c.fin /\ told.writing = FALSE
      /\ told.state_ = c.state_ /\ told.owed = FALSE /\ Quiet(c, told)
  BY DEF ConnTyped, Pending, Quiet
<1>3. [told EXCEPT !.owed = FALSE] = told /\ [off EXCEPT !.owed = FALSE] = told
  BY DEF ConnTyped
<1>4. e \in WriteComplete(told)
  BY <1>1, <1>3 DEF WriteComplete
<1> HIDE DEF told
<1>5. Good(told) /\ Status(told) = Status(c)
  <2>1. Len(Pending(told)) = 0
    BY <1>2, ConnFields
  <2>2. Told(told)
    BY <1>2, <2>1, StreamAssumption DEF Told
  <2>3. WritesMatch(told)
    BY <1>2 DEF WritesMatch, Up
  <2> QED
    BY <1>2, <2>2, <2>3 DEF Good, Status
<1>6. /\ Good(e) /\ e.sent = told.sent /\ Pending(e) = Pending(told) /\ Quiet(told, e)
      /\ Status(e) = Status(told) \/ (Status(e) = "closed" /\ Status(told) = "open" /\ Pending(e) = <<>>)
  BY <1>4, <1>5, WriteCompleteStep
<1>7. LET f == ShutdownInLoop(e) IN
      /\ Good(f) /\ f.sent = e.sent /\ Pending(f) = Pending(e) /\ f.state_ = e.state_
      /\ f.accepted = e.accepted /\ f.queue = e.queue /\ f.reset = e.reset
      /\ Status(f) = Status(e) \/ (Status(f) = "closed" /\ Status(e) = "open" /\ Pending(f) = <<>>)
  BY <1>6, ShutdownInLoopStep
<1>8. Quiet(c, d)
  BY <1>1, <1>2, <1>6, <1>7 DEF Quiet
<1> QED
  BY <1>1, <1>2, <1>5, <1>6, <1>7, <1>8

\* handle_write(): what the kernel takes, it takes from the front.
LEMMA FlushedStep ==
  ASSUME NEW c, Good(c), Up(c), c.writing, NEW n \in 1..Len(Pending(c)), NEW d \in Flushed(c, n)
  PROVE  /\ Good(d) /\ Advances(c, d) /\ Quiet(c, d)
         /\ d.sent \o Pending(d) = c.sent \o Pending(c)
<1> DEFINE p     == Pending(c)
           front == SubSeq(p, 1, n)
           back  == SubSeq(p, n + 1, Len(p))
           b     == Pop(c.output_buffer_, n)
           sent  == c.sent \o front
           warned == c.warned /\ Len(p) - n >= high_water_mark_
           e     == [c EXCEPT !.sent = sent, !.output_buffer_ = b, !.warned = warned]
<1>1. ConnTyped(c)
  BY DEF Good
<1>2. p \in Seq(Byte) /\ Len(p) \in Nat /\ p # <<>> /\ ~c.fin
  BY <1>1, ConnFields DEF Good, WritesMatch
<1>3. /\ front \in Seq(Byte) /\ back \in Seq(Byte) /\ Len(back) = Len(p) - n
      /\ front \o back = p
  <2>1. n \in 0..Len(p)
    BY <1>2
  <2> HIDE DEF p
  <2> QED
    BY <1>2, <2>1, Halves, Zenon
<1>4. b \in BuffersOf(Byte) /\ Content(b) = back
  <2>1. n \in Nat /\ c.output_buffer_ \in BuffersOf(Byte) /\ p = Content(c.output_buffer_)
    BY <1>1, <1>2, ConnFields DEF Pending
  <2> HIDE DEF p
  <2> QED
    BY <2>1, ByteFacts, PoppedInOrder
<1>5. sent \in Seq(Byte) /\ warned \in BOOLEAN
  <2>1. c.sent \in Seq(Byte)
    BY <1>1, ConnFields
  <2> HIDE DEF front
  <2> QED
    BY <1>1, <1>3, <2>1, ConnFields, ConcatProperties
<1>6. d \in IF readable_bytes(e.output_buffer_) = 0 THEN Drained(e) ELSE {e}
  <2>1. e = [c EXCEPT !.sent = @ \o SubSeq(Pending(c), 1, n), !.output_buffer_ = Pop(@, n),
                      !.warned = @ /\ Len(Pending(c)) - n >= high_water_mark_]
    BY <1>1 DEF ConnTyped
  <2> HIDE DEF e
  <2> QED
    BY <2>1 DEF Flushed
<1> HIDE DEF p, front, back, b
<1>7. /\ ConnTyped(e) /\ e.sent = sent /\ e.output_buffer_ = b /\ e.warned = warned
      /\ e.fin = c.fin /\ e.writing = c.writing /\ e.state_ = c.state_ /\ e.owed = c.owed
      /\ Quiet(c, e)
  <2> HIDE DEF sent, warned
  <2> QED
    BY <1>1, <1>4, <1>5 DEF ConnTyped, Quiet
<1> HIDE DEF e
<1>8. Pending(e) = back /\ Len(back) = readable_bytes(e.output_buffer_)
  BY <1>4, <1>7, ConnFields DEF Pending
<1>9. Status(c) = "open" /\ Status(e) = "open" /\ Up(e)
  BY <1>2, <1>7 DEF Status, Up
<1>10. sent \o back = c.sent \o p
  <2> DEFINE s == c.sent
  <2>1. s \in Seq(Byte) /\ front \in Seq(Byte) /\ back \in Seq(Byte) /\ sent = s \o front
    BY <1>1, <1>3, ConnFields
  <2> HIDE DEF s, sent
  <2>2. (s \o front) \o back = s \o (front \o back)
    BY <2>1, ConcatAssociative
  <2> QED
    BY <1>3, <2>1, <2>2 DEF s
<1>11. /\ Good(d) /\ d.sent = sent /\ Pending(d) = back /\ Quiet(c, d)
       /\ Status(d) = "open" \/ (Status(d) = "closed" /\ Pending(d) = <<>>)
  <2>1. CASE readable_bytes(e.output_buffer_) = 0
    <3>1. Pending(e) = <<>> /\ d \in Drained(e)
      BY <1>6, <1>7, <2>1, ConnFields
    <3>2. /\ Good(d) /\ d.sent = e.sent /\ Pending(d) = <<>> /\ Quiet(e, d)
          /\ Status(d) = Status(e) \/ (Status(d) = "closed" /\ Status(e) = "open")
      BY <1>7, <1>9, <3>1, DrainedStep
    <3> QED
      BY <1>7, <1>8, <1>9, <3>1, <3>2 DEF Quiet
  <2>2. CASE readable_bytes(e.output_buffer_) # 0
    <3>1. d = e
      BY <1>6, <2>2
    <3>2. Pending(e) # <<>>
      BY <1>7, <2>2, ConnFields
    <3>3. Told(e)
      <4>1. Len(Pending(e)) = Len(p) - n
        BY <1>3, <1>8
      <4>2. Len(p) >= high_water_mark_ /\ high_water_mark_ > 0 => c.warned
        BY DEF Good, Told, p
      <4>3. c.warned \in BOOLEAN /\ n \in Nat /\ high_water_mark_ \in Nat
        BY <1>1, ConnFields, StreamAssumption
      <4> QED
        BY <1>2, <1>7, <3>2, <4>1, <4>2, <4>3 DEF Told
    <3>4. WritesMatch(e)
      BY <1>2, <1>7, <1>9, <3>2 DEF WritesMatch, Up
    <3> QED
      BY <1>7, <1>8, <1>9, <3>1, <3>3, <3>4 DEF Good
  <2> QED
    BY <2>1, <2>2
<1>12. Advances(c, d)
  <2> DEFINE none == <<>>
             all  == c.sent \o p
  <2>1. none \in Seq(Byte) /\ all \in Seq(Byte)
    BY <1>1, <1>2, ConnFields, EmptySeq, ConcatProperties
  <2>2. all \o none = all
    <3> HIDE DEF all
    <3> QED
      BY <2>1, ConcatEmptySeq
  <2>3. d.sent = c.sent \o front /\ d.sent \o Pending(d) = (c.sent \o Pending(c)) \o none
    BY <1>10, <1>11, <2>2 DEF p
  <2> HIDE DEF none
  <2> QED
    BY <1>3, <1>9, <1>11, <2>1, <2>3 DEF Advances
<1> QED
  BY <1>10, <1>11, <1>12 DEF p

-----------------------------------------------------------------------------
(* The steps.                                                               *)

\* Nothing happened to the stream.
LEMMA StaysMoves == ASSUME NEW c, NEW d, d.sent = c.sent, Pending(d) = Pending(c),
                           Status(d) = Status(c)
                    PROVE  Moves(c, d)
BY DEF Moves, Stays

\* The invariant holds when the connection is established.
LEMMA InitGood == Init => StreamInv
<1> SUFFICES ASSUME Init PROVE StreamInv
  OBVIOUS
<1> DEFINE fresh == New(INITIAL_SIZE)
<1>1. /\ fresh \in BuffersOf(Byte) /\ Content(fresh) = <<>> /\ fresh \in Buffers
  BY ByteFacts, Created, SizesAssumption DEF Buffers
<1>2. <<>> \in Seq(Functor) /\ <<>> \in Seq(Byte) /\ <<>> \in Seq(Message) /\ Len(<<>>) = 0
  BY EmptySeq
<1> HIDE DEF fresh
<1>3. conn = [state_ |-> "CONNECTED", writing |-> FALSE, output_buffer_ |-> fresh,
              queue |-> <<>>, sent |-> <<>>, fin |-> FALSE, reset |-> FALSE,
              shut |-> FALSE, accepted |-> <<>>, owed |-> FALSE, warned |-> FALSE]
  BY DEF Init, Connection, fresh
<1>4. /\ ConnTyped(conn) /\ Pending(conn) = <<>> /\ ~conn.owed /\ ~conn.fin /\ ~conn.writing
      /\ Up(conn)
  BY <1>1, <1>2, <1>3 DEF ConnTyped, Pending, Up
<1>5. Good(conn)
  <2>1. Len(Pending(conn)) = 0
    BY <1>2, <1>4
  <2>2. Told(conn)
    BY <1>4, <2>1, StreamAssumption DEF Told
  <2> QED
    BY <1>4, <2>2 DEF Good, WritesMatch
<1>6. input_buffer_ \in Buffers /\ arrived = 0 /\ next = 1 /\ tested = FALSE
  BY <1>1 DEF Init, fresh
<1>7. Len(Input) \in Nat
  BY StreamAssumption, LenProperties
<1> QED
  BY <1>5, <1>6, <1>7 DEF StreamInv

\* send() of the loop's own thread.
LEMMA SendStep ==
  ASSUME NEW c, Good(c), NEW m \in Message, NEW d \in Send(c, m)
  PROVE  /\ Good(d) /\ Moves(c, d) /\ Calls(c, d)
         /\ d.state_ = c.state_ /\ d.fin = c.fin /\ d.reset = c.reset
         /\ Takes(c, d, m) \/ (d = c /\ (c.state_ # "CONNECTED" \/ c.fin \/ c.reset))
<1>1. CASE d = c /\ c.state_ # "CONNECTED"
  BY <1>1, StaysMoves DEF Calls
<1>2. CASE d \in SendInLoop(c, m)
  <2>1. /\ Good(d) /\ Moves(c, d) /\ Calls(c, d)
        /\ d.state_ = c.state_ /\ d.fin = c.fin /\ d.reset = c.reset
        /\ Takes(c, d, m) \/ (d = c /\ (c.state_ = "DISCONNECTED" \/ c.fin \/ c.reset))
    BY <1>2, SendInLoopStep
  <2> QED
    BY <2>1
<1> QED
  BY <1>1, <1>2 DEF Send

\* handle_write() keeps the invariant and moves the stream forward.
LEMMA HandleWriteStep ==
  ASSUME StreamInv, HandleWrite
  PROVE  StreamInv' /\ Moves(conn, conn')
<1>1. Good(conn) /\ ConnTyped(conn) /\ conn.writing
  BY DEF StreamInv, Good, HandleWrite
<1>2. Up(conn)
  BY <1>1 DEF Good, WritesMatch
<1>3. PICK n \in 1..Len(Pending(conn)) : conn' \in Flushed(conn, n)
  BY DEF HandleWrite
<1>4. Good(conn') /\ Advances(conn, conn')
  BY <1>1, <1>2, <1>3, FlushedStep
<1> QED
  BY <1>4 DEF StreamInv, HandleWrite, Moves

\* So does a functor ...
LEMMA RunFunctorStep ==
  ASSUME StreamInv, RunFunctor
  PROVE  StreamInv' /\ Moves(conn, conn')
<1> DEFINE f == Head(conn.queue)
           q == Tail(conn.queue)
           c == [conn EXCEPT !.queue = q]
<1>1. Good(conn) /\ ConnTyped(conn) /\ conn.queue # <<>>
  BY DEF StreamInv, Good, RunFunctor
<1>2. f \in Functor /\ q \in Seq(Functor)
  BY <1>1, ConnFields, HeadTailProperties
<1>3. conn' \in CASE f.fn = "send" -> RunSend(c, f.message)
                  [] f.fn = "write_complete" -> {c, Shutdown(c)}
                  [] f.fn = "high_water" -> {c}
                  [] f.fn = "shutdown_in_loop" -> {ShutdownInLoop(c)}
  <2>1. c = [conn EXCEPT !.queue = Tail(@)]
    BY <1>1 DEF ConnTyped
  <2> HIDE DEF c
  <2> QED
    BY <2>1 DEF RunFunctor
<1> HIDE DEF f, q
<1>4. /\ ConnTyped(c) /\ c.sent = conn.sent /\ Pending(c) = Pending(conn) /\ c.fin = conn.fin
      /\ c.writing = conn.writing /\ c.owed = conn.owed /\ c.warned = conn.warned
      /\ c.state_ = conn.state_
  BY <1>1, <1>2 DEF ConnTyped, Pending
<1> HIDE DEF c
<1>5. Good(c) /\ Status(c) = Status(conn)
  BY <1>1, <1>4 DEF Good, Told, WritesMatch, Up, Status
<1>6. Good(conn') /\ Moves(c, conn')
  <2>1. CASE f.fn = "send"
    <3>1. f.message \in Message
      BY <1>2, <2>1 DEF Functor, Posting, Message
    <3>2. conn' \in RunSend(c, f.message)
      BY <1>3, <2>1
    <3>3. conn' \in Send(c, f.message) \/ conn' \in SendInLoop(c, f.message)
      BY <3>2 DEF RunSend
    <3> QED
      BY <1>5, <3>1, <3>3, SendStep, SendInLoopStep
  <2>2. CASE f.fn = "write_complete"
    <3>1. conn' = c \/ conn' = Shutdown(c)
      BY <1>3, <2>2
    <3>2. CASE conn' = c
      BY <1>5, <3>2 DEF Moves, Stays
    <3>3. CASE conn' = Shutdown(c)
      <4> DEFINE d == Shutdown(c)
      <4>1. /\ Good(d) /\ d.sent = c.sent /\ Pending(d) = Pending(c)
            /\ Status(d) = Status(c) \/ (Status(d) = "closed" /\ Status(c) = "open" /\ Pending(d) = <<>>)
        BY <1>5, ShutdownStep
      <4> HIDE DEF d
      <4>2. Moves(c, d)
        BY <1>4, <4>1, EndedOrSame
      <4> QED
        BY <3>3, <4>1, <4>2 DEF d
    <3> QED
      BY <3>1, <3>2, <3>3
  <2>3. CASE f.fn = "high_water"
    <3>1. conn' = c
      BY <1>3, <2>3
    <3> QED
      BY <1>5, <3>1 DEF Moves, Stays
  <2>4. CASE f.fn = "shutdown_in_loop"
    <3> DEFINE d == ShutdownInLoop(c)
    <3>1. conn' = d
      BY <1>3, <2>4
    <3>2. /\ Good(d) /\ d.sent = c.sent /\ Pending(d) = Pending(c)
          /\ Status(d) = Status(c) \/ (Status(d) = "closed" /\ Status(c) = "open" /\ Pending(d) = <<>>)
      BY <1>5, ShutdownInLoopStep
    <3> HIDE DEF d
    <3>3. Moves(c, d)
      BY <1>4, <3>2, EndedOrSame
    <3> QED
      BY <3>1, <3>2, <3>3
  <2> QED
    BY <1>2, <2>1, <2>2, <2>3, <2>4 DEF Functor
<1>7. Moves(conn, conn')
  BY <1>4, <1>5, <1>6 DEF Moves, Stays, Advances
<1> QED
  BY <1>6, <1>7 DEF StreamInv, RunFunctor

\* ... and handle_read(), which leaves the connection alone ...
LEMMA HandleReadStep ==
  ASSUME StreamInv, HandleRead
  PROVE  StreamInv' /\ Moves(conn, conn')
<1>1. PICK n \in 1..Len(Input) - arrived :
        /\ arrived' = arrived + n
        /\ input_buffer_' = AppendFromFd(input_buffer_, SubSeq(Input, arrived + 1, arrived + n))
  BY DEF HandleRead
<1>2. Input \in Seq(Byte) /\ Len(Input) \in Nat /\ arrived \in 0..Len(Input) /\ input_buffer_ \in Buffers
  BY StreamAssumption, LenProperties DEF StreamInv
<1> DEFINE m    == arrived + 1
           end  == arrived + n
           data == SubSeq(Input, m, end)
<1>3. data \in Seq(Byte)
  <2>1. m \in Nat /\ end \in Nat /\ 1 <= m /\ m <= end + 1 /\ end <= Len(Input)
    BY <1>2
  <2> HIDE DEF m, end
  <2> QED
    BY <1>2, <2>1, Piece
<1>4. end \in 0..Len(Input)
  BY <1>2
<1>5. input_buffer_' \in Buffers
  <2>1. input_buffer_' = AppendFromFd(input_buffer_, data)
    BY <1>1
  <2> HIDE DEF data
  <2> QED
    BY <1>2, <1>3, <2>1, ByteFacts, ReadInOrder DEF Buffers
<1>6. UNCHANGED <<conn, next, tested>>
  BY DEF HandleRead
<1>7. Good(conn')
  BY <1>6 DEF StreamInv
<1> QED
  BY <1>1, <1>4, <1>5, <1>6, <1>7, StaysMoves DEF StreamInv

\* ... and the message callback, which answers a frame ...
LEMMA TakeFrameStep ==
  ASSUME StreamInv, TakeFrame
  PROVE  StreamInv' /\ Moves(conn, conn')
<1> DEFINE b == input_buffer_
           v == PeekInt(b, 1)
           p == Pop(b, 1)
           s == SubSeq(Content(p), 1, v)
           m == [kind |-> "echo", data |-> Framed(s)]
<1>1. b \in BuffersOf(Byte) /\ readable_bytes(b) >= 1 /\ v \in 0..readable_bytes(b) - 1
  BY DEF StreamInv, Buffers, TakeFrame, FrameReady
<1>2. input_buffer_' = Pop(p, v) /\ conn' \in Send(conn, m)
  <2>1. PICK length \in {ReadInt(b, 1)} :
          \E payload \in {PopAsString(length.buffer, length.value)} :
          \E reply \in {[kind |-> "echo", data |-> Framed(payload.string)]} :
            input_buffer_' = payload.buffer /\ conn' \in Send(conn, reply)
    BY DEF TakeFrame
  <2>2. PICK payload \in {PopAsString(length.buffer, length.value)} :
          \E reply \in {[kind |-> "echo", data |-> Framed(payload.string)]} :
            input_buffer_' = payload.buffer /\ conn' \in Send(conn, reply)
    BY <2>1
  <2>3. length.value = v /\ length.buffer = p
    BY <2>1 DEF ReadInt
  <2>4. payload.string = s /\ payload.buffer = Pop(p, v)
    BY <2>2, <2>3 DEF PopAsString
  <2> HIDE DEF v, p, s
  <2> QED
    BY <2>2, <2>4
<1> HIDE DEF b, v
<1>3. Len(Content(b)) = readable_bytes(b) /\ readable_bytes(b) \in Nat /\ Content(b) \in Seq(Byte)
  BY <1>1, Readable, Fields DEF readable_bytes
<1>4. v \in Nat /\ v <= readable_bytes(b) - 1
  BY <1>1, <1>3
<1>5. p \in BuffersOf(Byte) /\ Content(p) = SubSeq(Content(b), 1 + 1, Len(Content(b)))
  BY <1>1, ByteFacts, PoppedInOrder
<1>6. Content(p) \in Seq(Byte) /\ Len(Content(p)) = readable_bytes(b) - 1
  <2> DEFINE whole == Content(b)
             len   == Len(whole)
  <2>1. 1 \in 0..len
    BY <1>1, <1>3
  <2>2. whole \in Seq(Byte)
    BY <1>3
  <2> HIDE DEF whole
  <2>3. Len(SubSeq(whole, 1 + 1, Len(whole))) = Len(whole) - 1
    BY <2>1, <2>2, Halves
  <2> QED
    BY <1>3, <1>5, <2>3, Readable DEF whole
<1>7. Pop(p, v) \in Buffers
  BY <1>4, <1>5, ByteFacts, PoppedInOrder DEF Buffers
<1>8. s \in Seq(Byte)
  <2> DEFINE whole == Content(p)
  <2>1. 1 \in Nat /\ 1 <= v + 1 /\ v <= Len(whole) /\ whole \in Seq(Byte)
    BY <1>4, <1>6
  <2> HIDE DEF whole
  <2>2. SubSeq(whole, 1, v) \in Seq(Byte)
    BY <1>4, <2>1, Piece
  <2> QED
    BY <2>2 DEF whole
<1> HIDE DEF p, s
<1>9. Len(s) = v
  <2> DEFINE whole == Content(p)
  <2>1. 1 \in Nat /\ 1 <= v + 1 /\ v <= Len(whole) /\ whole \in Seq(Byte)
    BY <1>4, <1>6
  <2> HIDE DEF whole
  <2>2. Len(SubSeq(whole, 1, v)) = v + 1 - 1
    BY <1>4, <2>1, Piece
  <2> QED
    BY <1>4, <2>2 DEF whole, s
<1>10. BigEndian(Len(s), 1) \in Seq(Byte)
  <2>1. v \in Byte
    <3>1. b \in Buffers /\ readable_bytes(b) >= 1 /\ PeekInt(b, 1) >= 0
      BY <1>1, <1>4 DEF Buffers, v
    <3> QED
      BY <3>1, LengthRead DEF v
  <2> QED
    BY <1>9, <2>1, OneByte
<1>11. m \in Message
  <2>1. Framed(s) = BigEndian(Len(s), 1) \o s
    BY <1>8, <1>10, ByteFacts, FramedInOrder
  <2>2. Framed(s) \in Seq(Byte)
    BY <1>8, <1>10, <2>1, ConcatProperties
  <2> QED
    BY <2>2 DEF Message
<1> HIDE DEF m
<1>12. Good(conn)
  BY DEF StreamInv
<1>13. Good(conn') /\ Moves(conn, conn')
  BY <1>2, <1>11, <1>12, SendStep
<1> QED
  BY <1>2, <1>7, <1>13 DEF StreamInv, TakeFrame

\* ... and returns.
LEMMA CallbackReturnsStep ==
  ASSUME StreamInv, CallbackReturns
  PROVE  StreamInv' /\ Moves(conn, conn')
<1>1. input_buffer_ \in BuffersOf(Byte)
  BY DEF StreamInv, Buffers
<1>2. Shrink(input_buffer_, 0) \in BuffersOf(Byte)
  BY <1>1, ByteFacts, ShrunkInOrder
<1>3. input_buffer_' \in Buffers
  BY <1>1, <1>2 DEF CallbackReturns, Buffers
<1>4. Good(conn')
  BY DEF StreamInv, CallbackReturns
<1> QED
  BY <1>3, <1>4, StaysMoves DEF StreamInv, CallbackReturns

\* handle_close() takes the connection down and leaves its bytes.
GoesDown(c, d) == d.sent = c.sent /\ Pending(d) = Pending(c) /\ Status(d) = "down"

\* That keeps the first invariant.
LEMMA TakeDownStep ==
  ASSUME StreamInv, TakeDown
  PROVE  StreamInv' /\ GoesDown(conn, conn')
<1> DEFINE d == [conn EXCEPT !.state_ = "DISCONNECTED", !.writing = FALSE]
<1>1. conn' = d /\ ConnTyped(conn)
  BY DEF TakeDown, StreamInv, Good
<1>2. /\ ConnTyped(d) /\ d.sent = conn.sent /\ Pending(d) = Pending(conn)
      /\ d.state_ = "DISCONNECTED" /\ d.writing = FALSE
  BY <1>1 DEF ConnTyped, Pending
<1> HIDE DEF d
<1>3. Good(d) /\ GoesDown(conn, d)
  BY <1>2 DEF Good, WritesMatch, Told, Up, GoesDown, Status
<1> QED
  BY <1>1, <1>3 DEF StreamInv, TakeDown

\* What touches neither the bytes nor what decides about them.
LEMMA OtherField ==
  ASSUME NEW c, Good(c), NEW d, ConnTyped(d), d.sent = c.sent, d.output_buffer_ = c.output_buffer_,
         d.writing = c.writing, d.fin = c.fin, d.owed = c.owed, d.warned = c.warned, Up(c) <=> Up(d)
  PROVE  Good(d) /\ Moves(c, d)
<1>1. Pending(d) = Pending(c) /\ Status(d) = Status(c)
  BY DEF Pending, Status, Up
<1>2. Good(d)
  BY <1>1 DEF Good, WritesMatch, Told
<1> QED
  BY <1>1, <1>2, StaysMoves

\* force_close_with_delay() changes state_ only.
LEMMA ForceCloseStep ==
  ASSUME StreamInv, ForceCloseWithDelay
  PROVE  StreamInv' /\ Moves(conn, conn')
<1> DEFINE d == [conn EXCEPT !.state_ = "DISCONNECTING"]
<1>1. conn' = d /\ Good(conn) /\ ConnTyped(conn) /\ conn.state_ \in {"CONNECTED", "DISCONNECTING"}
  BY DEF ForceCloseWithDelay, StreamInv, Good
<1>2. /\ ConnTyped(d) /\ d.sent = conn.sent /\ d.output_buffer_ = conn.output_buffer_
      /\ d.writing = conn.writing /\ d.fin = conn.fin /\ d.owed = conn.owed
      /\ d.warned = conn.warned /\ d.state_ = "DISCONNECTING"
  BY <1>1 DEF ConnTyped
<1> HIDE DEF d
<1>3. Up(conn) <=> Up(d)
  BY <1>1, <1>2 DEF Up
<1>4. Good(d) /\ Moves(conn, d)
  BY <1>1, <1>2, <1>3, OtherField
<1> QED
  BY <1>1, <1>4 DEF StreamInv, ForceCloseWithDelay

\* A reset shows only when the connection writes next.
LEMMA PeerResetsStep ==
  ASSUME StreamInv, PeerResets
  PROVE  StreamInv' /\ Moves(conn, conn')
<1> DEFINE d == [conn EXCEPT !.reset = TRUE]
<1>1. conn' = d /\ Good(conn) /\ ConnTyped(conn)
  BY DEF PeerResets, StreamInv, Good
<1>2. /\ ConnTyped(d) /\ d.sent = conn.sent /\ d.output_buffer_ = conn.output_buffer_
      /\ d.writing = conn.writing /\ d.fin = conn.fin /\ d.owed = conn.owed
      /\ d.warned = conn.warned /\ (Up(conn) <=> Up(d))
  BY <1>1 DEF ConnTyped, Up
<1> HIDE DEF d
<1>3. Good(d) /\ Moves(conn, d)
  BY <1>1, <1>2, OtherField
<1> QED
  BY <1>1, <1>3 DEF StreamInv, PeerResets

\* The other thread reads state_ ...
LEMMA ThreadTestsStep ==
  ASSUME StreamInv, ThreadTests
  PROVE  StreamInv' /\ Moves(conn, conn')
<1>1. Good(conn') /\ Moves(conn, conn')
  BY StaysMoves DEF StreamInv, ThreadTests
<1>2. next' \in Nat \ {0} /\ (tested' => next' <= Len(Program))
  BY DEF StreamInv, ThreadTests
<1> QED
  BY <1>1, <1>2 DEF StreamInv, ThreadTests

\* ... posts a message ...
LEMMA ThreadPostsStep ==
  ASSUME StreamInv, ThreadPosts
  PROVE  StreamInv' /\ Moves(conn, conn')
<1> DEFINE f == [fn |-> "send", message |-> Program[next]]
           d == QueueInLoop(conn, f)
<1>1. conn' = d /\ Good(conn) /\ ConnTyped(conn)
  BY DEF ThreadPosts, StreamInv, Good
<1>2. f \in Functor
  <2>1. next \in 1..Len(Program)
    <3>1. Len(Program) \in Nat
      BY StreamAssumption, LenProperties
    <3> QED
      BY <3>1 DEF ThreadPosts, StreamInv
  <2>2. Program[next] \in Posting
    BY <2>1, StreamAssumption, ElementOfSeq DEF Posting
  <2> QED
    BY <2>2 DEF Functor
<1> HIDE DEF f
<1>3. d.output_buffer_ = conn.output_buffer_
  BY <1>1 DEF QueueInLoop, ConnTyped
<1>4. /\ ConnTyped(d) /\ d.sent = conn.sent /\ d.writing = conn.writing /\ d.fin = conn.fin
      /\ d.owed = conn.owed /\ d.warned = conn.warned /\ d.state_ = conn.state_
  BY <1>1, <1>2, Posted
<1> HIDE DEF d
<1>5. Up(conn) <=> Up(d)
  BY <1>4 DEF Up
<1>6. Good(d) /\ Moves(conn, d)
  BY <1>1, <1>3, <1>4, <1>5, OtherField
<1>7. next' \in Nat \ {0} /\ tested' = FALSE
  BY DEF StreamInv, ThreadPosts
<1> QED
  BY <1>1, <1>6, <1>7 DEF StreamInv, ThreadPosts

\* ... or shuts the connection down, from its functor.
LEMMA ThreadShutsStep ==
  ASSUME StreamInv, ThreadShuts
  PROVE  StreamInv' /\ Moves(conn, conn')
<1> DEFINE f == [fn |-> "shutdown_in_loop"]
           c == [conn EXCEPT !.state_ = "DISCONNECTING", !.shut = TRUE]
           d == QueueInLoop(c, f)
<1>1. conn' = d /\ Good(conn) /\ ConnTyped(conn) /\ conn.state_ = "CONNECTED"
  BY DEF ThreadShuts, StreamInv, Good
<1>2. f \in Functor
  BY DEF Functor
<1> HIDE DEF f
<1>3. /\ ConnTyped(c) /\ c.sent = conn.sent /\ c.output_buffer_ = conn.output_buffer_
      /\ c.writing = conn.writing /\ c.fin = conn.fin /\ c.owed = conn.owed
      /\ c.warned = conn.warned /\ c.state_ = "DISCONNECTING"
  BY <1>1 DEF ConnTyped
<1> HIDE DEF c
<1>4. d.output_buffer_ = c.output_buffer_
  BY <1>3 DEF QueueInLoop, ConnTyped
<1>5. /\ ConnTyped(d) /\ d.sent = c.sent /\ d.writing = c.writing /\ d.fin = c.fin
      /\ d.owed = c.owed /\ d.warned = c.warned /\ d.state_ = c.state_
  BY <1>2, <1>3, Posted
<1> HIDE DEF d
<1>6. Up(conn) <=> Up(d)
  BY <1>1, <1>3, <1>5 DEF Up
<1>7. Good(d) /\ Moves(conn, d)
  BY <1>1, <1>3, <1>4, <1>5, <1>6, OtherField
<1> QED
  BY <1>1, <1>7 DEF StreamInv, ThreadShuts

\* Every step keeps the invariant and moves the stream as it may move.
LEMMA StreamStep ==
  ASSUME StreamInv, [Next]_vars
  PROVE  StreamInv' /\ (Moves(conn, conn') \/ GoesDown(conn, conn'))
<1>1. CASE UNCHANGED vars
  <2>1. conn' = conn /\ StreamInv'
    BY <1>1 DEF StreamInv, vars
  <2> QED
    BY <2>1, StaysMoves
<1>2. CASE Next
  BY <1>2, HandleWriteStep, RunFunctorStep, HandleReadStep, TakeFrameStep, CallbackReturnsStep,
     ForceCloseStep, TakeDownStep, PeerResetsStep, ThreadTestsStep, ThreadPostsStep, ThreadShutsStep
     DEF Next
<1> QED
  BY <1>1, <1>2

\* The buffers stay buffers, writing is enabled exactly while bytes wait, and the
\* stream has ended only when none do (tcp_conn.cpp, send_in_loop, handle_write and
\* shutdown_in_loop).
THEOREM StreamInvariant == Spec => []StreamInv
<1>1. Init => StreamInv
  BY InitGood
<1>2. StreamInv /\ [Next]_vars => StreamInv'
  BY StreamStep
<1> QED
  BY <1>1, <1>2, PTL DEF Spec

\* The write complete callback and the high water mark callback come when they
\* are due (tcp_conn.cpp:51, 103 and 126).
THEOREM CallbacksCome == Spec => []CallbacksTold
<1>1. StreamInv => CallbacksTold
  BY DEF StreamInv, Good, Told, CallbacksTold, Up
<1> QED
  BY <1>1, StreamInvariant, PTL

\* A sequence is a prefix of itself with something behind.
LEMMA PrefixOfConcat ==
  ASSUME NEW S, NEW s \in Seq(S), NEW t \in Seq(S)
  PROVE  IsPrefix(s, s \o t)
<1> DEFINE n == Len(s)
<1>1. n \in Nat /\ 0 \in Nat /\ 0 <= n /\ n <= Len(s)
  BY LenProperties
<1>2. n <= Len(s \o t)
  BY ConcatProperties, LenProperties
<1>3. SubSeq(s \o t, 0 + 1, n) = SubSeq(s, 0 + 1, n)
  <2> HIDE DEF n
  <2> QED
    BY <1>1, ReadBefore, Zenon
<1> QED
  BY <1>2, <1>3 DEF IsPrefix

\* The connection is a ByteStream, step by step: what is accepted comes behind,
\* what the kernel takes comes from the front, and the stream ends only when all
\* of it was taken (tcp_conn.cpp, send_in_loop, handle_write and shutdown_in_loop).
THEOREM ConnectionIsStream == Spec => ImplementsStream
<1>1. Init => Stream!Init
  <2> SUFFICES ASSUME Init PROVE Stream!Init
    OBVIOUS
  <2> DEFINE fresh == New(INITIAL_SIZE)
  <2>1. Content(fresh) = <<>>
    BY ByteFacts, Created, SizesAssumption
  <2> HIDE DEF fresh
  <2>2. /\ conn.output_buffer_ = fresh /\ conn.sent = <<>> /\ conn.state_ = "CONNECTED"
        /\ conn.fin = FALSE
    BY DEF Init, Connection, fresh
  <2> QED
    BY <2>1, <2>2 DEF Stream!Init, Pending
<1>2. StreamInv /\ [Next]_vars => [Stream!Next]_(Stream!vars)
  <2> SUFFICES ASSUME StreamInv, [Next]_vars PROVE [Stream!Next]_(Stream!vars)
    OBVIOUS
  <2>1. ConnTyped(conn)
    BY DEF StreamInv, Good
  <2>2. Moves(conn, conn') \/ GoesDown(conn, conn')
    BY StreamStep
  <2>3. CASE Stays(conn, conn')
    BY <2>3 DEF Stays, Status, Stream!vars
  <2>4. CASE GoesDown(conn, conn')
    BY <2>4 DEF GoesDown, Status, Stream!Next, Stream!GoDown
  <2>5. CASE Advances(conn, conn')
    <3>1. PICK taken \in Seq(Byte), more \in Seq(Byte) :
            /\ conn'.sent = conn.sent \o taken
            /\ conn'.sent \o Pending(conn') = (conn.sent \o Pending(conn)) \o more
      BY <2>5 DEF Advances
    <3>2. IsPrefix(conn.sent, conn'.sent)
      <4>1. conn.sent \in Seq(Byte)
        BY <2>1, ConnFields
      <4>2. IsPrefix(conn.sent, conn.sent \o taken)
        BY <4>1, PrefixOfConcat
      <4> QED
        BY <3>1, <4>2
    <3>3. IsPrefix(conn.sent \o Pending(conn), conn'.sent \o Pending(conn'))
      <4> DEFINE all == conn.sent \o Pending(conn)
      <4>1. all \in Seq(Byte)
        BY <2>1, ConnFields, ConcatProperties
      <4> HIDE DEF all
      <4>2. IsPrefix(all, all \o more)
        BY <4>1, PrefixOfConcat
      <4> QED
        BY <3>1, <4>2 DEF all
    <3>4. Stream!Forward
      BY <2>5, <3>2, <3>3 DEF Stream!Forward, Stream!IsPrefix, IsPrefix, Advances, Status
    <3> QED
      BY <2>5, <3>4 DEF Advances, Status, Stream!Next, Stream!Transfer, Stream!Close
  <2> QED
    BY <2>2, <2>3, <2>4, <2>5 DEF Moves
<1> QED
  BY <1>1, <1>2, StreamInvariant, PTL DEF Spec, ImplementsStream, Stream!Spec

-----------------------------------------------------------------------------
(* The messages.                                                            *)

\* One message more is its bytes more.
LEMMA BytesAppend ==
  ASSUME NEW ms \in Seq(Message), NEW m \in Message
  PROVE  Bytes(ms) \in Seq(Byte) /\ Bytes(Append(ms, m)) = Bytes(ms) \o m.data
<1> DEFINE g == [x \in Message |-> x.data]
           Y == Seq(Byte)
           more == Append(ms, m)
<1>1. \A x \in Message : g[x] = x.data /\ g[x] \in Y
  BY DEF Message
<1> HIDE DEF g
<1>2. more \in Seq(Message)
  BY AppendProperties
<1> HIDE DEF more
<1>3. Bytes(ms) = FlattenSeq(Each(g, ms)) /\ Bytes(more) = FlattenSeq(Each(g, more))
  <2>1. \A i \in 1..Len(ms) : g[ms[i]] = ms[i].data
    BY <1>1, ElementOfSeq
  <2>2. \A i \in 1..Len(more) : g[more[i]] = more[i].data
    BY <1>1, <1>2, ElementOfSeq
  <2> QED
    BY <2>1, <2>2 DEF Bytes, Each
<1> HIDE DEF Y
<1>0. Maps(g, Message, Y)
  BY <1>1 DEF Maps
<1>4. Each(g, Append(ms, m)) = Append(Each(g, ms), g[m])
  BY <1>0, EachAppend
<1>5. Each(g, ms) \in Seq(Y) /\ g[m] \in Y
  BY <1>0, <1>1, EachTyped
<1> DEFINE seqs == Each(g, ms)
           s == g[m]
<1>6. seqs \in Seq(Seq(Byte)) /\ s \in Seq(Byte)
  BY <1>5 DEF Y
<1> HIDE DEF seqs, s
<1>7. FlattenSeq(seqs) \in Seq(Byte) /\ FlattenSeq(Append(seqs, s)) = FlattenSeq(seqs) \o s
  BY <1>6, FlattenAppend
<1> QED
  BY <1>1, <1>3, <1>4, <1>7 DEF seqs, s, more

\* One message more is one more of its kind.
LEMMA OfAppend ==
  ASSUME NEW kinds, NEW ms \in Seq(Message), NEW m \in Message
  PROVE  /\ Of(ms, kinds) \in Seq(Message)
         /\ m.kind \in kinds => Of(Append(ms, m), kinds) = Append(Of(ms, kinds), m)
         /\ m.kind \notin kinds => Of(Append(ms, m), kinds) = Of(ms, kinds)
<1> DEFINE g == [x \in Message |-> IF x.kind \in kinds THEN <<x>> ELSE <<>>]
           Y == Seq(Message)
           more == Append(ms, m)
<1>1. \A x \in Message : g[x] = (IF x.kind \in kinds THEN <<x>> ELSE <<>>) /\ g[x] \in Y
  <2>1. \A x \in Message : <<x>> \in Y /\ <<>> \in Y
    OBVIOUS
  <2> QED
    BY <2>1
<1> HIDE DEF g
<1>2. more \in Seq(Message)
  BY AppendProperties
<1> HIDE DEF more
<1>3. Of(ms, kinds) = FlattenSeq(Each(g, ms)) /\ Of(more, kinds) = FlattenSeq(Each(g, more))
  <2>1. \A i \in 1..Len(ms) : g[ms[i]] = IF ms[i].kind \in kinds THEN <<ms[i]>> ELSE <<>>
    BY <1>1, ElementOfSeq
  <2>2. \A i \in 1..Len(more) : g[more[i]] = IF more[i].kind \in kinds THEN <<more[i]>> ELSE <<>>
    BY <1>1, <1>2, ElementOfSeq
  <2> QED
    BY <2>1, <2>2 DEF Of, Each
<1> HIDE DEF Y
<1>0. Maps(g, Message, Y)
  BY <1>1 DEF Maps
<1>4. Each(g, Append(ms, m)) = Append(Each(g, ms), g[m])
  BY <1>0, EachAppend
<1>5. Each(g, ms) \in Seq(Y) /\ g[m] \in Y
  BY <1>0, <1>1, EachTyped
<1> DEFINE seqs == Each(g, ms)
           s == g[m]
<1>6. seqs \in Seq(Seq(Message)) /\ s \in Seq(Message)
  BY <1>5 DEF Y
<1> HIDE DEF seqs, s
<1>7. FlattenSeq(seqs) \in Seq(Message) /\ FlattenSeq(Append(seqs, s)) = FlattenSeq(seqs) \o s
  BY <1>6, FlattenAppend
<1>8. Of(more, kinds) = Of(ms, kinds) \o s /\ Of(ms, kinds) \in Seq(Message)
  BY <1>3, <1>4, <1>7 DEF seqs, s, more
<1>9. CASE m.kind \in kinds
  <2>1. s = <<m>>
    BY <1>1, <1>9 DEF s
  <2>2. Append(Of(ms, kinds), m) = Of(ms, kinds) \o <<m>>
    BY <1>8, AppendIsConcat
  <2> QED
    BY <1>8, <1>9, <2>1, <2>2 DEF more
<1>10. CASE m.kind \notin kinds
  <2>1. s = <<>>
    BY <1>1, <1>10 DEF s
  <2>2. Of(ms, kinds) \o <<>> = Of(ms, kinds)
    BY <1>8, ConcatEmptySeq
  <2> QED
    BY <1>8, <1>10, <2>1, <2>2 DEF more
<1> QED
  BY <1>9, <1>10

\* The message of a functor, if it has one.
Carried(f) == IF f.fn = "send" THEN <<f.message>> ELSE <<>>

\* It is a message of the other thread.
LEMMA CarriedTyped == \A f \in Functor : Carried(f) \in Seq(Posting)
<1> SUFFICES ASSUME NEW f \in Functor PROVE Carried(f) \in Seq(Posting)
  OBVIOUS
<1>1. CASE f.fn = "send"
  <2>1. f.message \in Posting
    BY <1>1 DEF Functor
  <2>2. <<f.message>> \in Seq(Posting)
    BY <2>1
  <2> QED
    BY <1>1, <2>2 DEF Carried
<1>2. CASE f.fn # "send"
  BY <1>2, EmptySeq DEF Carried
<1> QED
  BY <1>1, <1>2

\* What waits in the queue, with a functor more and without the first.
LEMMA QueuedSteps ==
  ASSUME NEW q \in Seq(Functor)
  PROVE  /\ Queued(q) \in Seq(Posting)
         /\ \A f \in Functor : Queued(Append(q, f)) = Queued(q) \o Carried(f)
         /\ q # <<>> => Queued(q) = Carried(Head(q)) \o Queued(Tail(q))
<1> DEFINE g == [f \in Functor |-> Carried(f)]
           Y == Seq(Posting)
<1>1. \A f \in Functor : g[f] = Carried(f) /\ g[f] \in Y
  BY CarriedTyped
<1>0. Maps(g, Functor, Y)
  BY <1>1 DEF Maps
<1> HIDE DEF g, Y
<1>2. ASSUME NEW p \in Seq(Functor)
      PROVE  Queued(p) = FlattenSeq(Each(g, p)) /\ Each(g, p) \in Seq(Y)
  <2>1. \A i \in 1..Len(p) : g[p[i]] = IF p[i].fn = "send" THEN <<p[i].message>> ELSE <<>>
    BY <1>1, ElementOfSeq DEF Carried
  <2>2. Each(g, p) \in Seq(Y)
    BY <1>0, EachTyped
  <2> QED
    BY <2>1, <2>2 DEF Queued, Each
<1> DEFINE seqs == Each(g, q)
<1>3. seqs \in Seq(Seq(Posting)) /\ Queued(q) = FlattenSeq(seqs)
  BY <1>2 DEF Y
<1>4. Queued(q) \in Seq(Posting)
  <2> DEFINE none == <<>>
  <2>1. none \in Seq(Posting)
    BY EmptySeq
  <2> HIDE DEF seqs, none
  <2> QED
    BY <1>3, <2>1, FlattenAppend
<1>5. ASSUME NEW f \in Functor PROVE Queued(Append(q, f)) = Queued(q) \o Carried(f)
  <2> DEFINE more == Append(q, f)
             s == g[f]
  <2>1. more \in Seq(Functor)
    BY AppendProperties
  <2>2. Each(g, more) = Append(seqs, s)
    BY <1>0, EachAppend
  <2> HIDE DEF more
  <2>3. Queued(more) = FlattenSeq(Each(g, more))
    BY <1>2, <2>1
  <2>4. s \in Seq(Posting) /\ s = Carried(f)
    BY <1>1 DEF Y
  <2> HIDE DEF seqs, s
  <2>5. FlattenSeq(Append(seqs, s)) = FlattenSeq(seqs) \o s
    BY <1>3, <2>4, FlattenAppend
  <2> QED
    BY <1>3, <2>2, <2>3, <2>4, <2>5 DEF more
<1>6. ASSUME q # <<>> PROVE Queued(q) = Carried(Head(q)) \o Queued(Tail(q))
  <2> DEFINE f == Head(q)
             rest == Tail(q)
  <2>1. f \in Functor /\ rest \in Seq(Functor)
    BY <1>6, HeadTailProperties
  <2>2. seqs # <<>> /\ Head(seqs) = g[f] /\ Tail(seqs) = Each(g, rest)
    BY <1>0, <1>6, EachFirst
  <2> HIDE DEF f, rest, seqs
  <2>3. FlattenSeq(seqs) = Head(seqs) \o FlattenSeq(Tail(seqs))
    BY <1>3, <2>2, FlattenFirst
  <2>4. Queued(rest) = FlattenSeq(Each(g, rest)) /\ g[f] = Carried(f)
    BY <1>1, <1>2, <2>1
  <2> QED
    BY <1>3, <2>2, <2>3, <2>4 DEF f, rest
<1> QED
  BY <1>4, <1>5, <1>6

-----------------------------------------------------------------------------
(* What a connection has of the messages.                                   *)

\* The bytes of the messages are sent or wait.
Kept(c) == c.sent \o Pending(c) = Bytes(c.accepted)

NoEnd(queue) == \A i \in 1..Len(queue) : queue[i].fn # "shutdown_in_loop"

\* Whoever ends the stream, or will, has left CONNECTED before.
StaysOpen(c) == c.state_ = "CONNECTED" => ~c.fin /\ NoEnd(c.queue)

Live(c) == c.state_ = "CONNECTED" /\ ~c.reset

Echoes(c) == Bytes(Of(c.accepted, {"echo"}))

\* All the payloads r are answered.
Answered(c, r) == Live(c) => Whole(Echoes(c)) /\ Payloads(Echoes(c)) = r

Posts(c) == Of(c.accepted, {"raw", "buffer"}) \o Queued(c.queue)

\* The messages before the k-th are accepted or wait in the queue.
Delivered(c, k) == Live(c) => Posts(c) = SubSeq(Program, 1, k - 1)

\* All of this.
Faithful(c, r, k) == Kept(c) /\ StaysOpen(c) /\ Answered(c, r) /\ Delivered(c, k)

\* A functor that does not end the stream, or the one that is run.
LEMMA NoEndSteps ==
  ASSUME NEW q \in Seq(Functor), NoEnd(q)
  PROVE  /\ \A f \in Functor : f.fn # "shutdown_in_loop" => NoEnd(Append(q, f))
         /\ q # <<>> => NoEnd(Tail(q)) /\ Head(q).fn # "shutdown_in_loop"
<1>1. ASSUME NEW f \in Functor, f.fn # "shutdown_in_loop" PROVE NoEnd(Append(q, f))
  <2> DEFINE more == Append(q, f)
  <2>1. Len(q) \in Nat /\ Len(more) = Len(q) + 1
    BY LenProperties, AppendProperties
  <2>2. \A i \in 1..Len(q) : more[i] = q[i]
    BY AppendProperties
  <2>3. more[Len(q) + 1] = f
    BY AppendProperties
  <2> HIDE DEF more
  <2>4. ASSUME NEW i \in 1..Len(more) PROVE more[i].fn # "shutdown_in_loop"
    <3>1. CASE i \in 1..Len(q)
      BY <2>2, <3>1 DEF NoEnd
    <3>2. CASE i = Len(q) + 1
      BY <1>1, <2>3, <3>2
    <3> QED
      BY <2>1, <3>1, <3>2
  <2> QED
    BY <2>4 DEF NoEnd, more
<1>2. ASSUME q # <<>> PROVE NoEnd(Tail(q)) /\ Head(q).fn # "shutdown_in_loop"
  <2> DEFINE rest == Tail(q)
  <2>1. Len(q) \in Nat /\ Len(q) # 0
    BY <1>2, LenProperties, EmptySeq
  <2>2. rest \in Seq(Functor) /\ Len(rest) = Len(q) - 1
    BY <1>2, HeadTailProperties
  <2>3. \A i \in 1..Len(rest) : rest[i] = q[i + 1]
    BY <1>2, HeadTailProperties
  <2>4. Head(q) = q[1]
    BY <1>2, HeadTailProperties
  <2> HIDE DEF rest
  <2>5. ASSUME NEW i \in 1..Len(rest) PROVE rest[i].fn # "shutdown_in_loop"
    <3>1. i + 1 \in 1..Len(q)
      BY <2>1, <2>2
    <3> QED
      BY <2>3, <3>1 DEF NoEnd
  <2>6. 1 \in 1..Len(q)
    BY <2>1
  <2> QED
    BY <2>4, <2>5, <2>6 DEF NoEnd, rest
<1> QED
  BY <1>1, <1>2

\* A step that accepts nothing.
LEMMA QuietKeeps ==
  ASSUME NEW c, NEW d, NEW r, NEW k, Quiet(c, d), Faithful(c, r, k),
         d.sent \o Pending(d) = c.sent \o Pending(c)
  PROVE  Faithful(d, r, k)
<1>1. d.accepted = c.accepted /\ d.queue = c.queue /\ d.reset = c.reset
  BY DEF Quiet
<1>2. Kept(d)
  BY <1>1 DEF Kept, Faithful
<1>3. Live(d) => Live(c)
  BY <1>1 DEF Live, Quiet
<1>4. Answered(d, r)
  BY <1>1, <1>3 DEF Answered, Echoes, Faithful
<1>5. Delivered(d, k)
  BY <1>1, <1>3 DEF Delivered, Posts, Faithful
<1>6. StaysOpen(d)
  BY <1>1 DEF StaysOpen, Quiet, Faithful
<1> QED
  BY <1>2, <1>4, <1>5, <1>6 DEF Faithful

\* A callback in the queue is no message.
LEMMA CallsKeep ==
  ASSUME NEW c, ConnTyped(c), NEW d, Calls(c, d)
  PROVE  Queued(d.queue) = Queued(c.queue) /\ (NoEnd(c.queue) => NoEnd(d.queue))
<1>1. CASE d.queue = c.queue
  BY <1>1
<1>2. ASSUME NEW f \in Functor, f.fn \in {"write_complete", "high_water"},
             d.queue = Append(c.queue, f)
      PROVE  Queued(d.queue) = Queued(c.queue) /\ (NoEnd(c.queue) => NoEnd(d.queue))
  <2> DEFINE q == c.queue
  <2>1. q \in Seq(Functor)
    BY ConnFields
  <2> HIDE DEF q
  <2>2. Queued(Append(q, f)) = Queued(q) \o Carried(f) /\ Queued(q) \in Seq(Posting)
    BY <2>1, QueuedSteps
  <2>3. Carried(f) = <<>>
    BY <1>2 DEF Carried
  <2>4. Queued(q) \o <<>> = Queued(q)
    BY <2>2, ConcatEmptySeq
  <2>5. NoEnd(q) => NoEnd(Append(q, f))
    BY <1>2, <2>1, NoEndSteps
  <2> QED
    BY <1>2, <2>2, <2>3, <2>4, <2>5 DEF q
<1> QED
  BY <1>1, <1>2 DEF Calls

\* A message accepted.
LEMMA TakesKeep ==
  ASSUME NEW c, ConnTyped(c), NEW m \in Message, NEW d, Takes(c, d, m), Kept(c)
  PROVE  /\ Kept(d)
         /\ \A kinds : /\ Of(c.accepted, kinds) \in Seq(Message)
                       /\ m.kind \in kinds => Of(d.accepted, kinds) = Append(Of(c.accepted, kinds), m)
                       /\ m.kind \notin kinds => Of(d.accepted, kinds) = Of(c.accepted, kinds)
<1> DEFINE ms == c.accepted
<1>1. ms \in Seq(Message)
  BY ConnFields
<1>2. d.accepted = Append(ms, m) /\ d.sent \o Pending(d) = (c.sent \o Pending(c)) \o m.data
  BY DEF Takes
<1>3. c.sent \o Pending(c) = Bytes(ms)
  BY DEF Kept
<1> HIDE DEF ms
<1>4. Bytes(Append(ms, m)) = Bytes(ms) \o m.data
  BY <1>1, BytesAppend
<1>5. Kept(d)
  BY <1>2, <1>3, <1>4 DEF Kept
<1>6. ASSUME NEW kinds
      PROVE  /\ Of(ms, kinds) \in Seq(Message)
             /\ m.kind \in kinds => Of(d.accepted, kinds) = Append(Of(ms, kinds), m)
             /\ m.kind \notin kinds => Of(d.accepted, kinds) = Of(ms, kinds)
  BY <1>1, <1>2, OfAppend
<1> QED
  BY <1>5, <1>6 DEF ms

\* The functor that is run leaves the queue: what is no message is not missed.
LEMMA HeadGone ==
  ASSUME NEW c, ConnTyped(c), c.queue # <<>>, Head(c.queue).fn # "send",
         NEW e, e.queue = Tail(c.queue), e.sent = c.sent, Pending(e) = Pending(c),
         e.accepted = c.accepted, e.fin = c.fin, e.state_ = c.state_, e.reset = c.reset,
         NEW r, NEW k, Faithful(c, r, k)
  PROVE  Faithful(e, r, k)
<1> DEFINE q    == c.queue
           rest == Tail(q)
           none == <<>>
<1>1. q \in Seq(Functor) /\ rest \in Seq(Functor)
  BY ConnFields, HeadTailProperties
<1>2. q # none /\ e.queue = rest /\ Head(q).fn # "send"
  OBVIOUS
<1>3. Head(q) \in Functor
  BY ConnFields, HeadTailProperties
<1>4. NoEnd(q) => NoEnd(rest)
  BY <1>1, <1>2, NoEndSteps
<1> HIDE DEF rest
<1>5. Queued(rest) \in Seq(Posting)
  BY <1>1, QueuedSteps
<1>6. Queued(q) = Carried(Head(q)) \o Queued(rest)
  BY <1>1, <1>2, QueuedSteps DEF rest
<1>7. Carried(Head(q)) = none
  BY <1>2 DEF Carried
<1>8. none \o Queued(rest) = Queued(rest)
  BY <1>5, ConcatEmptySeq
<1> HIDE DEF none
<1>9. Queued(e.queue) = Queued(c.queue)
  BY <1>2, <1>6, <1>7, <1>8 DEF q
<1>10. StaysOpen(e)
  BY <1>2, <1>4 DEF StaysOpen, Faithful, q
<1>11. Kept(e) /\ Answered(e, r)
  BY DEF Kept, Answered, Echoes, Live, Faithful
<1>12. Delivered(e, k)
  BY <1>9 DEF Delivered, Posts, Live, Faithful
<1> QED
  BY <1>10, <1>11, <1>12 DEF Faithful

\* A message that another thread posted is accepted, or the connection has left
\* CONNECTED or is reset.
LEMMA PostingTaken ==
  ASSUME NEW c, ConnTyped(c), c.queue # <<>>, Head(c.queue).fn = "send",
         NEW e, ConnTyped(e), e.queue = Tail(c.queue), e.sent = c.sent, Pending(e) = Pending(c),
         e.accepted = c.accepted, e.fin = c.fin, e.state_ = c.state_, e.reset = c.reset,
         NEW d, Calls(e, d), d.state_ = e.state_, d.fin = e.fin, d.reset = e.reset,
         \/ Takes(e, d, Head(c.queue).message)
         \/ d = e /\ (e.state_ # "CONNECTED" \/ e.fin \/ e.reset),
         NEW r, NEW k, Faithful(c, r, k)
  PROVE  Faithful(d, r, k)
<1> DEFINE q    == c.queue
           f    == Head(q)
           rest == Tail(q)
           m    == f.message
           none == <<>>
<1>1. q \in Seq(Functor) /\ rest \in Seq(Functor) /\ f \in Functor
  BY ConnFields, HeadTailProperties
<1>2. q # none /\ e.queue = rest /\ f.fn = "send"
  OBVIOUS
<1>3. m \in Posting /\ m \in Message /\ m.kind \in {"raw", "buffer"} /\ m.kind \notin {"echo"}
  BY <1>1, <1>2 DEF Functor, Posting, Message
<1>4. NoEnd(q) => NoEnd(rest)
  BY <1>1, <1>2, NoEndSteps
<1>5. Queued(rest) \in Seq(Posting)
  BY <1>1, QueuedSteps
<1>6. Queued(q) = Carried(f) \o Queued(rest)
  BY <1>1, <1>2, QueuedSteps
<1>7. Carried(f) = <<m>>
  BY <1>2 DEF Carried
<1>8. Queued(d.queue) = Queued(rest) /\ (NoEnd(rest) => NoEnd(d.queue))
  BY <1>2, CallsKeep
<1>9. StaysOpen(d)
  BY <1>4, <1>8 DEF StaysOpen, Faithful
<1>10. CASE d = e /\ (e.state_ # "CONNECTED" \/ e.fin \/ e.reset)
  <2>1. ~Live(d)
    BY <1>10 DEF Live, StaysOpen, Faithful
  <2>2. Kept(d)
    BY <1>10 DEF Kept, Faithful
  <2> QED
    BY <1>9, <2>1, <2>2 DEF Faithful, Answered, Delivered
<1>11. CASE Takes(e, d, m)
  <2> HIDE DEF m, f, rest, q, none
  <2>1. Kept(e)
    BY DEF Kept, Faithful
  <2>2. Kept(d)
    BY <1>3, <1>11, <2>1, TakesKeep
  <2> DEFINE others == {"raw", "buffer"}
             echo   == {"echo"}
  <2>3. Of(e.accepted, others) \in Seq(Message) /\ Of(d.accepted, others) = Append(Of(e.accepted, others), m)
    BY <1>3, <1>11, <2>1, TakesKeep
  <2>4. Of(d.accepted, echo) = Of(e.accepted, echo)
    <3>1. m.kind \notin echo
      BY <1>3
    <3> HIDE DEF echo
    <3>2. ConnTyped(e) /\ m \in Message /\ Takes(e, d, m) /\ Kept(e)
      BY <1>3, <1>11, <2>1
    <3> QED
      BY <3>1, <3>2, TakesKeep
  <2>5. Answered(d, r)
    BY <2>4 DEF Answered, Echoes, Live, Faithful
  <2> DEFINE before == Of(e.accepted, others)
             later  == Queued(rest)
             one    == <<m>>
  <2>6. before \in Seq(Message) /\ later \in Seq(Message) /\ one \in Seq(Message)
    <3>1. Posting \subseteq Message
      BY DEF Posting, Message
    <3>2. later \in Seq(Message)
      BY <1>5, <3>1, SeqMonotonic
    <3> QED
      BY <1>3, <2>3, <3>2
  <2>7. Append(before, m) = before \o one
    BY <1>3, <2>3, AppendIsConcat
  <2> HIDE DEF before, later, one
  <2>8. (before \o one) \o later = before \o (one \o later)
    BY <2>6, ConcatAssociative
  <2>9. Posts(d) = Posts(c)
    BY <1>6, <1>7, <1>8, <2>3, <2>7, <2>8 DEF Posts, before, later, one, q, rest
  <2>10. Delivered(d, k)
    BY <2>9 DEF Delivered, Live, Faithful
  <2> QED
    BY <1>9, <2>2, <2>5, <2>10 DEF Faithful
<1> QED
  BY <1>10, <1>11

\* An answer is accepted, or the connection has left CONNECTED or is reset.
LEMMA EchoTaken ==
  ASSUME NEW c, ConnTyped(c), NEW m \in Message, m.kind = "echo",
         NEW p \in Seq(Byte), Len(m.data) = Len(p) + 1, m.data[1] = Len(p),
         \A i \in 1..Len(p) : m.data[i + 1] = p[i],
         NEW d, Calls(c, d), d.state_ = c.state_, d.fin = c.fin, d.reset = c.reset,
         Takes(c, d, m) \/ (d = c /\ (c.state_ # "CONNECTED" \/ c.fin \/ c.reset)),
         NEW r, NEW k, Faithful(c, r, k)
  PROVE  Faithful(d, r \o p, k)
<1>1. Queued(d.queue) = Queued(c.queue) /\ (NoEnd(c.queue) => NoEnd(d.queue))
  BY CallsKeep
<1>2. StaysOpen(d)
  BY <1>1 DEF StaysOpen, Faithful
<1>3. CASE d = c /\ (c.state_ # "CONNECTED" \/ c.fin \/ c.reset)
  <2>1. ~Live(d)
    BY <1>3 DEF Live, StaysOpen, Faithful
  <2>2. Kept(d)
    BY <1>3 DEF Kept, Faithful
  <2> QED
    BY <1>2, <2>1, <2>2 DEF Faithful, Answered, Delivered
<1>4. CASE Takes(c, d, m)
  <2>1. Kept(c) /\ ConnTyped(c) /\ m \in Message /\ Takes(c, d, m)
    BY <1>4 DEF Faithful
  <2>2. Kept(d)
    BY <2>1, TakesKeep
  <2> DEFINE others == {"raw", "buffer"}
             echo   == {"echo"}
  <2>3. m.kind \notin others /\ m.kind \in echo
    OBVIOUS
  <2> HIDE DEF others, echo
  <2>4. Of(d.accepted, others) = Of(c.accepted, others)
    BY <2>1, <2>3, TakesKeep
  <2>5. Of(c.accepted, echo) \in Seq(Message) /\ Of(d.accepted, echo) = Append(Of(c.accepted, echo), m)
    BY <2>1, <2>3, TakesKeep
  <2>6. Delivered(d, k)
    BY <1>1, <2>4 DEF Delivered, Posts, Live, Faithful, others
  <2>7. ASSUME Live(d) PROVE Whole(Echoes(d)) /\ Payloads(Echoes(d)) = r \o p
    <3>1. Whole(Echoes(c)) /\ Payloads(Echoes(c)) = r
      BY <2>7 DEF Live, Faithful, Answered
    <3> DEFINE es == Of(c.accepted, echo)
               s  == Bytes(es)
               z  == m.data
    <3>2. es \in Seq(Message)
      BY <2>5
    <3> HIDE DEF es
    <3>3. s \in Seq(Byte) /\ Bytes(Append(es, m)) = s \o z
      BY <3>2, BytesAppend
    <3>4. z \in Seq(Byte)
      BY DEF Message
    <3>5. Whole(s) /\ Payloads(s) = r
      BY <3>1 DEF Echoes, es, echo
    <3>6. Len(z) = Len(p) + 1 /\ z[1] = Len(p) /\ \A i \in 1..Len(p) : z[i + 1] = p[i]
      OBVIOUS
    <3> HIDE DEF s, z
    <3>7. Whole(s \o z) /\ Payloads(s \o z) = Payloads(s) \o p
      BY <3>3, <3>4, <3>5, <3>6, PayloadsAppend
    <3>8. Echoes(d) = s \o z
      BY <2>5, <3>3 DEF Echoes, es, echo
    <3> QED
      BY <3>5, <3>7, <3>8
  <2> QED
    BY <1>2, <2>2, <2>6, <2>7 DEF Faithful, Answered
<1> QED
  BY <1>3, <1>4

-----------------------------------------------------------------------------
(* The second invariant: the bytes and the messages.                        *)

\* `taken` bytes of Input have left input_buffer_, whole frames.
Consumed(taken) ==
  /\ Content(input_buffer_) = SubSeq(Input, taken + 1, arrived)
  /\ Whole(SubSeq(Input, 1, taken))
  /\ received = Payloads(SubSeq(Input, 1, taken))

IntactInv ==
  /\ Faithful(conn, received, next)
  /\ \E taken \in 0..arrived : Consumed(taken)

\* No messages.
LEMMA NoMessages ==
  /\ Bytes(<<>>) = <<>> /\ Queued(<<>>) = <<>> /\ \A kinds : Of(<<>>, kinds) = <<>>
<1> DEFINE none == <<>>
<1>1. Len(none) = 0 /\ \A f : [i \in 1..0 |-> f[i]] = none
  OBVIOUS
<1>2. [i \in 1..Len(none) |-> none[i].data] = none
  BY <1>1
<1>3. [i \in 1..Len(none) |-> IF none[i].fn = "send" THEN <<none[i].message>> ELSE <<>>] = none
  BY <1>1
<1>4. \A kinds : [i \in 1..Len(none) |-> IF none[i].kind \in kinds THEN <<none[i]>> ELSE <<>>] = none
  BY <1>1
<1> HIDE DEF none
<1>5. FlattenSeq(none) = none
  BY FlattenNothing DEF none
<1>6. Bytes(none) = none
  BY <1>2, <1>5 DEF Bytes
<1>7. Queued(none) = none
  BY <1>3, <1>5 DEF Queued, none
<1>8. \A kinds : Of(none, kinds) = none
  BY <1>4, <1>5 DEF Of, none
<1> QED
  BY <1>6, <1>7, <1>8 DEF none

\* Nothing is lost when the connection is established.
LEMMA InitIntact == Init => IntactInv
<1> SUFFICES ASSUME Init PROVE IntactInv
  OBVIOUS
<1> DEFINE none == <<>>
<1>1. /\ conn.sent = none /\ conn.queue = none /\ conn.accepted = none
      /\ conn.fin = FALSE
  BY DEF Init, Connection
<1>2. Pending(conn) = none /\ Content(input_buffer_) = none
  <2>1. conn.output_buffer_ = New(INITIAL_SIZE) /\ input_buffer_ = New(INITIAL_SIZE)
    BY DEF Init, Connection
  <2>2. Content(New(INITIAL_SIZE)) = <<>>
    BY SizesAssumption, ByteFacts, Created
  <2> QED
    BY <2>1, <2>2 DEF Pending
<1>3. arrived = 0 /\ received = none /\ next = 1
  BY DEF Init
<1>4. SubSeq(Program, 1, 0) = none /\ SubSeq(Input, 1, 0) = none
  BY StreamAssumption
<1>5. none \o none = none /\ Len(none) = 0
  OBVIOUS
<1>6. Bytes(none) = none /\ Queued(none) = none /\ \A kinds : Of(none, kinds) = none
  BY NoMessages
<1>7. Whole(none) /\ Payloads(none) = none
  BY NoFrames
<1> HIDE DEF none
<1>8. Kept(conn)
  BY <1>1, <1>2, <1>5, <1>6 DEF Kept
<1>9. StaysOpen(conn)
  BY <1>1, <1>5 DEF StaysOpen, NoEnd
<1>10. Answered(conn, received)
  BY <1>1, <1>3, <1>6, <1>7 DEF Answered, Echoes
<1>11. Delivered(conn, next)
  <2>1. SubSeq(Program, 1, next - 1) = none
    BY <1>3, <1>4
  <2> QED
    BY <1>1, <1>5, <1>6, <2>1 DEF Delivered, Posts
<1>12. Consumed(0)
  <2>1. SubSeq(Input, 0 + 1, arrived) = none /\ SubSeq(Input, 1, 0) = none
    BY <1>3, <1>4
  <2> QED
    BY <1>2, <1>3, <1>7, <2>1 DEF Consumed
<1> QED
  BY <1>3, <1>8, <1>9, <1>10, <1>11, <1>12 DEF IntactInv, Faithful

\* handle_write() moves bytes and accepts no message.
LEMMA HandleWriteIntact ==
  ASSUME StreamInv, IntactInv, HandleWrite
  PROVE  IntactInv'
<1>1. Good(conn) /\ Faithful(conn, received, next)
  BY DEF StreamInv, IntactInv
<1>2. PICK n \in 1..Len(Pending(conn)) : conn' \in Flushed(conn, n)
  BY DEF HandleWrite
<1>5. conn.writing /\ Up(conn)
  BY <1>1 DEF HandleWrite, Good, WritesMatch
<1>3. Quiet(conn, conn') /\ conn'.sent \o Pending(conn') = conn.sent \o Pending(conn)
  BY <1>1, <1>2, <1>5, FlushedStep
<1>4. Faithful(conn', received, next)
  BY <1>1, <1>3, QuietKeeps
<1> QED
  BY <1>4 DEF IntactInv, Consumed, HandleWrite

\* A functor is a message that is accepted, or none.
LEMMA RunFunctorIntact ==
  ASSUME StreamInv, IntactInv, RunFunctor
  PROVE  IntactInv'
<1> DEFINE f == Head(conn.queue)
           q == Tail(conn.queue)
           c == [conn EXCEPT !.queue = q]
<1>1. Good(conn) /\ ConnTyped(conn) /\ conn.queue # <<>> /\ Faithful(conn, received, next)
  BY DEF StreamInv, IntactInv, Good, RunFunctor
<1>2. f \in Functor /\ q \in Seq(Functor)
  BY <1>1, ConnFields, HeadTailProperties
<1>3. conn' \in CASE f.fn = "send" -> RunSend(c, f.message)
                  [] f.fn = "write_complete" -> {c, Shutdown(c)}
                  [] f.fn = "high_water" -> {c}
                  [] f.fn = "shutdown_in_loop" -> {ShutdownInLoop(c)}
  <2>1. c = [conn EXCEPT !.queue = Tail(@)]
    BY <1>1 DEF ConnTyped
  <2> HIDE DEF c
  <2> QED
    BY <2>1 DEF RunFunctor
<1> HIDE DEF f, q
<1>4. /\ ConnTyped(c) /\ c.sent = conn.sent /\ Pending(c) = Pending(conn) /\ c.fin = conn.fin
      /\ c.writing = conn.writing /\ c.owed = conn.owed /\ c.warned = conn.warned
      /\ c.state_ = conn.state_ /\ c.queue = q /\ c.accepted = conn.accepted
      /\ c.reset = conn.reset
  BY <1>1, <1>2 DEF ConnTyped, Pending
<1> HIDE DEF c
<1>5. Good(c)
  BY <1>1, <1>4 DEF Good, Told, WritesMatch, Up
<1>6. Faithful(conn', received, next)
  <2>1. CASE f.fn = "send"
    <3> DEFINE m == f.message
               d == conn'
    <3>1. m \in Message
      BY <1>2, <2>1 DEF Functor, Posting, Message
    <3>2. d \in RunSend(c, m)
      BY <1>3, <2>1
    <3>3. d \in Send(c, m) \/ d \in SendInLoop(c, m)
      BY <3>2 DEF RunSend
    <3> HIDE DEF m, d
    <3>4. /\ Calls(c, d) /\ d.state_ = c.state_ /\ d.fin = c.fin /\ d.reset = c.reset
          /\ Takes(c, d, m) \/ (d = c /\ (c.state_ # "CONNECTED" \/ c.fin \/ c.reset))
      <4>1. CASE d \in Send(c, m)
        BY <1>5, <3>1, <4>1, SendStep
      <4>2. CASE d \in SendInLoop(c, m)
        <5>1. /\ Calls(c, d) /\ d.state_ = c.state_ /\ d.fin = c.fin /\ d.reset = c.reset
              /\ Takes(c, d, m) \/ (d = c /\ (c.state_ = "DISCONNECTED" \/ c.fin \/ c.reset))
          BY <1>5, <3>1, <4>2, SendInLoopStep
        <5> QED
          BY <5>1
      <4> QED
        BY <3>3, <4>1, <4>2
    <3>5. /\ Head(conn.queue).fn = "send" /\ c.queue = Tail(conn.queue)
          /\ Takes(c, d, Head(conn.queue).message)
               \/ (d = c /\ (c.state_ # "CONNECTED" \/ c.fin \/ c.reset))
      BY <1>4, <2>1, <3>4 DEF f, q, m
    <3>6. Faithful(d, received, next)
      BY <1>1, <1>4, <3>4, <3>5, PostingTaken
    <3> QED
      BY <3>6 DEF d
  <2>2. CASE f.fn # "send"
    <3>1. Head(conn.queue).fn # "send" /\ c.queue = Tail(conn.queue)
      BY <1>4, <2>2 DEF f, q
    <3>2. Faithful(c, received, next)
      BY <1>1, <1>4, <3>1, HeadGone
    <3>3. CASE conn' = c
      BY <3>2, <3>3
    <3>4. CASE conn' = Shutdown(c)
      <4> DEFINE d == Shutdown(c)
      <4>1. d.sent = c.sent /\ Pending(d) = Pending(c) /\ Quiet(c, d)
        BY <1>5, ShutdownStep
      <4> HIDE DEF d
      <4>2. d.sent \o Pending(d) = c.sent \o Pending(c)
        BY <4>1
      <4>3. Faithful(d, received, next)
        BY <3>2, <4>1, <4>2, QuietKeeps
      <4> QED
        BY <3>4, <4>3 DEF d
    <3>5. CASE f.fn = "shutdown_in_loop" /\ conn' = ShutdownInLoop(c)
      <4> DEFINE d == ShutdownInLoop(c)
      <4>1. /\ d.sent = c.sent /\ Pending(d) = Pending(c) /\ d.state_ = c.state_
            /\ d.accepted = c.accepted /\ d.queue = c.queue /\ d.reset = c.reset
        BY <1>5, ShutdownInLoopStep
      <4> HIDE DEF d
      <4>2. conn.state_ # "CONNECTED"
        <5> DEFINE waiting == conn.queue
        <5>1. waiting \in Seq(Functor)
          BY <1>1, ConnFields
        <5>2. NoEnd(waiting) /\ waiting # <<>> => Head(waiting).fn # "shutdown_in_loop"
          <6> HIDE DEF waiting
          <6> QED
            BY <5>1, NoEndSteps
        <5> QED
          BY <1>1, <3>5, <5>2 DEF Faithful, StaysOpen, f
      <4>3. Quiet(c, d) /\ d.sent \o Pending(d) = c.sent \o Pending(c)
        BY <1>4, <4>1, <4>2 DEF Quiet
      <4>4. Faithful(d, received, next)
        BY <3>2, <4>3, QuietKeeps
      <4> QED
        BY <3>5, <4>4 DEF d
    <3>6. f.fn \in {"write_complete", "high_water", "shutdown_in_loop"}
      BY <1>2, <2>2 DEF Functor
    <3> QED
      BY <1>3, <3>3, <3>4, <3>5, <3>6
  <2> QED
    BY <2>1, <2>2
<1> QED
  BY <1>6 DEF IntactInv, Consumed, RunFunctor

\* A piece of a piece is a piece.
LEMMA PieceOfPiece ==
  ASSUME NEW S, NEW s \in Seq(S), NEW m \in Nat, NEW n \in Nat, 1 <= m, m <= n + 1, n <= Len(s),
         NEW a \in Nat, NEW b \in Nat, 1 <= a, a <= b + 1, b <= n + 1 - m
  PROVE  SubSeq(SubSeq(s, m, n), a, b) = SubSeq(s, m + a - 1, m + b - 1)
<1> DEFINE t     == SubSeq(s, m, n)
           x     == SubSeq(t, a, b)
           first == m + a - 1
           last  == m + b - 1
           y     == SubSeq(s, first, last)
<1>1. t \in Seq(S) /\ Len(t) = n + 1 - m /\ \A i \in 1..n + 1 - m : t[i] = s[m + i - 1]
  BY Piece
<1> HIDE DEF t
<1>2. x \in Seq(S) /\ Len(x) = b + 1 - a /\ \A i \in 1..b + 1 - a : x[i] = t[a + i - 1]
  BY <1>1, Piece
<1> HIDE DEF x
<1>3. first \in Nat /\ last \in Nat /\ 1 <= first /\ first <= last + 1 /\ last <= Len(s)
      /\ first = m + a - 1 /\ last = m + b - 1
  BY LenProperties
<1> HIDE DEF first, last
<1>4. y \in Seq(S) /\ Len(y) = last + 1 - first /\ \A i \in 1..last + 1 - first : y[i] = s[first + i - 1]
  BY <1>3, Piece
<1> HIDE DEF y
<1>5. Len(x) = Len(y)
  BY <1>2, <1>3, <1>4
<1>6. ASSUME NEW i \in 1..Len(x) PROVE x[i] = y[i]
  <2> DEFINE k == a + i - 1
  <2>1. k \in 1..n + 1 - m /\ m + k - 1 = first + i - 1
    BY <1>2, <1>3
  <2>2. x[i] = t[k]
    BY <1>2
  <2> HIDE DEF k
  <2>3. t[k] = s[first + i - 1]
    BY <1>1, <2>1
  <2>4. y[i] = s[first + i - 1]
    BY <1>4, <1>5
  <2> QED
    BY <2>2, <2>3, <2>4
<1>7. x = y
  BY <1>2, <1>4, <1>5, <1>6, SeqEqual
<1> QED
  BY <1>7 DEF x, y, t, first, last


\* What readv returned is appended to what has not been taken.
LEMMA HandleReadIntact ==
  ASSUME StreamInv, IntactInv, HandleRead
  PROVE  IntactInv'
<1>1. PICK n \in 1..Len(Input) - arrived :
        /\ arrived' = arrived + n
        /\ input_buffer_' = AppendFromFd(input_buffer_, SubSeq(Input, arrived + 1, arrived + n))
  BY DEF HandleRead
<1>2. /\ Input \in Seq(Byte) /\ Len(Input) \in Nat /\ arrived \in 0..Len(Input)
      /\ input_buffer_ \in BuffersOf(Byte)
  BY StreamAssumption, LenProperties DEF StreamInv, Buffers
<1>3. PICK taken \in 0..arrived : Consumed(taken)
  BY DEF IntactInv
<1> DEFINE m    == taken + 1
           end  == arrived + n
           data == SubSeq(Input, arrived + 1, end)
<1>4. Content(input_buffer_) = SubSeq(Input, m, arrived)
  BY <1>3 DEF Consumed
<1>5. m \in 1..Len(Input) + 1 /\ arrived \in m - 1..Len(Input) /\ end \in arrived..Len(Input)
  BY <1>2, <1>3
<1>6. data \in Seq(Byte)
  <2> DEFINE first == arrived + 1
  <2>1. first \in Nat /\ end \in Nat /\ 1 <= first /\ first <= end + 1 /\ end <= Len(Input)
    BY <1>2
  <2> HIDE DEF first, end
  <2> QED
    BY <1>2, <2>1, Piece DEF first
<1>7. Content(input_buffer_') = Content(input_buffer_) \o data
  <2>1. input_buffer_' = AppendFromFd(input_buffer_, data)
    BY <1>1
  <2> HIDE DEF data
  <2> QED
    BY <1>2, <1>6, <2>1, ByteFacts, ReadInOrder
<1>8. Content(input_buffer_') = SubSeq(Input, m, end)
  <2> HIDE DEF m, end
  <2>1. SubSeq(Input, m, arrived) \o SubSeq(Input, arrived + 1, end) = SubSeq(Input, m, end)
    BY <1>2, <1>5, ConcatAdjacentSubSeq
  <2> QED
    BY <1>4, <1>7, <2>1
<1>9. UNCHANGED <<conn, received, next>>
  BY DEF HandleRead
<1>10. taken \in 0..arrived' /\ Consumed(taken)'
  BY <1>1, <1>2, <1>3, <1>8, <1>9 DEF Consumed
<1> QED
  BY <1>9, <1>10 DEF IntactInv

\* What the callback takes out of input_buffer_ is the next frame of Input.
LEMMA TakeFrameIntact ==
  ASSUME StreamInv, IntactInv, TakeFrame
  PROVE  IntactInv'
<1> DEFINE b == input_buffer_
           v == PeekInt(b, 1)
           p == Pop(b, 1)
           s == SubSeq(Content(p), 1, v)
           m == [kind |-> "echo", data |-> Framed(s)]
<1>1. b \in BuffersOf(Byte) /\ readable_bytes(b) >= 1 /\ v \in 0..readable_bytes(b) - 1
  BY DEF StreamInv, Buffers, TakeFrame, FrameReady
<1>2. input_buffer_' = Pop(p, v) /\ conn' \in Send(conn, m) /\ received' = received \o s
  <2>1. PICK length \in {ReadInt(b, 1)} :
          \E payload \in {PopAsString(length.buffer, length.value)} :
          \E reply \in {[kind |-> "echo", data |-> Framed(payload.string)]} :
            /\ input_buffer_' = payload.buffer /\ conn' \in Send(conn, reply)
            /\ received' = received \o payload.string
    BY DEF TakeFrame
  <2>2. PICK payload \in {PopAsString(length.buffer, length.value)} :
          \E reply \in {[kind |-> "echo", data |-> Framed(payload.string)]} :
            /\ input_buffer_' = payload.buffer /\ conn' \in Send(conn, reply)
            /\ received' = received \o payload.string
    BY <2>1
  <2>3. length.value = v /\ length.buffer = p
    BY <2>1 DEF ReadInt
  <2>4. payload.string = s /\ payload.buffer = Pop(p, v)
    BY <2>2, <2>3 DEF PopAsString
  <2> HIDE DEF v, p, s
  <2> QED
    BY <2>2, <2>4
<1>3. PICK taken \in 0..arrived : Consumed(taken)
  BY DEF IntactInv
<1>4. /\ Input \in Seq(Byte) /\ Len(Input) \in Nat /\ arrived \in 0..Len(Input)
      /\ Good(conn) /\ ConnTyped(conn) /\ Faithful(conn, received, next)
  BY StreamAssumption, LenProperties DEF StreamInv, IntactInv, Good
<1>5. Len(Content(b)) = readable_bytes(b) /\ Content(b) \in Seq(Byte)
  BY <1>1, Readable
<1>6. v = Content(b)[1] /\ v \in Byte
  <2>1. b \in Buffers /\ readable_bytes(b) >= 1 /\ PeekInt(b, 1) >= 0
    BY <1>1, Fields DEF Buffers, readable_bytes
  <2> QED
    BY <2>1, LengthRead DEF v
<1>7. p \in BuffersOf(Byte) /\ Content(p) = SubSeq(Content(b), 1 + 1, Len(Content(b)))
  BY <1>1, ByteFacts, PoppedInOrder
<1>8. v \in Nat
  BY <1>6, SizesAssumption DEF Byte
<1>9. Content(Pop(p, v)) = SubSeq(Content(p), v + 1, Len(Content(p)))
  BY <1>7, <1>8, ByteFacts, PoppedInOrder
<1> HIDE DEF b, v, p
<1> DEFINE first == taken + 1
           held  == arrived - taken
           after == taken + 1 + v
           x     == SubSeq(Input, first, arrived)
           z     == SubSeq(Input, first, after)
<1>10. /\ taken \in Nat /\ arrived \in Nat /\ taken <= arrived /\ arrived <= Len(Input)
       /\ first \in Nat /\ 1 <= first /\ first <= arrived + 1 /\ first = taken + 1
       /\ held \in Nat /\ held = arrived + 1 - first
  BY <1>3, <1>4
<1>11. Content(b) = x
  BY <1>3 DEF Consumed, b
<1> HIDE DEF first
<1>12. x \in Seq(Byte) /\ Len(x) = held /\ \A i \in 1..held : x[i] = Input[first + i - 1]
  BY <1>4, <1>10, Piece
<1> HIDE DEF x, held
<1>13. v + 1 <= held /\ after \in Nat /\ after <= arrived /\ after = first + v
  BY <1>1, <1>5, <1>8, <1>10, <1>11, <1>12 DEF held, first
<1> HIDE DEF after
\* what is behind the length
<1>14. Content(p) = SubSeq(Input, first + 1, arrived) /\ Len(Content(p)) = held - 1
  <2> DEFINE two == 1 + 1
  <2>1. two \in Nat /\ 1 <= two /\ two <= held + 1 /\ held <= arrived + 1 - first /\ two = 2
    BY <1>10, <1>13, <1>8
  <2>2. Content(p) = SubSeq(x, two, held)
    BY <1>7, <1>11, <1>12
  <2> HIDE DEF two
  <2>3. SubSeq(SubSeq(Input, first, arrived), two, held) = SubSeq(Input, first + two - 1, first + held - 1)
    BY <1>4, <1>10, <2>1, PieceOfPiece
  <2>4. first + two - 1 = first + 1 /\ first + held - 1 = arrived
    BY <1>10, <2>1
  <2>5. Len(SubSeq(x, two, held)) = held + 1 - two
    BY <1>10, <1>12, <2>1, Piece
  <2> QED
    BY <1>10, <2>1, <2>2, <2>3, <2>4, <2>5 DEF x
<1> DEFINE second == first + 1
<1>15. second \in Nat /\ 1 <= second /\ second <= arrived + 1 /\ second = first + 1
       /\ arrived + 1 - second = held - 1
  BY <1>8, <1>10, <1>13
<1> HIDE DEF second
<1>16. s = SubSeq(Input, second, after)
  <2> DEFINE one == 1
  <2>1. one \in Nat /\ 1 <= one /\ one <= v + 1 /\ v <= arrived + 1 - second /\ one = 1
    BY <1>8, <1>10, <1>13, <1>15
  <2> HIDE DEF one
  <2>2. SubSeq(SubSeq(Input, second, arrived), one, v) = SubSeq(Input, second + one - 1, second + v - 1)
    BY <1>4, <1>8, <1>10, <1>15, <2>1, PieceOfPiece
  <2>3. second + one - 1 = second /\ second + v - 1 = after
    BY <1>8, <1>13, <1>15, <2>1, <1>10
  <2> QED
    BY <1>14, <1>15, <2>1, <2>2, <2>3
<1>17. Content(Pop(p, v)) = SubSeq(Input, after + 1, arrived)
  <2> DEFINE u == v + 1
             l == held - 1
  <2>1. u \in Nat /\ l \in Nat /\ 1 <= u /\ u <= l + 1 /\ l <= arrived + 1 - second
        /\ u = v + 1 /\ l = held - 1
    BY <1>8, <1>10, <1>13, <1>15
  <2>2. Content(Pop(p, v)) = SubSeq(SubSeq(Input, second, arrived), u, l)
    BY <1>9, <1>14, <1>15
  <2> HIDE DEF u, l
  <2>5. /\ Input \in Seq(Byte) /\ second \in Nat /\ arrived \in Nat
        /\ 1 <= second /\ second <= arrived + 1 /\ arrived <= Len(Input)
        /\ u \in Nat /\ l \in Nat /\ 1 <= u /\ u <= l + 1 /\ l <= arrived + 1 - second
    BY <1>4, <1>10, <1>15, <2>1
  <2>3. SubSeq(SubSeq(Input, second, arrived), u, l) = SubSeq(Input, second + u - 1, second + l - 1)
    BY <2>5, PieceOfPiece
  <2>4. second + u - 1 = after + 1 /\ second + l - 1 = arrived
    BY <1>8, <1>10, <1>13, <1>15, <2>1
  <2> QED
    BY <2>2, <2>3, <2>4
<1> HIDE DEF s
\* the frame
<1>18. s \in Seq(Byte) /\ Len(s) = v /\ \A i \in 1..v : s[i] = Input[second + i - 1]
  <2> DEFINE y == SubSeq(Input, second, after)
  <2>1. /\ Input \in Seq(Byte) /\ second \in Nat /\ after \in Nat
        /\ 1 <= second /\ second <= after + 1 /\ after <= Len(Input)
    BY <1>4, <1>8, <1>10, <1>13, <1>15
  <2>2. after + 1 - second = v
    BY <1>8, <1>10, <1>13, <1>15
  <2>3. /\ y \in Seq(Byte) /\ Len(y) = after + 1 - second
        /\ \A i \in 1..after + 1 - second : y[i] = Input[second + i - 1]
    BY <2>1, Piece
  <2> HIDE DEF y
  <2> QED
    BY <1>16, <2>2, <2>3 DEF y
<1>19. z \in Seq(Byte) /\ Len(z) = v + 1 /\ \A i \in 1..v + 1 : z[i] = Input[first + i - 1]
  <2>1. first <= after + 1 /\ after <= Len(Input) /\ after + 1 - first = v + 1
    BY <1>8, <1>10, <1>13
  <2> QED
    BY <1>4, <1>10, <1>13, <2>1, Piece
<1> HIDE DEF z
<1>20. z[1] = Len(s)
  <2>1. 1 \in 1..held /\ 1 \in 1..v + 1
    BY <1>8, <1>13, <1>10
  <2> QED
    BY <1>6, <1>11, <1>12, <1>18, <1>19, <2>1
<1>21. ASSUME NEW i \in 1..Len(s) PROVE z[i + 1] = s[i]
  <2> DEFINE k == i + 1
  <2>1. k \in 1..v + 1 /\ first + k - 1 = second + i - 1 /\ i \in 1..v
    BY <1>8, <1>10, <1>15, <1>18
  <2> HIDE DEF k
  <2>2. z[k] = Input[first + k - 1]
    BY <1>19, <2>1
  <2> QED
    BY <1>18, <2>1, <2>2 DEF k
<1> DEFINE before == SubSeq(Input, 1, taken)
<1>22. before \in Seq(Byte) /\ Whole(before) /\ received = Payloads(before)
  <2> DEFINE one == 1
  <2>1. one \in Nat /\ 1 <= one /\ one <= taken + 1 /\ taken <= Len(Input)
    BY <1>10
  <2> HIDE DEF one
  <2>2. SubSeq(Input, one, taken) \in Seq(Byte)
    BY <1>4, <1>10, <2>1, Piece
  <2> QED
    BY <1>3, <2>2 DEF Consumed, one
<1> HIDE DEF before
<1>23. Whole(before \o z) /\ Payloads(before \o z) = Payloads(before) \o s
  BY <1>18, <1>19, <1>20, <1>21, <1>22, PayloadsAppend
<1>24. before \o z = SubSeq(Input, 1, after)
  <2> DEFINE one == 1
  <2>1. one \in 1..Len(Input) + 1 /\ taken \in one - 1..Len(Input) /\ after \in taken..Len(Input)
    BY <1>8, <1>10, <1>13, <1>4
  <2> HIDE DEF one
  <2>2. SubSeq(Input, one, taken) \o SubSeq(Input, taken + 1, after) = SubSeq(Input, one, after)
    BY <1>4, <2>1, ConcatAdjacentSubSeq
  <2> QED
    BY <1>10, <2>2 DEF one, before, z
<1>25. \E t \in 0..arrived' :
         /\ Content(input_buffer_') = SubSeq(Input, t + 1, arrived')
         /\ Whole(SubSeq(Input, 1, t)) /\ received' = Payloads(SubSeq(Input, 1, t))
  <2>1. arrived' = arrived
    BY DEF TakeFrame
  <2>2. Content(input_buffer_') = SubSeq(Input, after + 1, arrived)
    BY <1>2, <1>17
  <2>3. after \in 0..arrived
    BY <1>8, <1>10, <1>13
  <2>4. Whole(SubSeq(Input, 1, after))
    BY <1>23, <1>24
  <2>5. received' = Payloads(SubSeq(Input, 1, after))
    BY <1>2, <1>22, <1>23, <1>24
  <2> QED
    BY <2>1, <2>2, <2>3, <2>4, <2>5, Zenon
\* the answer
<1>26. Framed(s) = BigEndian(v, 1) \o s /\ Framed(s) \in Seq(Byte)
  <2> DEFINE e == BigEndian(v, 1)
  <2>1. e \in Seq(Byte)
    BY <1>6, OneByte
  <2>2. Framed(s) = e \o s
    BY <1>18, <2>1, ByteFacts, FramedInOrder
  <2> HIDE DEF e
  <2>3. e \o s \in Seq(Byte)
    BY <1>18, <2>1, ConcatProperties
  <2> QED
    BY <2>2, <2>3 DEF e
<1>27. /\ Len(Framed(s)) = Len(s) + 1 /\ Framed(s)[1] = Len(s)
       /\ \A i \in 1..Len(s) : Framed(s)[i + 1] = s[i]
  <2> DEFINE e == BigEndian(v, 1)
             w == Framed(s)
  <2>1. e \in Seq(Byte) /\ Len(e) = 1 /\ e[1] = v
    BY <1>6, OneByte
  <2>2. w = e \o s
    BY <1>26
  <2> HIDE DEF e, w
  <2>3. Len(w) = Len(e) + Len(s)
    BY <1>18, <2>1, <2>2, ConcatProperties
  <2>4. \A i \in 1..Len(e) + Len(s) : w[i] = IF i <= Len(e) THEN e[i] ELSE s[i - Len(e)]
    BY <1>18, <2>1, <2>2, ConcatProperties
  <2>5. 1 \in 1..Len(e) + Len(s) /\ 1 <= Len(e)
    BY <1>8, <1>18, <2>1
  <2>6. w[1] = v
    BY <2>1, <2>4, <2>5
  <2>7. ASSUME NEW i \in 1..Len(s) PROVE w[i + 1] = s[i]
    <3> DEFINE k == i + 1
    <3>1. k \in 1..Len(e) + Len(s) /\ ~(k <= Len(e)) /\ k - Len(e) = i
      BY <1>8, <1>18, <2>1
    <3> HIDE DEF k
    <3>2. w[k] = s[i]
      BY <2>4, <3>1
    <3> QED
      BY <3>2 DEF k
  <2> QED
    BY <1>8, <1>18, <2>1, <2>3, <2>6, <2>7 DEF w
<1>28. m \in Message /\ m.kind = "echo" /\ m.data = Framed(s)
  BY <1>26 DEF Message
<1> DEFINE d == conn'
<1>29. d \in Send(conn, m)
  BY <1>2
<1> HIDE DEF m, d
<1>30. /\ Calls(conn, d) /\ d.state_ = conn.state_ /\ d.fin = conn.fin /\ d.reset = conn.reset
       /\ Takes(conn, d, m) \/ (d = conn /\ (conn.state_ # "CONNECTED" \/ conn.fin \/ conn.reset))
  BY <1>4, <1>28, <1>29, SendStep
<1>31. /\ Len(m.data) = Len(s) + 1 /\ m.data[1] = Len(s)
       /\ \A i \in 1..Len(s) : m.data[i + 1] = s[i]
  BY <1>27, <1>28
<1>32. Faithful(d, received \o s, next)
  BY <1>4, <1>18, <1>28, <1>30, <1>31, EchoTaken
<1>33. Faithful(conn', received', next')
  <2>1. next' = next
    BY DEF TakeFrame
  <2> QED
    BY <1>2, <1>32, <2>1 DEF d
<1> QED
  BY <1>25, <1>33 DEF IntactInv, Consumed

\* The callback may shrink the buffer, which keeps what it holds.
LEMMA CallbackReturnsIntact ==
  ASSUME StreamInv, IntactInv, CallbackReturns
  PROVE  IntactInv'
<1>1. input_buffer_ \in BuffersOf(Byte)
  BY DEF StreamInv, Buffers
<1>2. Content(Shrink(input_buffer_, 0)) = Content(input_buffer_)
  BY <1>1, ByteFacts, ShrunkInOrder
<1>3. Content(input_buffer_') = Content(input_buffer_)
  BY <1>2 DEF CallbackReturns
<1> QED
  BY <1>3 DEF IntactInv, Consumed, CallbackReturns

\* The connection leaves CONNECTED, or is reset.
LEMMA NotLive ==
  ASSUME NEW c, NEW d, d.sent = c.sent, Pending(d) = Pending(c), d.accepted = c.accepted,
         ~Live(d), StaysOpen(d), NEW r, NEW k, Faithful(c, r, k)
  PROVE  Faithful(d, r, k)
BY DEF Faithful, Kept, Answered, Delivered

\* Who leaves CONNECTED promises nothing more: force_close_with_delay(),
LEMMA ForceCloseIntact ==
  ASSUME StreamInv, IntactInv, ForceCloseWithDelay
  PROVE  IntactInv'
<1> DEFINE d == [conn EXCEPT !.state_ = "DISCONNECTING"]
<1>1. conn' = d /\ ConnTyped(conn) /\ Faithful(conn, received, next)
  BY DEF ForceCloseWithDelay, StreamInv, Good, IntactInv
<1>2. /\ d.sent = conn.sent /\ Pending(d) = Pending(conn) /\ d.accepted = conn.accepted
      /\ d.state_ = "DISCONNECTING"
  BY <1>1 DEF ConnTyped, Pending
<1> HIDE DEF d
<1>3. Faithful(d, received, next)
  BY <1>1, <1>2, NotLive DEF Live, StaysOpen
<1> QED
  BY <1>1, <1>3 DEF IntactInv, Consumed, ForceCloseWithDelay

\* handle_close(),
LEMMA TakeDownIntact ==
  ASSUME StreamInv, IntactInv, TakeDown
  PROVE  IntactInv'
<1> DEFINE d == [conn EXCEPT !.state_ = "DISCONNECTED", !.writing = FALSE]
<1>1. conn' = d /\ ConnTyped(conn) /\ Faithful(conn, received, next)
  BY DEF TakeDown, StreamInv, Good, IntactInv
<1>2. /\ d.sent = conn.sent /\ Pending(d) = Pending(conn) /\ d.accepted = conn.accepted
      /\ d.state_ = "DISCONNECTED"
  BY <1>1 DEF ConnTyped, Pending
<1> HIDE DEF d
<1>3. Faithful(d, received, next)
  BY <1>1, <1>2, NotLive DEF Live, StaysOpen
<1> QED
  BY <1>1, <1>3 DEF IntactInv, Consumed, TakeDown

\* a reset
LEMMA PeerResetsIntact ==
  ASSUME StreamInv, IntactInv, PeerResets
  PROVE  IntactInv'
<1> DEFINE d == [conn EXCEPT !.reset = TRUE]
<1>1. conn' = d /\ ConnTyped(conn) /\ Faithful(conn, received, next)
  BY DEF PeerResets, StreamInv, Good, IntactInv
<1>2. /\ d.sent = conn.sent /\ Pending(d) = Pending(conn) /\ d.accepted = conn.accepted
      /\ d.reset = TRUE /\ d.fin = conn.fin /\ d.queue = conn.queue /\ d.state_ = conn.state_
  BY <1>1 DEF ConnTyped, Pending
<1> HIDE DEF d
<1>3. StaysOpen(d)
  BY <1>1, <1>2 DEF Faithful, StaysOpen
<1>4. Faithful(d, received, next)
  BY <1>1, <1>2, <1>3, NotLive DEF Live
<1> QED
  BY <1>1, <1>4 DEF IntactInv, Consumed, PeerResets

\* A message is skipped only when the connection has left CONNECTED.
LEMMA ThreadTestsIntact ==
  ASSUME StreamInv, IntactInv, ThreadTests
  PROVE  IntactInv'
<1>1. conn' = conn /\ (next' = next \/ conn.state_ # "CONNECTED")
  BY DEF ThreadTests
<1>2. Faithful(conn, received, next)
  BY DEF IntactInv
<1>3. Faithful(conn', received, next')
  BY <1>1, <1>2 DEF Faithful, Delivered, Live
<1> QED
  BY <1>3 DEF IntactInv, Consumed, ThreadTests

\* A message more is delivered when it is posted: it waits in the queue.
LEMMA ThreadPostsIntact ==
  ASSUME StreamInv, IntactInv, ThreadPosts
  PROVE  IntactInv'
<1> DEFINE f == [fn |-> "send", message |-> Program[next]]
           d == QueueInLoop(conn, f)
<1>1. conn' = d /\ next' = next + 1 /\ ConnTyped(conn) /\ Faithful(conn, received, next)
  BY DEF ThreadPosts, StreamInv, Good, IntactInv
<1>2. next \in 1..Len(Program) /\ Program \in Seq(Posting) /\ next \in Nat
  <2>1. Len(Program) \in Nat
    BY StreamAssumption, LenProperties
  <2> QED
    BY <2>1, StreamAssumption DEF ThreadPosts, StreamInv, Posting
<1>3. f \in Functor /\ f.fn = "send" /\ f.message = Program[next]
  <2>1. Program[next] \in Posting
    BY <1>2, ElementOfSeq
  <2> QED
    BY <2>1 DEF Functor
<1> HIDE DEF f
<1>4. /\ d.sent = conn.sent /\ Pending(d) = Pending(conn) /\ d.fin = conn.fin
      /\ d.state_ = conn.state_ /\ d.accepted = conn.accepted /\ d.reset = conn.reset
      /\ d.queue = Append(conn.queue, f)
  BY <1>1, <1>3, Posted
<1> HIDE DEF d
<1> DEFINE q == conn.queue
<1>5. q \in Seq(Functor)
  BY <1>1, ConnFields
<1> HIDE DEF q
<1>6. Queued(q) \in Seq(Posting) /\ Queued(Append(q, f)) = Queued(q) \o Carried(f)
  BY <1>3, <1>5, QueuedSteps
<1>7. NoEnd(q) => NoEnd(Append(q, f))
  <2>1. f.fn # "shutdown_in_loop"
    BY <1>3
  <2> QED
    BY <1>3, <1>5, <2>1, NoEndSteps
<1>8. StaysOpen(d) /\ Kept(d) /\ Answered(d, received)
  BY <1>1, <1>4, <1>7 DEF Faithful, StaysOpen, Kept, Answered, Echoes, Live, q
<1> DEFINE others == {"raw", "buffer"}
           before == Of(conn.accepted, others)
           later  == Queued(q)
           one    == <<Program[next]>>
<1>9. Carried(f) = one
  BY <1>3 DEF Carried
<1>10. before \in Seq(Message) /\ later \in Seq(Message) /\ one \in Seq(Message)
  <2>1. Posting \subseteq Message
    BY DEF Posting, Message
  <2>2. later \in Seq(Message)
    BY <1>6, <2>1, SeqMonotonic
  <2>3. Program[next] \in Message
    BY <1>2, <2>1, ElementOfSeq
  <2>4. one \in Seq(Message)
    BY <2>3
  <2> DEFINE accepted == conn.accepted
  <2>5. accepted \in Seq(Message)
    BY <1>1, ConnFields
  <2> HIDE DEF others, accepted
  <2>6. Of(accepted, others) \in Seq(Message)
    <3> DEFINE m == Program[next]
    <3>1. m \in Message
      BY <2>3
    <3> HIDE DEF m
    <3> QED
      BY <2>5, <3>1, OfAppend
  <2> QED
    BY <2>2, <2>4, <2>6 DEF accepted
<1>11. SubSeq(Program, 1, next) = SubSeq(Program, 1, next - 1) \o one
  <2> DEFINE i == 1
  <2>1. i \in 1..Len(Program) /\ next \in i..Len(Program)
    BY <1>2
  <2> HIDE DEF i
  <2>2. SubSeq(Program, i, next) = SubSeq(Program, i, next - 1) \o <<Program[next]>>
    BY <1>2, <2>1, SubSeqRecursiveSecond
  <2> QED
    BY <2>2 DEF i
<1> HIDE DEF before, later, one
<1>12. before \o (later \o one) = (before \o later) \o one
  BY <1>10, ConcatAssociative
<1>13. Delivered(d, next + 1)
  <2> DEFINE k == next + 1
  <2>1. k - 1 = next
    BY <1>2
  <2> HIDE DEF k
  <2>2. Posts(d) = Posts(conn) \o one
    BY <1>4, <1>6, <1>9, <1>12 DEF Posts, before, later, q
  <2>3. Live(d) => Posts(conn) = SubSeq(Program, 1, next - 1)
    BY <1>1, <1>4 DEF Faithful, Delivered, Live
  <2>4. Live(d) => Posts(d) = SubSeq(Program, 1, k - 1)
    <3> SUFFICES ASSUME Live(d) PROVE Posts(d) = SubSeq(Program, 1, k - 1)
      OBVIOUS
    <3>1. Posts(d) = SubSeq(Program, 1, next - 1) \o one
      BY <2>2, <2>3
    <3>2. Posts(d) = SubSeq(Program, 1, next)
      BY <1>11, <3>1
    <3> QED
      BY <2>1, <3>2
  <2>5. Delivered(d, k)
    BY <2>4 DEF Delivered
  <2> QED
    BY <2>5 DEF k
<1>14. Faithful(conn', received, next')
  BY <1>1, <1>8, <1>13 DEF Faithful
<1> QED
  BY <1>14 DEF IntactInv, Consumed, ThreadPosts

\* and shutdown().
LEMMA ThreadShutsIntact ==
  ASSUME StreamInv, IntactInv, ThreadShuts
  PROVE  IntactInv'
<1> DEFINE f == [fn |-> "shutdown_in_loop"]
           c == [conn EXCEPT !.state_ = "DISCONNECTING", !.shut = TRUE]
           d == QueueInLoop(c, f)
<1>1. conn' = d /\ ConnTyped(conn) /\ Faithful(conn, received, next)
  BY DEF ThreadShuts, StreamInv, Good, IntactInv
<1>2. f \in Functor
  BY DEF Functor
<1> HIDE DEF f
<1>3. /\ ConnTyped(c) /\ c.sent = conn.sent /\ Pending(c) = Pending(conn)
      /\ c.accepted = conn.accepted /\ c.state_ = "DISCONNECTING"
  BY <1>1 DEF ConnTyped, Pending
<1> HIDE DEF c
<1>4. /\ d.sent = c.sent /\ Pending(d) = Pending(c) /\ d.accepted = c.accepted
      /\ d.state_ = c.state_
  BY <1>2, <1>3, Posted
<1> HIDE DEF d
<1>5. Faithful(d, received, next)
  BY <1>1, <1>3, <1>4, NotLive DEF Live, StaysOpen
<1> QED
  BY <1>1, <1>5 DEF IntactInv, Consumed, ThreadShuts

\* Every step keeps the second invariant.
LEMMA IntactStep ==
  ASSUME StreamInv, IntactInv, [Next]_vars
  PROVE  IntactInv'
<1>1. CASE UNCHANGED vars
  BY <1>1 DEF IntactInv, Consumed, vars
<1>2. CASE Next
  BY <1>2, HandleWriteIntact, RunFunctorIntact, HandleReadIntact, TakeFrameIntact,
     CallbackReturnsIntact, ForceCloseIntact, TakeDownIntact, PeerResetsIntact,
     ThreadTestsIntact, ThreadPostsIntact, ThreadShutsIntact DEF Next
<1> QED
  BY <1>1, <1>2

\* The second invariant, of every behaviour.
LEMMA StaysIntact == Spec => []IntactInv
<1>1. Init => StreamInv /\ IntactInv
  BY InitGood, InitIntact
<1>2. StreamInv /\ IntactInv /\ [Next]_vars => StreamInv' /\ IntactInv'
  BY StreamStep, IntactStep
<1> QED
  BY <1>1, <1>2, PTL DEF Spec

\* No byte is lost, repeated, changed or overtaken, in either direction, whatever
\* the peer sends, the kernel takes and the other thread posts (tcp_conn.cpp,
\* handle_read, send_in_loop and handle_write; buffer.cpp).
THEOREM NothingChanged == Spec => []BytesIntact
<1>1. IntactInv => BytesIntact
  BY DEF IntactInv, Consumed, Faithful, Kept, Answered, Live, Echoes, BytesIntact
<1> QED
  BY <1>1, StaysIntact, PTL

\* No message of the other thread is lost or overtaken while the connection is
\* open and not reset (tcp_conn.cpp:57, 286 and 304).
THEOREM NothingLost == Spec => []NoneLostWhileOpen
<1>1. IntactInv => NoneLostWhileOpen
  BY DEF IntactInv, Faithful, Delivered, Live, Posts, NoneLostWhileOpen
<1> QED
  BY <1>1, StaysIntact, PTL

=============================================================================
