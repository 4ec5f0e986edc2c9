--------------------------- MODULE BufferSuProofs ---------------------------
(***************************************************************************)
(* BufferSu: the block lists keep every byte once and in order (InOrder),  *)
(* they stay within one block of MAX_BUFSZ (Bounded), and each direction   *)
(* of the relay is a byte stream (IsStream), for all sizes.                *)
(***************************************************************************)
EXTENDS BufferSu, SeqLemmas

\* The block lists: no block is empty or larger than BLKSZ.
BlockLists == {b \in Seq(Seq(Nat)) : \A i \in 1..Len(b) : Len(b[i]) \in 1..BLKSZ}

\* The lengths of the blocks, which buf_length() adds up.
Lens(b) == [i \in 1..Len(b) |-> Len(b[i])]

-----------------------------------------------------------------------------
(* A sequence split in two. *)

\* The first n elements and the rest of a sequence make up the sequence.
LEMMA Split ==
  ASSUME NEW S, NEW s \in Seq(S), NEW n \in 1..Len(s)
  PROVE  /\ SubSeq(s, 1, n) \in Seq(S) /\ Len(SubSeq(s, 1, n)) = n
         /\ SubSeq(s, n + 1, Len(s)) \in Seq(S)
         /\ Len(SubSeq(s, n + 1, Len(s))) = Len(s) - n
         /\ s = Cat(SubSeq(s, 1, n), SubSeq(s, n + 1, Len(s)))
<1>1. Len(s) \in Nat /\ \A i \in 1..Len(s) : s[i] \in S
  BY LenProperties, ElementOfSeq
<1>2. SubSeq(s, 1, n) \in Seq(S) /\ Len(SubSeq(s, 1, n)) = n
  BY <1>1, SubSeqProperties
<1>3. SubSeq(s, n + 1, Len(s)) \in Seq(S) /\ Len(SubSeq(s, n + 1, Len(s))) = Len(s) - n
  BY <1>1, SubSeqProperties
<1>4. SubSeq(s, 1, n) \o SubSeq(s, n + 1, Len(s)) = SubSeq(s, 1, Len(s))
  BY <1>1, ConcatAdjacentSubSeq
<1>5. SubSeq(s, 1, Len(s)) = s
  BY SubSeqFull
<1> QED BY <1>2, <1>3, <1>4, <1>5 DEF Cat

\* The head and the rest of a sequence make up the sequence.
LEMMA HeadAndTail ==
  ASSUME NEW S, NEW s \in Seq(S), s # <<>>
  PROVE  /\ Head(s) \in S /\ <<Head(s)>> \in Seq(S) /\ Tail(s) \in Seq(S)
         /\ s = Cat(<<Head(s)>>, Tail(s))
<1>1. /\ Head(s) \in S /\ Tail(s) \in Seq(S) /\ Len(s) \in Nat \ {0} /\ Len(Tail(s)) = Len(s) - 1
      /\ \A i \in 1..Len(Tail(s)) : Tail(s)[i] = s[i + 1]
  BY EmptySeq, HeadTailProperties
<1>2. <<Head(s)>> \in Seq(S) /\ Len(<<Head(s)>>) = 1 /\ <<Head(s)>>[1] = s[1]
  BY <1>1
<1> DEFINE t == <<Head(s)>> \o Tail(s)
<1>3. /\ t \in Seq(S) /\ Len(t) = 1 + Len(Tail(s))
      /\ \A i \in 1..(1 + Len(Tail(s))) : t[i] = IF i <= 1 THEN <<Head(s)>>[i] ELSE Tail(s)[i - 1]
  BY <1>1, <1>2, ConcatProperties
<1> HIDE DEF t
<1>4. ASSUME NEW i \in 1..Len(s) PROVE s[i] = t[i]
  BY <1>1, <1>2, <1>3
<1>5. s = t
  BY <1>1, <1>3, <1>4, SeqEqual
<1> QED BY <1>1, <1>2, <1>5 DEF t, Cat

\* A list with a new first element.
LEMMA Push ==
  ASSUME NEW S, NEW x \in S, NEW t \in Seq(S)
  PROVE  /\ <<x>> \o t \in Seq(S) /\ <<x>> \o t # <<>> /\ Len(<<x>> \o t) = Len(t) + 1
         /\ Head(<<x>> \o t) = x /\ Tail(<<x>> \o t) = t
<1> DEFINE s == <<x>> \o t
<1>1. <<x>> \in Seq(S) /\ Len(<<x>>) = 1 /\ <<x>>[1] = x /\ Len(t) \in Nat
  OBVIOUS
<1>2. /\ s \in Seq(S) /\ Len(s) = 1 + Len(t)
      /\ \A i \in 1..(1 + Len(t)) : s[i] = IF i <= 1 THEN <<x>>[i] ELSE t[i - 1]
  BY <1>1, ConcatProperties
<1> HIDE DEF s
<1>3. s # <<>> /\ Head(s) = x
  BY <1>1, <1>2
<1>4. /\ Tail(s) \in Seq(S) /\ Len(Tail(s)) = Len(t)
      /\ \A i \in 1..Len(t) : Tail(s)[i] = s[i + 1]
  BY <1>1, <1>2, <1>3, HeadTailProperties
<1>5. Tail(s) = t
  <2>1. ASSUME NEW i \in 1..Len(t) PROVE Tail(s)[i] = t[i]
    <3>1. i + 1 \in 1..(1 + Len(t)) /\ ~(i + 1 <= 1) /\ (i + 1) - 1 = i
      BY <1>1
    <3> QED BY <1>2, <1>4, <3>1
  <2> QED BY <1>4, <2>1, SeqEqual
<1> QED BY <1>1, <1>2, <1>3, <1>5 DEF s

-----------------------------------------------------------------------------
(* buf_length. *)

LEMMA LensType ==
  ASSUME NEW b \in Seq(Seq(Nat))
  PROVE  Lens(b) \in Seq(Nat) /\ Len(Lens(b)) = Len(b) /\ buf_length(b) = SumSeq(Lens(b))
<1>1. Len(b) \in Nat /\ \A i \in 1..Len(b) : b[i] \in Seq(Nat)
  BY LenProperties, ElementOfSeq
<1>2. \A i \in 1..Len(b) : Len(b[i]) \in Nat
  BY <1>1, LenProperties
<1> QED BY <1>1, <1>2 DEF Lens, buf_length

\* buf_length() counts bytes.
LEMMA LengthNat ==
  ASSUME NEW b \in Seq(Seq(Nat))
  PROVE  buf_length(b) \in Nat
BY LensType, SumNat

\* An empty list has length 0.
LEMMA LengthEmpty == buf_length(<<>>) = 0
<1>1. [i \in 1..Len(<<>>) |-> Len(<<>>[i])] = <<>>
  BY EmptySeq
<1> QED BY <1>1, SumEmpty DEF buf_length

\* A block that is linked in adds its length.
LEMMA LengthAppend ==
  ASSUME NEW b \in Seq(Seq(Nat)), NEW x \in Seq(Nat)
  PROVE  buf_length(Append(b, x)) = buf_length(b) + Len(x)
<1> DEFINE c == Append(b, x)
<1>1. Len(b) \in Nat /\ Len(x) \in Nat
  BY LenProperties
<1>2. /\ c \in Seq(Seq(Nat)) /\ Len(c) = Len(b) + 1
      /\ \A i \in 1..Len(b) : c[i] = b[i]
      /\ c[Len(b) + 1] = x
  BY AppendProperties
<1> HIDE DEF c
<1>3. Lens(c) = Append(Lens(b), Len(x))
  BY <1>1, <1>2, LensType DEF Lens
<1>4. SumSeq(Append(Lens(b), Len(x))) = SumSeq(Lens(b)) + Len(x)
  BY <1>1, LensType, SumAppend
<1> QED BY <1>2, <1>3, <1>4, LensType DEF c

\* The first block is a part of the length.
LEMMA LengthTail ==
  ASSUME NEW b \in Seq(Seq(Nat)), b # <<>>
  PROVE  buf_length(b) = Len(Head(b)) + buf_length(Tail(b))
<1> DEFINE c == Tail(b)
<1>1. Len(b) \in Nat \ {0} /\ Head(b) = b[1]
  BY EmptySeq
<1>2. c \in Seq(Seq(Nat)) /\ Len(c) = Len(b) - 1 /\ \A i \in 1..Len(c) : c[i] = b[i + 1]
  BY HeadTailProperties
<1> HIDE DEF c
<1>3. Lens(b) \in Seq(Nat) /\ Len(Lens(b)) = Len(b) /\ Lens(b) # <<>>
  BY <1>1, LensType, EmptySeq
<1>4. Head(Lens(b)) = Len(Head(b))
  BY <1>1, <1>3 DEF Lens
<1>5. Tail(Lens(b)) = Lens(c)
  <2>1. /\ Tail(Lens(b)) \in Seq(Nat) /\ Len(Tail(Lens(b))) = Len(b) - 1
        /\ \A i \in 1..(Len(b) - 1) : Tail(Lens(b))[i] = Lens(b)[i + 1]
    BY <1>3, HeadTailProperties
  <2>2. Lens(c) \in Seq(Nat) /\ Len(Lens(c)) = Len(b) - 1
    BY <1>2, LensType
  <2>3. ASSUME NEW i \in 1..(Len(b) - 1) PROVE Tail(Lens(b))[i] = Lens(c)[i]
    <3>1. i + 1 \in 1..Len(b) /\ i \in 1..Len(c)
      BY <1>1, <1>2
    <3>2. Lens(b)[i + 1] = Len(b[i + 1]) /\ Lens(c)[i] = Len(c[i])
      BY <3>1 DEF Lens
    <3> QED BY <1>2, <2>1, <3>1, <3>2
  <2> QED BY <2>1, <2>2, <2>3, SeqEqual
<1>6. SumSeq(Lens(b)) = Head(Lens(b)) + SumSeq(Tail(Lens(b)))
  BY <1>3, SumTail
<1> QED BY <1>2, <1>4, <1>5, <1>6, LensType DEF c

-----------------------------------------------------------------------------
(* buf_read and buf_write. *)

\* buf_read() links in one block of at most BLKSZ bytes, and takes these bytes
\* from the descriptor.
LEMMA ReadBlock ==
  ASSUME NEW b \in BlockLists, NEW fd \in Seq(Nat), NEW n \in ReadSize(fd)
  PROVE  /\ n \in 1..Len(fd) /\ n <= BLKSZ
         /\ AppendBlock(b, fd, n) \in BlockLists /\ AppendBlock(b, fd, n) # <<>>
         /\ buf_length(AppendBlock(b, fd, n)) = buf_length(b) + n
         /\ FlattenSeq(AppendBlock(b, fd, n)) = Cat(FlattenSeq(b), SubSeq(fd, 1, n))
<1> DEFINE x == SubSeq(fd, 1, n)
<1>1. Len(fd) \in Nat /\ BLKSZ \in Nat
  BY SizeAssumption, LenProperties
<1>2. n \in 1..Len(fd) /\ n \in 1..BLKSZ
  BY <1>1 DEF ReadSize
<1>3. x \in Seq(Nat) /\ Len(x) = n
  BY <1>2, Split
<1>4. b \in Seq(Seq(Nat)) /\ \A i \in 1..Len(b) : Len(b[i]) \in 1..BLKSZ
  BY DEF BlockLists
<1> HIDE DEF x
<1>5. Append(b, x) \in BlockLists /\ Append(b, x) # <<>>
  <2>1. /\ Append(b, x) \in Seq(Seq(Nat)) /\ Len(Append(b, x)) = Len(b) + 1 /\ Len(b) \in Nat
        /\ \A i \in 1..Len(b) : Append(b, x)[i] = b[i]
        /\ Append(b, x)[Len(b) + 1] = x
    BY <1>3, <1>4, AppendProperties, LenProperties
  <2>2. ASSUME NEW i \in 1..(Len(b) + 1) PROVE Len(Append(b, x)[i]) \in 1..BLKSZ
    <3>1. CASE i = Len(b) + 1
      BY <1>2, <1>3, <2>1, <3>1
    <3>2. CASE i # Len(b) + 1
      <4>1. i \in 1..Len(b)
        BY <2>1, <3>2
      <4> QED BY <1>4, <2>1, <4>1
    <3> QED BY <3>1, <3>2
  <2>3. Append(b, x) # <<>>
    <3> DEFINE c == Append(b, x)
    <3>1. Len(c) # 0
      BY <2>1
    <3> HIDE DEF c
    <3>2. c # <<>>
      BY <3>1, EmptySeq
    <3> QED BY <3>2 DEF c
  <2> QED BY <2>1, <2>2, <2>3 DEF BlockLists
<1>6. buf_length(Append(b, x)) = buf_length(b) + n
  BY <1>3, <1>4, LengthAppend
<1>7. FlattenSeq(Append(b, x)) = Cat(FlattenSeq(b), x)
  BY <1>3, <1>4, FlattenAppend
<1>8. AppendBlock(b, fd, n) = Append(b, x)
  BY DEF AppendBlock, x
<1> QED BY <1>1, <1>2, <1>5, <1>6, <1>7, <1>8 DEF x

\* The tail of a block list is one.
LEMMA TailBlocks ==
  ASSUME NEW b \in BlockLists, b # <<>>
  PROVE  Head(b) \in Seq(Nat) /\ Len(Head(b)) \in 1..BLKSZ /\ Tail(b) \in BlockLists
<1>1. b \in Seq(Seq(Nat)) /\ \A i \in 1..Len(b) : Len(b[i]) \in 1..BLKSZ
  BY DEF BlockLists
<1>2. Len(b) \in Nat \ {0} /\ Head(b) = b[1]
  BY <1>1, EmptySeq
<1>3. /\ Head(b) \in Seq(Nat) /\ Tail(b) \in Seq(Seq(Nat)) /\ Len(Tail(b)) = Len(b) - 1
      /\ \A i \in 1..Len(Tail(b)) : Tail(b)[i] = b[i + 1]
  BY <1>1, HeadTailProperties
<1>4. ASSUME NEW i \in 1..Len(Tail(b)) PROVE Len(Tail(b)[i]) \in 1..BLKSZ
  <2>1. i + 1 \in 1..Len(b)
    BY <1>2, <1>3
  <2> QED BY <1>1, <1>3, <2>1
<1>5. Len(Head(b)) \in 1..BLKSZ
  <2>1. 1 \in 1..Len(b)
    BY <1>2
  <2> QED BY <1>1, <1>2, <2>1
<1>6. Tail(b) \in BlockLists
  BY <1>3, <1>4, Zenon DEF BlockLists
<1> QED BY <1>3, <1>5, <1>6

\* A block list with a block put back at its head is one.
LEMMA PushBlocks ==
  ASSUME NEW x \in Seq(Nat), Len(x) \in 1..BLKSZ, NEW t \in BlockLists
  PROVE  <<x>> \o t \in BlockLists
<1> DEFINE s == <<x>> \o t
<1>1. t \in Seq(Seq(Nat)) /\ Len(t) \in Nat /\ \A i \in 1..Len(t) : Len(t[i]) \in 1..BLKSZ
  BY LenProperties DEF BlockLists
<1>2. s \in Seq(Seq(Nat)) /\ s # <<>> /\ Len(s) = Len(t) + 1 /\ Head(s) = x /\ Tail(s) = t
  BY <1>1, Push
<1> HIDE DEF s
<1>3. s[1] = x /\ \A i \in 1..Len(t) : t[i] = s[i + 1]
  <2>1. s[1] = Head(s)
    BY <1>1, <1>2
  <2>2. \A i \in 1..Len(Tail(s)) : Tail(s)[i] = s[i + 1]
    BY <1>2, HeadTailProperties
  <2> QED BY <1>2, <2>1, <2>2
<1>4. ASSUME NEW i \in 1..Len(s) PROVE Len(s[i]) \in 1..BLKSZ
  <2>1. CASE i = 1
    BY <1>3, <2>1
  <2>2. CASE i # 1
    <3>1. i - 1 \in 1..Len(t) /\ (i - 1) + 1 = i
      BY <1>1, <1>2, <2>2
    <3>2. t[i - 1] = s[(i - 1) + 1]
      BY <1>3, <3>1
    <3>3. t[i - 1] = s[i]
      BY <3>1, <3>2
    <3> QED BY <1>1, <3>1, <3>3
  <2> QED BY <2>1, <2>2
<1>5. s \in BlockLists
  BY <1>2, <1>4 DEF BlockLists
<1> QED BY <1>5 DEF s

\* buf_write() takes n bytes from the first block, which goes when it is empty.
LEMMA WriteBlock ==
  ASSUME NEW b \in BlockLists, b # <<>>, NEW n \in 1..Len(Head(b))
  PROVE  /\ DropBytes(b, n) \in BlockLists
         /\ SubSeq(Head(b), 1, n) \in Seq(Nat) /\ Len(SubSeq(Head(b), 1, n)) = n
         /\ buf_length(DropBytes(b, n)) = buf_length(b) - n
         /\ FlattenSeq(b) = Cat(SubSeq(Head(b), 1, n), FlattenSeq(DropBytes(b, n)))
<1> DEFINE h == Head(b)
           x == SubSeq(h, 1, n)
           y == SubSeq(h, n + 1, Len(h))
           t == Tail(b)
<1>1. b \in Seq(Seq(Nat)) /\ h \in Seq(Nat) /\ Len(h) \in 1..BLKSZ /\ t \in BlockLists
  BY TailBlocks DEF BlockLists
<1>2. /\ x \in Seq(Nat) /\ Len(x) = n /\ y \in Seq(Nat) /\ Len(y) = Len(h) - n
      /\ h = Cat(x, y)
  BY <1>1, Split
<1>3. /\ t \in Seq(Seq(Nat)) /\ FlattenSeq(t) \in Seq(Nat)
      /\ buf_length(t) \in Nat /\ n \in Nat /\ Len(h) \in Nat /\ BLKSZ \in Nat
  <2>1. t \in Seq(Seq(Nat))
    BY <1>1 DEF BlockLists
  <2>2. n \in Nat /\ Len(h) \in Nat /\ BLKSZ \in Nat
    BY <1>1, SizeAssumption
  <2> HIDE DEF t, h
  <2> QED BY <2>1, <2>2, FlattenType, LengthNat
<1>4. FlattenSeq(b) = Cat(h, FlattenSeq(t)) /\ buf_length(b) = Len(h) + buf_length(t)
  BY <1>1, FlattenTail, LengthTail
<1>5. DropBytes(b, n) = IF n = Len(h) THEN t ELSE <<y>> \o t
  BY DEF DropBytes
<1>6. Cat(h, FlattenSeq(t)) = Cat(x, Cat(y, FlattenSeq(t)))
  <2> HIDE DEF h, x, y, t
  <2> QED BY <1>2, <1>3, CatAssociative
<1> HIDE DEF h, x, y, t
<1>7. CASE n = Len(h)
  <2>1. y = <<>>
    BY <1>2, <1>3, <1>7, EmptySeq
  <2>2. FlattenSeq(b) = Cat(x, FlattenSeq(t))
    BY <1>3, <1>4, <1>6, <2>1, CatEmpty
  <2>3. DropBytes(b, n) = t
    BY <1>5, <1>7
  <2>4. buf_length(t) = buf_length(b) - n
    BY <1>3, <1>4, <1>7
  <2> QED BY <1>1, <1>2, <2>2, <2>3, <2>4 DEF x, h
<1>8. CASE n # Len(h)
  <2>1. DropBytes(b, n) = <<y>> \o t
    BY <1>5, <1>8
  <2>2. Len(y) \in 1..BLKSZ
    <3>1. n \in 1..Len(h)
      BY DEF h
    <3>2. Len(h) <= BLKSZ /\ Len(y) = Len(h) - n
      BY <1>1, <1>2
    <3> QED BY <1>3, <1>8, <3>1, <3>2
  <2>3. DropBytes(b, n) \in BlockLists
    BY <1>1, <1>2, <2>1, <2>2, PushBlocks
  <2> DEFINE c == <<y>> \o t
  <2>4. c \in Seq(Seq(Nat)) /\ c # <<>> /\ Head(c) = y /\ Tail(c) = t
    BY <1>2, <1>3, Push
  <2> HIDE DEF c
  <2>5. FlattenSeq(c) = Cat(y, FlattenSeq(t)) /\ buf_length(c) = Len(y) + buf_length(t)
    BY <2>4, FlattenTail, LengthTail
  <2>6. DropBytes(b, n) = c
    BY <2>1 DEF c
  <2>7. buf_length(c) = buf_length(b) - n
    BY <1>2, <1>3, <1>4, <2>5
  <2> QED BY <1>2, <1>4, <1>6, <2>3, <2>5, <2>6, <2>7 DEF x, h
<1> QED BY <1>7, <1>8

-----------------------------------------------------------------------------
(* One direction of the relay, from the source's bytes to the sink's. *)

\* What was sent is what the sink has, then the pipe, the blocks and the source's end.
Stream(sent, got, out, b, in) == sent = Cat(Cat(Cat(got, out), FlattenSeq(b)), in)

\* The source writes a byte.
LEMMA StreamSource ==
  ASSUME NEW sent \in Seq(Nat), NEW got \in Seq(Nat), NEW out \in Seq(Nat), NEW b \in BlockLists,
         NEW in \in Seq(Nat), NEW x \in Nat, Stream(sent, got, out, b, in)
  PROVE  Stream(Append(sent, x), got, out, b, Append(in, x))
<1> DEFINE p == Cat(Cat(got, out), FlattenSeq(b))
           e == <<x>>
<1>1. b \in Seq(Seq(Nat)) /\ e \in Seq(Nat)
  BY DEF BlockLists
<1>2. FlattenSeq(b) \in Seq(Nat)
  BY <1>1, FlattenType
<1>3. p \in Seq(Nat)
  BY <1>2, CatType
<1>4. Append(sent, x) = Cat(sent, e) /\ Append(in, x) = Cat(in, e)
  BY AppendIsConcat DEF Cat
<1> HIDE DEF p, e
<1>5. Cat(Cat(p, in), e) = Cat(p, Cat(in, e))
  BY <1>1, <1>3, CatAssociative
<1>6. sent = Cat(p, in)
  BY DEF Stream, p
<1> QED BY <1>4, <1>5, <1>6 DEF Stream, p

\* buf_read() moves bytes from the source's end into a block.
LEMMA StreamRead ==
  ASSUME NEW sent \in Seq(Nat), NEW got \in Seq(Nat), NEW out \in Seq(Nat), NEW b \in BlockLists,
         NEW in \in Seq(Nat), NEW n \in ReadSize(in), Stream(sent, got, out, b, in)
  PROVE  Stream(sent, got, out, AppendBlock(b, in, n), SubSeq(in, n + 1, Len(in)))
<1> DEFINE p == Cat(got, out)
           f == FlattenSeq(b)
           x == SubSeq(in, 1, n)
           y == SubSeq(in, n + 1, Len(in))
<1>1. b \in Seq(Seq(Nat))
  BY DEF BlockLists
<1>2. f \in Seq(Nat) /\ p \in Seq(Nat)
  BY <1>1, FlattenType, CatType
<1>3. n \in 1..Len(in) /\ FlattenSeq(AppendBlock(b, in, n)) = Cat(f, x)
  BY ReadBlock
<1>4. x \in Seq(Nat) /\ y \in Seq(Nat) /\ in = Cat(x, y)
  BY <1>3, Split
<1>5. sent = Cat(Cat(p, f), in)
  BY DEF Stream
<1> HIDE DEF p, f, x, y
<1>6. Cat(Cat(p, f), Cat(x, y)) = Cat(Cat(Cat(p, f), x), y)
  <2>1. Cat(p, f) \in Seq(Nat)
    BY <1>2, CatType
  <2> QED BY <1>2, <1>4, <2>1, CatAssociative
<1>7. Cat(Cat(p, f), x) = Cat(p, Cat(f, x))
  BY <1>2, <1>4, CatAssociative
<1> QED BY <1>3, <1>4, <1>5, <1>6, <1>7 DEF Stream, p, f, x, y

\* buf_write() moves bytes from the first block into the sink's pipe.
LEMMA StreamWrite ==
  ASSUME NEW sent \in Seq(Nat), NEW got \in Seq(Nat), NEW out \in Seq(Nat), NEW b \in BlockLists,
         NEW in \in Seq(Nat), b # <<>>, NEW n \in 1..Len(Head(b)), Stream(sent, got, out, b, in)
  PROVE  Stream(sent, got, out \o SubSeq(Head(b), 1, n), DropBytes(b, n), in)
<1> DEFINE x == SubSeq(Head(b), 1, n)
           c == DropBytes(b, n)
           f == FlattenSeq(c)
<1>1. c \in BlockLists /\ x \in Seq(Nat) /\ FlattenSeq(b) = Cat(x, f)
  BY WriteBlock
<1>2. c \in Seq(Seq(Nat))
  BY <1>1 DEF BlockLists
<1>3. f \in Seq(Nat)
  BY <1>2, FlattenType
<1> HIDE DEF x, c, f
<1>4. Cat(Cat(got, out), Cat(x, f)) = Cat(Cat(Cat(got, out), x), f)
  <2>1. Cat(got, out) \in Seq(Nat)
    BY CatType
  <2> QED BY <1>1, <1>3, <2>1, CatAssociative
<1>5. Cat(Cat(got, out), x) = Cat(got, Cat(out, x))
  BY <1>1, CatAssociative
<1>6. sent = Cat(Cat(Cat(got, Cat(out, x)), f), in)
  BY <1>1, <1>4, <1>5 DEF Stream
<1>7. out \o x = Cat(out, x)
  BY DEF Cat
<1> QED BY <1>6, <1>7 DEF Stream, x, c, f

\* The sink reads a byte.
LEMMA StreamSink ==
  ASSUME NEW sent \in Seq(Nat), NEW got \in Seq(Nat), NEW out \in Seq(Nat), NEW b \in BlockLists,
         NEW in \in Seq(Nat), out # <<>>, Stream(sent, got, out, b, in)
  PROVE  Stream(sent, Append(got, Head(out)), Tail(out), b, in)
<1> DEFINE e == <<Head(out)>>
           t == Tail(out)
<1>1. Head(out) \in Nat /\ e \in Seq(Nat) /\ t \in Seq(Nat) /\ out = Cat(e, t)
  BY HeadAndTail
<1>2. Append(got, Head(out)) = Cat(got, e)
  BY <1>1, AppendIsConcat DEF Cat
<1> HIDE DEF e, t
<1>3. Cat(got, Cat(e, t)) = Cat(Cat(got, e), t)
  BY <1>1, CatAssociative
<1> QED BY <1>1, <1>2, <1>3 DEF Stream, t

\* s is a prefix of t.
Prefix(s, t) == Len(s) <= Len(t) /\ SubSeq(s, 1, Len(s)) = SubSeq(t, 1, Len(s))

\* The sink has a prefix of what was sent.
LEMMA StreamPrefix ==
  ASSUME NEW sent \in Seq(Nat), NEW got \in Seq(Nat), NEW out \in Seq(Nat), NEW b \in BlockLists,
         NEW in \in Seq(Nat), Stream(sent, got, out, b, in)
  PROVE  Prefix(got, sent)
<1> DEFINE f == FlattenSeq(b)
           r == Cat(Cat(out, f), in)
<1>1. b \in Seq(Seq(Nat))
  BY DEF BlockLists
<1>2. f \in Seq(Nat)
  BY <1>1, FlattenType
<1> HIDE DEF f
<1>3. r \in Seq(Nat) /\ Cat(out, f) \in Seq(Nat) /\ Cat(got, out) \in Seq(Nat)
  BY <1>2, CatType
<1>4. /\ Cat(Cat(got, out), f) = Cat(got, Cat(out, f))
      /\ Cat(Cat(got, Cat(out, f)), in) = Cat(got, Cat(Cat(out, f), in))
  BY <1>2, <1>3, CatAssociative
<1>5. sent = Cat(got, r)
  BY <1>4 DEF Stream, f
<1> HIDE DEF r
<1>6. sent = got \o r
  BY <1>5 DEF Cat
<1>7. /\ Len(sent) = Len(got) + Len(r) /\ Len(got) \in Nat /\ Len(r) \in Nat
      /\ \A i \in 1..(Len(got) + Len(r)) : sent[i] = IF i <= Len(got) THEN got[i] ELSE r[i - Len(got)]
  BY <1>3, <1>6, ConcatProperties, LenProperties
<1>8. \A i \in 1..Len(got) : sent[i] = got[i] /\ sent[i] \in Nat /\ got[i] \in Nat
  BY <1>7
<1>9. SubSeq(got, 1, Len(got)) = SubSeq(sent, 1, Len(got))
  BY <1>7, <1>8
<1> QED BY <1>7, <1>9 DEF Prefix

-----------------------------------------------------------------------------
(* The inductive invariant. *)

\* The types of the variables the proof is about.
Types ==
    /\ sent0 \in Seq(1..Total0) /\ sent1 \in Seq(1..Total1)
    /\ Len(sent0) <= Total0 /\ Len(sent1) <= Total1
    /\ fd0 \in Seq(Nat) /\ pipe0 \in Seq(Nat) /\ got0 \in Seq(Nat)
    /\ pipe1 \in Seq(Nat) /\ fd1 \in Seq(Nat) /\ got1 \in Seq(Nat)
    /\ buf0 \in BlockLists /\ buf1 \in BlockLists
    /\ pc \in {"top", "prepare0", "select", "read0", "read1", "write1", "write0", "exited"}
    /\ ifds \subseteq {"0", "child_stdout"} /\ ofds \subseteq {"1", "child_stdin"}
    /\ Len(fd0) <= InSize /\ Len(pipe1) <= InSize
    /\ Len(pipe0) <= OutSize /\ Len(fd1) <= OutSize

\* A descriptor is only watched for writing, until its turn comes, when there is a
\* block for it: buf_write() never finds an empty list.
WritesWaiting ==
    /\ (pc \in {"prepare0", "select", "read0", "read1", "write1"} /\ "1" \in ofds) => buf1 # <<>>
    /\ (pc \in {"select", "read0", "read1", "write1", "write0"} /\ "child_stdin" \in ofds)
          => buf0 # <<>>

\* Before prepare0 the set for writing holds at most fd 1.
OnlyOutput == pc = "prepare0" => ofds \subseteq {"1"}

\* A descriptor is only watched for reading, until its turn comes, while its buffer
\* is below the limit.
ReadsBelow ==
    /\ (pc \in {"prepare0", "select", "read0"} /\ "0" \in ifds) => buf_length(buf0) < MAX_BUFSZ
    /\ (pc \in {"prepare0", "select", "read0", "read1"} /\ "child_stdout" \in ifds)
          => buf_length(buf1) < MAX_BUFSZ

IInv == Types /\ WritesWaiting /\ OnlyOutput /\ ReadsBelow /\ InOrder /\ Bounded

\* The byte counts of write() are within the block and the room.
LEMMA WriteSizes ==
  ASSUME NEW b \in BlockLists, b # <<>>, NEW q \in Seq(Nat), NEW n \in WriteSize(b, q)
  PROVE  n \in 1..Len(Head(b)) /\ Len(q) + n <= OutSize
<1>1. Head(b) \in Seq(Nat)
  BY TailBlocks
<1>2. Len(Head(b)) \in Nat /\ Len(q) \in Nat /\ OutSize \in Nat
  BY <1>1, LenProperties, SizeAssumption
<1> QED BY <1>2 DEF WriteSize, Room

\* The streams of bytes up to a total are streams of bytes.
LEMMA SentBytes ==
  ASSUME Types
  PROVE  sent0 \in Seq(Nat) /\ sent1 \in Seq(Nat)
<1>1. 1..Total0 \subseteq Nat /\ 1..Total1 \subseteq Nat
  BY SizeAssumption
<1> QED BY <1>1, SeqMonotonic DEF Types

LEMMA InitTypes == Init => Types
<1>1. <<>> \in BlockLists
  BY EmptySeq DEF BlockLists
<1> QED BY <1>1, SizeAssumption, EmptySeq DEF Init, Types

\* Every step keeps the types.
LEMMA TypesNext == ASSUME Types, WritesWaiting, [Next]_vars PROVE Types'
<1> USE DEF Types, clientVars, childVars, relayVars, vars
<1>1. CASE Prepare
  BY <1>1 DEF Prepare, WantRead
<1>2. CASE Prepare0
  BY <1>2 DEF Prepare0
<1>3. CASE Select
  BY <1>3 DEF Select
<1>4. CASE Read0
  <2>1. CASE UNCHANGED <<fd0, buf0>>
    BY <1>4, <2>1 DEF Read0
  <2>2. CASE \E n \in ReadSize(fd0) :
                /\ buf0' = AppendBlock(buf0, fd0, n)
                /\ fd0' = SubSeq(fd0, n + 1, Len(fd0))
    <3>1. PICK n \in ReadSize(fd0) :
                /\ buf0' = AppendBlock(buf0, fd0, n)
                /\ fd0' = SubSeq(fd0, n + 1, Len(fd0))
      BY <2>2
    <3>2. buf0' \in BlockLists /\ n \in 1..Len(fd0)
      BY <3>1, ReadBlock
    <3>3. fd0' \in Seq(Nat) /\ Len(fd0') = Len(fd0) - n
      BY <3>1, <3>2, Split
    <3>4. Len(fd0') <= InSize
      BY <3>2, <3>3, SizeAssumption, LenProperties
    <3> QED BY <1>4, <3>2, <3>3, <3>4 DEF Read0
  <2> QED BY <1>4, <2>1, <2>2 DEF Read0
<1>5. CASE Read1
  <2>1. CASE UNCHANGED <<pipe1, buf1>>
    BY <1>5, <2>1 DEF Read1
  <2>2. CASE \E n \in ReadSize(pipe1) :
                /\ buf1' = AppendBlock(buf1, pipe1, n)
                /\ pipe1' = SubSeq(pipe1, n + 1, Len(pipe1))
    <3>1. PICK n \in ReadSize(pipe1) :
                /\ buf1' = AppendBlock(buf1, pipe1, n)
                /\ pipe1' = SubSeq(pipe1, n + 1, Len(pipe1))
      BY <2>2
    <3>2. buf1' \in BlockLists /\ n \in 1..Len(pipe1)
      BY <3>1, ReadBlock
    <3>3. pipe1' \in Seq(Nat) /\ Len(pipe1') = Len(pipe1) - n
      BY <3>1, <3>2, Split
    <3>4. Len(pipe1') <= InSize
      BY <3>2, <3>3, SizeAssumption, LenProperties
    <3> QED BY <1>5, <3>2, <3>3, <3>4 DEF Read1
  <2> QED BY <1>5, <2>1, <2>2 DEF Read1
<1>6. CASE Write1
  <2>1. CASE UNCHANGED <<fd1, buf1>>
    BY <1>6, <2>1 DEF Write1
  <2>2. CASE /\ "1" \in ofds
             /\ \E n \in WriteSize(buf1, fd1) :
                /\ fd1' = fd1 \o SubSeq(Head(buf1), 1, n)
                /\ buf1' = DropBytes(buf1, n)
    <3>1. PICK n \in WriteSize(buf1, fd1) :
                /\ fd1' = fd1 \o SubSeq(Head(buf1), 1, n)
                /\ buf1' = DropBytes(buf1, n)
      BY <2>2
    <3>2. buf1 # <<>>
      BY <1>6, <2>2 DEF Write1, WritesWaiting
    <3>3. n \in 1..Len(Head(buf1)) /\ Len(fd1) + n <= OutSize
      BY <3>2, WriteSizes
    <3>4. /\ buf1' \in BlockLists
          /\ SubSeq(Head(buf1), 1, n) \in Seq(Nat) /\ Len(SubSeq(Head(buf1), 1, n)) = n
      BY <3>1, <3>2, <3>3, WriteBlock
    <3>5. fd1' \in Seq(Nat) /\ Len(fd1') <= OutSize
      BY <3>1, <3>3, <3>4, ConcatProperties
    <3> QED BY <1>6, <3>4, <3>5 DEF Write1
  <2> QED BY <1>6, <2>1, <2>2 DEF Write1
<1>7. CASE Write0
  <2>1. CASE UNCHANGED <<pipe0, buf0>>
    BY <1>7, <2>1 DEF Write0
  <2>2. CASE /\ "child_stdin" \in ofds
             /\ \E n \in WriteSize(buf0, pipe0) :
                /\ pipe0' = pipe0 \o SubSeq(Head(buf0), 1, n)
                /\ buf0' = DropBytes(buf0, n)
    <3>1. PICK n \in WriteSize(buf0, pipe0) :
                /\ pipe0' = pipe0 \o SubSeq(Head(buf0), 1, n)
                /\ buf0' = DropBytes(buf0, n)
      BY <2>2
    <3>2. buf0 # <<>>
      BY <1>7, <2>2 DEF Write0, WritesWaiting
    <3>3. n \in 1..Len(Head(buf0)) /\ Len(pipe0) + n <= OutSize
      BY <3>2, WriteSizes
    <3>4. /\ buf0' \in BlockLists
          /\ SubSeq(Head(buf0), 1, n) \in Seq(Nat) /\ Len(SubSeq(Head(buf0), 1, n)) = n
      BY <3>1, <3>2, <3>3, WriteBlock
    <3>5. pipe0' \in Seq(Nat) /\ Len(pipe0') <= OutSize
      BY <3>1, <3>3, <3>4, ConcatProperties
    <3> QED BY <1>7, <3>4, <3>5 DEF Write0
  <2> QED BY <1>7, <2>1, <2>2 DEF Write0
<1>8. CASE Sigchld
  BY <1>8 DEF Sigchld
<1>9. CASE ClientWrite
  <2>1. Len(sent0) \in Nat /\ Len(fd0) \in Nat /\ Total0 \in Nat /\ InSize \in Nat
    BY LenProperties, SizeAssumption
  <2>2. Len(sent0) + 1 \in 1..Total0 /\ Len(sent0) + 1 \in Nat
    BY <1>9, <2>1 DEF ClientWrite
  <2>3. sent0' \in Seq(1..Total0) /\ Len(sent0') = Len(sent0) + 1
    BY <1>9, <2>2, AppendProperties DEF ClientWrite
  <2>4. fd0' \in Seq(Nat) /\ Len(fd0') = Len(fd0) + 1
    BY <1>9, <2>2, AppendProperties DEF ClientWrite
  <2>5. Len(sent0') <= Total0 /\ Len(fd0') <= InSize
    BY <1>9, <2>1, <2>3, <2>4 DEF ClientWrite
  <2> QED BY <1>9, <2>3, <2>4, <2>5 DEF ClientWrite
<1>10. CASE ClientRead
  <2>1. Head(fd1) \in Nat /\ Tail(fd1) \in Seq(Nat) /\ Len(Tail(fd1)) = Len(fd1) - 1 /\ Len(fd1) \in Nat
    BY <1>10, HeadTailProperties DEF ClientRead
  <2>2. got1' \in Seq(Nat) /\ fd1' \in Seq(Nat) /\ Len(fd1') <= OutSize
    <3>1. got1' \in Seq(Nat)
      BY <1>10, <2>1, AppendProperties DEF ClientRead
    <3>2. fd1' \in Seq(Nat) /\ Len(fd1') = Len(fd1) - 1
      BY <1>10, <2>1 DEF ClientRead
    <3>3. Len(fd1') <= OutSize
      BY <2>1, <3>2, SizeAssumption
    <3> QED BY <3>1, <3>2, <3>3
  <2> QED BY <1>10, <2>2 DEF ClientRead
<1>11. CASE ClientClose \/ HangUp \/ ChildExit \/ UNCHANGED vars
  BY <1>11 DEF ClientClose, HangUp, ChildExit
<1>12. CASE ChildRead
  <2>1. /\ Head(pipe0) \in Nat /\ Tail(pipe0) \in Seq(Nat)
        /\ Len(Tail(pipe0)) = Len(pipe0) - 1 /\ Len(pipe0) \in Nat
    BY <1>12, HeadTailProperties DEF ChildRead
  <2>2. got0' \in Seq(Nat) /\ pipe0' \in Seq(Nat) /\ Len(pipe0') <= OutSize
    <3>1. got0' \in Seq(Nat)
      BY <1>12, <2>1, AppendProperties DEF ChildRead
    <3>2. pipe0' \in Seq(Nat) /\ Len(pipe0') = Len(pipe0) - 1
      BY <1>12, <2>1 DEF ChildRead
    <3>3. Len(pipe0') <= OutSize
      BY <2>1, <3>2, SizeAssumption
    <3> QED BY <3>1, <3>2, <3>3
  <2> QED BY <1>12, <2>2 DEF ChildRead
<1>13. CASE ChildWrite
  <2>1. Len(sent1) \in Nat /\ Len(pipe1) \in Nat /\ Total1 \in Nat /\ InSize \in Nat
    BY LenProperties, SizeAssumption
  <2>2. Len(sent1) + 1 \in 1..Total1 /\ Len(sent1) + 1 \in Nat
    BY <1>13, <2>1 DEF ChildWrite
  <2>3. sent1' \in Seq(1..Total1) /\ Len(sent1') = Len(sent1) + 1
    BY <1>13, <2>2, AppendProperties DEF ChildWrite
  <2>4. pipe1' \in Seq(Nat) /\ Len(pipe1') = Len(pipe1) + 1
    BY <1>13, <2>2, AppendProperties DEF ChildWrite
  <2>5. Len(sent1') <= Total1 /\ Len(pipe1') <= InSize
    BY <1>13, <2>1, <2>3, <2>4 DEF ChildWrite
  <2> QED BY <1>13, <2>3, <2>4, <2>5 DEF ChildWrite
<1> QED BY <1>1, <1>2, <1>3, <1>4, <1>5, <1>6, <1>7, <1>8, <1>9, <1>10, <1>11, <1>12, <1>13
        DEF Next, Loop

\* Every step keeps a block for each descriptor that is watched for writing.
LEMMA WritesWaitingNext ==
  ASSUME Types, WritesWaiting, OnlyOutput, [Next]_vars
  PROVE  WritesWaiting' /\ OnlyOutput'
<1> USE DEF WritesWaiting, OnlyOutput, clientVars, childVars, relayVars, vars
<1>1. CASE Prepare
  BY <1>1 DEF Prepare, buf_waiting
<1>2. CASE Prepare0
  BY <1>2 DEF Prepare0, buf_waiting
<1>3. CASE Select
  BY <1>3 DEF Select
<1>4. CASE Read0
  <2>1. CASE UNCHANGED buf0
    BY <1>4, <2>1 DEF Read0
  <2>2. CASE \E n \in ReadSize(fd0) : buf0' = AppendBlock(buf0, fd0, n)
    <3>1. PICK n \in ReadSize(fd0) : buf0' = AppendBlock(buf0, fd0, n)
      BY <2>2
    <3>2. buf0' # <<>>
      BY <3>1, ReadBlock DEF Types
    <3> QED BY <1>4, <3>2 DEF Read0
  <2> QED BY <1>4, <2>1, <2>2 DEF Read0
<1>5. CASE Read1
  <2>1. CASE UNCHANGED buf1
    BY <1>5, <2>1 DEF Read1
  <2>2. CASE \E n \in ReadSize(pipe1) : buf1' = AppendBlock(buf1, pipe1, n)
    <3>1. PICK n \in ReadSize(pipe1) : buf1' = AppendBlock(buf1, pipe1, n)
      BY <2>2
    <3>2. buf1' # <<>>
      BY <3>1, ReadBlock DEF Types
    <3> QED BY <1>5, <3>2 DEF Read1
  <2> QED BY <1>5, <2>1, <2>2 DEF Read1
<1>6. CASE Write1
  BY <1>6 DEF Write1
<1>7. CASE Write0
  BY <1>7 DEF Write0
<1>8. CASE Sigchld
  BY <1>8 DEF Sigchld
<1>9. CASE ClientWrite \/ ClientClose \/ ClientRead \/ HangUp
  BY <1>9 DEF ClientWrite, ClientClose, ClientRead, HangUp
<1>10. CASE ChildRead \/ ChildWrite \/ ChildExit \/ UNCHANGED vars
  BY <1>10 DEF ChildRead, ChildWrite, ChildExit
<1> QED BY <1>1, <1>2, <1>3, <1>4, <1>5, <1>6, <1>7, <1>8, <1>9, <1>10 DEF Next, Loop

\* The buffers change only where the code reads into them and writes from them, and
\* by how much.
LEMMA LengthsNext ==
  ASSUME Types, WritesWaiting, [Next]_vars
  PROVE  /\ \/ buf0' = buf0
            \/ pc = "read0" /\ "0" \in ifds /\ buf_length(buf0') <= buf_length(buf0) + BLKSZ /\ pc' = "read1"
            \/ pc = "write0" /\ buf_length(buf0') <= buf_length(buf0) /\ pc' = "top"
         /\ \/ buf1' = buf1
            \/ pc = "read1" /\ "child_stdout" \in ifds /\ buf_length(buf1') <= buf_length(buf1) + BLKSZ
                 /\ pc' = "write1"
            \/ pc = "write1" /\ buf_length(buf1') <= buf_length(buf1) /\ pc' = "write0"
<1> USE DEF clientVars, childVars, relayVars, vars
<1>0. buf_length(buf0) \in Nat /\ buf_length(buf1) \in Nat /\ BLKSZ \in Nat
  BY LengthNat, SizeAssumption DEF Types, BlockLists
<1>1. CASE Prepare \/ Prepare0 \/ Select
  BY <1>1 DEF Prepare, Prepare0, Select
<1>2. CASE Read0
  <2>1. CASE UNCHANGED buf0
    BY <1>2, <2>1 DEF Read0
  <2>2. CASE "0" \in ifds /\ \E n \in ReadSize(fd0) : buf0' = AppendBlock(buf0, fd0, n) /\ pc' = "read1"
    <3>1. PICK n \in ReadSize(fd0) : buf0' = AppendBlock(buf0, fd0, n)
      BY <2>2
    <3>2. n \in 1..Len(fd0) /\ n <= BLKSZ /\ buf_length(buf0') = buf_length(buf0) + n
      BY <3>1, ReadBlock DEF Types
    <3>3. buf_length(buf0') <= buf_length(buf0) + BLKSZ
      BY <1>0, <3>2
    <3> QED BY <1>2, <2>2, <3>3 DEF Read0
  <2> QED BY <1>2, <2>1, <2>2 DEF Read0
<1>3. CASE Read1
  <2>1. CASE UNCHANGED buf1
    BY <1>3, <2>1 DEF Read1
  <2>2. CASE /\ "child_stdout" \in ifds
             /\ \E n \in ReadSize(pipe1) : buf1' = AppendBlock(buf1, pipe1, n) /\ pc' = "write1"
    <3>1. PICK n \in ReadSize(pipe1) : buf1' = AppendBlock(buf1, pipe1, n)
      BY <2>2
    <3>2. n \in 1..Len(pipe1) /\ n <= BLKSZ /\ buf_length(buf1') = buf_length(buf1) + n
      BY <3>1, ReadBlock DEF Types
    <3>3. buf_length(buf1') <= buf_length(buf1) + BLKSZ
      BY <1>0, <3>2
    <3> QED BY <1>3, <2>2, <3>3 DEF Read1
  <2> QED BY <1>3, <2>1, <2>2 DEF Read1
<1>4. CASE Write1
  <2>1. CASE UNCHANGED buf1
    BY <1>4, <2>1 DEF Write1
  <2>2. CASE "1" \in ofds /\ \E n \in WriteSize(buf1, fd1) : buf1' = DropBytes(buf1, n) /\ pc' = "write0"
    <3>1. PICK n \in WriteSize(buf1, fd1) : buf1' = DropBytes(buf1, n)
      BY <2>2
    <3>2. buf1 # <<>>
      BY <1>4, <2>2 DEF Write1, WritesWaiting
    <3>3. n \in 1..Len(Head(buf1))
      BY <3>2, WriteSizes DEF Types
    <3>4. buf_length(buf1') = buf_length(buf1) - n
      BY <3>1, <3>2, <3>3, WriteBlock DEF Types
    <3>5. buf_length(buf1') <= buf_length(buf1)
      BY <1>0, <3>3, <3>4
    <3> QED BY <1>4, <2>2, <3>5 DEF Write1
  <2> QED BY <1>4, <2>1, <2>2 DEF Write1
<1>5. CASE Write0
  <2>1. CASE UNCHANGED buf0
    BY <1>5, <2>1 DEF Write0
  <2>2. CASE /\ "child_stdin" \in ofds
             /\ \E n \in WriteSize(buf0, pipe0) : buf0' = DropBytes(buf0, n) /\ pc' = "top"
    <3>1. PICK n \in WriteSize(buf0, pipe0) : buf0' = DropBytes(buf0, n)
      BY <2>2
    <3>2. buf0 # <<>>
      BY <1>5, <2>2 DEF Write0, WritesWaiting
    <3>3. n \in 1..Len(Head(buf0))
      BY <3>2, WriteSizes DEF Types
    <3>4. buf_length(buf0') = buf_length(buf0) - n
      BY <3>1, <3>2, <3>3, WriteBlock DEF Types
    <3>5. buf_length(buf0') <= buf_length(buf0)
      BY <1>0, <3>3, <3>4
    <3> QED BY <1>5, <2>2, <3>5 DEF Write0
  <2> QED BY <1>5, <2>1, <2>2 DEF Write0
<1>6. CASE Sigchld \/ ClientWrite \/ ClientClose \/ ClientRead \/ HangUp
  BY <1>6 DEF Sigchld, ClientWrite, ClientClose, ClientRead, HangUp
<1>7. CASE ChildRead \/ ChildWrite \/ ChildExit \/ UNCHANGED vars
  BY <1>7 DEF ChildRead, ChildWrite, ChildExit
<1> QED BY <1>1, <1>2, <1>3, <1>4, <1>5, <1>6, <1>7 DEF Next, Loop

\* Every step keeps the buffers that are read into below the limit, and all of them
\* within a block of it.
LEMMA BoundedNext ==
  ASSUME Types, WritesWaiting, ReadsBelow, Bounded, [Next]_vars
  PROVE  ReadsBelow' /\ Bounded'
<1>0. /\ buf_length(buf0) \in Nat /\ buf_length(buf1) \in Nat /\ BLKSZ \in Nat /\ MAX_BUFSZ \in Nat
      /\ buf_length(buf0') \in Nat /\ buf_length(buf1') \in Nat
  <2>1. Types'
    BY TypesNext
  <2> QED BY <2>1, LengthNat, SizeAssumption DEF Types, BlockLists
<1>1. Bounded'
  BY <1>0, LengthsNext DEF Bounded, ReadsBelow
<1>2. CASE Prepare
  <2>1. buf0' = buf0 /\ buf1' = buf1 /\ (pc' = "prepare0" => ifds' = WantRead) /\ pc' \in {"prepare0", "exited"}
    BY <1>2 DEF Prepare
  <2> QED BY <1>1, <2>1 DEF ReadsBelow, WantRead
<1>3. CASE ~Prepare
  <2>1. /\ pc' = "prepare0" => pc = "prepare0"
        /\ pc' = "select" => pc \in {"prepare0", "select"}
        /\ pc' = "read0" => pc \in {"select", "read0"}
        /\ pc' = "read1" => pc \in {"read0", "read1"}
        /\ ifds' \subseteq ifds
    <3> USE DEF clientVars, childVars, relayVars, vars
    <3>1. CASE Loop
      BY <1>3, <3>1 DEF Loop, Prepare0, Select, Read0, Read1, Write1, Write0
    <3>2. CASE Sigchld
      BY <3>2 DEF Sigchld
    <3>3. CASE ClientWrite \/ ClientClose \/ ClientRead \/ HangUp
      BY <3>3 DEF ClientWrite, ClientClose, ClientRead, HangUp
    <3>4. CASE ChildRead \/ ChildWrite \/ ChildExit \/ UNCHANGED vars
      BY <3>4 DEF ChildRead, ChildWrite, ChildExit
    <3> QED BY <3>1, <3>2, <3>3, <3>4 DEF Next
  <2>2. (pc' \in {"prepare0", "select", "read0"}) => buf0' = buf0
    BY LengthsNext
  <2>3. (pc' \in {"prepare0", "select", "read0", "read1"}) => buf1' = buf1
    BY LengthsNext
  <2>4. ReadsBelow'
    BY <2>1, <2>2, <2>3 DEF ReadsBelow
  <2> QED BY <1>1, <2>4
<1> QED BY <1>2, <1>3

\* InOrder, in terms of Stream.
LEMMA InOrderStreams ==
  InOrder <=> Stream(sent0, got0, pipe0, buf0, fd0) /\ Stream(sent1, got1, fd1, buf1, pipe1)
BY DEF InOrder, Stream, Cat

\* Every step of the relay and of the two others keeps both streams.
LEMMA StreamsNext ==
  ASSUME Types, WritesWaiting, [Next]_vars,
         Stream(sent0, got0, pipe0, buf0, fd0), Stream(sent1, got1, fd1, buf1, pipe1)
  PROVE  Stream(sent0, got0, pipe0, buf0, fd0)' /\ Stream(sent1, got1, fd1, buf1, pipe1)'
<1> USE DEF clientVars, childVars, relayVars, vars
<1> DEFINE Same0 == UNCHANGED <<sent0, got0, pipe0, buf0, fd0>>
           Same1 == UNCHANGED <<sent1, got1, fd1, buf1, pipe1>>
<1>0. sent0 \in Seq(Nat) /\ sent1 \in Seq(Nat)
  BY SentBytes
<1>a. ASSUME Same0 PROVE Stream(sent0, got0, pipe0, buf0, fd0)'
  BY <1>a DEF Stream
<1>b. ASSUME Same1 PROVE Stream(sent1, got1, fd1, buf1, pipe1)'
  BY <1>b DEF Stream
<1>1. CASE Prepare \/ Prepare0 \/ Select \/ Sigchld \/ ClientClose \/ HangUp \/ ChildExit \/ UNCHANGED vars
  <2>1. Same0 /\ Same1
    BY <1>1 DEF Prepare, Prepare0, Select, Sigchld, ClientClose, HangUp, ChildExit
  <2> QED BY <1>a, <1>b, <2>1
<1>2. CASE Read0
  <2>1. Same1 /\ UNCHANGED <<sent0, got0, pipe0>>
    BY <1>2 DEF Read0
  <2>2. CASE UNCHANGED <<fd0, buf0>>
    BY <1>a, <1>b, <2>1, <2>2
  <2>3. CASE \E n \in ReadSize(fd0) :
                /\ buf0' = AppendBlock(buf0, fd0, n)
                /\ fd0' = SubSeq(fd0, n + 1, Len(fd0))
    <3>1. PICK n \in ReadSize(fd0) :
                /\ buf0' = AppendBlock(buf0, fd0, n)
                /\ fd0' = SubSeq(fd0, n + 1, Len(fd0))
      BY <2>3
    <3>2. Stream(sent0, got0, pipe0, AppendBlock(buf0, fd0, n), SubSeq(fd0, n + 1, Len(fd0)))
      BY <1>0, StreamRead DEF Types
    <3> QED BY <1>b, <2>1, <3>1, <3>2 DEF Stream
  <2> QED BY <1>2, <2>2, <2>3 DEF Read0
<1>3. CASE Read1
  <2>1. Same0 /\ UNCHANGED <<sent1, got1, fd1>>
    BY <1>3 DEF Read1
  <2>2. CASE UNCHANGED <<pipe1, buf1>>
    BY <1>a, <1>b, <2>1, <2>2
  <2>3. CASE \E n \in ReadSize(pipe1) :
                /\ buf1' = AppendBlock(buf1, pipe1, n)
                /\ pipe1' = SubSeq(pipe1, n + 1, Len(pipe1))
    <3>1. PICK n \in ReadSize(pipe1) :
                /\ buf1' = AppendBlock(buf1, pipe1, n)
                /\ pipe1' = SubSeq(pipe1, n + 1, Len(pipe1))
      BY <2>3
    <3>2. Stream(sent1, got1, fd1, AppendBlock(buf1, pipe1, n), SubSeq(pipe1, n + 1, Len(pipe1)))
      BY <1>0, StreamRead DEF Types
    <3> QED BY <1>a, <2>1, <3>1, <3>2 DEF Stream
  <2> QED BY <1>3, <2>2, <2>3 DEF Read1
<1>4. CASE Write1
  <2>1. Same0 /\ UNCHANGED <<sent1, got1, pipe1>>
    BY <1>4 DEF Write1
  <2>2. CASE UNCHANGED <<fd1, buf1>>
    BY <1>a, <1>b, <2>1, <2>2
  <2>3. CASE /\ "1" \in ofds
             /\ \E n \in WriteSize(buf1, fd1) :
                /\ fd1' = fd1 \o SubSeq(Head(buf1), 1, n)
                /\ buf1' = DropBytes(buf1, n)
    <3>1. PICK n \in WriteSize(buf1, fd1) :
                /\ fd1' = fd1 \o SubSeq(Head(buf1), 1, n)
                /\ buf1' = DropBytes(buf1, n)
      BY <2>3
    <3>2. buf1 # <<>>
      BY <1>4, <2>3 DEF Write1, WritesWaiting
    <3>3. n \in 1..Len(Head(buf1))
      BY <3>2, WriteSizes DEF Types
    <3>4. Stream(sent1, got1, fd1 \o SubSeq(Head(buf1), 1, n), DropBytes(buf1, n), pipe1)
      BY <1>0, <3>2, <3>3, StreamWrite DEF Types
    <3> QED BY <1>a, <2>1, <3>1, <3>4 DEF Stream
  <2> QED BY <1>4, <2>2, <2>3 DEF Write1
<1>5. CASE Write0
  <2>1. Same1 /\ UNCHANGED <<sent0, got0, fd0>>
    BY <1>5 DEF Write0
  <2>2. CASE UNCHANGED <<pipe0, buf0>>
    BY <1>a, <1>b, <2>1, <2>2
  <2>3. CASE /\ "child_stdin" \in ofds
             /\ \E n \in WriteSize(buf0, pipe0) :
                /\ pipe0' = pipe0 \o SubSeq(Head(buf0), 1, n)
                /\ buf0' = DropBytes(buf0, n)
    <3>1. PICK n \in WriteSize(buf0, pipe0) :
                /\ pipe0' = pipe0 \o SubSeq(Head(buf0), 1, n)
                /\ buf0' = DropBytes(buf0, n)
      BY <2>3
    <3>2. buf0 # <<>>
      BY <1>5, <2>3 DEF Write0, WritesWaiting
    <3>3. n \in 1..Len(Head(buf0))
      BY <3>2, WriteSizes DEF Types
    <3>4. Stream(sent0, got0, pipe0 \o SubSeq(Head(buf0), 1, n), DropBytes(buf0, n), fd0)
      BY <1>0, <3>2, <3>3, StreamWrite DEF Types
    <3> QED BY <1>b, <2>1, <3>1, <3>4 DEF Stream
  <2> QED BY <1>5, <2>2, <2>3 DEF Write0
<1>6. CASE ClientWrite
  <2>1. Same1 /\ UNCHANGED <<got0, pipe0, buf0>>
    BY <1>6 DEF ClientWrite
  <2>2. Len(sent0) + 1 \in Nat
    BY <1>0, LenProperties
  <2>3. Stream(Append(sent0, Len(sent0) + 1), got0, pipe0, buf0, Append(fd0, Len(sent0) + 1))
    BY <1>0, <2>2, StreamSource DEF Types
  <2>4. sent0' = Append(sent0, Len(sent0) + 1) /\ fd0' = Append(fd0, Len(sent0) + 1)
    BY <1>6 DEF ClientWrite
  <2> QED BY <1>b, <2>1, <2>3, <2>4 DEF Stream
<1>7. CASE ChildWrite
  <2>1. Same0 /\ UNCHANGED <<got1, fd1, buf1>>
    BY <1>7 DEF ChildWrite
  <2>2. Len(sent1) + 1 \in Nat
    BY <1>0, LenProperties
  <2>3. Stream(Append(sent1, Len(sent1) + 1), got1, fd1, buf1, Append(pipe1, Len(sent1) + 1))
    BY <1>0, <2>2, StreamSource DEF Types
  <2>4. sent1' = Append(sent1, Len(sent1) + 1) /\ pipe1' = Append(pipe1, Len(sent1) + 1)
    BY <1>7 DEF ChildWrite
  <2> QED BY <1>a, <2>1, <2>3, <2>4 DEF Stream
<1>8. CASE ClientRead
  <2>1. Same0 /\ UNCHANGED <<sent1, buf1, pipe1>>
    BY <1>8 DEF ClientRead
  <2>2. fd1 # <<>> /\ got1' = Append(got1, Head(fd1)) /\ fd1' = Tail(fd1)
    BY <1>8 DEF ClientRead
  <2>3. Stream(sent1, Append(got1, Head(fd1)), Tail(fd1), buf1, pipe1)
    BY <1>0, <2>2, StreamSink DEF Types
  <2> QED BY <1>a, <2>1, <2>2, <2>3 DEF Stream
<1>9. CASE ChildRead
  <2>1. Same1 /\ UNCHANGED <<sent0, buf0, fd0>>
    BY <1>9 DEF ChildRead
  <2>2. pipe0 # <<>> /\ got0' = Append(got0, Head(pipe0)) /\ pipe0' = Tail(pipe0)
    BY <1>9 DEF ChildRead
  <2>3. Stream(sent0, Append(got0, Head(pipe0)), Tail(pipe0), buf0, fd0)
    BY <1>0, <2>2, StreamSink DEF Types
  <2> QED BY <1>b, <2>1, <2>2, <2>3 DEF Stream
<1> QED BY <1>1, <1>2, <1>3, <1>4, <1>5, <1>6, <1>7, <1>8, <1>9 DEF Next, Loop

-----------------------------------------------------------------------------
(* The theorems. *)

LEMMA Inductive == Spec => []IInv
<1>1. Init => IInv
  <2> SUFFICES ASSUME Init PROVE IInv
    OBVIOUS
  <2>1. Types
    BY InitTypes
  <2>2. WritesWaiting /\ OnlyOutput /\ ReadsBelow
    BY DEF Init, WritesWaiting, OnlyOutput, ReadsBelow
  <2>3. Bounded
    BY LengthEmpty, SizeAssumption DEF Init, Bounded
  <2>4. Stream(<<>>, <<>>, <<>>, <<>>, <<>>)
    <3>1. <<>> \in Seq(Nat)
      BY EmptySeq
    <3> QED BY <3>1, FlattenEmpty, CatEmpty DEF Stream
  <2>5. InOrder
    BY <2>4, InOrderStreams DEF Init
  <2> QED BY <2>1, <2>2, <2>3, <2>5 DEF IInv
<1>2. IInv /\ [Next]_vars => IInv'
  <2> SUFFICES ASSUME IInv, [Next]_vars PROVE IInv'
    OBVIOUS
  <2>1. Types' /\ WritesWaiting' /\ OnlyOutput'
    BY TypesNext, WritesWaitingNext DEF IInv
  <2>2. ReadsBelow' /\ Bounded'
    BY BoundedNext DEF IInv
  <2>3. InOrder'
    <3>1. Stream(sent0, got0, pipe0, buf0, fd0) /\ Stream(sent1, got1, fd1, buf1, pipe1)
      BY InOrderStreams DEF IInv
    <3>2. Stream(sent0, got0, pipe0, buf0, fd0)' /\ Stream(sent1, got1, fd1, buf1, pipe1)'
      BY <3>1, StreamsNext DEF IInv
    <3> QED BY <3>2 DEF InOrder, Stream, Cat
  <2> QED BY <2>1, <2>2, <2>3 DEF IInv
<1> QED BY <1>1, <1>2, PTL DEF Spec

\* buf_read() and buf_write() keep every byte once and in order, in both directions,
\* whatever the sizes of the reads and writes and wherever the signals fall.
THEOREM BytesInOrder == Spec => []InOrder
<1>1. IInv => InOrder
  BY DEF IInv
<1> QED BY <1>1, Inductive, PTL

\* The main loop's checks before select() bound both buffers.
THEOREM BuffersBounded == Spec => []Bounded
<1>1. IInv => Bounded
  BY DEF IInv
<1> QED BY <1>1, Inductive, PTL

\* The types, and that no empty block is ever linked in.
THEOREM BufferTypes == Spec => []TypeOK
<1>1. IInv => TypeOK
  BY DEF IInv, Types, TypeOK, BlockLists
<1> QED BY <1>1, Inductive, PTL

\* A sequence is a prefix of itself and of what it grows to.
LEMMA Grows ==
  ASSUME NEW S, NEW s \in Seq(S), NEW t, t = s \/ \E x \in S : t = Append(s, x)
  PROVE  Prefix(s, t)
<1>1. CASE t = s
  BY <1>1, LenProperties DEF Prefix
<1>2. CASE \E x \in S : t = Append(s, x)
  <2>1. PICK x \in S : t = Append(s, x)
    BY <1>2
  <2>2. Len(s) \in Nat /\ Len(t) = Len(s) + 1 /\ \A i \in 1..Len(s) : t[i] = s[i]
    BY <2>1, LenProperties, AppendProperties
  <2>3. SubSeq(s, 1, Len(s)) = SubSeq(t, 1, Len(s))
    BY <2>2
  <2> QED BY <2>2, <2>3 DEF Prefix
<1> QED BY <1>1, <1>2

\* The four ends of the relay only grow, by a byte at a time.
LEMMA EndsGrow ==
  ASSUME Types, [Next]_vars
  PROVE  /\ sent0' = sent0 \/ \E x \in 1..Total0 : sent0' = Append(sent0, x)
         /\ sent1' = sent1 \/ \E x \in 1..Total1 : sent1' = Append(sent1, x)
         /\ got0' = got0 \/ \E x \in Nat : got0' = Append(got0, x)
         /\ got1' = got1 \/ \E x \in Nat : got1' = Append(got1, x)
<1> USE DEF clientVars, childVars, relayVars, vars
<1>1. CASE Loop \/ Sigchld \/ ClientClose \/ HangUp \/ ChildExit \/ UNCHANGED vars
  BY <1>1 DEF Loop, Prepare, Prepare0, Select, Read0, Read1, Write1, Write0, Sigchld,
              ClientClose, HangUp, ChildExit
<1>2. CASE ClientWrite
  <2>1. Len(sent0) + 1 \in 1..Total0
    BY <1>2, SizeAssumption, LenProperties DEF ClientWrite, Types
  <2> QED BY <1>2, <2>1 DEF ClientWrite
<1>3. CASE ChildWrite
  <2>1. Len(sent1) + 1 \in 1..Total1
    BY <1>3, SizeAssumption, LenProperties DEF ChildWrite, Types
  <2> QED BY <1>3, <2>1 DEF ChildWrite
<1>4. CASE ClientRead
  <2>1. Head(fd1) \in Nat
    BY <1>4, HeadTailProperties DEF ClientRead, Types
  <2> QED BY <1>4, <2>1 DEF ClientRead
<1>5. CASE ChildRead
  <2>1. Head(pipe0) \in Nat
    BY <1>5, HeadTailProperties DEF ChildRead, Types
  <2> QED BY <1>5, <2>1 DEF ChildRead
<1> QED BY <1>1, <1>2, <1>3, <1>4, <1>5 DEF Next

\* Each direction of the relay implements ByteStream: every step of the relay is a
\* step of the abstract stream or leaves it alone.
THEOREM RelayIsStream == Spec => IsStream
<1>1. Init => In!StreamInit /\ Out!StreamInit
  BY DEF Init, In!StreamInit, Out!StreamInit
<1>2. IInv /\ IInv' /\ [Next]_vars => [In!StreamNext]_In!streamVars /\ [Out!StreamNext]_Out!streamVars
  <2> SUFFICES ASSUME IInv, IInv', [Next]_vars PROVE In!StreamNext /\ Out!StreamNext
    OBVIOUS
  <2>1. Types /\ Types'
    BY DEF IInv
  <2>2. sent0 \in Seq(1..Total0) /\ sent1 \in Seq(1..Total1) /\ got0 \in Seq(Nat) /\ got1 \in Seq(Nat)
    BY <2>1 DEF Types
  <2>3. Prefix(sent0, sent0')
    BY <2>1, <2>2, EndsGrow, Grows
  <2>4. Prefix(sent1, sent1')
    BY <2>1, <2>2, EndsGrow, Grows
  <2>5. Prefix(got0, got0')
    BY <2>1, <2>2, EndsGrow, Grows
  <2>6. Prefix(got1, got1')
    BY <2>1, <2>2, EndsGrow, Grows
  <2>7. \A i \in DOMAIN sent0' : sent0'[i] \in 1..Total0
    <3>1. sent0' \in Seq(1..Total0)
      BY <2>1 DEF Types
    <3> QED BY <3>1, LenProperties, ElementOfSeq
  <2>8. \A i \in DOMAIN sent1' : sent1'[i] \in 1..Total1
    <3>1. sent1' \in Seq(1..Total1)
      BY <2>1 DEF Types
    <3> QED BY <3>1, LenProperties, ElementOfSeq
  <2>9. /\ Stream(sent0', got0', pipe0', buf0', fd0') /\ Stream(sent1', got1', fd1', buf1', pipe1')
        /\ sent0' \in Seq(Nat) /\ sent1' \in Seq(Nat)
    <3>1. InOrder'
      BY DEF IInv
    <3>2. 1..Total0 \subseteq Nat /\ 1..Total1 \subseteq Nat
      BY SizeAssumption
    <3>3. sent0' \in Seq(Nat) /\ sent1' \in Seq(Nat)
      BY <2>1, <3>2, SeqMonotonic DEF Types
    <3> QED BY <3>1, <3>3 DEF InOrder, Stream, Cat
  <2>10. Prefix(got0', sent0')
    BY <2>1, <2>9, StreamPrefix DEF Types
  <2>11. Prefix(got1', sent1')
    BY <2>1, <2>9, StreamPrefix DEF Types
  <2>12. In!StreamNext
    BY <2>3, <2>5, <2>7, <2>10 DEF In!StreamNext, In!IsPrefix, Prefix
  <2>13. Out!StreamNext
    BY <2>4, <2>6, <2>8, <2>11 DEF Out!StreamNext, Out!IsPrefix, Prefix
  <2> QED BY <2>12, <2>13
<1> QED BY <1>1, <1>2, Inductive, PTL DEF Spec, IsStream, In!StreamSpec, Out!StreamSpec
=============================================================================
