-------------------------- MODULE BufferStore_proofs --------------------------
(***************************************************************************)
(* The frames of BufferStore are in order, and none is lost, whatever the  *)
(* size of a block and the length of the pieces, until a piece is written  *)
(* beyond the partial store; and the lengths that do this are found, which *)
(* are all but those that end inside a block or go on for as much again.   *)
(*                                                                         *)
(* A store that is filled in order is one whose blocks and partial store   *)
(* hold the frames 1, 2, 3 ... at the positions these have in it.  The two *)
(* lemmas on Donated and WithBlocks say that frames that follow on keep it *)
(* so; the rest is how addFrames: splits a piece between them.             *)
(***************************************************************************)
EXTENDS BufferStore, SequenceTheorems, TLAPS

Block == [1 .. BlockSize -> Nat]
Stores == [blocks : Seq(Block), partial : Seq(Nat)]

\* The frames in n blocks.
InBlocks(n) == n * BlockSize

Filled(s) == InBlocks(Len(s.blocks)) + Len(s.partial)

Ordered(s) ==
  /\ s \in Stores
  /\ Len(s.partial) < BlockSize
  /\ \A i \in 1 .. Len(s.blocks), j \in 1 .. BlockSize :
       s.blocks[i][j] = InBlocks(i - 1) + j
  /\ \A j \in 1 .. Len(s.partial) :
       s.partial[j] = InBlocks(Len(s.blocks)) + j

Follows(s, data) ==
  /\ data \in Seq(Nat)
  /\ \A k \in 1 .. Len(data) : data[k] = Filled(s) + k

-----------------------------------------------------------------------------
(* Arithmetic.                                                             *)

\* A block has more than one frame.
LEMMA BlockSizeNat == BlockSize \in Nat /\ BlockSize > 1
  BY StoreAssumption

\* InBlocks(n), the frames of n blocks, is a number: none for no block, ...
LEMMA FramesNat ==
  ASSUME NEW n \in Nat
  PROVE  InBlocks(n) \in Nat
  <1>1. BlockSize \in Nat
    BY BlockSizeNat
  <1> QED BY <1>1 DEF InBlocks

LEMMA FramesNone == InBlocks(0) = 0
  <1>1. BlockSize \in Nat
    BY BlockSizeNat
  <1> QED BY <1>1 DEF InBlocks

\* ... additive, ...
LEMMA FramesPlus ==
  ASSUME NEW m \in Int, NEW n \in Int
  PROVE  InBlocks(m + n) = InBlocks(m) + InBlocks(n)
  <1>1. BlockSize \in Nat
    BY BlockSizeNat
  <1> QED BY <1>1 DEF InBlocks

LEMMA FramesNext ==
  ASSUME NEW n \in Int
  PROVE  InBlocks(n + 1) = InBlocks(n) + BlockSize
  <1>1. BlockSize \in Nat
    BY BlockSizeNat
  <1> QED BY <1>1 DEF InBlocks

\* ... and monotonic.
LEMMA FramesMono ==
  ASSUME NEW m \in Int, NEW n \in Int, m <= n
  PROVE  InBlocks(m) <= InBlocks(n)
  <1>1. BlockSize \in Nat
    BY BlockSizeNat
  <1> QED BY <1>1 DEF InBlocks

\* Division by the size of a block.
LEMMA Division ==
  ASSUME NEW n \in Nat
  PROVE  /\ n \div BlockSize \in Nat
         /\ InBlocks(n \div BlockSize) <= n
         /\ n < InBlocks(n \div BlockSize) + BlockSize
  BY StoreAssumption DEF InBlocks

\* The places of block i are among the first InBlocks(n) if i <= n.
LEMMA PlaceInBlocks ==
  ASSUME NEW n \in Nat, NEW i \in 1 .. n, NEW j \in 1 .. BlockSize
  PROVE  InBlocks(i - 1) + j \in 1 .. InBlocks(n)
  <1>1. i - 1 \in Nat /\ i - 1 + 1 = i
    OBVIOUS
  <1>2. InBlocks(i - 1) \in Nat /\ InBlocks(n) \in Nat
    BY <1>1, FramesNat
  <1>3. InBlocks(i) = InBlocks(i - 1) + BlockSize
    BY <1>1, FramesNext
  <1>4. InBlocks(i) <= InBlocks(n)
    BY FramesMono
  <1> QED BY <1>2, <1>3, <1>4, BlockSizeNat

-----------------------------------------------------------------------------
(* The partial store.                                                      *)

\* Frames that follow and fit are put in order behind those in the partial
\* store, which becomes a block when it is full.
LEMMA DonatedOrdered ==
  ASSUME NEW s, NEW data, Ordered(s), Follows(s, data),
         Len(s.partial) + Len(data) <= BlockSize
  PROVE  /\ Ordered(Donated(s, data))
         /\ Filled(Donated(s, data)) = Filled(s) + Len(data)
         /\ Len(s.partial) + Len(data) = BlockSize =>
              Donated(s, data).partial = <<>>
  <1> DEFINE p == s.partial \o data
             L == Len(s.blocks)
  <1>1. /\ s = [blocks |-> s.blocks, partial |-> s.partial]
        /\ s.blocks \in Seq(Block) /\ s.partial \in Seq(Nat)
        /\ data \in Seq(Nat)
    BY DEF Ordered, Stores, Follows
  <1>2. L \in Nat /\ Len(s.partial) \in Nat /\ Len(data) \in Nat
    BY <1>1, LenProperties
  <1>3. InBlocks(L) \in Nat /\ InBlocks(L + 1) = InBlocks(L) + BlockSize
    <2>1. L \in Nat /\ L \in Int
      BY <1>2
    <2> HIDE DEF L
    <2>2. InBlocks(L) \in Nat
      BY <2>1, FramesNat
    <2>3. InBlocks(L + 1) = InBlocks(L) + BlockSize
      BY <2>1, FramesNext
    <2> QED BY <2>2, <2>3
  <1>4. p \in Seq(Nat) /\ Len(p) = Len(s.partial) + Len(data)
    BY <1>1, ConcatProperties
  <1>5. ASSUME NEW j \in 1 .. Len(p) PROVE p[j] = InBlocks(L) + j
    <2>1. CASE j <= Len(s.partial)
      <3>1. p[j] = s.partial[j]
        BY <1>1, <1>4, <2>1, ConcatProperties
      <3> QED BY <1>2, <2>1, <3>1 DEF Ordered
    <2>2. CASE j > Len(s.partial)
      <3>1. p[j] = data[j - Len(s.partial)]
        BY <1>1, <1>4, <2>2, ConcatProperties
      <3>2. j - Len(s.partial) \in 1 .. Len(data)
        BY <1>2, <1>4, <2>2
      <3>3. data[j - Len(s.partial)] = Filled(s) + (j - Len(s.partial))
        BY <3>2 DEF Follows
      <3> QED BY <1>2, <1>3, <3>1, <3>3 DEF Filled
    <2> QED BY <1>2, <1>4, <2>1, <2>2
  <1>6. CASE Len(p) = BlockSize
    <2> DEFINE b == Append(s.blocks, p)
    <2>1. Donated(s, data) = [blocks |-> b, partial |-> <<>>]
      BY <1>6 DEF Donated
    <2>2. p \in Block
      BY <1>4, <1>6, LenProperties, ElementOfSeq DEF Block
    <2> HIDE DEF p
    <2>3. /\ b \in Seq(Block) /\ Len(b) = L + 1 /\ b[L + 1] = p
          /\ \A i \in 1 .. L : b[i] = s.blocks[i]
      BY <1>1, <2>2, AppendProperties
    <2> HIDE DEF b
    <2>4. ASSUME NEW i \in 1 .. Len(b), NEW j \in 1 .. BlockSize
          PROVE  b[i][j] = InBlocks(i - 1) + j
      <3>1. CASE i \in 1 .. L
        BY <2>3, <3>1 DEF Ordered
      <3>2. CASE i = L + 1
        <4>1. i - 1 = L
          BY <1>2, <3>2
        <4> QED BY <1>5, <1>6, <2>3, <3>2, <4>1
      <3> QED BY <1>2, <2>3, <3>1, <3>2
    <2> DEFINE t == Donated(s, data)
    <2>5. t.blocks = b /\ t.partial = <<>> /\ Len(t.partial) = 0
      BY <2>1
    <2>6. t \in Stores
      BY <2>1, <2>3 DEF Stores
    <2> HIDE DEF t
    <2>7. Ordered(t)
      BY <2>4, <2>5, <2>6, BlockSizeNat DEF Ordered
    <2>8. Filled(t) = Filled(s) + Len(data)
      BY <1>2, <1>3, <1>4, <1>6, <2>3, <2>5, BlockSizeNat DEF Filled
    <2> QED BY <2>5, <2>7, <2>8 DEF t
  <1>7. CASE Len(p) # BlockSize
    <2>1. Donated(s, data) = [blocks |-> s.blocks, partial |-> p]
      <3>1. Donated(s, data) = [s EXCEPT !.partial = p]
        BY <1>7 DEF Donated
      <3> HIDE DEF p
      <3> QED BY <1>1, <3>1
    <2> HIDE DEF p
    <2> DEFINE t == Donated(s, data)
    <2>2. t.blocks = s.blocks /\ t.partial = p
      BY <2>1
    <2>3. t \in Stores
      BY <1>1, <1>4, <2>1 DEF Stores
    <2> HIDE DEF t
    <2>4. Ordered(t)
      <3>1. Len(t.partial) < BlockSize
        BY <1>2, <1>4, <1>7, <2>2, BlockSizeNat
      <3> QED BY <1>5, <2>2, <2>3, <3>1 DEF Ordered
    <2>5. Filled(t) = Filled(s) + Len(data)
      <3>1. Len(t.blocks) = L /\ Len(t.partial) = Len(p)
        BY <2>2
      <3>2. Filled(t) = InBlocks(L) + Len(p) /\ Filled(s) = InBlocks(L) + Len(s.partial)
        BY <3>1 DEF Filled
      <3> QED BY <1>2, <1>3, <1>4, <3>2
    <2> QED BY <1>4, <1>7, <2>4, <2>5 DEF t
  <1> QED BY <1>6, <1>7

-----------------------------------------------------------------------------
(* The whole blocks.                                                       *)

\* The whole blocks of frames that follow are put in order behind those there
\* are, if nothing waits in the partial store.
LEMMA WithBlocksOrdered ==
  ASSUME NEW s, NEW data, Ordered(s), Follows(s, data),
         s.partial = <<>> \/ Len(data) = 0
  PROVE  /\ Ordered(WithBlocks(s, data))
         /\ WithBlocks(s, data).partial = s.partial
         /\ Filled(WithBlocks(s, data)) =
              Filled(s) + InBlocks(Len(data) \div BlockSize)
  <1> DEFINE L == Len(s.blocks)
             q == Len(data) \div BlockSize
             B(i) == [j \in 1 .. BlockSize |-> data[(i - 1) * BlockSize + j]]
             new == [i \in 1 .. q |-> B(i)]
             b == s.blocks \o new
             t == WithBlocks(s, data)
  <1>1. /\ s = [blocks |-> s.blocks, partial |-> s.partial]
        /\ s.blocks \in Seq(Block) /\ s.partial \in Seq(Nat)
        /\ data \in Seq(Nat)
    BY DEF Ordered, Stores, Follows
  <1>2. L \in Nat /\ Len(s.partial) \in Nat /\ Len(data) \in Nat
    BY <1>1, LenProperties
  <1>3. q \in Nat /\ InBlocks(q) \in Nat /\ InBlocks(q) <= Len(data)
    <2>1. q \in Nat /\ InBlocks(q) <= Len(data)
      BY <1>2, Division
    <2> HIDE DEF q
    <2> QED BY <2>1, FramesNat
  <1>4. t = [blocks |-> b, partial |-> s.partial]
    <2>1. t = [s EXCEPT !.blocks = b]
      BY DEF WithBlocks
    <2> HIDE DEF b, t
    <2> QED BY <1>1, <2>1
  <1> HIDE DEF q
  <1>5. ASSUME NEW i \in 1 .. q, NEW j \in 1 .. BlockSize
        PROVE  /\ B(i)[j] = InBlocks(L) + InBlocks(i - 1) + j
               /\ B(i)[j] \in Nat
    <2>1. InBlocks(i - 1) + j \in 1 .. Len(data)
      <3>1. InBlocks(i - 1) + j \in 1 .. InBlocks(q)
        BY <1>3, PlaceInBlocks
      <3> QED BY <1>2, <1>3, <3>1
    <2>2. B(i)[j] = data[InBlocks(i - 1) + j]
      BY DEF InBlocks
    <2>3. B(i)[j] = Filled(s) + (InBlocks(i - 1) + j) /\ B(i)[j] \in Nat
      BY <1>1, <2>1, <2>2, ElementOfSeq DEF Follows
    <2>4. Len(s.partial) = 0
      BY <1>2, <2>1
    <2>5. Filled(s) = InBlocks(L)
      <3>1. InBlocks(L) \in Nat
        BY <1>2, FramesNat
      <3> QED BY <2>4, <3>1 DEF Filled
    <2>6. i - 1 \in Nat
      OBVIOUS
    <2>7. InBlocks(i - 1) \in Nat /\ InBlocks(L) \in Nat
      BY <1>2, <2>6, FramesNat
    <2> QED BY <2>3, <2>5, <2>7
  <1>6. new \in Seq(Block) /\ Len(new) = q
    <2>1. \A i \in 1 .. q : B(i) \in Block
      BY <1>5 DEF Block
    <2> HIDE DEF B
    <2> QED BY <1>3, <2>1, LenProperties
  <1>7. /\ b \in Seq(Block) /\ Len(b) = L + q
        /\ \A i \in 1 .. L + q :
             b[i] = IF i <= L THEN s.blocks[i] ELSE new[i - L]
    <2> HIDE DEF new
    <2> QED BY <1>1, <1>2, <1>6, ConcatProperties
  <1>8. ASSUME NEW i \in 1 .. L + q, NEW j \in 1 .. BlockSize
        PROVE  b[i][j] = InBlocks(i - 1) + j
    <2>1. CASE i <= L
      <3>1. i \in 1 .. L
        BY <1>2, <1>3, <2>1
      <3> HIDE DEF b, new
      <3> QED BY <1>7, <2>1, <3>1 DEF Ordered
    <2>2. CASE i > L
      <3>1. i - L \in 1 .. q /\ i - L - 1 \in Int /\ i - 1 = L + (i - L - 1)
        BY <1>2, <1>3, <2>2
      <3>2. b[i] = B(i - L)
        <4>1. b[i] = new[i - L]
          <5> HIDE DEF b, new
          <5> QED BY <1>2, <1>3, <1>7, <2>2
        <4> QED BY <3>1, <4>1
      <3>3. B(i - L)[j] = InBlocks(L) + InBlocks(i - L - 1) + j
        BY <1>5, <3>1
      <3>4. InBlocks(L + (i - L - 1)) = InBlocks(L) + InBlocks(i - L - 1)
        <4>1. L \in Int
          BY <1>2
        <4>2. PICK k \in Int : k = i - L - 1
          BY <3>1
        <4> HIDE DEF L
        <4>3. InBlocks(L + k) = InBlocks(L) + InBlocks(k)
          BY <4>1, FramesPlus
        <4> QED BY <4>2, <4>3
      <3> QED BY <3>1, <3>2, <3>3, <3>4
    <2> QED BY <1>2, <1>3, <2>1, <2>2
  <1>9. t.blocks = b /\ t.partial = s.partial /\ t \in Stores
    <2> HIDE DEF b, t
    <2> QED BY <1>1, <1>4, <1>7 DEF Stores
  <1> HIDE DEF t, b
  <1>10. Ordered(t)
    <2>1. ASSUME NEW j \in 1 .. Len(s.partial)
          PROVE  s.partial[j] = InBlocks(Len(b)) + j
      <3>1. Len(s.partial) # 0
        BY <1>2
      <3>2. q = 0
        <4>1. Len(data) = 0
          BY <3>1
        <4> QED BY <4>1, BlockSizeNat DEF q
      <3>3. Len(b) = L
        BY <1>2, <1>7, <3>2
      <3> QED BY <3>3 DEF Ordered
    <2> QED BY <1>7, <1>8, <1>9, <2>1 DEF Ordered
  <1>11. Filled(t) = Filled(s) + InBlocks(q)
    <2>1. InBlocks(L + q) = InBlocks(L) + InBlocks(q) /\ InBlocks(L) \in Nat
      <3>1. L \in Nat /\ L \in Int /\ q \in Int
        BY <1>2, <1>3
      <3> HIDE DEF L
      <3>2. InBlocks(L + q) = InBlocks(L) + InBlocks(q)
        BY <3>1, FramesPlus
      <3> QED BY <3>1, <3>2, FramesNat
    <2>2. Filled(t) = InBlocks(L + q) + Len(s.partial)
      BY <1>7, <1>9 DEF Filled
    <2>3. Filled(s) = InBlocks(L) + Len(s.partial)
      BY DEF Filled
    <2> QED BY <1>2, <1>3, <2>1, <2>2, <2>3
  <1> QED BY <1>9, <1>10, <1>11 DEF t, q

-----------------------------------------------------------------------------
(* How addFrames: splits a piece.                                          *)

\* A part of consecutive frames is consecutive.
LEMMA Part ==
  ASSUME NEW c \in Nat, NEW data \in Seq(Nat),
         \A k \in 1 .. Len(data) : data[k] = c + k,
         NEW a \in 0 .. Len(data), NEW e \in a .. Len(data)
  PROVE  /\ SubSeq(data, a + 1, e) \in Seq(Nat)
         /\ Len(SubSeq(data, a + 1, e)) = e - a
         /\ \A k \in 1 .. e - a : SubSeq(data, a + 1, e)[k] = c + a + k
  <1>1. Len(data) \in Nat
    BY LenProperties
  <1>2. PICK f : f = a + 1
    OBVIOUS
  <1>3. f \in Int /\ e \in Int /\ f = a + 1
    BY <1>1, <1>2
  <1>4. \A i \in f .. e : data[i] \in Nat
    BY <1>1, <1>3
  <1>5. /\ SubSeq(data, f, e) \in Seq(Nat)
        /\ Len(SubSeq(data, f, e)) = IF f <= e THEN e - f + 1 ELSE 0
        /\ \A i \in 1 .. e - f + 1 : SubSeq(data, f, e)[i] = data[f + i - 1]
    BY <1>3, <1>4, SubSeqProperties
  <1>6. Len(SubSeq(data, f, e)) = e - a
    BY <1>1, <1>3, <1>5
  <1>7. ASSUME NEW k \in 1 .. e - a
        PROVE  SubSeq(data, f, e)[k] = c + a + k
    <2>1. SubSeq(data, f, e)[k] = data[f + k - 1]
      BY <1>1, <1>3, <1>5
    <2>2. f + k - 1 \in 1 .. Len(data) /\ f + k - 1 = a + k
      BY <1>1, <1>3
    <2> QED BY <1>1, <2>1, <2>2
  <1> QED BY <1>3, <1>5, <1>6, <1>7

\* A store in order needs what its partial store lacks of a block.
LEMMA NeededToFill ==
  ASSUME Ordered(store)
  PROVE  /\ Needed = BlockSize - Len(store.partial)
         /\ Needed \in 1 .. BlockSize
  <1>1. Len(store.partial) \in Nat /\ Len(store.partial) < BlockSize
    BY LenProperties DEF Ordered, Stores
  <1>2. BlockSize \in Nat /\ SizeMod \in Nat /\ SizeMod > BlockSize
    BY StoreAssumption
  <1>3. PICK x : x = BlockSize - Len(store.partial)
    OBVIOUS
  <1>4. x \in Nat /\ x < SizeMod /\ x \in 1 .. BlockSize
    BY <1>1, <1>2, <1>3
  <1>5. x % SizeMod = x
    BY <1>2, <1>4
  <1> QED BY <1>3, <1>4, <1>5 DEF Needed

\* If a piece fits the donation is the right one: there is room for it, and if
\* anything is left of the piece it fills the partial store.
LEMMA DonationFits ==
  ASSUME Ordered(store), NEW n \in Nat \ {0}, Fits(n)
  PROVE  /\ Donation(n) \in 0 .. n
         /\ Len(store.partial) + Donation(n) <= BlockSize
         /\ Donation(n) = 0 => store.partial = <<>>
         /\ Donation(n) < n =>
              \/ Donation(n) = 0
              \/ Len(store.partial) + Donation(n) = BlockSize
  <1>1. Len(store.partial) \in Nat /\ Len(store.partial) < BlockSize
    BY LenProperties DEF Ordered, Stores
  <1>2. /\ Needed = BlockSize - Len(store.partial)
        /\ Needed \in 1 .. BlockSize
    BY NeededToFill
  <1>3. CASE store.partial = <<>>
    BY <1>1, <1>3, BlockSizeNat DEF Donation
  <1>4. CASE store.partial # <<>> /\ n <= Needed
    <2>1. Donation(n) = n
      BY <1>2, <1>4, BlockSizeNat DEF Donation
    <2> QED BY <1>1, <1>2, <1>4, <2>1, BlockSizeNat
  <1>5. CASE store.partial # <<>> /\ n = 2 * Needed
    <2>1. Donation(n) = Needed
      <3>1. PICK x : x = Needed
        OBVIOUS
      <3>2. x \in Nat /\ x > 0 /\ n = 2 * x
        BY <1>2, <1>5, <3>1, BlockSizeNat
      <3>3. n > x /\ n - x = x
        BY <3>2
      <3> QED BY <1>5, <3>1, <3>3 DEF Donation
    <2> QED BY <1>1, <1>2, <1>5, <2>1, BlockSizeNat
  <1> QED BY <1>3, <1>4, <1>5 DEF Fits

\* addFrames: keeps the order at each of its steps, and takes in all of a piece.
LEMMA AddKeepsOrder ==
  ASSUME Ordered(store), added \in Nat, Filled(store) = added,
         NEW n \in Nat \ {0}, Fits(n)
  PROVE  LET data == Piece(n)
             s2 == WithBlocks(StoreFirst(data), Rest(data))
             s3 == Donated(s2, Over(data))
         IN  /\ Len(data) = n
             /\ Ordered(s2) /\ Filled(s2) <= added + n
             /\ Ordered(s3) /\ Filled(s3) = added + n
  <1> DEFINE data == Piece(n)
             s1 == StoreFirst(data)
             r == Rest(data)
             s2 == WithBlocks(s1, r)
             o == Over(data)
             s3 == Donated(s2, o)
  <1>1. /\ data \in Seq(Nat) /\ Len(data) = n
        /\ \A k \in 1 .. n : data[k] = added + k
    BY DEF Piece
  <1> HIDE DEF data
  <1>2. PICK d : d = Donation(n)
    OBVIOUS
  <1>3. /\ d \in 0 .. n
        /\ Len(store.partial) + d <= BlockSize
        /\ d = 0 => store.partial = <<>>
        /\ d < n => d = 0 \/ Len(store.partial) + d = BlockSize
    BY <1>2, DonationFits
  <1>4. /\ First(data) \in Seq(Nat) /\ Len(First(data)) = d
        /\ \A k \in 1 .. d : First(data)[k] = added + k
    <2>1. First(data) = SubSeq(data, 0 + 1, d)
      BY <1>1, <1>2 DEF First
    <2>2. 0 \in 0 .. Len(data) /\ d \in 0 .. Len(data)
      BY <1>1, <1>3
    <2>3. /\ SubSeq(data, 0 + 1, d) \in Seq(Nat)
          /\ Len(SubSeq(data, 0 + 1, d)) = d - 0
          /\ \A k \in 1 .. d - 0 : SubSeq(data, 0 + 1, d)[k] = added + 0 + k
      BY <1>1, <2>2, Part
    <2> QED BY <1>3, <2>1, <2>3
  <1>5. /\ Ordered(s1) /\ Filled(s1) = added + d
        /\ d < n => s1.partial = <<>>
    <2>1. CASE First(data) = <<>>
      <3>1. s1 = store /\ d = 0
        BY <1>4, <2>1 DEF StoreFirst
      <3> QED BY <1>3, <3>1
    <2>2. CASE First(data) # <<>>
      <3>1. s1 = Donated(store, First(data))
        BY <2>2 DEF StoreFirst
      <3>2. d # 0
        BY <1>4, <2>2, EmptySeq
      <3>3. Follows(store, First(data))
        BY <1>4 DEF Follows
      <3>4. /\ Ordered(Donated(store, First(data)))
            /\ Filled(Donated(store, First(data))) = Filled(store) + d
            /\ Len(store.partial) + d = BlockSize =>
                 Donated(store, First(data)).partial = <<>>
        BY <1>3, <1>4, <3>3, DonatedOrdered
      <3> QED BY <1>3, <3>1, <3>2, <3>4
    <2> QED BY <2>1, <2>2
  <1>6. /\ r \in Seq(Nat) /\ Len(r) = n - d
        /\ \A k \in 1 .. n - d : r[k] = added + d + k
    <2>1. r = SubSeq(data, d + 1, n)
      BY <1>1, <1>2 DEF Rest
    <2>2. d \in 0 .. Len(data) /\ n \in d .. Len(data)
      BY <1>1, <1>3
    <2> HIDE DEF r
    <2> QED BY <1>1, <2>1, <2>2, Part
  <1>7. PICK q : q = Len(r) \div BlockSize
    OBVIOUS
  <1>8. /\ q \in Nat /\ InBlocks(q) \in Nat /\ InBlocks(q) <= n - d
        /\ n - d < InBlocks(q) + BlockSize
    <2>1. n - d \in Nat
      BY <1>3
    <2>2. q = (n - d) \div BlockSize
      BY <1>6, <1>7
    <2>3. PICK m : m = n - d
      OBVIOUS
    <2>4. /\ m \div BlockSize \in Nat /\ InBlocks(m \div BlockSize) <= m
          /\ m < InBlocks(m \div BlockSize) + BlockSize
      BY <2>1, <2>3, Division
    <2>5. q \in Nat /\ InBlocks(q) <= m /\ m < InBlocks(q) + BlockSize
      BY <2>2, <2>3, <2>4
    <2> QED BY <2>3, <2>5, FramesNat
  <1>9. /\ Ordered(s2) /\ s2.partial = s1.partial
        /\ Filled(s2) = added + d + InBlocks(q)
    <2> HIDE DEF s1, r
    <2>1. s1.partial = <<>> \/ Len(r) = 0
      BY <1>3, <1>5, <1>6
    <2>2. Follows(s1, r)
      BY <1>5, <1>6 DEF Follows
    <2>3. /\ Ordered(s2) /\ s2.partial = s1.partial
          /\ Filled(s2) = Filled(s1) + InBlocks(Len(r) \div BlockSize)
      BY <1>5, <2>1, <2>2, WithBlocksOrdered
    <2> QED BY <1>5, <1>7, <2>3
  <1>10. /\ o \in Seq(Nat) /\ Len(o) = n - d - InBlocks(q)
         /\ \A k \in 1 .. n - d - InBlocks(q) : o[k] = added + d + InBlocks(q) + k
    <2>1. o = SubSeq(r, InBlocks(q) + 1, n - d)
      BY <1>6, <1>7 DEF Over, InBlocks
    <2> HIDE DEF o, r
    <2>2. PICK m, c, a : m = n - d /\ c = added + d /\ a = InBlocks(q)
      OBVIOUS
    <2>3. /\ c \in Nat /\ a \in 0 .. Len(r) /\ m \in a .. Len(r)
          /\ \A k \in 1 .. Len(r) : r[k] = c + k
      BY <1>3, <1>6, <1>8, <2>2
    <2>4. /\ SubSeq(r, a + 1, m) \in Seq(Nat)
          /\ Len(SubSeq(r, a + 1, m)) = m - a
          /\ \A k \in 1 .. m - a : SubSeq(r, a + 1, m)[k] = c + a + k
      BY <1>6, <2>3, Part
    <2> QED BY <2>1, <2>2, <2>4
  <1>11. Ordered(s3) /\ Filled(s3) = added + n
    <2> HIDE DEF s1, s2, r, o
    <2>1. Follows(s2, o)
      BY <1>9, <1>10 DEF Follows
    <2>2. Len(s2.partial) + Len(o) <= BlockSize
      <3>1. CASE d < n
        BY <1>3, <1>5, <1>8, <1>9, <1>10, <3>1, BlockSizeNat
      <3>2. CASE d = n
        <4>1. Len(o) = 0
          BY <1>3, <1>8, <1>10, <3>2
        <4>2. Len(s2.partial) \in Nat /\ Len(s2.partial) < BlockSize
          BY <1>9, LenProperties DEF Ordered, Stores
        <4> QED BY <4>1, <4>2, BlockSizeNat
      <3> QED BY <1>3, <3>1, <3>2
    <2>3. Ordered(s3) /\ Filled(s3) = Filled(s2) + Len(o)
      BY <1>9, <2>1, <2>2, DonatedOrdered
    <2> QED BY <1>3, <1>8, <1>9, <1>10, <2>3
  <1>12. Filled(s2) <= added + n
    BY <1>3, <1>8, <1>9
  <1> QED BY <1>1, <1>9, <1>11, <1>12 DEF data

-----------------------------------------------------------------------------
(* Pieces that do not fit.                                                 *)

\* A store stays one, whatever is donated ...
LEMMA DonatedTyped ==
  ASSUME NEW s \in Stores, NEW data \in Seq(Nat)
  PROVE  /\ Donated(s, data) \in Stores
         /\ Len(s.partial) + Len(data) # BlockSize =>
              /\ Donated(s, data).blocks = s.blocks
              /\ Len(Donated(s, data).partial) = Len(s.partial) + Len(data)
  <1> DEFINE p == s.partial \o data
  <1>1. /\ s = [blocks |-> s.blocks, partial |-> s.partial]
        /\ s.blocks \in Seq(Block) /\ s.partial \in Seq(Nat)
    BY DEF Stores
  <1>2. p \in Seq(Nat) /\ Len(p) = Len(s.partial) + Len(data)
    BY <1>1, ConcatProperties
  <1>3. CASE Len(p) = BlockSize
    <2>1. Donated(s, data) = [blocks |-> Append(s.blocks, p), partial |-> <<>>]
      BY <1>3 DEF Donated
    <2>2. p \in Block
      BY <1>2, <1>3, LenProperties, ElementOfSeq DEF Block
    <2> HIDE DEF p
    <2>3. Append(s.blocks, p) \in Seq(Block)
      BY <1>1, <2>2, AppendProperties
    <2>4. Donated(s, data) \in Stores
      BY <2>1, <2>3 DEF Stores
    <2>5. Len(s.partial) + Len(data) = BlockSize
      BY <1>2, <1>3 DEF p
    <2> QED BY <2>4, <2>5
  <1>4. CASE Len(p) # BlockSize
    <2>1. Donated(s, data) = [s EXCEPT !.partial = p]
      BY <1>4 DEF Donated
    <2> HIDE DEF p
    <2>2. Donated(s, data) = [blocks |-> s.blocks, partial |-> p]
      BY <1>1, <2>1
    <2> QED BY <1>1, <1>2, <1>4, <2>2 DEF Stores
  <1> QED BY <1>3, <1>4

\* ... and whatever whole blocks come after it.
LEMMA WithBlocksTyped ==
  ASSUME NEW s \in Stores, NEW data \in Seq(Nat)
  PROVE  WithBlocks(s, data) \in Stores /\ WithBlocks(s, data).partial = s.partial
  <1> DEFINE q == Len(data) \div BlockSize
             B(i) == [j \in 1 .. BlockSize |-> data[(i - 1) * BlockSize + j]]
             new == [i \in 1 .. q |-> B(i)]
             b == s.blocks \o new
  <1>1. /\ s = [blocks |-> s.blocks, partial |-> s.partial]
        /\ s.blocks \in Seq(Block) /\ s.partial \in Seq(Nat)
    BY DEF Stores
  <1>2. WithBlocks(s, data) = [s EXCEPT !.blocks = b]
    BY DEF WithBlocks
  <1>3. q \in Nat /\ InBlocks(q) \in Nat /\ InBlocks(q) <= Len(data)
    <2>1. Len(data) \in Nat
      OBVIOUS
    <2>2. q \in Nat /\ InBlocks(q) <= Len(data)
      BY <2>1, Division
    <2> HIDE DEF q
    <2> QED BY <2>2, FramesNat
  <1> HIDE DEF q
  <1>4. ASSUME NEW i \in 1 .. q PROVE B(i) \in Block
    <2>1. ASSUME NEW j \in 1 .. BlockSize PROVE data[(i - 1) * BlockSize + j] \in Nat
      <3>1. InBlocks(i - 1) + j \in 1 .. InBlocks(q)
        BY <1>3, PlaceInBlocks
      <3>2. InBlocks(i - 1) + j \in 1 .. Len(data)
        BY <1>3, <3>1
      <3>3. data[InBlocks(i - 1) + j] \in Nat
        BY <3>2, ElementOfSeq
      <3> QED BY <3>3 DEF InBlocks
    <2> QED BY <2>1 DEF Block
  <1> HIDE DEF B
  <1>5. new \in Seq(Block)
    BY <1>3, <1>4
  <1> HIDE DEF new
  <1>6. b \in Seq(Block)
    BY <1>1, <1>5, ConcatProperties
  <1> HIDE DEF b
  <1>7. WithBlocks(s, data) = [blocks |-> b, partial |-> s.partial]
    BY <1>1, <1>2
  <1> QED BY <1>1, <1>6, <1>7 DEF Stores

\* A part of a piece.
LEMMA PartTyped ==
  ASSUME NEW data \in Seq(Nat), NEW a \in 0 .. Len(data), NEW e \in a .. Len(data)
  PROVE  SubSeq(data, a + 1, e) \in Seq(Nat) /\ Len(SubSeq(data, a + 1, e)) = e - a
  <1>1. PICK f : f = a + 1
    OBVIOUS
  <1>2. f \in Int /\ e \in Int /\ \A i \in f .. e : data[i] \in Nat
    <2>1. \A i \in f .. e : i \in 1 .. Len(data)
      BY <1>1
    <2> QED BY <1>1, <2>1, ElementOfSeq
  <1>3. /\ SubSeq(data, f, e) \in Seq(Nat)
        /\ Len(SubSeq(data, f, e)) = IF f <= e THEN e - f + 1 ELSE 0
    BY <1>2, SubSeqProperties
  <1> QED BY <1>1, <1>3

\* A piece that goes on beyond the block it starts in, and not for as much again, leaves
\* more in the partial store than it can hold: what is donated is what should not be.
LEMMA AddOverruns ==
  ASSUME Ordered(store), NEW data \in Seq(Nat), Len(data) # 0, ~ Fits(Len(data))
  PROVE  LET s2 == WithBlocks(StoreFirst(data), Rest(data))
             s3 == Donated(s2, Over(data))
         IN  /\ s2 \in Stores /\ s3 \in Stores
             /\ Len(s3.partial) > BlockSize
             /\ Len(Over(data)) = 1 => Len(s2.partial) > BlockSize
  <1> DEFINE n == Len(data)
             P == Len(store.partial)
             d == Donation(n)
             s1 == StoreFirst(data)
             r == Rest(data)
             s2 == WithBlocks(s1, r)
             o == Over(data)
             s3 == Donated(s2, o)
  <1>1. store \in Stores /\ P \in Nat /\ P < BlockSize /\ n \in Nat
    BY LenProperties DEF Ordered, Stores
  <1>2. Needed = BlockSize - P /\ Needed \in 1 .. BlockSize
    BY NeededToFill
  <1>3. store.partial # <<>> /\ ~ (n <= Needed) /\ n # 2 * Needed
    BY DEF Fits
  <1>4. P >= 1
    BY <1>1, <1>3, EmptySeq DEF Stores
  <1>5. PICK m : m = Needed
    OBVIOUS
  <1>6. n > m /\ n # 2 * m /\ m = BlockSize - P /\ m \in 1 .. BlockSize - 1
    <2>1. m = BlockSize - P /\ m \in 1 .. BlockSize /\ ~ (n <= m) /\ n # 2 * m
      BY <1>2, <1>3, <1>5
    <2> HIDE DEF n, P
    <2> QED BY <1>1, <1>4, <2>1, BlockSizeNat
  <1>7. d = n - m /\ d \in 1 .. n
    <2>1. n > Needed
      BY <1>5, <1>6
    <2>2. d = n - Needed
      BY <1>3, <2>1 DEF Donation
    <2>3. d = n - m
      BY <1>5, <2>2
    <2> HIDE DEF n, d
    <2> QED BY <1>1, <1>6, <2>3, BlockSizeNat
  <1>8. First(data) \in Seq(Nat) /\ Len(First(data)) = d
    <2>1. First(data) = SubSeq(data, 0 + 1, d)
      BY DEF First
    <2>2. 0 \in 0 .. n /\ d \in 0 .. n
      BY <1>1, <1>7
    <2> HIDE DEF d
    <2> QED BY <1>7, <2>1, <2>2, PartTyped
  <1>9. s1 \in Stores /\ Len(s1.partial) = P + d
    <2>1. First(data) # <<>>
      BY <1>7, <1>8, EmptySeq
    <2>2. s1 = Donated(store, First(data))
      BY <2>1 DEF StoreFirst
    <2>3. P + d # BlockSize
      <3> HIDE DEF P, n, d
      <3> QED BY <1>1, <1>6, <1>7, BlockSizeNat
    <2> QED BY <1>1, <1>8, <2>2, <2>3, DonatedTyped
  <1>10. r \in Seq(Nat) /\ Len(r) = m
    <2>1. r = SubSeq(data, d + 1, n)
      BY DEF Rest
    <2>2. d \in 0 .. n /\ n \in d .. n
      BY <1>1, <1>7
    <2>3. r \in Seq(Nat) /\ Len(r) = n - d
      <3> HIDE DEF d, r
      <3> QED BY <2>1, <2>2, PartTyped
    <2> HIDE DEF d, n, r
    <2> QED BY <1>1, <1>6, <1>7, <2>3, BlockSizeNat
  <1> HIDE DEF s1, r
  <1>11. s2 \in Stores /\ s2.partial = s1.partial
    BY <1>9, <1>10, WithBlocksTyped
  <1>12. o \in Seq(Nat) /\ Len(o) = m
    <2> DEFINE q == m \div BlockSize
    <2>1. m \in Nat /\ m < BlockSize
      BY <1>6, BlockSizeNat
    <2>2. q \in Nat /\ InBlocks(q) <= m
      BY <2>1, Division
    <2>3. o = SubSeq(r, InBlocks(q) + 1, m)
      BY <1>10 DEF Over, r, InBlocks
    <2> HIDE DEF q
    <2>4. q = 0
      <3>1. ASSUME q >= 1 PROVE InBlocks(0 + 1) <= InBlocks(q)
        BY <2>2, <3>1, FramesMono
      <3>2. InBlocks(0 + 1) = BlockSize
        BY BlockSizeNat DEF InBlocks
      <3> QED BY <2>1, <2>2, <3>1, <3>2, BlockSizeNat, FramesNat
    <2>5. o = SubSeq(r, 0 + 1, m)
      BY <2>3, <2>4, FramesNone
    <2>6. 0 \in 0 .. Len(r) /\ m \in 0 .. Len(r)
      BY <1>10, <2>1
    <2> HIDE DEF o
    <2> QED BY <1>10, <2>1, <2>5, <2>6, PartTyped
  <1> HIDE DEF s2, o
  <1>13. s3 \in Stores /\ Len(s3.partial) > BlockSize
    <2>1. Len(s2.partial) + Len(o) = P + d + m /\ P + d + m > BlockSize
      <3> HIDE DEF P, n, d
      <3> QED BY <1>1, <1>6, <1>7, <1>9, <1>11, <1>12, BlockSizeNat
    <2>2. s3 \in Stores /\ Len(s3.partial) = Len(s2.partial) + Len(o)
      <3>1. Len(s2.partial) + Len(o) # BlockSize
        <4> HIDE DEF P, n, d
        <4> QED BY <1>1, <1>7, <2>1, BlockSizeNat
      <3> QED BY <1>11, <1>12, <3>1, DonatedTyped
    <2> QED BY <2>1, <2>2
  <1>14. ASSUME Len(o) = 1 PROVE Len(s2.partial) > BlockSize
    <2>1. d > 1 /\ m = 1
      <3> HIDE DEF n, d
      <3> QED BY <1>1, <1>6, <1>7, <1>12, <1>14
    <2> HIDE DEF P, n, d
    <2> QED BY <1>1, <1>6, <1>7, <1>9, <1>11, <2>1, BlockSizeNat
  <1> QED BY <1>11, <1>13, <1>14 DEF s1, s2, s3, r, o

-----------------------------------------------------------------------------
(* The invariant.                                                          *)

\* While nothing is closed the store is ordered, and it holds all frames added
\* unless an assertion cut addFrames: short.  A closed store keeps what
\* closeInput made of it.
StoreInv ==
  /\ StoreTypeOK
  /\ phase # "closed" =>
       /\ Ordered(store)
       /\ Filled(store) <= added
       /\ phase = "open" => Filled(store) = added
  /\ phase = "closed" => ~Overrun /\ StoredInOrder /\ NothingLost

\* The empty store, ...
LEMMA StoreInvInit == StoreInit => StoreInv
  <1> SUFFICES ASSUME StoreInit PROVE StoreInv
    OBVIOUS
  <1>1. /\ store = [blocks |-> <<>>, partial |-> <<>>]
        /\ readIteration = 0 /\ added = 0 /\ phase = "open"
    BY DEF StoreInit
  <1>2. store \in Stores
    BY <1>1 DEF Stores
  <1>3. StoreTypeOK
    BY <1>1, <1>2 DEF StoreTypeOK, Stores, Block
  <1>4. Ordered(store)
    BY <1>1, <1>2, BlockSizeNat DEF Ordered
  <1>5. Filled(store) = added
    BY <1>1, FramesNone DEF Filled
  <1> QED BY <1>1, <1>3, <1>4, <1>5 DEF StoreInv

\* A piece of the client is added, or raises an assertion.
AddPiece(n) == AddFrames(Piece(n)) \/ AddFramesRaises(Piece(n))

\* A piece that fits keeps the order.
LEMMA FitKeeps ==
  ASSUME StoreInv, phase = "open", NEW n \in Nat \ {0}, Fits(n), AddPiece(n)
  PROVE  StoreInv'
  <1>3. Ordered(store) /\ Filled(store) = added /\ added \in Nat
    BY DEF StoreInv, StoreTypeOK
  <1> DEFINE data == Piece(n)
             s2 == WithBlocks(StoreFirst(data), Rest(data))
             s3 == Donated(s2, Over(data))
  <1>4. /\ Len(data) = n
        /\ Ordered(s2) /\ Filled(s2) <= added + n
        /\ Ordered(s3) /\ Filled(s3) = added + n
    BY <1>3, AddKeepsOrder
  <1>5. readIteration' \in Nat /\ added' = added + n /\ added' \in Nat
    BY <1>3, <1>4 DEF AddPiece, AddFrames, AddFramesRaises, StoreInv, StoreTypeOK
  <1>6. /\ Ordered(store') /\ Filled(store') <= added'
        /\ phase' \in {"open", "raised"}
        /\ phase' = "open" => Filled(store') = added'
    <2>1. CASE AddFrames(data)
      <3>1. store' = s3 /\ phase' = "open"
        BY <2>1 DEF AddFrames
      <3> HIDE DEF data, s2, s3
      <3> QED BY <1>3, <1>4, <1>5, <3>1
    <2>2. CASE AddFramesRaises(data)
      <3>1. phase' = "raised" /\ (store' = store \/ store' = s2)
        BY <2>2 DEF AddFramesRaises
      <3> HIDE DEF data, s2, s3
      <3> QED BY <1>3, <1>4, <1>5, <3>1
    <2> QED BY <2>1, <2>2 DEF AddPiece
  <1>7. StoreTypeOK'
    <2>1. store' \in [blocks : Seq([1 .. BlockSize -> Nat]), partial : Seq(Nat)]
      BY <1>6 DEF Ordered, Stores, Block
    <2> QED BY <1>5, <1>6, <2>1 DEF StoreTypeOK
  <1>8. /\ Ordered(store)' <=> Ordered(store')
        /\ Filled(store)' = Filled(store')
    BY DEF Ordered, Filled, Stores, Block, InBlocks
  <1> QED BY <1>6, <1>7, <1>8 DEF StoreInv

\* One that does not is written beyond the partial store, or raises an assertion
\* before it comes to that.
LEMMA MisfitOverruns ==
  ASSUME StoreInv, phase = "open", NEW n \in Nat \ {0}, ~ Fits(n), AddPiece(n)
  PROVE  /\ StoreTypeOK'
         /\ AddFrames(Piece(n)) => Overrun'
         /\ ~ Overrun' => StoreInv'
  <1> DEFINE data == Piece(n)
             s2 == WithBlocks(StoreFirst(data), Rest(data))
             s3 == Donated(s2, Over(data))
  <1>1. /\ Ordered(store) /\ Filled(store) = added
        /\ added \in Nat /\ readIteration \in Nat
    BY DEF StoreInv, StoreTypeOK
  <1>2. data \in Seq(Nat) /\ Len(data) = n
    BY <1>1 DEF Piece
  <1>3. /\ s2 \in Stores /\ s3 \in Stores
        /\ Len(s3.partial) > BlockSize
        /\ Len(Over(data)) = 1 => Len(s2.partial) > BlockSize
    <2> HIDE DEF data
    <2> QED BY <1>1, <1>2, AddOverruns
  <1>4. added' = added + n /\ readIteration' = readIteration
    BY <1>2 DEF AddPiece, AddFrames, AddFramesRaises
  <1>5. CASE AddFrames(data)
    <2>1. store' = s3 /\ phase' = "open"
      BY <1>5 DEF AddFrames
    <2> HIDE DEF s2, s3, data
    <2> QED BY <1>1, <1>3, <1>4, <2>1 DEF StoreTypeOK, Stores, Block, Overrun
  <1>6. CASE AddFramesRaises(data)
    <2>1. phase' = "raised" /\ (store' = store \/ (store' = s2 /\ Len(s2.partial) > BlockSize))
      BY <1>3, <1>6 DEF AddFramesRaises
    <2>2. ~ AddFrames(data)
      BY <2>1 DEF AddFrames
    <2> HIDE DEF s2, s3, data
    <2>3. CASE store' = s2 /\ Len(s2.partial) > BlockSize
      BY <1>1, <1>3, <1>4, <2>1, <2>2, <2>3 DEF StoreTypeOK, Stores, Block, Overrun, data
    <2>4. CASE store' = store
      <3>1. added' \in Nat /\ Filled(store) <= added'
        BY <1>1, <1>4
      <3>2. Ordered(store)' /\ Filled(store)' = Filled(store)
        BY <1>1, <2>4 DEF Ordered, Filled, Stores, Block, InBlocks
      <3>3. StoreTypeOK'
        BY <1>1, <1>4, <2>1, <2>4, <3>1 DEF StoreInv, StoreTypeOK
      <3>4. StoreInv'
        BY <2>1, <3>1, <3>2, <3>3 DEF StoreInv
      <3> QED BY <2>2, <3>3, <3>4 DEF data
    <2> QED BY <2>1, <2>3, <2>4
  <1> QED BY <1>5, <1>6 DEF AddPiece

\* Of an ordered store that holds all that was added, every block is right.
LEMMA OrderedBlocks ==
  ASSUME StoreInv, phase # "closed"
  PROVE  BlocksInOrder
  <1>1. Ordered(store) /\ Filled(store) <= added /\ added \in Nat
    BY DEF StoreInv, StoreTypeOK
  <1> DEFINE L == Len(store.blocks)
  <1>2. L \in Nat /\ Len(store.partial) \in Nat
    BY <1>1, LenProperties DEF Ordered, Stores
  <1>3. InBlocks(L) \in Nat /\ InBlocks(L) <= added
    <2>1. Filled(store) = InBlocks(L) + Len(store.partial)
      BY DEF Filled
    <2> HIDE DEF L
    <2>2. InBlocks(L) \in Nat
      BY <1>2, FramesNat
    <2> QED BY <1>1, <1>2, <2>1, <2>2
  <1> SUFFICES ASSUME NEW i \in 1 .. L, NEW j \in 1 .. BlockSize
               PROVE  store.blocks[i][j] = FrameAt((i - 1) * BlockSize + j)
    BY DEF BlocksInOrder
  <1>4. store.blocks[i][j] = InBlocks(i - 1) + j
    BY <1>1 DEF Ordered
  <1>5. InBlocks(i - 1) + j \in 1 .. InBlocks(L)
    <2> HIDE DEF L
    <2> QED BY <1>2, PlaceInBlocks
  <1>6. FrameAt(InBlocks(i - 1) + j) = InBlocks(i - 1) + j
    BY <1>1, <1>3, <1>5 DEF FrameAt
  <1> QED BY <1>4, <1>6 DEF InBlocks

\* The properties follow from the invariant.
LEMMA StoreInvImplies == StoreInv => StoredInOrder /\ NothingLost
  <1> SUFFICES ASSUME StoreInv, phase # "closed"
               PROVE  StoredInOrder /\ NothingLost
    BY DEF StoreInv
  <1>1. BlocksInOrder
    BY OrderedBlocks
  <1>2. PartialInOrder
    BY DEF StoreInv, Ordered, PartialInOrder, InBlocks
  <1>3. NothingLost
    BY DEF StoreInv, NothingLost, Filled, InBlocks
  <1> QED BY <1>1, <1>2, <1>3 DEF StoredInOrder

-----------------------------------------------------------------------------
(* Closing, and the theorem.                                               *)

\* The last block: what was in the partial store, and zeros.
LEMMA PaddedBlock ==
  ASSUME StoreInv, phase = "open", store.partial # <<>>,
         NEW z, z = [i \in 1 .. BlockSize - Len(store.partial) |-> 0]
  PROVE  /\ store.partial \o z \in Block
         /\ Donated(store, z) =
              [blocks |-> Append(store.blocks, store.partial \o z),
               partial |-> <<>>]
         /\ \A j \in 1 .. BlockSize :
              (store.partial \o z)[j] = FrameAt(InBlocks(Len(store.blocks)) + j)
  <1> DEFINE P == Len(store.partial)
             p == store.partial \o z
             L == Len(store.blocks)
  <1>1. Ordered(store) /\ Filled(store) = added /\ added \in Nat
    BY DEF StoreInv, StoreTypeOK
  <1>2. /\ store.partial \in Seq(Nat) /\ store.blocks \in Seq(Block)
        /\ P \in Nat /\ P < BlockSize /\ L \in Nat
    BY <1>1, LenProperties DEF Ordered, Stores
  <1>3. z \in Seq(Nat) /\ Len(z) = BlockSize - P
    BY <1>2, BlockSizeNat
  <1>4. p \in Seq(Nat) /\ Len(p) = BlockSize
    BY <1>2, <1>3, BlockSizeNat, ConcatProperties
  <1>5. p \in Block
    BY <1>4, LenProperties DEF Block
  <1>6. Donated(store, z) = [blocks |-> Append(store.blocks, p), partial |-> <<>>]
    BY <1>4 DEF Donated
  <1>7. InBlocks(L) \in Nat /\ added = InBlocks(L) + P
    BY <1>1, <1>2, FramesNat DEF Filled
  <1>8. ASSUME NEW j \in 1 .. BlockSize
        PROVE  p[j] = FrameAt(InBlocks(L) + j)
    <2>1. CASE j <= P
      <3>1. p[j] = store.partial[j]
        BY <1>2, <1>3, <1>4, <2>1, ConcatProperties
      <3>2. p[j] = InBlocks(L) + j
        BY <1>1, <1>2, <2>1, <3>1 DEF Ordered
      <3> HIDE DEF L, P, p
      <3> QED BY <1>2, <1>7, <2>1, <3>2 DEF FrameAt
    <2>2. CASE j > P
      <3>1. p[j] = z[j - P]
        <4>1. j \in 1 .. Len(store.partial) + Len(z)
          BY <1>2, <1>3, BlockSizeNat
        <4>2. ~(j <= Len(store.partial))
          BY <1>2, <2>2
        <4> QED BY <1>2, <1>3, <4>1, <4>2, ConcatProperties
      <3>2. p[j] = 0
        BY <1>2, <2>2, <3>1, BlockSizeNat
      <3> HIDE DEF L, P, p
      <3> QED BY <1>2, <1>7, <2>2, <3>2, BlockSizeNat DEF FrameAt
    <2> QED BY <1>2, <2>1, <2>2, BlockSizeNat
  <1> QED BY <1>5, <1>6, <1>8

\* ... a store that is closed, ...
LEMMA CloseStep ==
  ASSUME StoreInv, Close
  PROVE  StoreInv'
  <1> DEFINE L == Len(store.blocks)
             P == Len(store.partial)
  <1>1. /\ phase = "open" /\ phase' = "closed"
        /\ added' = added /\ readIteration' = readIteration
    BY DEF Close, CloseInput
  <1>2. /\ Ordered(store) /\ Filled(store) = added
        /\ added \in Nat /\ readIteration \in Nat
    BY <1>1 DEF StoreInv, StoreTypeOK
  <1>3. BlocksInOrder
    BY <1>1, OrderedBlocks
  <1>4. /\ L \in Nat /\ P \in Nat /\ P < BlockSize
        /\ store.blocks \in Seq(Block)
    BY <1>2, LenProperties DEF Ordered, Stores
  <1>5. InBlocks(L) \in Nat /\ added = InBlocks(L) + P
    BY <1>2, <1>4, FramesNat DEF Filled
  <1>6. CASE store.partial = <<>>
    <2>1. store' = store
      BY <1>6 DEF Close, CloseInput
    <2>2. StoreTypeOK'
      BY <1>1, <2>1 DEF StoreInv, StoreTypeOK
    <2>3. BlocksInOrder'
      BY <1>1, <1>3, <2>1 DEF BlocksInOrder, FrameAt
    <2>4. PartialInOrder'
      BY <1>2, <2>1 DEF PartialInOrder, Ordered, InBlocks
    <2>5. NothingLost'
      <3>1. P = 0
        BY <1>6
      <3>2. InBlocks(L) >= added /\ InBlocks(L) < added + BlockSize
        BY <1>5, <3>1, BlockSizeNat
      <3> QED BY <1>1, <1>6, <2>1, <3>2 DEF NothingLost, InBlocks
    <2>6. ~ Overrun'
      BY <1>6, <2>1, BlockSizeNat DEF Overrun
    <2> QED BY <1>1, <2>2, <2>3, <2>4, <2>5, <2>6 DEF StoreInv, StoredInOrder
  <1>7. CASE store.partial # <<>>
    <2> DEFINE z == [i \in 1 .. BlockSize - P |-> 0]
               p == store.partial \o z
               b == Append(store.blocks, p)
    <2>1. store' = Donated(store, z)
      BY <1>7 DEF Close, CloseInput
    <2>2. /\ p \in Block
          /\ store' = [blocks |-> b, partial |-> <<>>]
          /\ \A j \in 1 .. BlockSize : p[j] = FrameAt(InBlocks(L) + j)
      BY <1>1, <1>7, <2>1, PaddedBlock
    <2> HIDE DEF p
    <2>3. /\ b \in Seq(Block) /\ Len(b) = L + 1 /\ b[L + 1] = p
          /\ \A i \in 1 .. L : b[i] = store.blocks[i]
      BY <1>4, <2>2, AppendProperties
    <2> HIDE DEF b
    <2>4. StoreTypeOK'
      BY <1>1, <1>2, <2>2, <2>3 DEF StoreTypeOK, Block
    <2>5. BlocksInOrder'
      <3>1. ASSUME NEW i \in 1 .. L + 1, NEW j \in 1 .. BlockSize
            PROVE  b[i][j] = FrameAt((i - 1) * BlockSize + j)
        <4>1. CASE i \in 1 .. L
          BY <1>3, <2>3, <4>1 DEF BlocksInOrder
        <4>2. CASE i = L + 1
          <5>1. i - 1 = L
            BY <1>4, <4>2
          <5>2. b[i][j] = FrameAt(InBlocks(i - 1) + j)
            BY <2>2, <2>3, <4>2, <5>1
          <5> QED BY <5>2 DEF InBlocks
        <4> QED BY <1>4, <4>1, <4>2
      <3>2. store'.blocks = b /\ Len(b) = L + 1
        BY <2>2, <2>3
      <3> HIDE DEF L
      <3> QED BY <1>1, <3>1, <3>2 DEF BlocksInOrder, FrameAt
    <2>6. PartialInOrder'
      BY <2>2, BlockSizeNat DEF PartialInOrder
    <2>7. NothingLost'
      <3>1. P > 0
        BY <1>2, <1>7, EmptySeq DEF Ordered, Stores
      <3>2. InBlocks(L + 1) = InBlocks(L) + BlockSize
        <4>1. L \in Int
          BY <1>4
        <4> HIDE DEF L
        <4> QED BY <4>1, FramesNext
      <3>3. InBlocks(L + 1) >= added /\ InBlocks(L + 1) < added + BlockSize
        <4> HIDE DEF L, P
        <4> QED BY <1>4, <1>5, <3>1, <3>2, BlockSizeNat
      <3>4. store'.blocks = b /\ store'.partial = <<>> /\ Len(b) = L + 1
        BY <2>2, <2>3
      <3> HIDE DEF L
      <3> QED BY <1>1, <3>3, <3>4 DEF NothingLost, InBlocks
    <2>8. ~ Overrun'
      BY <2>2, BlockSizeNat DEF Overrun
    <2> QED BY <1>1, <2>4, <2>5, <2>6, <2>7, <2>8 DEF StoreInv, StoredInOrder
  <1> QED BY <1>6, <1>7

\* ... and one that is read keep StoreInv.
LEMMA ReadStep ==
  ASSUME StoreInv, UNCHANGED <<store, added, phase>>, readIteration' \in Nat
  PROVE  StoreInv'
  BY DEF StoreInv, StoreTypeOK, StoredInOrder, BlocksInOrder, PartialInOrder,
         NothingLost, FrameAt, Ordered, Filled, Stores, Block, InBlocks, Overrun

-----------------------------------------------------------------------------
(* The theorems.                                                           *)

\* The invariant says that nothing was written beyond the partial store.
LEMMA NoOverrun == StoreInv => ~ Overrun
  <1> SUFFICES ASSUME StoreInv PROVE ~ Overrun
    OBVIOUS
  <1>1. CASE phase = "closed"
    BY <1>1 DEF StoreInv
  <1>2. CASE phase # "closed"
    <2>1. store.partial \in Seq(Nat) /\ Len(store.partial) < BlockSize
      BY <1>2 DEF StoreInv, Ordered, Stores
    <2> QED BY <2>1, LenProperties, BlockSizeNat DEF Overrun
  <1> QED BY <1>1, <1>2

\* It is kept until something is.
LEMMA StoreInvStep ==
  ASSUME ~ Overrun => StoreInv, [StoreNext]_storeVars
  PROVE  ~ Overrun' => StoreInv'
  <1>1. CASE UNCHANGED storeVars
    <2>1. UNCHANGED <<store, added, phase>> /\ readIteration' = readIteration
      BY <1>1 DEF storeVars
    <2>2. Overrun' <=> Overrun
      BY <2>1 DEF Overrun
    <2>3. ASSUME ~ Overrun PROVE StoreInv'
      <3>1. StoreInv /\ readIteration' \in Nat
        BY <2>1, <2>3 DEF StoreInv, StoreTypeOK
      <3> QED BY <2>1, <3>1, ReadStep
    <2> QED BY <2>2, <2>3
  <1>2. CASE StoreNext
    <2>1. StoreInv
      BY <1>2 DEF StoreNext
    <2>2. CASE Add
      <3>1. PICK n \in Nat \ {0} : AddPiece(n)
        BY <2>2 DEF Add, AddPiece
      <3>2. phase = "open"
        BY <2>2 DEF Add
      <3> QED BY <2>1, <3>1, <3>2, FitKeeps, MisfitOverruns
    <2>3. CASE Close
      BY <2>1, <2>3, CloseStep
    <2>4. CASE Read
      <3>1. UNCHANGED <<store, added, phase>> /\ readIteration' \in Nat
        BY <2>1, <2>4 DEF Read, ResetReading, NextSamples, StoreInv, StoreTypeOK
      <3> QED BY <2>1, <3>1, ReadStep
    <2> QED BY <1>2, <2>2, <2>3, <2>4 DEF StoreNext
  <1> QED BY <1>1, <1>2

LEMMA StoreInvHolds == StoreSpec => [](~ Overrun => StoreInv)
  <1>1. StoreInit => (~ Overrun => StoreInv)
    BY StoreInvInit
  <1>2. (~ Overrun => StoreInv) /\ [StoreNext]_storeVars => (~ Overrun => StoreInv)'
    BY StoreInvStep
  <1> QED BY <1>1, <1>2, PTL DEF StoreSpec

\* For every block size, and for pieces of every length in any order, with
\* closeInput and reading at any time, the store holds the frames added by
\* addFrames: in the order they came in, until one is written beyond the
\* partial store.
THEOREM InOrder == StoreSpec => []StoredInOrder
  <1>1. (~ Overrun => StoreInv) => StoredInOrder
    BY StoreInvImplies DEF StoredInOrder
  <1> QED BY <1>1, StoreInvHolds, PTL

\* ... and none is missing: they are in the blocks or the partial store while
\* the input is open, and in the blocks once it is closed.
THEOREM NoneLost == StoreSpec => []NothingLost
  <1>1. (~ Overrun => StoreInv) => NothingLost
    BY StoreInvImplies DEF NothingLost
  <1> QED BY <1>1, StoreInvHolds, PTL

\* What is written beyond the partial store, and when: addFrames: does it with
\* every piece that goes on beyond the block it starts in, unless it goes on for
\* as much as it fills of that block, or an assertion stops it.
THEOREM MisfitsOverrun == StoreSpec => OverrunByMisfit
  <1> DEFINE Step == phase' = "open" =>
                       (Overrun' <=> added' # added /\ ~ Fits(added' - added))
  <1>1. ASSUME ~ Overrun => StoreInv, StoreNext PROVE Step
    <2> SUFFICES ASSUME phase' = "open"
                 PROVE  Overrun' <=> added' # added /\ ~ Fits(added' - added)
      OBVIOUS
    <2>1. StoreInv /\ ~ Overrun
      BY <1>1 DEF StoreNext
    <2>2. CASE Add
      <3>1. PICK n \in Nat \ {0} : AddPiece(n)
        BY <2>2 DEF Add, AddPiece
      <3>2. phase = "open" /\ AddFrames(Piece(n))
        BY <2>2, <3>1 DEF Add, AddPiece, AddFramesRaises
      <3>3. added \in Nat /\ Len(Piece(n)) = n
        BY <2>1 DEF StoreInv, StoreTypeOK, Piece
      <3>4. added' # added /\ added' - added = n
        BY <3>2, <3>3 DEF AddFrames
      <3>5. CASE Fits(n)
        <4>1. StoreInv'
          BY <2>1, <3>1, <3>2, <3>5, FitKeeps
        <4>2. ~ Overrun'
          BY <4>1, NoOverrun, PTL
        <4> QED BY <3>4, <3>5, <4>2
      <3>6. CASE ~ Fits(n)
        BY <2>1, <3>1, <3>2, <3>4, <3>6, MisfitOverruns
      <3> QED BY <3>5, <3>6
    <2>3. CASE Close
      BY <2>3 DEF Close, CloseInput
    <2>4. CASE Read
      BY <2>1, <2>4 DEF Read, ResetReading, NextSamples, Overrun
    <2> QED BY <1>1, <2>2, <2>3, <2>4 DEF StoreNext
  <1>2. (~ Overrun => StoreInv) /\ [StoreNext]_storeVars => [Step]_storeVars
    BY <1>1
  <1> QED BY <1>2, StoreInvHolds, PTL DEF StoreSpec, OverrunByMisfit
=============================================================================
