--------------------- MODULE HooSpectralProcessor_proofs ---------------------
(***************************************************************************)
(* HooSpectralProcessor never loses or repeats a sample, and returns each  *)
(* with its share of the windows that cover it, for windows, hops, slices  *)
(* and rings of every size.                                                *)
(*                                                                         *)
(* A ring cell is found by a remainder, so the rings are followed by the   *)
(* sample each cell belongs to: the j-th sample from 0, in the cell        *)
(* j % mIOBufSize.  InputInv says which samples are still to be read and   *)
(* that each is in its cell: copyInput, which writes from mInputPos on,    *)
(* goes over none of them because less than a window is left between calls *)
(* and the ring has room for a window and a slice.  FlushInv says what is  *)
(* left once the last window was filled up.                                *)
(*                                                                         *)
(* OutputInv says, for the whole turn of the output ring that begins at    *)
(* mOutputPos, that every cell holds what the windows so far have added    *)
(* for its sample.  Both ends of the turn matter: a window is added up to  *)
(* FFTSize samples after mOutFFTPos, which must not reach round to the     *)
(* cells that are to be returned, and the cells copyOutput zeroes become   *)
(* those of samples that no window covers yet.  process: and               *)
(* processForwards: are not mixed (Forwards, Returning): the latter moves  *)
(* the input on and leaves the output behind.                              *)
(***************************************************************************)
EXTENDS HooSpectralProcessor, SequenceTheorems, TLAPS

-----------------------------------------------------------------------------
(* Places in a ring of N cells.                                            *)

\* Quotient and rest, ...
LEMMA ModIs ==
  ASSUME NEW N \in Nat \ {0}, NEW a \in Int
  PROVE  /\ a % N \in 0 .. N - 1 /\ a \div N \in Int
         /\ a = N * (a \div N) + (a % N)
OBVIOUS

\* ... of which there is one pair only.
LEMMA Multiple ==
  ASSUME NEW N \in Nat \ {0}, NEW d \in Int, d # 0
  PROVE  N * d >= N \/ N * d <= -N
<1>1. CASE d >= 1
  <2>1. N * d = N + N * (d - 1)
    OBVIOUS
  <2>2. N * (d - 1) >= 0
    BY <1>1
  <2> QED BY <2>1, <2>2
<1>2. CASE d <= -1
  <2>1. N * d = -N - N * (-1 - d)
    OBVIOUS
  <2>2. N * (-1 - d) >= 0
    BY <1>2
  <2> QED BY <2>1, <2>2
<1> QED BY <1>1, <1>2

\* So a rest is known from any quotient.
LEMMA ModUnique ==
  ASSUME NEW N \in Nat \ {0}, NEW a \in Int, NEW q \in Int, NEW r \in 0 .. N - 1,
         a = N * q + r
  PROVE  a % N = r
<1> DEFINE p == a \div N
           s == a % N
<1>1. s \in 0 .. N - 1 /\ p \in Int /\ a = N * p + s
  BY ModIs
<1> HIDE DEF p, s
<1>2. N * (p - q) = r - s
  <2>1. N * (p - q) = N * p - N * q
    BY <1>1
  <2> QED BY <1>1, <2>1
<1>3. p - q = 0
  <2>1. p - q \in Int /\ r - s < N /\ r - s > -N
    BY <1>1
  <2> QED BY <1>2, <2>1, Multiple
<1>4. r = s
  BY <1>1, <1>2, <1>3
<1> QED BY <1>4 DEF s

\* A place moves on by b, ...
LEMMA ModAdd ==
  ASSUME NEW N \in Nat \ {0}, NEW a \in Int, NEW b \in Int
  PROVE  ((a % N) + b) % N = (a + b) % N
<1> DEFINE p == a \div N
           s == a % N
           q == (a + b) \div N
           r == (a + b) % N
<1>1. s \in 0 .. N - 1 /\ p \in Int /\ a = N * p + s
  BY ModIs
<1>2. r \in 0 .. N - 1 /\ q \in Int /\ a + b = N * q + r
  <2>1. a + b \in Int
    OBVIOUS
  <2> QED BY <2>1, ModIs
<1> HIDE DEF p, s, q, r
<1>3. s + b = N * (q - p) + r
  <2>1. N * (q - p) = N * q - N * p
    BY <1>1, <1>2
  <2> QED BY <1>1, <1>2, <2>1
<1>4. (s + b) % N = r
  <2>1. s + b \in Int /\ q - p \in Int
    BY <1>1, <1>2
  <2> QED BY <1>2, <1>3, <2>1, ModUnique
<1> QED BY <1>4 DEF s, r

\* ... and is d cells after another if it is d samples after it, or N more or less.
LEMMA ModFrom ==
  ASSUME NEW N \in Nat \ {0}, NEW a \in Int, NEW b \in Int, NEW d \in 0 .. N - 1,
         a - b = d \/ a - b = d - N \/ a - b = d + N
  PROVE  ((a % N) - (b % N)) % N = d
<1> DEFINE p == a \div N
           s == a % N
           q == b \div N
           r == b % N
<1>1. s \in 0 .. N - 1 /\ p \in Int /\ a = N * p + s
  BY ModIs
<1>2. r \in 0 .. N - 1 /\ q \in Int /\ b = N * q + r
  BY ModIs
<1> HIDE DEF p, s, q, r
<1>3. /\ N * (q - p) = N * q - N * p /\ N * (q - p - 1) = N * q - N * p - N
      /\ N * (q - p + 1) = N * q - N * p + N
  BY <1>1, <1>2
<1>4. s - r \in Int /\ q - p \in Int /\ q - p - 1 \in Int /\ q - p + 1 \in Int
  BY <1>1, <1>2
<1>5. \E m \in {q - p, q - p - 1, q - p + 1} : s - r = N * m + d
  <2>1. CASE a - b = d
    <3>1. s - r = N * (q - p) + d
      BY <1>1, <1>2, <1>3, <2>1
    <3> QED BY <3>1
  <2>2. CASE a - b = d - N
    <3>1. s - r = N * (q - p - 1) + d
      BY <1>1, <1>2, <1>3, <2>2
    <3> QED BY <3>1
  <2>3. CASE a - b = d + N
    <3>1. s - r = N * (q - p + 1) + d
      BY <1>1, <1>2, <1>3, <2>3
    <3> QED BY <3>1
  <2> QED BY <2>1, <2>2, <2>3
<1>6. PICK m \in Int : s - r = N * m + d
  BY <1>4, <1>5, Zenon
<1>7. (s - r) % N = d
  BY <1>4, <1>6, ModUnique, Zenon
<1> QED BY <1>7 DEF s, r

-----------------------------------------------------------------------------
(* Input.                                                                  *)

\* How many samples are before the next window.
Start == Len(windows) * HopSize

\* The cells from mInFFTPos up to mInputPos are the samples not yet read, and a window
\* leaves FFTSize - HopSize of them at least.
InputInv ==
  /\ TypeOK
  /\ mInputSize = Len(samples) - Start
  /\ mInputPos = Len(samples) % mIOBufSize
  /\ mInFFTPos = Start % mIOBufSize
  /\ \A j \in Start .. Len(samples) - 1 : mInputBuf[j % mIOBufSize] = samples[j + 1]
  /\ \A w \in 1 .. Len(windows) : WindowStart(w) + FFTSize <= Len(samples)
  /\ windows # <<>> => mInputSize >= FFTSize - HopSize
  /\ mInputSize < FFTSize + (IF busy = "idle" THEN 0 ELSE slice)
  /\ WindowsOverlap

\* Samples are the same window if they are the same.
LEMMA SameWindow ==
  ASSUME NEW x, NEW y, NEW a \in Int, NEW b \in Int, \A i \in a + 1 .. b : x[i] = y[i]
  PROVE  SubSeq(x, a + 1, b) = SubSeq(y, a + 1, b)
<1>1. SubSeq(x, a + 1, b) = [i \in 1 .. (b - (a + 1) + 1) |-> x[i + (a + 1) - 1]]
  OBVIOUS
<1> QED OBVIOUS

\* The sizes.
LEMMA Sizes ==
  /\ FFTSize \in Nat \ {0} /\ HopSize \in 1 .. FFTSize /\ HopSize \in Nat \ {0}
  /\ MaxFrames \in Nat \ {0} /\ MaxSamples \in Nat
  /\ mIOBufSize \in Nat \ {0} /\ mIOBufSize >= FFTSize + MaxFrames
BY ProcessorAssumption

\* Samples are handed over in whole hops.
LEMMA StartIs ==
  ASSUME TypeOK
  PROVE  Start \in Nat /\ Len(windows) \in Nat /\ Len(samples) \in Nat /\ Len(out) \in Nat
<1>1. Len(windows) \in Nat /\ Len(samples) \in Nat /\ Len(out) \in Nat
  BY DEF TypeOK
<1> QED BY <1>1, Sizes DEF Start

\* Between calls there is less than a window.
LEMMA BetweenCalls ==
  ASSUME InputInv, busy = "idle"
  PROVE  mInputSize \in Nat /\ mInputSize < FFTSize
<1>1. mInputSize \in 0 .. mIOBufSize
  BY DEF InputInv, TypeOK
<1>2. mInputSize < FFTSize + 0
  BY DEF InputInv
<1> QED BY <1>1, <1>2, Sizes

\* The constants' bound on the slices makes room for each.
LEMMA RoomForSlice ==
  ASSUME InputInv, busy = "idle", NEW n \in Nat,
         n <= MaxFrames \/ n + mInputSize = FFTSize
  PROVE  mInputSize + n <= mIOBufSize
<1> QED BY BetweenCalls, Sizes

\* copyInput puts the slice behind what is unread, around the end of the ring, and over
\* nothing of it.
LEMMA CopyInputKeeps ==
  ASSUME InputInv, busy = "idle", NEW data \in Seq(Nat), CopyInput(data),
         mInputSize + Len(data) <= mIOBufSize, Len(data) <= MaxFrames + FFTSize,
         busy' \in {"processForwards", "process"}, slice' = Len(data), flushed' \in BOOLEAN,
         UNCHANGED outVars, FFTSize > 0
  PROVE  InputInv'
<1> DEFINE N == mIOBufSize
           S == Len(samples)
           n == Len(data)
<1>1. /\ Start \in Nat /\ S \in Nat /\ n \in Nat /\ N \in Nat \ {0}
      /\ mInputSize = S - Start /\ mInputPos = S % N /\ mInputSize + n <= N
  BY StartIs, Sizes DEF InputInv
<1> HIDE DEF N
<1>2. /\ samples' \in Seq(Nat) /\ Len(samples') = S + n
      /\ \A i \in 1 .. S + n : samples'[i] = IF i <= S THEN samples[i] ELSE data[i - S]
  <2>1. samples \in Seq(Nat) /\ samples' = samples \o data
    BY DEF InputInv, TypeOK, CopyInput
  <2>2. /\ samples \o data \in Seq(Nat) /\ Len(samples \o data) = Len(samples) + Len(data)
        /\ \A i \in 1 .. Len(samples) + Len(data) :
             (samples \o data)[i] = IF i <= Len(samples) THEN samples[i]
                                    ELSE data[i - Len(samples)]
    BY <2>1, ConcatProperties
  <2> QED BY <2>1, <2>2
<1>3. /\ UNCHANGED <<mInFFTPos, windows>> /\ Start' = Start
      /\ UNCHANGED <<mOutputBuf, mOutputPos, mOutFFTPos, out>>
  BY DEF CopyInput, Start, outVars
<1>4. /\ mInputSize' = mInputSize + n /\ mInputPos' = (mInputPos + n) % N
      /\ mInputBuf' = [p \in Ring |->
           IF (p - mInputPos) % N < n THEN data[((p - mInputPos) % N) + 1] ELSE mInputBuf[p]]
  BY DEF CopyInput, N
<1>5. mInputPos' = Len(samples') % N
  <2>1. S \in Int /\ n \in Int
    BY <1>1
  <2>2. ((S % N) + n) % N = (S + n) % N
    BY <1>1, <2>1, ModAdd, Zenon
  <2> QED BY <1>1, <1>2, <1>4, <2>2, Zenon
<1>6. \A p \in Ring : (p - mInputPos) % N \in 0 .. N - 1
  <2>1. mInputPos \in Int /\ \A p \in Ring : p \in Int
    BY Sizes DEF InputInv, TypeOK, Ring
  <2>2. \A p \in Ring : p - mInputPos \in Int
    BY <2>1
  <2> QED BY <1>1, <2>2, ModIs, Zenon
<1>7. TypeOK'
  <2>1. mInputBuf' \in [Ring -> Nat]
    <3>1. mInputBuf \in [Ring -> Nat]
      BY DEF InputInv, TypeOK
    <3>2. ASSUME NEW p \in Ring, (p - mInputPos) % N < n
          PROVE  data[((p - mInputPos) % N) + 1] \in Nat
      <4> DEFINE i == (p - mInputPos) % N
      <4>1. i \in 0 .. N - 1 /\ i < n
        BY <1>6, <3>2
      <4> HIDE DEF i
      <4>2. i + 1 \in 1 .. Len(data)
        BY <1>1, <4>1
      <4>3. data[i + 1] \in Nat
        BY <4>2, ElementOfSeq
      <4> QED BY <4>3 DEF i
    <3> HIDE DEF n
    <3> QED BY <1>4, <3>1, <3>2
  <2>2. mInputSize' \in 0 .. mIOBufSize /\ mInputPos' \in Ring
    <3>1. mInputSize \in Nat
      BY DEF InputInv, TypeOK
    <3>2. S + n \in Int
      BY <1>1
    <3>3. mInputPos' \in 0 .. N - 1
      BY <1>1, <1>2, <1>5, <3>2, ModIs, Zenon
    <3> QED BY <1>1, <1>4, <3>1, <3>3 DEF Ring, N
  <2>3. slice' \in 0 .. MaxFrames + FFTSize
    BY <1>1, Sizes
  <2> QED BY <1>2, <1>3, <2>1, <2>2, <2>3 DEF InputInv, TypeOK
<1>8. ASSUME NEW j \in Start .. S + n - 1 PROVE mInputBuf'[j % mIOBufSize] = samples'[j + 1]
  <2> SUFFICES mInputBuf'[j % N] = samples'[j + 1]
    BY DEF N
  <2>1. j \in Int /\ S \in Int /\ j % N \in Ring
    <3>1. j \in Int
      BY <1>1
    <3>2. j % N \in 0 .. N - 1
      BY <1>1, <3>1, ModIs, Zenon
    <3> QED BY <1>1, <3>1, <3>2 DEF Ring, N
  <2>2. CASE j >= S
    <3>1. j - S \in 0 .. N - 1 /\ j - S < n
      <4>1. mInputSize \in Nat
        BY DEF InputInv, TypeOK
      <4> QED BY <1>1, <2>2, <4>1
    <3>2. ((j % N) - (S % N)) % N = j - S
      BY <1>1, <2>1, <3>1, ModFrom, Zenon
    <3>3. mInputBuf'[j % N] = data[j - S + 1]
      BY <1>1, <1>4, <2>1, <3>1, <3>2
    <3>4. samples'[j + 1] = data[j - S + 1]
      <4>1. j + 1 \in 1 .. S + n /\ ~ (j + 1 <= S) /\ j + 1 - S = j - S + 1
        BY <1>1, <2>2
      <4> QED BY <1>2, <4>1
    <3> QED BY <3>3, <3>4
  <2>3. CASE ~ (j >= S)
    <3>1. j - S + N \in 0 .. N - 1 /\ ~ (j - S + N < n)
      BY <1>1, <2>3
    <3>2. ((j % N) - (S % N)) % N = j - S + N
      <4>1. PICK d \in 0 .. N - 1 : d = j - S + N
        BY <3>1
      <4>2. j - S = d - N
        BY <1>1, <4>1
      <4>3. ((j % N) - (S % N)) % N = d
        BY <1>1, <2>1, <4>2, ModFrom, Zenon
      <4> QED BY <4>1, <4>3
    <3>3. mInputBuf'[j % N] = mInputBuf[j % N]
      BY <1>1, <1>4, <2>1, <3>1, <3>2
    <3>4. samples'[j + 1] = samples[j + 1]
      <4>1. j + 1 \in 1 .. S + n /\ j + 1 <= S
        BY <1>1, <2>3
      <4> QED BY <1>2, <4>1
    <3>5. j \in Start .. S - 1
      BY <1>1, <2>3
    <3> QED BY <3>3, <3>4, <3>5 DEF InputInv, N
  <2> QED BY <2>2, <2>3
<1>9. \A w \in 1 .. Len(windows) : WindowStart(w) \in Nat /\ WindowStart(w) + FFTSize <= S
  <2> TAKE w \in 1 .. Len(windows)
  <2>1. WindowStart(w) \in Nat
    BY Sizes, StartIs DEF WindowStart, InputInv
  <2> QED BY <2>1 DEF InputInv
<1>10. ASSUME NEW w \in 1 .. Len(windows)
       PROVE  windows[w] = SubSeq(samples', WindowStart(w) + 1, WindowStart(w) + FFTSize)
  <2> DEFINE a == WindowStart(w)
  <2>1. a \in Nat /\ a + FFTSize <= S
    BY <1>9
  <2>2. windows[w] = SubSeq(samples, a + 1, a + FFTSize)
    BY DEF InputInv, WindowsOverlap
  <2> HIDE DEF a
  <2>3. \A i \in a + 1 .. a + FFTSize : samples'[i] = samples[i]
    <3> TAKE i \in a + 1 .. a + FFTSize
    <3>1. i \in 1 .. S + n /\ i <= S
      BY <1>1, <2>1, Sizes
    <3> QED BY <1>2, <3>1
  <2>4. SubSeq(samples', a + 1, a + FFTSize) = SubSeq(samples, a + 1, a + FFTSize)
    <3>1. a \in Int /\ a + FFTSize \in Int
      BY <2>1, Sizes
    <3> QED BY <2>3, <3>1, SameWindow, Zenon
  <2> QED BY <2>2, <2>4 DEF a
<1>11. WindowsOverlap'
  BY <1>3, <1>10 DEF WindowsOverlap, WindowStart
<1>12. \A w \in 1 .. Len(windows') : WindowStart(w)' + FFTSize <= Len(samples')
  BY <1>1, <1>2, <1>3, <1>9, Sizes DEF WindowStart
<1>13. /\ mInputSize' = Len(samples') - Start'
       /\ windows' # <<>> => mInputSize' >= FFTSize - HopSize
       /\ mInputSize' < FFTSize + slice'
  <2>1. mInputSize < FFTSize /\ mInputSize \in Nat
        /\ (windows # <<>> => mInputSize >= FFTSize - HopSize)
    BY BetweenCalls DEF InputInv
  <2> QED BY <1>1, <1>2, <1>3, <1>4, <2>1, Sizes
<1> QED BY <1>2, <1>3, <1>5, <1>7, <1>8, <1>11, <1>12, <1>13 DEF InputInv, N

\* copyInputToFFT reads the FFTSize samples from the next hop on.
LEMMA CopyInputToFFTKeeps ==
  ASSUME InputInv, busy # "idle", EnoughInput, CopyInputToFFT, UNCHANGED callVars,
         TypeOK'
  PROVE  InputInv'
<1> DEFINE N == mIOBufSize
           S == Len(samples)
           k == Len(windows)
           w == [i \in 1 .. FFTSize |-> mInputBuf[(mInFFTPos + i - 1) % mIOBufSize]]
<1>1. /\ Start \in Nat /\ S \in Nat /\ k \in Nat /\ N \in Nat \ {0}
      /\ mInputSize = S - Start /\ mInFFTPos = Start % N /\ mInputSize >= FFTSize
      /\ mInputSize \in Nat
  <2>1. mInputSize \in 0 .. mIOBufSize
    BY DEF InputInv, TypeOK
  <2> QED BY <2>1, StartIs, Sizes DEF InputInv, EnoughInput
<1> HIDE DEF N
<1>2. /\ windows' = Append(windows, w) /\ UNCHANGED <<mInputBuf, mInputPos, samples>>
      /\ mInputSize' = mInputSize - HopSize /\ mInFFTPos' = (mInFFTPos + HopSize) % N
      /\ UNCHANGED <<busy, slice, flushed>>
  BY DEF CopyInputToFFT, callVars, N
<1>3. /\ Len(windows') = k + 1 /\ windows'[k + 1] = w
      /\ \A i \in 1 .. k : windows'[i] = windows[i]
  <2>1. windows \in Seq([1 .. FFTSize -> Nat])
    BY DEF InputInv, TypeOK
  <2> HIDE DEF w
  <2> QED BY <1>2, <2>1
<1>4. Start' = Start + HopSize /\ WindowStart(k + 1) = Start
  <2>1. (k + 1) * HopSize = k * HopSize + HopSize /\ k + 1 - 1 = k
    BY <1>1, Sizes
  <2> QED BY <1>3, <2>1 DEF Start, WindowStart
<1>5. mInFFTPos' = Start' % N
  <2>1. Start \in Int /\ HopSize \in Int
    BY <1>1, Sizes
  <2>2. ((Start % N) + HopSize) % N = (Start + HopSize) % N
    BY <1>1, <2>1, ModAdd, Zenon
  <2> QED BY <1>1, <1>2, <1>4, <2>2, Zenon
<1>6. w = SubSeq(samples, Start + 1, Start + FFTSize)
  <2>1. ASSUME NEW i \in 1 .. FFTSize
        PROVE  mInputBuf[(mInFFTPos + i - 1) % mIOBufSize] = samples[Start + i]
    <3>1. Start \in Int /\ i - 1 \in Int
      BY <1>1
    <3>2. ((Start % N) + (i - 1)) % N = (Start + (i - 1)) % N
      BY <1>1, <3>1, ModAdd, Zenon
    <3>3. mInFFTPos + i - 1 = mInFFTPos + (i - 1)
      <4>1. mInFFTPos \in Int
        BY Sizes DEF InputInv, TypeOK, Ring
      <4> QED BY <4>1
    <3>4. Start + (i - 1) \in Start .. S - 1 /\ Start + (i - 1) + 1 = Start + i
      BY <1>1, Sizes
    <3>5. mInputBuf[(Start + (i - 1)) % N] = samples[Start + (i - 1) + 1]
      BY <3>4 DEF InputInv, N
    <3> QED BY <1>1, <3>2, <3>3, <3>4, <3>5 DEF N
  <2>2. SubSeq(samples, Start + 1, Start + FFTSize) = [i \in 1 .. FFTSize |-> samples[Start + i]]
    <3>1. samples \in Seq(Nat)
      BY DEF InputInv, TypeOK
    <3>2. Start + FFTSize - (Start + 1) + 1 = FFTSize
      BY <1>1, Sizes
    <3>3. SubSeq(samples, Start + 1, Start + FFTSize) =
            [i \in 1 .. Start + FFTSize - (Start + 1) + 1 |-> samples[i + (Start + 1) - 1]]
      BY <1>1, Sizes
    <3>4. \A i \in 1 .. FFTSize : i + (Start + 1) - 1 = Start + i
      BY <1>1, Sizes
    <3> QED BY <3>2, <3>3, <3>4
  <2> QED BY <2>1, <2>2
<1> HIDE DEF w
<1>7. WindowsOverlap'
  <2> SUFFICES ASSUME NEW v \in 1 .. k + 1
               PROVE  windows'[v] = SubSeq(samples, WindowStart(v) + 1, WindowStart(v) + FFTSize)
    BY <1>2, <1>3 DEF WindowsOverlap, WindowStart
  <2>1. CASE v = k + 1
    BY <1>3, <1>4, <1>6, <2>1
  <2>2. CASE v # k + 1
    <3>1. v \in 1 .. k
      BY <1>1, <2>2
    <3> QED BY <1>3, <3>1 DEF InputInv, WindowsOverlap
  <2> QED BY <2>1, <2>2
<1>8. ASSUME NEW v \in 1 .. k + 1 PROVE WindowStart(v) + FFTSize <= S
  <2>1. CASE v = k + 1
    BY <1>1, <1>4, <2>1, Sizes
  <2>2. CASE v # k + 1
    <3>1. v \in 1 .. k
      BY <1>1, <2>2
    <3> QED BY <3>1 DEF InputInv
  <2> QED BY <2>1, <2>2
<1>9. ASSUME NEW j \in Start' .. S - 1 PROVE mInputBuf[j % N] = samples[j + 1]
  <2>1. j \in Start .. S - 1
    BY <1>1, <1>4, Sizes
  <2> QED BY <2>1 DEF InputInv, N
<1>10. /\ mInputSize' = S - Start' /\ mInputSize' >= FFTSize - HopSize
       /\ mInputSize' < FFTSize + slice
  <2>1. mInputSize < FFTSize + slice /\ slice \in Nat
    BY DEF InputInv, TypeOK
  <2> QED BY <1>1, <1>2, <1>4, <2>1, Sizes
<1>11. mInputPos' = Len(samples') % N /\ samples' = samples /\ busy' = busy /\ slice' = slice
  BY <1>2 DEF InputInv, N
<1>12. \A v \in 1 .. Len(windows') : WindowStart(v)' + FFTSize <= Len(samples')
  BY <1>3, <1>8, <1>11 DEF WindowStart
<1>13. \A j \in Start' .. Len(samples') - 1 : mInputBuf'[j % N] = samples'[j + 1]
  BY <1>2, <1>9, <1>11
<1>14. mInputSize' = Len(samples') - Start' /\ mInputSize' < FFTSize + slice'
  BY <1>10, <1>11
<1> QED BY <1>5, <1>7, <1>10, <1>11, <1>12, <1>13, <1>14 DEF InputInv, N

\* The rest of TypeOK.
LEMMA WindowTypes ==
  ASSUME TypeOK, EnoughInput, NextWindow PROVE TypeOK'
<1> DEFINE N == mIOBufSize
           w == [i \in 1 .. FFTSize |-> mInputBuf[(mInFFTPos + i - 1) % mIOBufSize]]
<1>1. /\ windows' = Append(windows, w) /\ UNCHANGED <<mInputBuf, mInputPos, samples>>
      /\ mInputSize' = mInputSize - HopSize
      /\ mInFFTPos' = (mInFFTPos + HopSize) % mIOBufSize
      /\ UNCHANGED <<busy, slice, flushed>>
      /\ IF busy = "process" THEN OverlapAddOutput ELSE UNCHANGED outVars
  BY DEF NextWindow, CopyInputToFFT, callVars
<1>2. \A p \in Int : p % mIOBufSize \in Ring
  BY Sizes, ModIs DEF Ring
<1>3. mInFFTPos \in Int /\ mOutFFTPos \in Int
  BY Sizes DEF TypeOK, Ring
<1>4. w \in [1 .. FFTSize -> Nat]
  <2>1. \A i \in 1 .. FFTSize : (mInFFTPos + i - 1) % mIOBufSize \in Ring
    <3> TAKE i \in 1 .. FFTSize
    <3>1. mInFFTPos + i - 1 \in Int
      BY <1>3
    <3> QED BY <1>2, <3>1
  <2>2. mInputBuf \in [Ring -> Nat]
    BY DEF TypeOK
  <2> QED BY <2>1, <2>2
<1>5. windows' \in Seq([1 .. FFTSize -> Nat])
  <2> HIDE DEF w
  <2>1. windows \in Seq([1 .. FFTSize -> Nat])
    BY DEF TypeOK
  <2> QED BY <1>1, <1>4, <2>1
<1>6. mInputSize' \in 0 .. mIOBufSize /\ mInFFTPos' \in Ring
  <2>1. mInputSize \in 0 .. mIOBufSize /\ mInputSize >= FFTSize
    BY DEF TypeOK, EnoughInput
  <2>2. mInFFTPos + HopSize \in Int
    BY <1>3, Sizes
  <2> QED BY <1>1, <1>2, <2>1, <2>2, Sizes
<1>7. /\ mOutputBuf' \in [Ring -> SUBSET (Nat \X Nat)] /\ mOutFFTPos' \in Ring
      /\ UNCHANGED <<mOutputPos, out>>
  <2>1. CASE busy = "process"
    <3> DEFINE v == windows'[Len(windows')]
               i(p) == (p - mOutFFTPos) % mIOBufSize
    <3>1. v = w /\ Len(windows') \in Nat
      <4>1. windows \in Seq([1 .. FFTSize -> Nat])
        BY DEF TypeOK
      <4> HIDE DEF w
      <4> QED BY <1>1, <4>1
    <3>2. /\ mOutputBuf' = [p \in Ring |->
               IF i(p) < FFTSize THEN mOutputBuf[p] \cup {<<Len(windows'), v[i(p) + 1]>>}
               ELSE mOutputBuf[p]]
          /\ mOutFFTPos' = (mOutFFTPos + HopSize) % mIOBufSize
          /\ UNCHANGED <<mOutputPos, out>>
      BY <1>1, <2>1 DEF OverlapAddOutput
    <3>3. ASSUME NEW p \in Ring, i(p) < FFTSize
          PROVE  <<Len(windows'), v[i(p) + 1]>> \in Nat \X Nat
      <4>1. p - mOutFFTPos \in Int
        BY <1>3, Sizes DEF Ring
      <4>2. i(p) \in 0 .. mIOBufSize - 1
        BY <1>2, <4>1 DEF Ring
      <4> HIDE DEF i
      <4>3. i(p) + 1 \in 1 .. FFTSize
        BY <3>3, <4>2, Sizes
      <4> HIDE DEF w, v
      <4>4. v[i(p) + 1] \in Nat
        BY <1>4, <3>1, <4>3
      <4> QED BY <3>1, <4>4
    <3>4. mOutputBuf \in [Ring -> SUBSET (Nat \X Nat)]
      BY DEF TypeOK
    <3> HIDE DEF i, v
    <3>5. mOutputBuf' \in [Ring -> SUBSET (Nat \X Nat)]
      BY <3>2, <3>3, <3>4
    <3>6. mOutFFTPos' \in Ring
      <4>1. mOutFFTPos + HopSize \in Int
        BY <1>3, Sizes
      <4> QED BY <1>2, <3>2, <4>1
    <3> QED BY <3>2, <3>5, <3>6
  <2>2. CASE busy # "process"
    BY <1>1, <2>2 DEF outVars, TypeOK
  <2> QED BY <2>1, <2>2
<1> QED BY <1>1, <1>5, <1>6, <1>7 DEF TypeOK

\* copyOutput and TypeOK.
LEMMA CopyOutputTypes ==
  ASSUME TypeOK, NEW n \in Nat, CopyOutput(n)
  PROVE  /\ out' \in Seq(SUBSET (Nat \X Nat)) /\ mOutputPos' \in Ring
         /\ mOutputBuf' \in [Ring -> SUBSET (Nat \X Nat)] /\ mOutFFTPos' = mOutFFTPos
         /\ Len(out') = Len(out) + n
         /\ \A i \in 1 .. Len(out) : out'[i] = out[i]
         /\ \A i \in 1 .. n :
              out'[Len(out) + i] = mOutputBuf[(mOutputPos + i - 1) % mIOBufSize]
<1> DEFINE T == SUBSET (Nat \X Nat)
           m == Len(out)
           d == [i \in 1 .. n |-> mOutputBuf[(mOutputPos + i - 1) % mIOBufSize]]
<1>1. /\ out' = out \o d /\ mOutputPos' = (mOutputPos + n) % mIOBufSize
      /\ mOutputBuf' = [p \in Ring |->
           IF (p - mOutputPos) % mIOBufSize < n THEN {} ELSE mOutputBuf[p]]
      /\ mOutFFTPos' = mOutFFTPos
  BY DEF CopyOutput
<1>2. \A p \in Int : p % mIOBufSize \in Ring
  BY Sizes, ModIs DEF Ring
<1>3. mOutputPos \in Int /\ mOutputBuf \in [Ring -> T] /\ out \in Seq(T)
  BY Sizes DEF TypeOK, Ring
<1> HIDE DEF T
<1>4. \A i \in 1 .. n : (mOutputPos + i - 1) % mIOBufSize \in Ring
  <2> TAKE i \in 1 .. n
  <2>1. mOutputPos + i - 1 \in Int
    BY <1>3
  <2> QED BY <1>2, <2>1
<1>5. d \in Seq(T) /\ Len(d) = n
  <2>1. \A i \in 1 .. n : mOutputBuf[(mOutputPos + i - 1) % mIOBufSize] \in T
    BY <1>3, <1>4
  <2> DEFINE f(i) == mOutputBuf[(mOutputPos + i - 1) % mIOBufSize]
  <2> HIDE DEF f
  <2>2. d = [i \in 1 .. n |-> f(i)] /\ \A i \in 1 .. n : f(i) \in T
    BY <2>1 DEF f
  <2> HIDE DEF d
  <2> QED BY <2>2
<1>6. \A i \in 1 .. n : d[i] = mOutputBuf[(mOutputPos + i - 1) % mIOBufSize]
  OBVIOUS
<1> HIDE DEF d
<1>7. /\ out \o d \in Seq(T) /\ Len(out \o d) = Len(out) + Len(d)
      /\ \A i \in 1 .. Len(out) + Len(d) :
           (out \o d)[i] = IF i <= Len(out) THEN out[i] ELSE d[i - Len(out)]
  BY <1>3, <1>5, ConcatProperties
<1>8. m \in Nat
  BY <1>3
<1>9. out' \in Seq(T) /\ Len(out') = m + n
  BY <1>1, <1>5, <1>7
<1>10. ASSUME NEW i \in 1 .. m PROVE out'[i] = out[i]
  <2>1. i \in 1 .. Len(out) + Len(d) /\ i <= Len(out)
    BY <1>5, <1>8
  <2> QED BY <1>1, <1>7, <2>1
<1>11. ASSUME NEW i \in 1 .. n PROVE out'[m + i] = d[i]
  <2>1. m + i \in 1 .. Len(out) + Len(d) /\ ~ (m + i <= Len(out)) /\ m + i - Len(out) = i
    BY <1>5, <1>8
  <2> QED BY <1>1, <1>7, <2>1
<1>12. mOutputPos' \in Ring
  <2>1. mOutputPos + n \in Int
    BY <1>3
  <2> QED BY <1>1, <1>2, <2>1
<1>13. {} \in T
  BY DEF T
<1>14. mOutputBuf' \in [Ring -> T]
  BY <1>1, <1>3, <1>13
<1> QED BY <1>1, <1>6, <1>9, <1>10, <1>11, <1>12, <1>14 DEF T

\* After the flush there is a whole window, and then what its hop leaves.
FlushInv ==
  flushed =>
    /\ busy # "process"
    /\ busy = "idle" /\ samples # <<>> =>
         windows # <<>> /\ mInputSize = FFTSize - HopSize
    /\ busy # "idle" =>
         mInputSize = FFTSize \/ (windows # <<>> /\ mInputSize = FFTSize - HopSize)

\* All of it holds in the beginning.
LEMMA InputInit == ASSUME Init PROVE InputInv /\ FlushInv
<1>1. /\ mInputBuf = [p \in Ring |-> 0] /\ mInputSize = 0 /\ mInputPos = 0 /\ mInFFTPos = 0
      /\ mOutputBuf = [p \in Ring |-> {}] /\ mOutputPos = (-FFTSize) % mIOBufSize
      /\ mOutFFTPos = 0 /\ samples = <<>> /\ windows = <<>> /\ out = <<>>
      /\ busy = "idle" /\ slice = 0 /\ flushed = FALSE
  BY DEF Init
<1>2. \A p \in Int : p % mIOBufSize \in Ring
  BY Sizes, ModIs DEF Ring
<1>3. 0 \in Ring /\ mOutputPos \in Ring /\ mInputSize \in 0 .. mIOBufSize
  <2>1. -FFTSize \in Int
    BY Sizes
  <2>2. mOutputPos \in Ring
    BY <1>1, <1>2, <2>1
  <2>3. 0 \in Ring
    BY Sizes DEF Ring
  <2>4. mInputSize \in 0 .. mIOBufSize
    BY <1>1, Sizes
  <2> QED BY <2>2, <2>3, <2>4
<1>4. TypeOK
  <2>1. samples \in Seq(Nat) /\ windows \in Seq([1 .. FFTSize -> Nat])
        /\ out \in Seq(SUBSET (Nat \X Nat))
    BY <1>1
  <2>2. mInputBuf \in [Ring -> Nat] /\ mOutputBuf \in [Ring -> SUBSET (Nat \X Nat)]
    BY <1>1
  <2>3. slice \in 0 .. MaxFrames + FFTSize
    BY <1>1, Sizes
  <2> QED BY <1>1, <1>3, <2>1, <2>2, <2>3 DEF TypeOK
<1>5. Start = 0 /\ Len(samples) = 0 /\ Len(windows) = 0 /\ 0 % mIOBufSize = 0
  <2>1. 0 = mIOBufSize * 0 + 0 /\ 0 \in 0 .. mIOBufSize - 1
    BY Sizes
  <2>2. 0 % mIOBufSize = 0
    BY <2>1, Sizes, ModUnique
  <2> QED BY <1>1, <2>2, Sizes DEF Start
<1>6. InputInv
  <2>1. mInputSize = Len(samples) - Start /\ 0 .. -1 = {} /\ mInputSize < FFTSize + 0
    BY <1>1, <1>5, Sizes
  <2>2. \A j \in Start .. Len(samples) - 1 : FALSE
    BY <1>5
  <2>3. \A w \in 1 .. Len(windows) : FALSE
    BY <1>5
  <2> QED BY <1>1, <1>4, <1>5, <2>1, <2>2, <2>3 DEF InputInv, WindowsOverlap
<1> QED BY <1>1, <1>6 DEF FlushInv

\* A slice is some samples.
LEMMA SliceType ==
  ASSUME TypeOK, NEW n \in Nat
  PROVE  Slice(n) \in Seq(Nat) /\ Len(Slice(n)) = n
<1>1. Len(samples) \in Nat
  BY DEF TypeOK
<1>2. \A i \in 1 .. n : Len(samples) + i \in Nat
  BY <1>1
<1> QED BY <1>2 DEF Slice

\* The client begins a call.
LEMMA InputKeeps == ASSUME InputInv, FlushInv, Input PROVE InputInv' /\ FlushInv'
<1>1. PICK n \in 1 .. MaxFrames :
        ~flushed /\ (ProcessForwards(Slice(n)) \/ Process(Slice(n)))
  BY DEF Input
<1>2. /\ busy = "idle" /\ CopyInput(Slice(n)) /\ slice' = Len(Slice(n)) /\ UNCHANGED outVars
      /\ busy' \in {"processForwards", "process"} /\ flushed' = flushed
  BY <1>1 DEF ProcessForwards, Process, Begin
<1>3. n \in Nat /\ n <= MaxFrames /\ TypeOK
  BY Sizes DEF InputInv
<1>4. Slice(n) \in Seq(Nat) /\ Len(Slice(n)) = n
  BY <1>3, SliceType
<1>5. mInputSize + Len(Slice(n)) <= mIOBufSize
  BY <1>2, <1>3, <1>4, RoomForSlice
<1>6. Len(Slice(n)) <= MaxFrames + FFTSize /\ FFTSize > 0
  BY <1>3, <1>4, Sizes
<1>7. flushed' \in BOOLEAN
  BY <1>2, <1>3 DEF TypeOK
<1>8. InputInv'
  <2> DEFINE data == Slice(n)
  <2>1. /\ data \in Seq(Nat) /\ CopyInput(data) /\ slice' = Len(data)
        /\ mInputSize + Len(data) <= mIOBufSize /\ Len(data) <= MaxFrames + FFTSize
    BY <1>2, <1>4, <1>5, <1>6
  <2> HIDE DEF data
  <2> QED BY <1>2, <1>6, <1>7, <2>1, CopyInputKeeps
<1> QED BY <1>1, <1>2, <1>8 DEF FlushInv

\* flushForward fills the last window up.
LEMMA FlushKeeps == ASSUME InputInv, FlushInv, Flush PROVE InputInv' /\ FlushInv'
<1>1. /\ flushed' = TRUE /\ ~flushed
      /\ \/ /\ mInputSize > 0
            /\ Begin("processForwards", [i \in 1 .. FFTSize - mInputSize |-> 0])
         \/ /\ mInputSize = 0 /\ busy = "idle"
            /\ UNCHANGED <<inVars, outVars, busy, slice>>
  BY DEF Flush, FlushForward
<1>2. CASE /\ mInputSize > 0
           /\ Begin("processForwards", [i \in 1 .. FFTSize - mInputSize |-> 0])
  <2> DEFINE data == [i \in 1 .. FFTSize - mInputSize |-> 0]
  <2>1. /\ busy = "idle" /\ CopyInput(data) /\ slice' = Len(data) /\ UNCHANGED outVars
        /\ busy' = "processForwards"
    BY <1>2 DEF Begin
  <2>2. mInputSize \in Nat /\ mInputSize < FFTSize
    BY <2>1, BetweenCalls
  <2>3. data \in Seq(Nat) /\ Len(data) = FFTSize - mInputSize
    BY <2>2, Sizes
  <2> HIDE DEF data
  <2>4. Len(data) \in Nat /\ Len(data) + mInputSize = FFTSize
        /\ Len(data) <= MaxFrames + FFTSize /\ FFTSize > 0
    BY <2>2, <2>3, Sizes
  <2>5. mInputSize + Len(data) <= mIOBufSize
    BY <2>1, <2>4, RoomForSlice
  <2>6. busy' \in {"processForwards", "process"} /\ flushed' \in BOOLEAN
    BY <1>1, <2>1
  <2>7. InputInv'
    BY <2>1, <2>3, <2>4, <2>5, <2>6, CopyInputKeeps
  <2>8. mInputSize' = FFTSize
    <3>1. mInputSize' = mInputSize + Len(data)
      BY <2>1 DEF CopyInput
    <3> QED BY <2>2, <2>4, <3>1
  <2> QED BY <2>1, <2>7, <2>8 DEF FlushInv
<1>3. CASE /\ mInputSize = 0 /\ busy = "idle"
           /\ UNCHANGED <<inVars, outVars, busy, slice>>
  <2>1. /\ UNCHANGED <<mInputBuf, mInputSize, mInputPos, mInFFTPos, samples, windows>>
        /\ UNCHANGED <<mOutputBuf, mOutputPos, mOutFFTPos, out, busy, slice>>
    BY <1>3 DEF inVars, outVars
  <2>2. Start' = Start /\ (WindowsOverlap => WindowsOverlap') /\ (TypeOK => TypeOK')
    BY <1>1, <2>1 DEF Start, WindowsOverlap, TypeOK
  <2>3. InputInv'
    BY <2>1, <2>2 DEF InputInv, WindowStart
  <2>4. samples # <<>> => windows # <<>> /\ mInputSize = FFTSize - HopSize
    <3> SUFFICES ASSUME samples # <<>>
                 PROVE  windows # <<>> /\ mInputSize = FFTSize - HopSize
      OBVIOUS
    <3>1. Len(samples) # 0
      BY DEF InputInv, TypeOK
    <3>2. Start # 0
      BY <1>3, <3>1, StartIs DEF InputInv
    <3>3. windows # <<>>
      BY <3>2, Sizes DEF Start
    <3>4. 0 >= FFTSize - HopSize
      BY <1>3, <3>3 DEF InputInv
    <3> QED BY <1>3, <3>3, <3>4, Sizes
  <2> QED BY <1>3, <2>1, <2>3, <2>4 DEF FlushInv
<1> QED BY <1>1, <1>2, <1>3

\* A window is made.
LEMMA NextWindowKeeps == ASSUME InputInv, FlushInv, NextWindow PROVE InputInv' /\ FlushInv'
<1>1. busy # "idle" /\ EnoughInput /\ CopyInputToFFT /\ UNCHANGED callVars
  BY DEF NextWindow
<1>2. TypeOK'
  BY <1>1, WindowTypes DEF InputInv
<1>3. InputInv'
  BY <1>1, <1>2, CopyInputToFFTKeeps
<1>4. windows' # <<>>
  <2>1. windows \in Seq([1 .. FFTSize -> Nat])
    BY DEF InputInv, TypeOK
  <2>2. \E w : windows' = Append(windows, w)
    BY <1>1 DEF CopyInputToFFT
  <2> QED BY <2>1, <2>2
<1>5. ASSUME flushed PROVE mInputSize' = FFTSize - HopSize
  <2>1. mInputSize >= FFTSize /\ mInputSize' = mInputSize - HopSize
    BY <1>1 DEF EnoughInput, CopyInputToFFT
  <2>2. mInputSize = FFTSize \/ mInputSize = FFTSize - HopSize
    BY <1>1, <1>5 DEF FlushInv
  <2> QED BY <2>1, <2>2, Sizes
<1>6. UNCHANGED <<busy, slice, flushed>>
  BY <1>1 DEF callVars
<1> QED BY <1>3, <1>4, <1>5, <1>6 DEF FlushInv

\* A call returns.
LEMMA ReturnKeeps == ASSUME InputInv, FlushInv, Return PROVE InputInv' /\ FlushInv'
<1>1. /\ busy # "idle" /\ ~EnoughInput /\ busy' = "idle"
      /\ UNCHANGED <<mInputBuf, mInputSize, mInputPos, mInFFTPos, samples, windows>>
      /\ UNCHANGED <<slice, flushed>>
      /\ IF busy = "process" THEN CopyOutput(slice) ELSE UNCHANGED outVars
  BY DEF Return, inVars
<1>2. /\ out' \in Seq(SUBSET (Nat \X Nat)) /\ mOutputPos' \in Ring /\ mOutFFTPos' \in Ring
      /\ mOutputBuf' \in [Ring -> SUBSET (Nat \X Nat)]
  <2>1. CASE busy = "process"
    <3>1. slice \in Nat /\ TypeOK /\ CopyOutput(slice)
      <4>1. slice \in 0 .. MaxFrames + FFTSize
        BY DEF InputInv, TypeOK
      <4>2. slice \in Nat
        BY <4>1, Sizes
      <4> QED BY <1>1, <2>1, <4>2 DEF InputInv
    <3>2. mOutFFTPos \in Ring
      BY DEF InputInv, TypeOK
    <3> QED BY <3>1, <3>2, CopyOutputTypes
  <2>2. CASE busy # "process"
    BY <1>1, <2>2 DEF outVars, InputInv, TypeOK
  <2> QED BY <2>1, <2>2
<1>3. TypeOK'
  BY <1>1, <1>2 DEF InputInv, TypeOK
<1>4. Start' = Start /\ (WindowsOverlap => WindowsOverlap')
  BY <1>1 DEF Start, WindowsOverlap
<1>5. mInputSize' < FFTSize + 0
  <2>1. mInputSize \in Nat
    BY DEF InputInv, TypeOK
  <2> QED BY <1>1, <2>1, Sizes DEF EnoughInput
<1>6. InputInv'
  BY <1>1, <1>3, <1>4, <1>5 DEF InputInv, WindowStart
<1>7. FlushInv'
  <2>1. flushed => mInputSize # FFTSize
    BY <1>1, Sizes DEF EnoughInput
  <2> QED BY <1>1, <2>1 DEF FlushInv
<1> QED BY <1>6, <1>7

\* Nothing is done.
LEMMA QuietKeeps == ASSUME InputInv, FlushInv, UNCHANGED ringVars PROVE InputInv' /\ FlushInv'
<1>1. /\ UNCHANGED <<mInputBuf, mInputSize, mInputPos, mInFFTPos, samples, windows>>
      /\ UNCHANGED <<mOutputBuf, mOutputPos, mOutFFTPos, out, busy, slice, flushed>>
  BY DEF ringVars, inVars, outVars, callVars
<1>2. Start' = Start /\ (WindowsOverlap => WindowsOverlap') /\ (TypeOK => TypeOK')
  BY <1>1 DEF Start, WindowsOverlap, TypeOK
<1> QED BY <1>1, <1>2 DEF InputInv, FlushInv, WindowStart

\* So for every step, ...
LEMMA InputStep ==
  ASSUME InputInv, FlushInv, [Next]_ringVars PROVE InputInv' /\ FlushInv'
BY InputKeeps, FlushKeeps, NextWindowKeeps, ReturnKeeps, QuietKeeps DEF Next

\* ... and always.
LEMMA InputInvHolds == Spec => [](InputInv /\ FlushInv)
<1>1. Init => InputInv /\ FlushInv
  BY InputInit
<1>2. InputInv /\ FlushInv /\ [Next]_ringVars => (InputInv /\ FlushInv)'
  BY InputStep
<1> QED BY <1>1, <1>2, PTL DEF Spec

\* Each window is the FFTSize samples that begin HopSize after those of the one before: a
\* slice of any length up to inMaxFrames, however it lies in the ring, never goes over a
\* sample that is still to be read.
THEOREM WindowsAreOverlapping == Spec => []WindowsOverlap
<1>1. InputInv /\ FlushInv => WindowsOverlap
  BY DEF InputInv
<1> QED BY <1>1, InputInvHolds, PTL

\* processForwards: and process: return with less than a window unread, and flushForward
\* with every sample in a window.
THEOREM NoSampleIsLeft == Spec => []EverySampleSeen
<1>1. ASSUME InputInv, FlushInv PROVE EverySampleSeen
  <2> SUFFICES ASSUME busy = "idle" PROVE EverySampleSeen
    BY DEF EverySampleSeen
  <2>1. mInputSize < FFTSize
    BY <1>1, BetweenCalls
  <2>2. ASSUME flushed, Len(samples) > 0
        PROVE  WindowStart(Len(windows)) + FFTSize = Len(samples)
    <3>1. samples # <<>>
      BY <2>2
    <3>2. mInputSize = FFTSize - HopSize
      BY <1>1, <2>2, <3>1 DEF FlushInv
    <3>3. mInputSize = Len(samples) - Start
      BY <1>1 DEF InputInv
    <3>4. Start \in Nat /\ Len(samples) \in Nat /\ Len(windows) \in Nat
      BY <1>1, StartIs DEF InputInv
    <3>5. WindowStart(Len(windows)) = Start - HopSize
      BY <3>4, Sizes DEF WindowStart, Start
    <3> QED BY <3>2, <3>3, <3>4, <3>5, Sizes
  <2> QED BY <2>1, <2>2 DEF EverySampleSeen
<1>2. InputInv /\ FlushInv => EverySampleSeen
  BY <1>1
<1> QED BY <1>2, InputInvHolds, PTL

-----------------------------------------------------------------------------
(* Output.                                                                 *)

\* What is added, when the windows are, at the place of the j-th sample from 0.
Added(j) == IF j < 0 THEN {} ELSE {<<w, samples[j + 1]>> : w \in Covering(j + 1)}

\* The next sample that process: returns.
Unread == Len(out) - FFTSize

\* process: has not been called, ...
Forwards == out = <<>> /\ busy # "process" /\ samples # <<>>

\* ... or nothing else has: the cells from mOutputPos on, all around the ring, are what
\* has been added at their places.
Returning ==
  /\ busy # "processForwards"
  /\ busy = "process" => slice <= MaxFrames
  /\ Len(out) = Len(samples) - (IF busy = "process" THEN slice ELSE 0)
  /\ mOutputPos = Unread % mIOBufSize
  /\ mOutFFTPos = Start % mIOBufSize
  /\ \A j \in Unread .. Unread + mIOBufSize - 1 : mOutputBuf[j % mIOBufSize] = Added(j)

\* What is returned is what was added at the place FFTSize samples before.
Returned == \A i \in 1 .. Len(out) : out[i] = Added(i - 1 - FFTSize)

OutputInv == (Forwards \/ Returning) /\ Returned

\* That is OverlapAdded.
LEMMA ReturnedIsAdded == ASSUME TypeOK PROVE OverlapAdded <=> Returned
<1>1. ASSUME NEW i \in 1 .. Len(out)
      PROVE  Added(i - 1 - FFTSize) =
               IF i <= FFTSize THEN {}
               ELSE {<<w, samples[i - FFTSize]>> : w \in Covering(i - FFTSize)}
  <2>1. i \in Int /\ i - 1 - FFTSize + 1 = i - FFTSize /\ (i - 1 - FFTSize < 0 <=> i <= FFTSize)
    BY Sizes
  <2> QED BY <2>1 DEF Added
<1> QED BY <1>1 DEF OverlapAdded, Returned

\* Where a window is.
LEMMA WindowAt ==
  ASSUME InputInv, NEW w \in 1 .. Len(windows)
  PROVE  /\ WindowStart(w) \in Nat /\ WindowStart(w) + HopSize <= Start
         /\ WindowStart(w) + FFTSize <= Len(samples)
<1>1. Len(windows) \in Nat /\ w \in Nat /\ w >= 1 /\ Start \in Nat
  BY StartIs DEF InputInv
<1>2. (Len(windows) - w) * HopSize \in Nat
  BY <1>1, Sizes
<1>3. /\ (Len(windows) - w) * HopSize = Len(windows) * HopSize - w * HopSize
      /\ (w - 1) * HopSize = w * HopSize - HopSize /\ (w - 1) * HopSize \in Nat
  BY <1>1, Sizes
<1>4. Len(windows) * HopSize \in Nat /\ w * HopSize \in Nat
  BY <1>1, Sizes
<1>5. WindowStart(w) \in Nat /\ WindowStart(w) + HopSize <= Start
  BY <1>2, <1>3, <1>4, Sizes DEF WindowStart, Start
<1> QED BY <1>5 DEF InputInv

\* Returned samples are before the next window.
LEMMA UnreadIs ==
  ASSUME InputInv, Returning
  PROVE  Unread \in Int /\ Unread <= Start
<1>1. /\ mInputSize = Len(samples) - Start
      /\ Len(samples) \in Nat /\ Start \in Nat /\ Len(out) \in Nat
  BY StartIs DEF InputInv
<1>2. CASE busy = "process"
  <2>1. Len(out) = Len(samples) - slice
    BY <1>2 DEF Returning
  <2>2. slice \in 0 .. MaxFrames + FFTSize /\ mInputSize < FFTSize + slice
    BY <1>2 DEF InputInv, TypeOK
  <2> QED BY <1>1, <2>1, <2>2, Sizes DEF Unread
<1>3. CASE busy # "process"
  <2>1. Len(out) = Len(samples) - 0 /\ busy = "idle"
    BY <1>3 DEF Returning, InputInv, TypeOK
  <2>2. mInputSize < FFTSize
    BY <2>1, BetweenCalls
  <2> QED BY <1>1, <2>1, <2>2, Sizes DEF Unread
<1> QED BY <1>2, <1>3

\* Samples that come later change nothing of what has been added.
LEMMA AddedStays ==
  ASSUME InputInv, windows' = windows,
         \A i \in 1 .. Len(samples) : samples'[i] = samples[i], NEW j \in Int
  PROVE  Added(j)' = Added(j)
<1>1. Covering(j + 1)' = Covering(j + 1)
  BY DEF Covering, WindowStart
<1>2. CASE j < 0
  BY <1>2 DEF Added
<1>3. CASE ~ (j < 0)
  <2>1. ASSUME NEW w \in Covering(j + 1) PROVE samples'[j + 1] = samples[j + 1]
    <3>1. w \in 1 .. Len(windows) /\ j + 1 <= WindowStart(w) + FFTSize
      BY DEF Covering
    <3>2. WindowStart(w) \in Nat /\ WindowStart(w) + FFTSize <= Len(samples)
      BY <3>1, WindowAt
    <3>3. Len(samples) \in Nat
      BY StartIs DEF InputInv
    <3>4. j + 1 \in 1 .. Len(samples)
      BY <1>3, <3>1, <3>2, <3>3, Sizes
    <3> QED BY <3>4
  <2>2. Added(j) = {<<w, samples[j + 1]>> : w \in Covering(j + 1)}
    BY <1>3 DEF Added
  <2>3. Added(j)' = {<<w, samples'[j + 1]>> : w \in Covering(j + 1)}
    BY <1>1, <1>3 DEF Added
  <2> QED BY <2>1, <2>2, <2>3
<1> QED BY <1>2, <1>3

\* One more window.
LEMMA AddedGrows ==
  ASSUME InputInv, CopyInputToFFT, EnoughInput, NEW j \in Int
  PROVE  Added(j)' = IF Start <= j /\ j < Start + FFTSize
                     THEN Added(j) \cup {<<Len(windows) + 1, samples[j + 1]>>}
                     ELSE Added(j)
<1> DEFINE k == Len(windows)
           n == j + 1
<1>1. k \in Nat /\ Start \in Nat /\ n \in Int
  BY StartIs DEF InputInv
<1>2. Len(windows') = k + 1 /\ samples' = samples
  <2>1. windows \in Seq([1 .. FFTSize -> Nat])
    BY DEF InputInv, TypeOK
  <2>2. \E w : windows' = Append(windows, w)
    BY DEF CopyInputToFFT
  <2>3. samples' = samples
    BY DEF CopyInputToFFT
  <2> QED BY <2>1, <2>2, <2>3
<1>3. WindowStart(k + 1) = Start
  BY <1>1, Sizes DEF WindowStart, Start
<1>4. Covering(n)' = {w \in 1 .. k + 1 : WindowStart(w) < n /\ n <= WindowStart(w) + FFTSize}
  BY <1>2 DEF Covering, WindowStart
<1>5. 1 .. k + 1 = (1 .. k) \cup {k + 1}
  BY <1>1
<1>6. Covering(n)' = IF Start < n /\ n <= Start + FFTSize
                     THEN Covering(n) \cup {k + 1} ELSE Covering(n)
  BY <1>3, <1>4, <1>5 DEF Covering
<1>7. Start < n /\ n <= Start + FFTSize <=> Start <= j /\ j < Start + FFTSize
  BY <1>1, Sizes
<1>8. CASE j < 0
  <2>1. ~ (Start <= j)
    BY <1>1, <1>8
  <2> QED BY <1>8, <2>1 DEF Added
<1>9. CASE ~ (j < 0)
  <2>1. /\ Added(j) = {<<w, samples[n]>> : w \in Covering(n)}
        /\ Added(j)' = {<<w, samples[n]>> : w \in Covering(n)'}
    BY <1>2, <1>9 DEF Added
  <2> QED BY <1>6, <1>7, <2>1
<1> QED BY <1>8, <1>9

\* In the beginning the ring is empty.
LEMMA OutputInit == ASSUME Init PROVE OutputInv
<1>1. /\ mOutputBuf = [p \in Ring |-> {}] /\ mOutputPos = (-FFTSize) % mIOBufSize
      /\ mOutFFTPos = 0 /\ samples = <<>> /\ windows = <<>> /\ out = <<>> /\ busy = "idle"
  BY DEF Init
<1>2. Len(out) = 0 /\ Len(samples) = 0 /\ Len(windows) = 0 /\ Start = 0 /\ Unread = -FFTSize
  BY <1>1, Sizes DEF Start, Unread
<1>3. \A j \in Int : j % mIOBufSize \in Ring
  BY Sizes, ModIs DEF Ring
<1>4. \A j \in Int : Added(j) = {}
  <2>1. \A j \in Int : Covering(j + 1) = {}
    BY <1>2 DEF Covering
  <2> QED BY <2>1 DEF Added
<1>5. \A j \in Unread .. Unread + mIOBufSize - 1 : mOutputBuf[j % mIOBufSize] = Added(j)
  <2> TAKE j \in Unread .. Unread + mIOBufSize - 1
  <2>1. j \in Int
    BY <1>2, Sizes
  <2> QED BY <1>1, <1>3, <1>4, <2>1
<1>6. mOutFFTPos = Start % mIOBufSize
  <2>1. 0 = mIOBufSize * 0 + 0 /\ 0 \in 0 .. mIOBufSize - 1
    BY Sizes
  <2>2. 0 % mIOBufSize = 0
    BY <2>1, Sizes, ModUnique
  <2> QED BY <1>1, <1>2, <2>2
<1>7. Returning
  <2>1. Len(out) = Len(samples) - 0 /\ mOutputPos = Unread % mIOBufSize
    BY <1>1, <1>2
  <2> QED BY <1>1, <1>5, <1>6, <2>1 DEF Returning
<1> QED BY <1>2, <1>7 DEF OutputInv, Returned

\* A slice put in goes behind the samples there are.
LEMMA SamplesGrow ==
  ASSUME TypeOK, NEW data \in Seq(Nat), CopyInput(data)
  PROVE  /\ Len(samples') = Len(samples) + Len(data)
         /\ \A i \in 1 .. Len(samples) : samples'[i] = samples[i]
         /\ windows' = windows
<1>1. samples \in Seq(Nat) /\ samples' = samples \o data /\ windows' = windows
  BY DEF TypeOK, CopyInput
<1>2. /\ Len(samples \o data) = Len(samples) + Len(data)
      /\ \A i \in 1 .. Len(samples) + Len(data) :
           (samples \o data)[i] = IF i <= Len(samples) THEN samples[i]
                                  ELSE data[i - Len(samples)]
  BY <1>1, ConcatProperties
<1>3. ASSUME NEW i \in 1 .. Len(samples) PROVE (samples \o data)[i] = samples[i]
  <2>1. Len(samples) \in Nat /\ Len(data) \in Nat
    BY <1>1
  <2>2. i \in 1 .. Len(samples) + Len(data) /\ i <= Len(samples)
    BY <2>1
  <2> QED BY <1>2, <2>2
<1> QED BY <1>1, <1>2, <1>3

\* It adds nothing, and what it is to return it has not returned yet.
LEMMA SliceIsUnreturned ==
  ASSUME InputInv, Returning, busy = "idle", NEW data \in Seq(Nat), CopyInput(data),
         UNCHANGED outVars, busy' = "process", slice' = Len(data), Len(data) <= MaxFrames
  PROVE  Returning'
<1>1. /\ Len(samples') = Len(samples) + Len(data)
      /\ \A i \in 1 .. Len(samples) : samples'[i] = samples[i]
      /\ windows' = windows
  BY SamplesGrow DEF InputInv
<1>2. UNCHANGED <<mOutputBuf, mOutputPos, mOutFFTPos, out>>
  BY DEF outVars
<1>3. Start' = Start /\ Unread' = Unread
  BY <1>1, <1>2 DEF Start, Unread
<1>4. Len(out') = Len(samples') - slice'
  <2>1. Len(out) = Len(samples) - 0
    BY DEF Returning
  <2>2. Len(samples) \in Nat /\ Len(data) \in Nat
    BY StartIs DEF InputInv
  <2> QED BY <1>1, <1>2, <2>1, <2>2
<1>5. ASSUME NEW j \in Unread' .. Unread' + mIOBufSize - 1
      PROVE  mOutputBuf'[j % mIOBufSize] = Added(j)'
  <2>1. j \in Unread .. Unread + mIOBufSize - 1 /\ j \in Int
    BY <1>3, UnreadIs, Sizes
  <2>2. Added(j)' = Added(j)
    BY <1>1, <2>1, AddedStays
  <2> QED BY <1>2, <2>1, <2>2 DEF Returning
<1> QED BY <1>2, <1>3, <1>4, <1>5 DEF Returning

\* What was returned stays true while samples come in.
LEMMA ReturnedStays ==
  ASSUME InputInv, Returned, windows' = windows, out' = out,
         \A i \in 1 .. Len(samples) : samples'[i] = samples[i]
  PROVE  Returned'
<1>1. ASSUME NEW i \in 1 .. Len(out) PROVE out'[i] = Added(i - 1 - FFTSize)'
  <2>1. i - 1 - FFTSize \in Int
    BY Sizes
  <2>2. Added(i - 1 - FFTSize)' = Added(i - 1 - FFTSize)
    BY <2>1, AddedStays
  <2> QED BY <2>2 DEF Returned
<1> QED BY <1>1 DEF Returned

\* The client begins a call.
LEMMA InputReturns == ASSUME InputInv, OutputInv, Input PROVE OutputInv'
<1>1. PICK n \in 1 .. MaxFrames :
        \/ Len(out) = 0 /\ ProcessForwards(Slice(n))
        \/ Len(out) = Len(samples) /\ Process(Slice(n))
  BY DEF Input
<1> DEFINE data == Slice(n)
<1>2. /\ busy = "idle" /\ CopyInput(data) /\ slice' = Len(data) /\ UNCHANGED outVars
      /\ \/ Len(out) = 0 /\ busy' = "processForwards"
         \/ Len(out) = Len(samples) /\ busy' = "process"
  BY <1>1 DEF ProcessForwards, Process, Begin
<1>3. n \in Nat /\ n >= 1 /\ n <= MaxFrames /\ TypeOK
  BY Sizes DEF InputInv
<1>4. data \in Seq(Nat) /\ Len(data) = n
  BY <1>3, SliceType
<1> HIDE DEF data
<1>5. /\ Len(samples') = Len(samples) + n
      /\ \A i \in 1 .. Len(samples) : samples'[i] = samples[i]
      /\ windows' = windows
  BY <1>2, <1>3, <1>4, SamplesGrow
<1>6. /\ out' = out /\ Len(samples) \in Nat
      /\ (Len(out) = 0 => out = <<>>) /\ (out = <<>> => Len(out) = 0)
      /\ (samples # <<>> => Len(samples) # 0)
  <2>1. out' = out /\ samples \in Seq(Nat) /\ out \in Seq(SUBSET (Nat \X Nat))
    BY <1>2, <1>3 DEF outVars, TypeOK
  <2> QED BY <2>1
<1>7. Returned'
  BY <1>5, <1>6, ReturnedStays DEF OutputInv
<1>8. CASE Len(out) = 0 /\ busy' = "processForwards"
  <2>1. Len(samples') # 0
    BY <1>3, <1>5, <1>6
  <2>2. samples' # <<>>
    BY <2>1
  <2> QED BY <1>6, <1>7, <1>8, <2>2 DEF OutputInv, Forwards
<1>9. CASE Len(out) = Len(samples) /\ busy' = "process"
  <2>1. Returning
    BY <1>6, <1>9 DEF OutputInv, Forwards
  <2>2. Returning'
    BY <1>2, <1>3, <1>4, <1>9, <2>1, SliceIsUnreturned
  <2> QED BY <1>7, <2>2 DEF OutputInv
<1> QED BY <1>2, <1>8, <1>9

\* Nothing is flushed when process: was used, ...
LEMMA FlushReturns == ASSUME InputInv, OutputInv, Flush PROVE OutputInv'
<1>1. /\ Len(out) = 0
      /\ \/ /\ mInputSize > 0
            /\ Begin("processForwards", [i \in 1 .. FFTSize - mInputSize |-> 0])
         \/ /\ mInputSize = 0 /\ busy = "idle"
            /\ UNCHANGED <<inVars, outVars, busy, slice>>
  BY DEF Flush, FlushForward
<1>2. CASE /\ mInputSize > 0
           /\ Begin("processForwards", [i \in 1 .. FFTSize - mInputSize |-> 0])
  <2> DEFINE data == [i \in 1 .. FFTSize - mInputSize |-> 0]
  <2>1. /\ busy = "idle" /\ CopyInput(data) /\ UNCHANGED outVars
        /\ busy' = "processForwards"
    BY <1>2 DEF Begin
  <2>2. mInputSize \in Nat /\ mInputSize < FFTSize
    BY <2>1, BetweenCalls
  <2>3. data \in Seq(Nat) /\ Len(data) = FFTSize - mInputSize
    BY <2>2, Sizes
  <2> HIDE DEF data
  <2>4. /\ Len(samples') = Len(samples) + Len(data)
        /\ \A i \in 1 .. Len(samples) : samples'[i] = samples[i]
        /\ windows' = windows
    BY <2>1, <2>3, SamplesGrow DEF InputInv
  <2>5. out' = out /\ out = <<>>
    BY <1>1, <2>1 DEF outVars, InputInv, TypeOK
  <2>6. Returned'
    BY <2>4, <2>5, ReturnedStays DEF OutputInv
  <2>7. samples' # <<>>
    <3>1. Len(samples) \in Nat
      BY StartIs DEF InputInv
    <3>2. Len(samples') # 0
      BY <2>2, <2>3, <2>4, <3>1, Sizes
    <3> QED BY <3>2
  <2> QED BY <2>1, <2>5, <2>6, <2>7 DEF OutputInv, Forwards
<1>3. CASE UNCHANGED <<inVars, outVars, busy, slice>>
  <2>1. /\ UNCHANGED <<mOutputBuf, mOutputPos, mOutFFTPos, out, busy, slice>>
        /\ UNCHANGED <<samples, windows>>
    BY <1>3 DEF inVars, outVars
  <2>2. Start' = Start /\ Unread' = Unread /\ (Forwards => Forwards')
    BY <2>1 DEF Start, Unread, Forwards
  <2>3. \A j : Added(j)' = Added(j)
    BY <2>1 DEF Added, Covering, WindowStart
  <2>4. Returned'
    BY <2>1, <2>3 DEF OutputInv, Returned
  <2>5. Returning => Returning'
    BY <2>1, <2>2, <2>3 DEF Returning
  <2> QED BY <2>2, <2>4, <2>5 DEF OutputInv
<1> QED BY <1>1, <1>2, <1>3

\* ... and nothing else is done.
LEMMA QuietReturns == ASSUME OutputInv, UNCHANGED ringVars PROVE OutputInv'
<1>1. UNCHANGED <<mOutputBuf, mOutputPos, mOutFFTPos, out, busy, slice, samples, windows>>
  BY DEF ringVars, inVars, outVars, callVars
<1>2. Start' = Start /\ Unread' = Unread /\ (Forwards => Forwards')
  BY <1>1 DEF Start, Unread, Forwards
<1>3. \A j : Added(j)' = Added(j)
  BY <1>1 DEF Added, Covering, WindowStart
<1>4. Returned'
  BY <1>1, <1>3 DEF OutputInv, Returned
<1>5. Returning => Returning'
  BY <1>1, <1>2, <1>3 DEF Returning
<1> QED BY <1>2, <1>4, <1>5 DEF OutputInv

\* overlapAddOutput adds the window at its own place in the ring: what was added there
\* FFTSize samples and more ago has been returned.
LEMMA WindowIsAdded ==
  ASSUME InputInv, InputInv', Returning, busy = "process", NextWindow
  PROVE  Returning'
<1> DEFINE N == mIOBufSize
           k == Len(windows)
           v == windows'[Len(windows')]
           i(p) == (p - mOutFFTPos) % N
<1>1. /\ EnoughInput /\ CopyInputToFFT /\ OverlapAddOutput
      /\ UNCHANGED <<busy, slice, flushed>> /\ samples' = samples
  BY DEF NextWindow, callVars, CopyInputToFFT
<1>2. /\ mOutputBuf' = [p \in Ring |->
           IF i(p) < FFTSize THEN mOutputBuf[p] \cup {<<Len(windows'), v[i(p) + 1]>>}
           ELSE mOutputBuf[p]]
      /\ mOutFFTPos' = (mOutFFTPos + HopSize) % N
      /\ UNCHANGED <<mOutputPos, out>>
  BY <1>1 DEF OverlapAddOutput
<1>3. /\ k \in Nat /\ Start \in Nat /\ Len(samples) \in Nat /\ Unread \in Int
      /\ Unread <= Start /\ N \in Nat \ {0}
  BY StartIs, UnreadIs, Sizes DEF InputInv
<1>4. Len(windows') = k + 1
  <2>1. windows \in Seq([1 .. FFTSize -> Nat])
    BY DEF InputInv, TypeOK
  <2>2. \E w : windows' = Append(windows, w)
    BY <1>1 DEF CopyInputToFFT
  <2> QED BY <2>1, <2>2
<1>5. Start' = Start + HopSize /\ WindowStart(k + 1) = Start
  <2>1. (k + 1) * HopSize = k * HopSize + HopSize /\ k + 1 - 1 = k
    BY <1>3, Sizes
  <2> QED BY <1>4, <2>1 DEF Start, WindowStart
<1>6. Unread' = Unread
  BY <1>2 DEF Unread
<1>7. Start + FFTSize <= Unread + N
  <2>1. mInputSize = Len(samples) - Start /\ mInputSize >= FFTSize
    BY <1>1 DEF InputInv, EnoughInput
  <2>2. Len(out) = Len(samples) - slice /\ slice <= MaxFrames
    BY DEF Returning
  <2>3. slice \in 0 .. MaxFrames + FFTSize
    BY DEF InputInv, TypeOK
  <2> QED BY <1>3, <2>1, <2>2, <2>3, Sizes DEF Unread
<1>8. \A d \in 0 .. FFTSize - 1 : v[d + 1] = samples[Start + d + 1]
  <2>1. k + 1 \in 1 .. Len(windows')
    BY <1>3, <1>4
  <2>2. (k + 1 - 1) * HopSize = Start
    BY <1>5 DEF WindowStart
  <2>3. v = SubSeq(samples, Start + 1, Start + FFTSize)
    BY <1>1, <1>4, <2>1, <2>2 DEF InputInv, WindowsOverlap, WindowStart
  <2>4. SubSeq(samples, Start + 1, Start + FFTSize) =
          [m \in 1 .. Start + FFTSize - (Start + 1) + 1 |-> samples[m + (Start + 1) - 1]]
    BY <1>3, Sizes
  <2>5. ASSUME NEW d \in 0 .. FFTSize - 1
        PROVE  /\ d + 1 \in 1 .. Start + FFTSize - (Start + 1) + 1
               /\ d + 1 + (Start + 1) - 1 = Start + d + 1
    BY <1>3, Sizes
  <2> TAKE d \in 0 .. FFTSize - 1
  <2>6. v[d + 1] = samples[d + 1 + (Start + 1) - 1]
    BY <2>3, <2>4, <2>5
  <2> QED BY <2>5, <2>6
<1> HIDE DEF v, i, N
<1>9. mOutFFTPos' = Start' % N
  <2>1. Start \in Int /\ HopSize \in Int
    BY <1>3, Sizes
  <2>2. mOutFFTPos = Start % N
    BY DEF Returning, N
  <2>3. ((Start % N) + HopSize) % N = (Start + HopSize) % N
    BY <1>3, <2>1, ModAdd, Zenon
  <2> QED BY <1>2, <1>5, <2>2, <2>3, Zenon
<1>10. ASSUME NEW j \in Unread .. Unread + N - 1
       PROVE  mOutputBuf'[j % N] = Added(j)'
  <2>1. j \in Int /\ Start \in Int
    BY <1>3
  <2>2. j % N \in Ring
    <3>1. j % N \in 0 .. N - 1
      BY <1>3, <2>1, ModIs, Zenon
    <3> QED BY <3>1 DEF Ring, N
  <2>3. mOutputBuf[j % N] = Added(j)
    BY DEF Returning, N
  <2>4. i(j % N) = ((j % N) - (Start % N)) % N
    BY DEF Returning, N, i
  <2>5. Added(j)' = IF Start <= j /\ j < Start + FFTSize
                    THEN Added(j) \cup {<<k + 1, samples[j + 1]>>} ELSE Added(j)
    BY <1>1, <2>1, AddedGrows
  <2>6. CASE j >= Start
    <3>1. PICK d \in 0 .. N - 1 : d = j - Start
      BY <1>3, <2>6
    <3>2. i(j % N) = d
      <4>1. ((j % N) - (Start % N)) % N = d
        <5>1. j - Start = d
          BY <3>1
        <5> QED BY <1>3, <2>1, <5>1, ModFrom, Zenon
      <4> QED BY <2>4, <4>1
    <3>3. CASE d < FFTSize
      <4>1. d \in 0 .. FFTSize - 1 /\ Start + d + 1 = j + 1 /\ Start <= j /\ j < Start + FFTSize
        BY <1>3, <2>6, <3>1, <3>3, Sizes
      <4>2. v[d + 1] = samples[j + 1]
        BY <1>8, <4>1
      <4>3. mOutputBuf'[j % N] = mOutputBuf[j % N] \cup {<<k + 1, v[d + 1]>>}
        BY <1>2, <1>4, <2>2, <3>2, <3>3
      <4> QED BY <2>3, <2>5, <4>1, <4>2, <4>3
    <3>4. CASE ~ (d < FFTSize)
      <4>1. ~ (j < Start + FFTSize)
        BY <1>3, <3>1, <3>4, Sizes
      <4>2. mOutputBuf'[j % N] = mOutputBuf[j % N]
        BY <1>2, <2>2, <3>2, <3>4
      <4> QED BY <2>3, <2>5, <4>1, <4>2
    <3> QED BY <3>3, <3>4
  <2>7. CASE ~ (j >= Start)
    <3>1. PICK d \in 0 .. N - 1 : d = j - Start + N
      BY <1>3, <1>7, <2>7, Sizes
    <3>2. i(j % N) = d
      <4>1. ((j % N) - (Start % N)) % N = d
        <5>1. j - Start = d - N
          BY <1>3, <2>1, <3>1
        <5> QED BY <1>3, <2>1, <5>1, ModFrom, Zenon
      <4> QED BY <2>4, <4>1
    <3>3. ~ (d < FFTSize) /\ ~ (Start <= j)
      BY <1>3, <1>7, <2>1, <2>7, <3>1, Sizes
    <3>4. mOutputBuf'[j % N] = mOutputBuf[j % N]
      BY <1>2, <2>2, <3>2, <3>3
    <3> QED BY <2>3, <2>5, <3>3, <3>4
  <2> QED BY <2>6, <2>7
<1>11. mOutputPos' = Unread' % N /\ Len(out') = Len(samples') - slice' /\ slice' <= MaxFrames
  BY <1>1, <1>2, <1>6 DEF Returning, N
<1> QED BY <1>1, <1>6, <1>9, <1>10, <1>11 DEF Returning, N

\* Windows that come later cover nothing that was returned.
LEMMA WindowAddsAfter == ASSUME InputInv, OutputInv, NextWindow PROVE Returned'
<1>1. EnoughInput /\ CopyInputToFFT /\ out' = out
  BY DEF NextWindow, OverlapAddOutput, outVars
<1>2. CASE Forwards
  <2>1. out' = <<>>
    BY <1>1, <1>2 DEF Forwards
  <2> QED BY <2>1 DEF Returned
<1>3. CASE Returning
  <2>1. Unread \in Int /\ Unread <= Start /\ Start \in Nat /\ Len(out) \in Nat
    BY <1>3, UnreadIs, StartIs DEF InputInv
  <2>2. ASSUME NEW i \in 1 .. Len(out) PROVE out'[i] = Added(i - 1 - FFTSize)'
    <3>1. i - 1 - FFTSize \in Int /\ ~ (Start <= i - 1 - FFTSize)
      BY <2>1, Sizes DEF Unread
    <3>2. Added(i - 1 - FFTSize)' = Added(i - 1 - FFTSize)
      BY <1>1, <3>1, AddedGrows
    <3> QED BY <1>1, <3>2 DEF OutputInv, Returned
  <2> QED BY <1>1, <2>2 DEF Returned
<1> QED BY <1>2, <1>3 DEF OutputInv

\* A window is made.
LEMMA WindowReturns == ASSUME InputInv, InputInv', OutputInv, NextWindow PROVE OutputInv'
<1>1. Returned'
  BY WindowAddsAfter
<1>2. CASE Forwards
  <2>1. UNCHANGED <<out, busy, samples>>
    BY <1>2 DEF NextWindow, Forwards, outVars, callVars, CopyInputToFFT
  <2> QED BY <1>1, <1>2, <2>1 DEF OutputInv, Forwards
<1>3. CASE Returning
  <2>1. busy = "process"
    BY <1>3 DEF NextWindow, Returning, InputInv, TypeOK
  <2> QED BY <1>1, <1>3, <2>1, WindowIsAdded DEF OutputInv
<1> QED BY <1>2, <1>3 DEF OutputInv

\* copyOutput reads the cells from mOutputPos on, and the turn of the ring that begins
\* there finds them empty.
LEMMA OutputIsReturned ==
  ASSUME InputInv, Returning, Returned, busy = "process", Return
  PROVE  Returning' /\ Returned'
<1> DEFINE N == mIOBufSize
           m == Len(out)
           n == slice
           u == Unread
<1>1. /\ ~EnoughInput /\ CopyOutput(slice) /\ busy' = "idle"
      /\ UNCHANGED <<mInputSize, samples, windows, slice>>
  BY DEF Return, inVars
<1>2. slice \in Nat /\ slice <= MaxFrames /\ n < N
  <2>1. slice \in 0 .. MaxFrames + FFTSize
    BY DEF InputInv, TypeOK
  <2> QED BY <2>1, Sizes DEF Returning
<1>3. /\ Len(out') = m + n
      /\ \A i \in 1 .. m : out'[i] = out[i]
      /\ \A i \in 1 .. n : out'[m + i] = mOutputBuf[(mOutputPos + i - 1) % N]
  BY <1>1, <1>2, CopyOutputTypes DEF InputInv
<1>4. /\ mOutputBuf' = [p \in Ring |->
           IF (p - mOutputPos) % N < n THEN {} ELSE mOutputBuf[p]]
      /\ mOutputPos' = (mOutputPos + n) % N /\ mOutFFTPos' = mOutFFTPos
  BY <1>1 DEF CopyOutput
<1>5. /\ m \in Nat /\ Start \in Nat /\ Len(samples) \in Nat /\ Len(windows) \in Nat
      /\ u \in Int /\ N \in Nat \ {0} /\ m = Len(samples) - n /\ u = m - FFTSize
  BY StartIs, UnreadIs, Sizes DEF InputInv, Returning, Unread
<1>6. mOutputPos = u % N
  BY DEF Returning
<1>7. Start' = Start /\ Unread' = u + n
  <2>1. Unread' = Len(out') - FFTSize
    BY DEF Unread
  <2> QED BY <1>1, <1>2, <1>3, <1>5, <2>1, Sizes DEF Start
<1>8. \A j : Added(j)' = Added(j)
  BY <1>1 DEF Added, Covering, WindowStart
<1>9. \A j \in u .. u + N - 1 : mOutputBuf[j % N] = Added(j)
  BY DEF Returning
<1>10. \A j \in Int : j % N \in Ring
  <2>1. \A j \in Int : j % N \in 0 .. N - 1
    BY <1>5, ModIs
  <2> QED BY <2>1 DEF Ring
<1>11. mOutputPos \in Int
  BY Sizes DEF InputInv, TypeOK, Ring
<1> HIDE DEF N, m, n
<1>12. ASSUME NEW j \in Int, j >= u + N PROVE Added(j) = {}
  <2>1. ASSUME NEW w \in Covering(j + 1) PROVE FALSE
    <3>1. w \in 1 .. Len(windows) /\ j + 1 <= WindowStart(w) + FFTSize
      BY DEF Covering
    <3>2. WindowStart(w) \in Nat /\ WindowStart(w) + FFTSize <= Len(samples)
      BY <3>1, WindowAt
    <3>3. u + N >= Len(samples)
      BY <1>2, <1>5, Sizes DEF N, n
    <3> QED BY <1>5, <1>12, <3>1, <3>2, <3>3, Sizes
  <2> QED BY <2>1 DEF Added
<1>13. ASSUME NEW j \in u + n .. u + n + N - 1 PROVE mOutputBuf'[j % N] = Added(j)
  <2>1. j \in Int /\ n \in Nat /\ n < N
    BY <1>2, <1>5 DEF n
  <2>5. u \in Int /\ N \in Nat \ {0} /\ j \in Int
    BY <1>5, <2>1
  <2>2. j % N \in Ring
    BY <1>10, <2>1
  <2>3. CASE j < u + N
    <3>1. PICK d \in 0 .. N - 1 : d = j - u
      BY <1>5, <2>1, <2>3
    <3>2. ((j % N) - (u % N)) % N = d
      <4>1. j - u = d
        BY <3>1
      <4> QED BY <2>5, <4>1, ModFrom, Zenon
    <3>3. ~ (d < n) /\ j \in u .. u + N - 1
      BY <1>5, <2>1, <2>3, <3>1
    <3>4. mOutputBuf'[j % N] = mOutputBuf[j % N]
      BY <1>4, <1>6, <2>2, <3>2, <3>3
    <3> QED BY <1>9, <3>3, <3>4
  <2>4. CASE ~ (j < u + N)
    <3>1. PICK d \in 0 .. N - 1 : d = j - u - N
      BY <1>5, <2>1, <2>4
    <3>2. ((j % N) - (u % N)) % N = d
      <4>1. j - u = d + N
        BY <1>5, <2>1, <3>1
      <4> QED BY <2>5, <4>1, ModFrom, Zenon
    <3>3. d < n /\ j >= u + N
      <4>1. j <= u + n + N - 1
        OBVIOUS
      <4> QED BY <2>1, <2>4, <2>5, <3>1, <4>1
    <3>4. mOutputBuf'[j % N] = {}
      BY <1>4, <1>6, <2>2, <3>2, <3>3
    <3> QED BY <1>12, <2>1, <3>3, <3>4
  <2> QED BY <2>3, <2>4
<1>14. mOutputPos' = (u + n) % N
  <2>1. n \in Int
    BY <1>2 DEF n
  <2>2. ((u % N) + n) % N = (u + n) % N
    BY <1>5, <2>1, ModAdd, Zenon
  <2> QED BY <1>4, <1>6, <2>2, Zenon
<1>15. ASSUME NEW i \in 1 .. n PROVE out'[m + i] = Added(u + (i - 1))
  <2>1. i - 1 \in Int /\ u \in Int /\ u + (i - 1) \in u .. u + N - 1
    BY <1>2, <1>5 DEF n
  <2>2. ((u % N) + (i - 1)) % N = (u + (i - 1)) % N
    BY <1>5, <2>1, ModAdd, Zenon
  <2>3. mOutputPos + i - 1 = mOutputPos + (i - 1)
    BY <1>2, <1>11 DEF n
  <2>4. out'[m + i] = mOutputBuf[(u + (i - 1)) % N]
    BY <1>3, <1>6, <2>2, <2>3
  <2> QED BY <1>9, <2>1, <2>4
<1>16. ASSUME NEW i \in 1 .. Len(out') PROVE out'[i] = Added(i - 1 - FFTSize)
  <2>1. i \in 1 .. m + n /\ n \in Nat
    BY <1>2, <1>3 DEF n
  <2>2. CASE i <= m
    <3>1. i \in 1 .. Len(out)
      BY <1>5, <2>1, <2>2 DEF m
    <3>2. out'[i] = out[i]
      BY <1>3, <3>1 DEF m
    <3> QED BY <3>1, <3>2 DEF Returned
  <2>3. CASE ~ (i <= m)
    <3>1. PICK q \in 1 .. n : i = m + q
      BY <1>5, <2>1, <2>3
    <3>2. u + (q - 1) = i - 1 - FFTSize
      BY <1>5, <2>1, <3>1, Sizes
    <3> QED BY <1>15, <3>1, <3>2
  <2> QED BY <2>2, <2>3
<1>17. Returned'
  BY <1>8, <1>16 DEF Returned
<1>18. mOutFFTPos' = Start' % N
  BY <1>4, <1>7 DEF Returning, N
<1>19. Len(out') = Len(samples') - 0
  BY <1>1, <1>2, <1>3, <1>5 DEF n
<1>20. \A j \in Unread' .. Unread' + N - 1 : mOutputBuf'[j % N] = Added(j)'
  BY <1>7, <1>8, <1>13
<1> QED BY <1>1, <1>7, <1>14, <1>17, <1>18, <1>19, <1>20 DEF Returning, N

\* A call returns.
LEMMA ReturnReturns == ASSUME InputInv, OutputInv, Return PROVE OutputInv'
<1>1. CASE Forwards
  <2>1. UNCHANGED <<out, samples, windows>> /\ busy' = "idle"
    BY <1>1 DEF Return, Forwards, outVars, inVars
  <2>2. Forwards' /\ out' = <<>>
    BY <1>1, <2>1 DEF Forwards
  <2> QED BY <2>2 DEF OutputInv, Returned
<1>2. CASE Returning
  <2>1. busy = "process"
    BY <1>2 DEF Return, Returning, InputInv, TypeOK
  <2> QED BY <1>2, <2>1, OutputIsReturned DEF OutputInv
<1> QED BY <1>1, <1>2 DEF OutputInv

\* process: returns the samples it was given FFTSize samples later, each with its share of
\* every window that covers it and of no other: a window is added neither to a cell that
\* was read before nor to what an earlier turn of the ring has left there.
THEOREM SharesAreAdded == Spec => []OverlapAdded
<1>1. Init => OutputInv
  BY OutputInit
<1>2. InputInv /\ InputInv' /\ OutputInv /\ [Next]_ringVars => OutputInv'
  BY InputReturns, FlushReturns, WindowReturns, ReturnReturns, QuietReturns DEF Next
<1>3. InputInv /\ OutputInv => OverlapAdded
  BY ReturnedIsAdded DEF InputInv, OutputInv
<1> QED BY <1>1, <1>2, <1>3, InputInvHolds, PTL DEF Spec
=============================================================================
