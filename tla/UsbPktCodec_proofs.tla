-------------------------- MODULE UsbPktCodec_proofs --------------------------
(***************************************************************************)
(* What the generator of a packet puts on the line, the decoder takes off  *)
(* it again: the line code for bits of any number and content, and the     *)
(* fields of every kind of packet.                                         *)
(*                                                                         *)
(* The recursive functions of the codec are reasoned about by induction,   *)
(* which is here the principle that a set of numbers has a least element:  *)
(* it speaks of sets, where an induction scheme speaks of predicates.      *)
(***************************************************************************)
EXTENDS UsbPktCodec, WellFoundedInduction, TLAPS

-----------------------------------------------------------------------------
(***************************************************************************)
(* Induction and recursion.                                                *)
(***************************************************************************)
LessThan == OpToRel(<, Nat)

LEMMA LessThanIsLess == \A i, j \in Nat : <<i, j>> \in LessThan <=> i < j
BY DEF LessThan, OpToRel

LEMMA LessThanWellFounded == IsWellFoundedOn(LessThan, Nat)
BY NatLessThanWellFounded, Zenon DEF LessThan

LEMMA LeastNumber ==
    ASSUME NEW T, T \subseteq Nat, T # {}
    PROVE  \E x \in T : \A y \in T : x <= y
<1>1. \E x \in T : \A y \in T : ~(<<y, x>> \in LessThan)
  BY LessThanWellFounded, WFMin, Zenon
<1>2. PICK x \in T : \A y \in T : ~(<<y, x>> \in LessThan)
  BY <1>1
<1>3. ASSUME NEW y \in T PROVE x <= y
  <2>1. ~(y < x)
    BY <1>2, LessThanIsLess
  <2> QED BY <2>1
<1> QED BY <1>3

\* Induction up to n, over the set of the numbers at which the claim holds.
LEMMA UpTo ==
    ASSUME NEW n \in Nat, NEW good, 0 \in good,
           \A i \in 0..n - 1 : i \in good => i + 1 \in good
    PROVE  0..n \subseteq good
<1> DEFINE bad == (0..n) \ good
<1>1. ASSUME bad # {} PROVE FALSE
  <2>1. bad \subseteq Nat
    OBVIOUS
  <2>2. PICK x \in bad : \A y \in bad : x <= y
    BY <1>1, <2>1, LeastNumber
  <2>3. x # 0 /\ x \in 0..n /\ x - 1 \in 0..n - 1
    BY <2>2
  <2>4. x - 1 \notin bad
    BY <2>2, <2>3
  <2> QED BY <2>2, <2>3, <2>4
<1> QED BY <1>1

\* f is defined along 0..n: it begins with "start", and "step" takes it from one
\* number to the next.
Recursive(f, n, start, step) ==
    f = [i \in 0..n |-> IF i = 0 THEN start ELSE step[<<i, f[i - 1]>>]]

LEMMA RecursiveExists ==
    ASSUME NEW n \in Nat, NEW start, NEW step
    PROVE  \E f : Recursive(f, n, start, step)
<1> DEFINE good == {m \in 0..n : \E f : Recursive(f, m, start, step)}
<1>1. 0 \in good
  <2>1. Recursive([i \in 0..0 |-> start], 0, start, step)
    BY DEF Recursive
  <2> QED BY <2>1
<1>2. ASSUME NEW m \in 0..n - 1, m \in good PROVE m + 1 \in good
  <2>1. PICK f : Recursive(f, m, start, step)
    BY <1>2
  <2> DEFINE g == [i \in 0..m + 1 |-> IF i = m + 1 THEN step[<<i, f[m]>>] ELSE f[i]]
  <2>2. ASSUME NEW i \in 0..m + 1
        PROVE  g[i] = IF i = 0 THEN start ELSE step[<<i, g[i - 1]>>]
    <3>1. CASE i = m + 1
      <4>1. i - 1 = m /\ i # 0 /\ m \in 0..m + 1 /\ m # m + 1
        BY <3>1
      <4>2. g[m] = f[m]
        BY <4>1
      <4>3. g[i] = step[<<i, f[m]>>]
        BY <3>1
      <4> QED BY <4>1, <4>2, <4>3
    <3>2. CASE i # m + 1 /\ i # 0
      <4>1. i \in 0..m /\ i - 1 \in 0..m + 1 /\ i - 1 # m + 1
        BY <3>2
      <4>2. g[i] = f[i] /\ g[i - 1] = f[i - 1]
        BY <3>2, <4>1
      <4> QED BY <2>1, <3>2, <4>1, <4>2 DEF Recursive
    <3>3. CASE i = 0
      BY <2>1, <3>3 DEF Recursive
    <3> QED BY <3>1, <3>2, <3>3
  <2>3. Recursive(g, m + 1, start, step)
    <3> DEFINE h == [i \in 0..m + 1 |-> IF i = 0 THEN start ELSE step[<<i, g[i - 1]>>]]
    <3>1. \A i \in 0..m + 1 : g[i] = h[i]
      BY <2>2
    <3>2. g = h
      BY <3>1
    <3> QED BY <3>2 DEF Recursive
  <2> QED BY <1>2, <2>3
<1> HIDE DEF good
<1>3. 0..n \subseteq good
  BY <1>1, <1>2, UpTo
<1> QED BY <1>3 DEF good

\* Values stay in S that no step leaves.
LEMMA StaysIn ==
    ASSUME NEW n \in Nat, NEW S, NEW f, f[0] \in S,
           \A i \in 1..n : f[i - 1] \in S => f[i] \in S
    PROVE  \A i \in 0..n : f[i] \in S
<1> DEFINE good == {m \in 0..n : f[m] \in S}
<1>1. 0 \in good
  OBVIOUS
<1>2. ASSUME NEW m \in 0..n - 1, m \in good PROVE m + 1 \in good
  <2>1. m + 1 \in 1..n /\ (m + 1) - 1 = m
    OBVIOUS
  <2>2. f[m] \in S => f[m + 1] \in S
    BY <2>1
  <2> QED BY <1>2, <2>1, <2>2
<1> HIDE DEF good
<1>3. 0..n \subseteq good
  BY <1>1, <1>2, UpTo
<1> QED BY <1>3 DEF good

Closed(n, S, step) == \A i \in 1..n, s \in S : step[<<i, s>>] \in S

Along(f, n, S, start, step) ==
    /\ f \in [0..n -> S] /\ f[0] = start
    /\ \A i \in 1..n : f[i] = step[<<i, f[i - 1]>>]

LEMMA RecursiveFunction ==
    ASSUME NEW n \in Nat, NEW S, NEW start \in S, NEW step, Closed(n, S, step)
    PROVE  \E f : Along(f, n, S, start, step)
<1>1. PICK f : Recursive(f, n, start, step)
  BY RecursiveExists
<1>2. f[0] = start /\ \A i \in 1..n : f[i] = step[<<i, f[i - 1]>>]
  BY <1>1 DEF Recursive
<1>3. \A i \in 1..n : f[i - 1] \in S => f[i] \in S
  BY <1>2 DEF Closed
<1>4. \A i \in 0..n : f[i] \in S
  BY <1>2, <1>3, StaysIn
<1>5. f \in [0..n -> S]
  BY <1>1, <1>4 DEF Recursive
<1> QED BY <1>2, <1>5 DEF Along

-----------------------------------------------------------------------------
(***************************************************************************)
(* The encoder.                                                            *)
(***************************************************************************)
Levels   == {"J", "K"}
Encoders == [level : Levels, ones : 0..MAXONESLENGTH - 1, line : Seq(Levels)]

LEMMA FlipLevel == ASSUME NEW l \in Levels PROVE Flip(l) \in Levels /\ Flip(l) # l
BY DEF Flip, Levels

\* What a bit adds to the line.
LEMMA EncodeZero ==
    ASSUME NEW e
    PROVE  EncodeBit(e, 0) = [level |-> Flip(e.level), ones |-> 0,
                              line |-> Append(e.line, Flip(e.level))]
BY DEF EncodeBit, MAXONESLENGTH

LEMMA EncodeOne ==
    ASSUME NEW e \in Encoders, NEW b, b # 0, e.ones + 1 # MAXONESLENGTH
    PROVE  EncodeBit(e, b) = [level |-> e.level, ones |-> e.ones + 1,
                              line |-> Append(e.line, e.level)]
BY DEF EncodeBit

LEMMA EncodeSixth ==
    ASSUME NEW e \in Encoders, NEW b, b # 0, e.ones + 1 = MAXONESLENGTH
    PROVE  EncodeBit(e, b) = [level |-> Flip(e.level), ones |-> 0,
                              line |-> Append(Append(e.line, e.level), Flip(e.level))]
BY DEF EncodeBit

LEMMA EncodeTyped == ASSUME NEW e \in Encoders, NEW b PROVE EncodeBit(e, b) \in Encoders
<1>1. /\ e.level \in Levels /\ Flip(e.level) \in Levels
      /\ e.ones \in 0..5 /\ e.line \in Seq(Levels)
  BY FlipLevel DEF Encoders, MAXONESLENGTH
<1>2. CASE b = 0
  <2>1. EncodeBit(e, b) = [level |-> Flip(e.level), ones |-> 0,
                           line |-> Append(e.line, Flip(e.level))]
    BY <1>2, EncodeZero
  <2> QED BY <1>1, <2>1 DEF Encoders, MAXONESLENGTH
<1>3. CASE b # 0 /\ e.ones + 1 # MAXONESLENGTH
  BY <1>1, <1>3, EncodeOne DEF Encoders, MAXONESLENGTH
<1>4. CASE b # 0 /\ e.ones + 1 = MAXONESLENGTH
  <2>1. EncodeBit(e, b) = [level |-> Flip(e.level), ones |-> 0,
                           line |-> Append(Append(e.line, e.level), Flip(e.level))]
    BY <1>4, EncodeSixth
  <2>2. Append(e.line, e.level) \in Seq(Levels)
    BY <1>1
  <2>3. Append(Append(e.line, e.level), Flip(e.level)) \in Seq(Levels)
    BY <1>1, <2>2
  <2> QED BY <1>1, <2>1, <2>3 DEF Encoders, MAXONESLENGTH
<1> QED BY <1>2, <1>3, <1>4

LEMMA EncStartTyped == EncStart \in Encoders
BY DEF EncStart, Encoders, Levels, MAXONESLENGTH

\* The encoder after each bit of a packet.
Encoding(bits, enc) ==
    /\ enc \in [0..Len(bits) -> Encoders] /\ enc[0] = EncStart
    /\ \A n \in 1..Len(bits) : enc[n] = EncodeBit(enc[n - 1], bits[n])

LEMMA EncodingExists ==
    ASSUME NEW bits, Len(bits) \in Nat
    PROVE  \E enc : Encoding(bits, enc) /\ nrziEnc(bits) = enc[Len(bits)].line \o EOP
<1> DEFINE N == Len(bits)
           body(f) == [n \in 0..N |-> IF n = 0 THEN EncStart ELSE EncodeBit(f[n - 1], bits[n])]
           step == [s \in (1..N) \X Encoders |-> EncodeBit(s[2], bits[s[1]])]
           enc[n \in 0..N] == IF n = 0 THEN EncStart ELSE EncodeBit(enc[n - 1], bits[n])
<1>1. nrziEnc(bits) = enc[N].line \o EOP /\ N \in Nat
  BY DEF nrziEnc
<1>2. \E f : f = body(f)
  <2>1. \A i \in 1..N, e \in Encoders : step[<<i, e>>] = EncodeBit(e, bits[i])
    OBVIOUS
  <2>2. Closed(N, Encoders, step)
    BY <2>1, EncodeTyped DEF Closed
  <2> HIDE DEF step, enc, N
  <2>3. PICK f : Along(f, N, Encoders, EncStart, step)
    BY <1>1, <2>2, EncStartTyped, RecursiveFunction
  <2>4. ASSUME NEW i \in 1..N PROVE f[i] = EncodeBit(f[i - 1], bits[i])
    <3>1. f[i - 1] \in Encoders /\ f[i] = step[<<i, f[i - 1]>>]
      BY <1>1, <2>3 DEF Along
    <3> QED BY <2>1, <3>1
  <2>5. \A i \in 0..N : f[i] = body(f)[i]
    BY <2>3, <2>4 DEF Along
  <2>6. f = body(f)
    BY <2>3, <2>5 DEF Along
  <2> QED BY <2>6
<1>3. enc = body(enc)
  BY <1>2
<1> HIDE DEF enc
<1>4. enc[0] = EncStart /\ \A n \in 1..N : enc[n] = EncodeBit(enc[n - 1], bits[n])
  BY <1>3
<1>5. \A i \in 0..N : enc[i] \in Encoders
  <2>1. \A i \in 1..N : enc[i - 1] \in Encoders => enc[i] \in Encoders
    BY <1>4, EncodeTyped
  <2> QED BY <1>4, <2>1, EncStartTyped, StaysIn
<1>6. enc \in [0..N -> Encoders]
  BY <1>3, <1>5
<1>7. Encoding(bits, enc)
  BY <1>4, <1>6 DEF Encoding
<1> QED BY <1>1, <1>7

-----------------------------------------------------------------------------
(***************************************************************************)
(* The decoder within a packet.                                            *)
(***************************************************************************)
Reading == [last : Levels, ones : Nat, bits : Seq(0..1), se0 : {0}, status : {"more"}]

LEMMA DecStartTyped == DecStart \in Reading
BY DEF DecStart, Reading, Levels

LEMMA DecodeInPacket ==
    ASSUME NEW d \in Reading, NEW l \in Levels
    PROVE  DecodeSample(d, l) = DecodeLevel(d, l) /\ DecodeSample(d, l) \in Reading
<1>1. DecodeSample(d, l) = DecodeLevel(d, l)
  BY DEF DecodeSample, Wrong, Reading, Levels
<1>2. DecodeLevel(d, l) \in Reading
  BY DEF DecodeLevel, Reading
<1> QED BY <1>1, <1>2

LEMMA DecodeSame ==
    ASSUME NEW d \in Reading, d.ones < MAXONESLENGTH
    PROVE  DecodeSample(d, d.last) = [last |-> d.last, ones |-> d.ones + 1,
                                      bits |-> Append(d.bits, 1), se0 |-> 0,
                                      status |-> "more"]
<1>1. d.last \in Levels
  BY DEF Reading
<1> QED BY <1>1, DecodeInPacket DEF DecodeLevel

LEMMA DecodeChange ==
    ASSUME NEW d \in Reading
    PROVE  DecodeSample(d, Flip(d.last)) =
             [last |-> Flip(d.last), ones |-> 0,
              bits |-> IF d.ones < MAXONESLENGTH THEN Append(d.bits, 0) ELSE d.bits,
              se0 |-> 0, status |-> "more"]
<1>1. d.last \in Levels /\ Flip(d.last) \in Levels /\ Flip(d.last) # d.last
  BY FlipLevel DEF Reading
<1>2. DecodeSample(d, Flip(d.last)) = DecodeLevel(d, Flip(d.last))
  BY <1>1, DecodeInPacket
<1> QED BY <1>1, <1>2 DEF DecodeLevel

\* The decoder after each level of a packet.
Decoding(line, dec) ==
    /\ dec \in [0..Len(line) -> Reading] /\ dec[0] = DecStart
    /\ \A n \in 1..Len(line) : dec[n] = DecodeSample(dec[n - 1], line[n])

LEMMA DecodingExists ==
    ASSUME NEW line \in Seq(Levels)
    PROVE  \E dec : Decoding(line, dec)
<1> DEFINE N == Len(line)
           step == [s \in (1..N) \X Reading |-> DecodeSample(s[2], line[s[1]])]
<1>1. \A i \in 1..N, d \in Reading : step[<<i, d>>] = DecodeSample(d, line[i])
  OBVIOUS
<1>2. \A i \in 1..N : line[i] \in Levels
  OBVIOUS
<1>3. Closed(N, Reading, step)
  BY <1>1, <1>2, DecodeInPacket DEF Closed
<1>4. N \in Nat
  OBVIOUS
<1> HIDE DEF step
<1>5. PICK dec : Along(dec, N, Reading, DecStart, step)
  BY <1>3, <1>4, DecStartTyped, RecursiveFunction
<1>6. ASSUME NEW i \in 1..N PROVE dec[i] = DecodeSample(dec[i - 1], line[i])
  <2>1. dec[i - 1] \in Reading /\ dec[i] = step[<<i, dec[i - 1]>>]
    BY <1>4, <1>5 DEF Along
  <2> QED BY <1>1, <2>1
<1> QED BY <1>5, <1>6 DEF Along, Decoding

\* Without its last level.
LEMMA DecodingShorter ==
    ASSUME NEW line \in Seq(Levels), NEW l \in Levels, NEW dec,
           Decoding(Append(line, l), dec)
    PROVE  /\ \E shorter : /\ Decoding(line, shorter)
                           /\ shorter[Len(line)] = dec[Len(line)]
           /\ dec[Len(line)] \in Reading
           /\ dec[Len(Append(line, l))] = DecodeSample(dec[Len(line)], l)
<1> DEFINE N == Len(line)
           longer == Append(line, l)
           shorter == [i \in 0..N |-> dec[i]]
<1>1. N \in Nat /\ Len(longer) = N + 1 /\ longer[N + 1] = l
  OBVIOUS
<1>2. \A i \in 1..N : longer[i] = line[i]
  OBVIOUS
<1> HIDE DEF N, longer
<1>3. /\ dec \in [0..N + 1 -> Reading] /\ dec[0] = DecStart
      /\ \A n \in 1..N + 1 : dec[n] = DecodeSample(dec[n - 1], longer[n])
  BY <1>1 DEF Decoding, longer
<1>4. shorter \in [0..N -> Reading] /\ shorter[0] = DecStart /\ shorter[N] = dec[N]
  BY <1>1, <1>3
<1>5. ASSUME NEW n \in 1..N PROVE shorter[n] = DecodeSample(shorter[n - 1], line[n])
  <2>1. n \in 1..N + 1 /\ n \in 0..N /\ n - 1 \in 0..N
    BY <1>1
  <2> QED BY <1>2, <1>3, <2>1
<1>6. Decoding(line, shorter)
  BY <1>4, <1>5 DEF Decoding, N
<1>7. dec[N] \in Reading /\ dec[N + 1] = DecodeSample(dec[N], l)
  <2>1. N + 1 \in 1..N + 1 /\ (N + 1) - 1 = N /\ N \in 0..N + 1
    BY <1>1
  <2> QED BY <1>1, <1>3, <2>1
<1> HIDE DEF shorter
<1> QED BY <1>1, <1>4, <1>6, <1>7 DEF N, longer

-----------------------------------------------------------------------------
(***************************************************************************)
(* Encoder and decoder agree after every bit: on the level, on the count   *)
(* of ones and on the bits so far.  A stuffed bit is found again.          *)
(***************************************************************************)
Agree(e, bits) ==
    \A dec : Decoding(e.line, dec) =>
        LET d == dec[Len(e.line)]
        IN  d \in Reading /\ d.last = e.level /\ d.ones = e.ones /\ d.bits = bits

LEMMA AgreeAtStart == Agree(EncStart, <<>>)
BY DEF Agree, EncStart, Decoding, DecStart, Reading, Levels

\* One more level keeps what follows from the decoder's step.
LEMMA AgreeLonger ==
    ASSUME NEW e \in Encoders, NEW bits \in Seq(0..1), Agree(e, bits), NEW l \in Levels,
           NEW dec, Decoding(Append(e.line, l), dec)
    PROVE  \E d \in Reading : /\ d.last = e.level /\ d.ones = e.ones /\ d.bits = bits
                              /\ dec[Len(Append(e.line, l))] = DecodeSample(d, l)
<1>1. e.line \in Seq(Levels)
  BY DEF Encoders
<1>2. PICK shorter : Decoding(e.line, shorter) /\ shorter[Len(e.line)] = dec[Len(e.line)]
  BY <1>1, DecodingShorter
<1>3. dec[Len(Append(e.line, l))] = DecodeSample(dec[Len(e.line)], l)
  BY <1>1, DecodingShorter
<1> QED BY <1>2, <1>3 DEF Agree

LEMMA AgreeZero ==
    ASSUME NEW e \in Encoders, NEW bits \in Seq(0..1), Agree(e, bits)
    PROVE  Agree(EncodeBit(e, 0), Append(bits, 0))
<1> DEFINE f == EncodeBit(e, 0)
<1>1. f = [level |-> Flip(e.level), ones |-> 0, line |-> Append(e.line, Flip(e.level))]
  BY EncodeZero
<1>2. e.level \in Levels /\ Flip(e.level) \in Levels /\ e.ones < MAXONESLENGTH
  BY FlipLevel DEF Encoders, MAXONESLENGTH
<1> HIDE DEF f
<1>3. ASSUME NEW dec, Decoding(f.line, dec)
      PROVE  /\ dec[Len(f.line)] \in Reading /\ dec[Len(f.line)].last = f.level
             /\ dec[Len(f.line)].ones = f.ones /\ dec[Len(f.line)].bits = Append(bits, 0)
  <2>1. PICK d \in Reading : /\ d.last = e.level /\ d.ones = e.ones /\ d.bits = bits
                             /\ dec[Len(f.line)] = DecodeSample(d, Flip(e.level))
    BY <1>1, <1>2, <1>3, AgreeLonger
  <2>2. dec[Len(f.line)] \in Reading
    BY <1>2, <2>1, DecodeInPacket
  <2>3. DecodeSample(d, Flip(d.last)) =
            [last |-> Flip(d.last), ones |-> 0, bits |-> Append(d.bits, 0),
             se0 |-> 0, status |-> "more"]
    BY <1>2, <2>1, DecodeChange
  <2> QED BY <1>1, <2>1, <2>2, <2>3
<1> QED BY <1>3 DEF Agree, f

LEMMA AgreeOne ==
    ASSUME NEW e \in Encoders, NEW bits \in Seq(0..1), Agree(e, bits),
           e.ones + 1 # MAXONESLENGTH
    PROVE  Agree(EncodeBit(e, 1), Append(bits, 1))
<1> DEFINE f == EncodeBit(e, 1)
<1>1. f = [level |-> e.level, ones |-> e.ones + 1, line |-> Append(e.line, e.level)]
  BY EncodeOne
<1>2. e.level \in Levels /\ e.ones < MAXONESLENGTH
  BY DEF Encoders, MAXONESLENGTH
<1> HIDE DEF f
<1>3. ASSUME NEW dec, Decoding(f.line, dec)
      PROVE  /\ dec[Len(f.line)] \in Reading /\ dec[Len(f.line)].last = f.level
             /\ dec[Len(f.line)].ones = f.ones /\ dec[Len(f.line)].bits = Append(bits, 1)
  <2>1. PICK d \in Reading : /\ d.last = e.level /\ d.ones = e.ones /\ d.bits = bits
                             /\ dec[Len(f.line)] = DecodeSample(d, e.level)
    BY <1>1, <1>2, <1>3, AgreeLonger
  <2>2. dec[Len(f.line)] \in Reading
    BY <1>2, <2>1, DecodeInPacket
  <2>3. DecodeSample(d, d.last) =
            [last |-> d.last, ones |-> d.ones + 1, bits |-> Append(d.bits, 1),
             se0 |-> 0, status |-> "more"]
    BY <1>2, <2>1, DecodeSame
  <2> QED BY <1>1, <2>1, <2>2, <2>3
<1> QED BY <1>3 DEF Agree, f

\* The sixth 1 is sent, and the bit stuffed behind it is dropped.
LEMMA AgreeSixth ==
    ASSUME NEW e \in Encoders, NEW bits \in Seq(0..1), Agree(e, bits),
           e.ones + 1 = MAXONESLENGTH
    PROVE  Agree(EncodeBit(e, 1), Append(bits, 1))
<1> DEFINE f == EncodeBit(e, 1)
           g == [level |-> e.level, ones |-> 6, line |-> Append(e.line, e.level)]
<1>1. f = [level |-> Flip(e.level), ones |-> 0, line |-> Append(g.line, Flip(e.level))]
  BY EncodeSixth
<1>2. /\ e.level \in Levels /\ Flip(e.level) \in Levels /\ e.ones < MAXONESLENGTH
      /\ e.line \in Seq(Levels) /\ e.ones = 5
  BY FlipLevel DEF Encoders, MAXONESLENGTH
<1>3. g.line \in Seq(Levels) /\ g.line = Append(e.line, e.level)
  BY <1>2
<1> HIDE DEF f, g
<1>4. ASSUME NEW dec, Decoding(f.line, dec)
      PROVE  /\ dec[Len(f.line)] \in Reading /\ dec[Len(f.line)].last = f.level
             /\ dec[Len(f.line)].ones = f.ones /\ dec[Len(f.line)].bits = Append(bits, 1)
  <2>1. Decoding(Append(g.line, Flip(e.level)), dec)
    BY <1>1, <1>4
  <2>2. PICK shorter : Decoding(g.line, shorter) /\ shorter[Len(g.line)] = dec[Len(g.line)]
    BY <1>2, <1>3, <2>1, DecodingShorter
  <2>3. dec[Len(f.line)] = DecodeSample(dec[Len(g.line)], Flip(e.level))
    <3>1. f.line = Append(g.line, Flip(e.level))
      BY <1>1
    <3> DEFINE l == Flip(e.level)
               line == g.line
    <3>2. l \in Levels /\ line \in Seq(Levels) /\ Decoding(Append(line, l), dec)
      BY <1>2, <1>3, <2>1
    <3> HIDE DEF l, line
    <3>3. dec[Len(Append(line, l))] = DecodeSample(dec[Len(line)], l)
      BY <3>2, DecodingShorter
    <3> QED BY <3>1, <3>3 DEF l, line
  <2>4. PICK d \in Reading : /\ d.last = e.level /\ d.ones = e.ones /\ d.bits = bits
                             /\ shorter[Len(g.line)] = DecodeSample(d, e.level)
    BY <1>2, <1>3, <2>2, AgreeLonger
  <2> DEFINE d6 == DecodeSample(d, d.last)
  <2>5. d6 = [last |-> d.last, ones |-> d.ones + 1, bits |-> Append(d.bits, 1),
              se0 |-> 0, status |-> "more"]
    BY <1>2, <2>4, DecodeSame
  <2>6. d6 \in Reading
    BY <1>2, <2>4, DecodeInPacket
  <2>7. d6.last = e.level /\ ~(d6.ones < MAXONESLENGTH) /\ d6.bits = Append(bits, 1)
    BY <1>2, <2>4, <2>5 DEF MAXONESLENGTH
  <2>8. dec[Len(f.line)] = DecodeSample(d6, Flip(d6.last))
    BY <2>2, <2>3, <2>4, <2>7
  <2> HIDE DEF d6
  <2>9. DecodeSample(d6, Flip(d6.last)) =
            [last |-> Flip(d6.last), ones |-> 0, bits |-> d6.bits,
             se0 |-> 0, status |-> "more"]
    BY <2>6, <2>7, DecodeChange
  <2>10. dec[Len(f.line)] \in Reading
    BY <1>2, <2>6, <2>7, <2>8, DecodeInPacket
  <2> QED BY <1>1, <2>7, <2>8, <2>9, <2>10
<1> QED BY <1>4 DEF Agree, f

LEMMA AgreeStep ==
    ASSUME NEW e \in Encoders, NEW bits \in Seq(0..1), Agree(e, bits), NEW b \in 0..1
    PROVE  Agree(EncodeBit(e, b), Append(bits, b))
<1>1. CASE b = 0
  BY <1>1, AgreeZero
<1>2. CASE b = 1
  BY <1>2, AgreeOne, AgreeSixth
<1> QED BY <1>1, <1>2

LEMMA AgreeThroughout ==
    ASSUME NEW bits \in Seq(0..1), NEW enc, Encoding(bits, enc)
    PROVE  Agree(enc[Len(bits)], bits)
<1> DEFINE N == Len(bits)
           good == {n \in 0..N : Agree(enc[n], SubSeq(bits, 1, n))}
<1>1. /\ N \in Nat /\ enc \in [0..N -> Encoders] /\ enc[0] = EncStart
      /\ \A n \in 1..N : enc[n] = EncodeBit(enc[n - 1], bits[n])
  BY DEF Encoding
<1>2. 0 \in good
  <2>1. SubSeq(bits, 1, 0) = <<>>
    OBVIOUS
  <2>2. Agree(enc[0], SubSeq(bits, 1, 0))
    BY <1>1, <2>1, AgreeAtStart, Zenon
  <2> QED BY <1>1, <2>2
<1>3. ASSUME NEW n \in 0..N - 1, n \in good PROVE n + 1 \in good
  <2>1. /\ n + 1 \in 1..N /\ enc[n] \in Encoders /\ bits[n + 1] \in 0..1
        /\ enc[n + 1] = EncodeBit(enc[n], bits[n + 1])
    <3>1. n + 1 \in 1..N /\ (n + 1) - 1 = n /\ n \in 0..N
      BY <1>1
    <3> QED BY <1>1, <3>1
  <2>2. /\ SubSeq(bits, 1, n) \in Seq(0..1)
        /\ SubSeq(bits, 1, n + 1) = Append(SubSeq(bits, 1, n), bits[n + 1])
    BY <2>1
  <2>3. Agree(enc[n], SubSeq(bits, 1, n))
    BY <1>3
  <2>4. Agree(enc[n + 1], SubSeq(bits, 1, n + 1))
    BY <2>1, <2>2, <2>3, AgreeStep
  <2> QED BY <2>1, <2>4
<1>4. N \in good
  <2> HIDE DEF good
  <2>1. 0..N \subseteq good
    BY <1>1, <1>2, <1>3, UpTo
  <2> QED BY <1>1, <2>1
<1>5. SubSeq(bits, 1, N) = bits
  OBVIOUS
<1> QED BY <1>4, <1>5

\* A packet whose first bit is a zero begins with a K.
LEMMA BeginsWithK ==
    ASSUME NEW bits, Len(bits) \in Nat, Len(bits) > 0, bits[1] = 0,
           NEW enc, Encoding(bits, enc)
    PROVE  Len(enc[Len(bits)].line) > 0 /\ enc[Len(bits)].line[1] = "K"
<1> DEFINE N == Len(bits)
           good == {n \in 0..N : n > 0 => Len(enc[n].line) > 0 /\ enc[n].line[1] = "K"}
<1>1. /\ N \in Nat /\ N > 0 /\ enc \in [0..N -> Encoders] /\ enc[0] = EncStart
      /\ \A n \in 1..N : enc[n] = EncodeBit(enc[n - 1], bits[n])
  BY DEF Encoding
<1>2. 0 \in good
  BY <1>1
<1>3. ASSUME NEW n \in 0..N - 1, n \in good PROVE n + 1 \in good
  <2>1. n + 1 \in 1..N /\ (n + 1) - 1 = n /\ n \in 0..N
    BY <1>1
  <2>2. enc[n] \in Encoders /\ enc[n + 1] = EncodeBit(enc[n], bits[n + 1])
    BY <1>1, <2>1
  <2> DEFINE e == enc[n]
             f == enc[n + 1]
             b == bits[n + 1]
  <2>3. Len(f.line) > 0 /\ f.line[1] = "K"
    <3>1. CASE n = 0
      <4>1. e = EncStart /\ f = EncodeBit(e, 0)
        BY <1>1, <2>2, <3>1
      <4>2. f = [level |-> Flip(e.level), ones |-> 0,
                 line |-> Append(e.line, Flip(e.level))]
        BY <4>1, EncodeZero
      <4> QED BY <4>1, <4>2 DEF EncStart, Flip
    <3>2. CASE n # 0
      <4>1. /\ e.line \in Seq(Levels) /\ Len(e.line) > 0 /\ e.line[1] = "K"
            /\ e.level \in Levels /\ Flip(e.level) \in Levels
        BY <1>3, <2>1, <2>2, <3>2, FlipLevel DEF Encoders
      <4>2. \/ f.line = Append(e.line, Flip(e.level))
            \/ f.line = Append(e.line, e.level)
            \/ f.line = Append(Append(e.line, e.level), Flip(e.level))
        <5> HIDE DEF e, f, b
        <5>1. e \in Encoders /\ f = EncodeBit(e, b)
          BY <2>2 DEF e, f, b
        <5>2. CASE b = 0
          <6>1. f = EncodeBit(e, 0)
            BY <5>1, <5>2
          <6>2. EncodeBit(e, 0) = [level |-> Flip(e.level), ones |-> 0,
                                   line |-> Append(e.line, Flip(e.level))]
            BY EncodeZero
          <6> QED BY <6>1, <6>2
        <5>3. CASE b # 0 /\ e.ones + 1 # MAXONESLENGTH
          BY <5>1, <5>3, EncodeOne
        <5>4. CASE b # 0 /\ e.ones + 1 = MAXONESLENGTH
          BY <5>1, <5>4, EncodeSixth
        <5> QED BY <5>2, <5>3, <5>4
      <4> HIDE DEF e, f
      <4>3. /\ Append(e.line, e.level) \in Seq(Levels)
            /\ Len(Append(e.line, e.level)) > 0 /\ Append(e.line, e.level)[1] = "K"
        BY <4>1
      <4> QED BY <4>1, <4>2, <4>3
    <3> QED BY <3>1, <3>2
  <2> QED BY <2>1, <2>3
<1>4. N \in good
  <2> HIDE DEF good
  <2>1. 0..N \subseteq good
    BY <1>1, <1>2, <1>3, UpTo
  <2> QED BY <1>1, <2>1
<1> QED BY <1>1, <1>4

\* What nrziEnc puts on the line, and what nrziDec has when its levels have come.
LEMMA EncodedLine ==
    ASSUME NEW bits \in Seq(0..1)
    PROVE  \E line \in Seq(Levels) :
              /\ nrziEnc(bits) = line \o EOP
              /\ \A dec : Decoding(line, dec) =>
                    dec[Len(line)] \in Reading /\ dec[Len(line)].bits = bits
              /\ Len(bits) > 0 /\ bits[1] = 0 => Len(line) > 0 /\ line[1] = "K"
<1>1. Len(bits) \in Nat
  OBVIOUS
<1>2. PICK enc : Encoding(bits, enc) /\ nrziEnc(bits) = enc[Len(bits)].line \o EOP
  BY <1>1, EncodingExists
<1>3. enc[Len(bits)].line \in Seq(Levels)
  <2>1. enc[Len(bits)] \in Encoders
    BY <1>1, <1>2 DEF Encoding
  <2> QED BY <2>1 DEF Encoders
<1>4. \A dec : Decoding(enc[Len(bits)].line, dec) =>
         /\ dec[Len(enc[Len(bits)].line)] \in Reading
         /\ dec[Len(enc[Len(bits)].line)].bits = bits
  BY <1>2, AgreeThroughout DEF Agree
<1>5. Len(bits) > 0 /\ bits[1] = 0 =>
         Len(enc[Len(bits)].line) > 0 /\ enc[Len(bits)].line[1] = "K"
  BY <1>1, <1>2, BeginsWithK
<1> QED BY <1>2, <1>3, <1>4, <1>5

-----------------------------------------------------------------------------
(***************************************************************************)
(* The decoder over a whole packet.                                        *)
(***************************************************************************)
Decoders == [last : Levels, ones : Nat, bits : Seq(0..1), se0 : 0..2,
             status : {"more", "done", "error"}]

LEMMA DecodeTyped ==
    ASSUME NEW d \in Decoders, NEW l \in {"J", "K", "SE0", "SE1"}
    PROVE  DecodeSample(d, l) \in Decoders
<1>1. CASE d.status # "more"
  BY <1>1 DEF DecodeSample
<1>2. CASE d.status = "more" /\ Wrong(d, l)
  BY <1>2 DEF DecodeSample, DecodeEnd, Decoders
<1>3. CASE d.status = "more" /\ ~Wrong(d, l) /\ d.se0 = 2
  BY <1>3 DEF DecodeSample, DecodeEnd, Decoders
<1>4. CASE d.status = "more" /\ ~Wrong(d, l) /\ d.se0 # 2 /\ l = "SE0"
  BY <1>4 DEF DecodeSample, DecodeEnd, Decoders
<1>5. CASE d.status = "more" /\ ~Wrong(d, l) /\ d.se0 # 2 /\ l # "SE0"
  <2>1. l \in Levels
    BY <1>5 DEF Wrong, Levels
  <2>2. DecodeSample(d, l) = DecodeLevel(d, l)
    BY <1>5 DEF DecodeSample
  <2> QED BY <2>1, <2>2 DEF DecodeLevel, Decoders
<1> QED BY <1>1, <1>2, <1>3, <1>4, <1>5

LEMMA nrziDecRecursion ==
    ASSUME NEW line \in Seq({"J", "K", "SE0", "SE1"})
    PROVE  \E dec : /\ dec \in [0..Len(line) -> Decoders] /\ dec[0] = DecStart
                    /\ \A n \in 1..Len(line) : dec[n] = DecodeSample(dec[n - 1], line[n])
                    /\ nrziDec(line) = dec[Len(line)]
<1> DEFINE N == Len(line)
           body(f) == [n \in 0..N |-> IF n = 0 THEN DecStart ELSE DecodeSample(f[n - 1], line[n])]
           step == [s \in (1..N) \X Decoders |-> DecodeSample(s[2], line[s[1]])]
           dec[n \in 0..N] == IF n = 0 THEN DecStart ELSE DecodeSample(dec[n - 1], line[n])
<1>1. nrziDec(line) = dec[N] /\ N \in Nat
  BY DEF nrziDec
<1>2. DecStart \in Decoders
  BY DEF DecStart, Decoders, Levels
<1>3. \A i \in 1..N : line[i] \in {"J", "K", "SE0", "SE1"}
  OBVIOUS
<1>4. \E f : f = body(f)
  <2>1. \A i \in 1..N, d \in Decoders : step[<<i, d>>] = DecodeSample(d, line[i])
    OBVIOUS
  <2>2. Closed(N, Decoders, step)
    BY <1>3, <2>1, DecodeTyped DEF Closed
  <2> HIDE DEF step, dec, N
  <2>3. PICK f : Along(f, N, Decoders, DecStart, step)
    BY <1>1, <1>2, <2>2, RecursiveFunction
  <2>4. ASSUME NEW i \in 1..N PROVE f[i] = DecodeSample(f[i - 1], line[i])
    <3>1. f[i - 1] \in Decoders /\ f[i] = step[<<i, f[i - 1]>>]
      BY <1>1, <2>3 DEF Along
    <3> QED BY <2>1, <3>1
  <2>5. \A i \in 0..N : f[i] = body(f)[i]
    BY <2>3, <2>4 DEF Along
  <2>6. f = body(f)
    BY <2>3, <2>5 DEF Along
  <2> QED BY <2>6
<1>5. dec = body(dec)
  BY <1>4
<1> HIDE DEF dec
<1>6. dec[0] = DecStart /\ \A n \in 1..N : dec[n] = DecodeSample(dec[n - 1], line[n])
  BY <1>5
<1>7. \A i \in 0..N : dec[i] \in Decoders
  <2>1. \A i \in 1..N : dec[i - 1] \in Decoders => dec[i] \in Decoders
    BY <1>3, <1>6, DecodeTyped
  <2> QED BY <1>1, <1>2, <1>6, <2>1, StaysIn
<1>8. dec \in [0..N -> Decoders]
  BY <1>5, <1>7
<1> QED BY <1>1, <1>6, <1>8

\* The end of packet is not taken for anything else.
LEMMA EopDecoded ==
    ASSUME NEW d \in Reading
    PROVE  /\ DecodeSample(d, "SE0") = DecodeEnd(d, 1, "more")
           /\ DecodeSample(DecodeEnd(d, 1, "more"), "SE0") = DecodeEnd(d, 2, "more")
           /\ DecodeSample(DecodeEnd(d, 2, "more"), "J") = DecodeEnd(d, 2, "done")
<1> DEFINE one == DecodeEnd(d, 1, "more")
           two == DecodeEnd(d, 2, "more")
<1>1. d.status = "more" /\ d.se0 = 0
  BY DEF Reading
<1>2. DecodeSample(d, "SE0") = one
  BY <1>1 DEF DecodeSample, Wrong
<1>3. one.status = "more" /\ one.se0 = 1 /\ two.status = "more" /\ two.se0 = 2
  BY DEF DecodeEnd
<1>4. DecodeEnd(one, 2, "more") = two /\ DecodeEnd(two, 2, "done") = DecodeEnd(d, 2, "done")
  BY DEF DecodeEnd
<1> HIDE DEF one, two
<1>5. DecodeSample(one, "SE0") = two
  BY <1>3, <1>4 DEF DecodeSample, Wrong
<1>6. DecodeSample(two, "J") = DecodeEnd(d, 2, "done")
  BY <1>3, <1>4 DEF DecodeSample, Wrong
<1> QED BY <1>2, <1>5, <1>6 DEF one, two

\* A packet of any bits, of any number, runs of ones of any length included: nrziDec
\* yields the bits that nrziEnc was given, and has seen the end of packet.
THEOREM LineCodeLossless ==
    \A bits \in Seq(0..1) :
        LET d == nrziDec(nrziEnc(bits)) IN d.bits = bits /\ d.status = "done"
<1> SUFFICES ASSUME NEW bits \in Seq(0..1)
             PROVE  /\ nrziDec(nrziEnc(bits)).bits = bits
                    /\ nrziDec(nrziEnc(bits)).status = "done"
  OBVIOUS
<1>1. PICK line \in Seq(Levels) :
          /\ nrziEnc(bits) = line \o EOP
          /\ \A dec : Decoding(line, dec) =>
                dec[Len(line)] \in Reading /\ dec[Len(line)].bits = bits
  BY EncodedLine
<1> DEFINE wire == line \o EOP
           N == Len(line)
<1>2. /\ wire \in Seq({"J", "K", "SE0", "SE1"}) /\ N \in Nat /\ Len(wire) = N + 3
      /\ \A i \in 1..N : wire[i] = line[i]
      /\ wire[N + 1] = "SE0" /\ wire[N + 2] = "SE0" /\ wire[N + 3] = "J"
  BY DEF EOP, Levels
<1> HIDE DEF wire
<1>3. PICK dec : /\ dec \in [0..Len(wire) -> Decoders] /\ dec[0] = DecStart
                 /\ \A n \in 1..Len(wire) : dec[n] = DecodeSample(dec[n - 1], wire[n])
                 /\ nrziDec(wire) = dec[Len(wire)]
  BY <1>2, nrziDecRecursion
<1> DEFINE part == [i \in 0..N |-> dec[i]]
<1>4. ASSUME NEW n \in 1..N PROVE dec[n] = DecodeSample(dec[n - 1], line[n])
  BY <1>2, <1>3
<1>5. \A i \in 0..N : dec[i] \in Reading
  <2>1. ASSUME NEW i \in 1..N, dec[i - 1] \in Reading PROVE dec[i] \in Reading
    <3>1. line[i] \in Levels
      OBVIOUS
    <3> QED BY <1>4, <2>1, <3>1, DecodeInPacket
  <2> QED BY <1>2, <1>3, <2>1, DecStartTyped, StaysIn
<1>6. Decoding(line, part)
  <2>1. part \in [0..N -> Reading] /\ part[0] = DecStart
    BY <1>2, <1>3, <1>5
  <2>2. ASSUME NEW n \in 1..N PROVE part[n] = DecodeSample(part[n - 1], line[n])
    <3>1. n \in 0..N /\ n - 1 \in 0..N
      BY <1>2
    <3> QED BY <1>4, <3>1
  <2> HIDE DEF part
  <2> QED BY <2>1, <2>2 DEF Decoding
<1>7. dec[N] \in Reading /\ dec[N].bits = bits
  <2>1. part[N] = dec[N]
    BY <1>2
  <2> HIDE DEF part
  <2> QED BY <1>1, <1>6, <2>1
<1>8. /\ dec[N + 1] = DecodeSample(dec[N], "SE0")
      /\ dec[N + 2] = DecodeSample(dec[N + 1], "SE0")
      /\ dec[N + 3] = DecodeSample(dec[N + 2], "J")
  <2>1. /\ N + 1 \in 1..Len(wire) /\ N + 2 \in 1..Len(wire) /\ N + 3 \in 1..Len(wire)
        /\ (N + 1) - 1 = N /\ (N + 2) - 1 = N + 1 /\ (N + 3) - 1 = N + 2
    BY <1>2
  <2> QED BY <1>2, <1>3, <2>1
<1>9. nrziDec(nrziEnc(bits)) = DecodeEnd(dec[N], 2, "done")
  <2>1. dec[N + 3] = DecodeEnd(dec[N], 2, "done")
    BY <1>7, <1>8, EopDecoded
  <2> QED BY <1>1, <1>2, <1>3, <2>1 DEF wire
<1> QED BY <1>7, <1>9 DEF DecodeEnd

-----------------------------------------------------------------------------
(***************************************************************************)
(* The CRCs, of which no more is needed than that they are bits: what is   *)
(* sent is what is computed again from the bits received.                  *)
(***************************************************************************)
BitStrings(n) == [1..n -> 0..1]

LEMMA BitString ==
    ASSUME NEW n \in Nat, NEW s \in BitStrings(n)
    PROVE  s \in Seq(0..1) /\ Len(s) = n /\ \A i \in 1..n : s[i] \in 0..1
BY DEF BitStrings

LEMMA ComplementTyped ==
    ASSUME NEW n \in Nat, NEW s \in BitStrings(n)
    PROVE  Complement(s) \in BitStrings(n) /\ \A i \in 1..n : Complement(s)[i] = 1 - s[i]
BY DEF BitStrings, Complement

LEMMA ShiftTyped ==
    ASSUME NEW width \in Nat \ {0}, NEW r \in BitStrings(width), NEW taps
    PROVE  /\ Append(Tail(r), 0) \in BitStrings(width)
           /\ Invert(Append(Tail(r), 0), taps) \in BitStrings(width)
<1> DEFINE left == Append(Tail(r), 0)
<1>1. r \in Seq(0..1) /\ Len(r) = width /\ r # <<>>
  BY BitString DEF BitStrings
<1>2. left \in Seq(0..1) /\ Len(left) = width
  BY <1>1
<1> HIDE DEF left
<1>3. left \in BitStrings(width)
  BY <1>2 DEF BitStrings
<1>4. Invert(left, taps) \in BitStrings(width)
  BY <1>3 DEF BitStrings, Invert
<1> QED BY <1>3, <1>4 DEF left

LEMMA CrcTyped ==
    ASSUME NEW bits, Len(bits) \in Nat, NEW width \in Nat \ {0}, NEW taps
    PROVE  Crc(bits, width, taps) \in BitStrings(width)
<1> DEFINE N == Len(bits)
           S == BitStrings(width)
           ones == [i \in 1..width |-> 1]
           Shift(r, b) ==
               LET left == Append(Tail(r), 0)
               IN  IF r[1] = b THEN left ELSE Invert(left, taps)
           body(f) == [n \in 0..N |-> IF n = 0 THEN ones ELSE Shift(f[n - 1], bits[n])]
           step == [s \in (1..N) \X S |-> Shift(s[2], bits[s[1]])]
           reg[n \in 0..N] == IF n = 0 THEN ones ELSE Shift(reg[n - 1], bits[n])
<1>1. Crc(bits, width, taps) = Complement(reg[N]) /\ N \in Nat
  BY DEF Crc
<1>2. \A r \in S : \A b : Shift(r, b) \in S
  BY ShiftTyped
<1>3. ones \in S
  BY DEF BitStrings
<1> HIDE DEF Shift, ones, N
<1>4. \E f : f = body(f)
  <2>1. \A i \in 1..N, r \in S : step[<<i, r>>] = Shift(r, bits[i])
    OBVIOUS
  <2>2. Closed(N, S, step)
    BY <1>2, <2>1 DEF Closed
  <2> HIDE DEF step, reg, S
  <2>3. PICK f : Along(f, N, S, ones, step)
    BY <1>1, <1>3, <2>2, RecursiveFunction
  <2>4. ASSUME NEW i \in 1..N PROVE f[i] = Shift(f[i - 1], bits[i])
    <3>1. f[i - 1] \in S /\ f[i] = step[<<i, f[i - 1]>>]
      BY <1>1, <2>3 DEF Along
    <3> QED BY <2>1, <3>1
  <2>5. \A i \in 0..N : f[i] = body(f)[i]
    BY <2>3, <2>4 DEF Along
  <2>6. f = body(f)
    BY <2>3, <2>5 DEF Along
  <2> QED BY <2>6
<1>5. reg = body(reg)
  BY <1>4
<1> HIDE DEF reg, S
<1>6. reg[0] = ones /\ \A n \in 1..N : reg[n] = Shift(reg[n - 1], bits[n])
  BY <1>1, <1>5
<1>7. \A i \in 0..N : reg[i] \in S
  <2>1. \A i \in 1..N : reg[i - 1] \in S => reg[i] \in S
    BY <1>2, <1>6
  <2> QED BY <1>1, <1>3, <1>6, <2>1, StaysIn
<1>8. reg[N] \in BitStrings(width)
  BY <1>1, <1>7 DEF S
<1> QED BY <1>1, <1>8, ComplementTyped

LEMMA CrcsTyped ==
    ASSUME NEW bits \in Seq(0..1)
    PROVE  usbcrc5(bits) \in BitStrings(5) /\ usbcrc16(bits) \in BitStrings(16)
<1>1. Len(bits) \in Nat
  OBVIOUS
<1> QED BY <1>1, CrcTyped DEF usbcrc5, usbcrc16

-----------------------------------------------------------------------------
(***************************************************************************)
(* Numbers and their bits.                                                 *)
(***************************************************************************)
\* The powers of two up to the highest bit of a frame number.
LEMMA PowerTyped == ASSUME NEW i \in 0..10 PROVE 2^i \in Nat \ {0}
<1>1. CASE i = 0
  BY <1>1
<1>2. CASE i = 1
  BY <1>2
<1>3. CASE i = 2
  BY <1>3
<1>4. CASE i = 3
  BY <1>4
<1>5. CASE i = 4
  BY <1>5
<1>6. CASE i = 5
  BY <1>6
<1>7. CASE i = 6
  BY <1>7
<1>8. CASE i = 7
  BY <1>8
<1>9. CASE i = 8
  BY <1>9
<1>10. CASE i = 9
  BY <1>10
<1>11. CASE i = 10
  BY <1>11
<1> QED BY <1>1, <1>2, <1>3, <1>4, <1>5, <1>6, <1>7, <1>8, <1>9, <1>10, <1>11

LEMMA BitTyped == ASSUME NEW n \in Nat, NEW i \in 0..10 PROVE Bit(n, i) \in 0..1
<1> DEFINE p == 2^i
<1>1. p \in Nat \ {0}
  BY PowerTyped
<1>2. Bit(n, i) = (n \div p) % 2
  BY DEF Bit
<1> HIDE DEF p
<1>3. n \div p \in Nat
  BY <1>1
<1> QED BY <1>2, <1>3

LEMMA BitsTyped ==
    ASSUME NEW n \in Nat, NEW w \in 0..11
    PROVE  Bits(n, w) \in BitStrings(w) /\ \A i \in 1..w : Bits(n, w)[i] = Bit(n, i - 1)
<1>1. \A i \in 1..w : Bit(n, i - 1) \in 0..1
  BY BitTyped
<1> QED BY <1>1 DEF Bits, BitStrings

LEMMA NumRecursion ==
    ASSUME NEW k \in 1..11, NEW bits \in BitStrings(k)
    PROVE  \E num : /\ num \in [0..k -> Nat] /\ num[0] = 0 /\ Num(bits) = num[k]
                    /\ \A i \in 1..k : num[i] = num[i - 1] + bits[i] * 2^(i - 1)
<1> DEFINE add(i) == bits[i] * 2^(i - 1)
           body(f) == [i \in 0..k |-> IF i = 0 THEN 0 ELSE f[i - 1] + add(i)]
           step == [s \in (1..k) \X Nat |-> s[2] + add(s[1])]
           num[i \in 0..k] == IF i = 0 THEN 0 ELSE num[i - 1] + add(i)
<1>1. Num(bits) = num[k] /\ k \in Nat
  <2>1. Len(bits) = k
    BY BitString
  <2> QED BY <2>1 DEF Num
<1>2. \A i \in 1..k : add(i) \in Nat
  <2>1. ASSUME NEW i \in 1..k PROVE add(i) \in Nat
    <3> DEFINE p == 2^(i - 1)
    <3>1. p \in Nat /\ bits[i] \in 0..1
      <4>1. i - 1 \in 0..10 /\ bits[i] \in 0..1
        BY DEF BitStrings
      <4> QED BY <4>1, PowerTyped
    <3>2. add(i) = bits[i] * p
      OBVIOUS
    <3> HIDE DEF p
    <3>3. bits[i] * p = IF bits[i] = 0 THEN 0 ELSE p
      BY <3>1
    <3> QED BY <3>1, <3>2, <3>3
  <2> QED BY <2>1
<1> HIDE DEF add
<1>3. \E f : f = body(f)
  <2>1. \A i \in 1..k, v \in Nat : step[<<i, v>>] = v + add(i)
    OBVIOUS
  <2> HIDE DEF step, num
  <2>2. Closed(k, Nat, step)
    <3>1. ASSUME NEW i \in 1..k, NEW v \in Nat PROVE step[<<i, v>>] \in Nat
      <4>1. add(i) \in Nat /\ step[<<i, v>>] = v + add(i)
        BY <1>2, <2>1
      <4> QED BY <4>1
    <3> QED BY <3>1 DEF Closed
  <2>3. PICK f : Along(f, k, Nat, 0, step)
    BY <1>1, <2>2, RecursiveFunction
  <2>4. ASSUME NEW i \in 1..k PROVE f[i] = f[i - 1] + add(i)
    <3>1. f[i - 1] \in Nat /\ f[i] = step[<<i, f[i - 1]>>]
      BY <1>1, <2>3 DEF Along
    <3> QED BY <2>1, <3>1
  <2>5. \A i \in 0..k : f[i] = body(f)[i]
    BY <2>3, <2>4 DEF Along
  <2>6. f = body(f)
    BY <2>3, <2>5 DEF Along
  <2> QED BY <2>6
<1>4. num = body(num)
  BY <1>3
<1> HIDE DEF num
<1>5. num[0] = 0 /\ \A i \in 1..k : num[i] = num[i - 1] + add(i)
  BY <1>4
<1>6. \A i \in 0..k : num[i] \in Nat
  <2>1. \A i \in 1..k : num[i - 1] \in Nat => num[i] \in Nat
    BY <1>2, <1>5
  <2> QED BY <1>1, <1>5, <2>1, StaysIn
<1>7. num \in [0..k -> Nat]
  BY <1>4, <1>6
<1> QED BY <1>1, <1>5, <1>7 DEF add

\* A number of four, seven or eleven bits is the number of its bits.
Spells(bits, k, n) == \A i \in 1..k : bits[i] = Bit(n, i - 1)

LEMMA NumOfFour ==
    ASSUME NEW n \in 0..15, NEW bits \in BitStrings(4),
           Spells(bits, 4, n)
    PROVE  Num(bits) = n
<1>1. PICK num : /\ num \in [0..4 -> Nat] /\ num[0] = 0 /\ Num(bits) = num[4]
                 /\ \A i \in 1..4 : num[i] = num[i - 1] + bits[i] * 2^(i - 1)
  BY NumRecursion
<1>2. \A i \in 1..4 : bits[i] \in 0..1
  BY DEF BitStrings
<1>3. /\ bits[1] = n % 2 /\ bits[2] = (n \div 2) % 2
      /\ bits[3] = (n \div 4) % 2 /\ bits[4] = (n \div 8) % 2
  BY DEF Bit, Spells
<1>4. /\ num[1] = bits[1] /\ num[2] = num[1] + bits[2] * 2
      /\ num[3] = num[2] + bits[3] * 4 /\ num[4] = num[3] + bits[4] * 8
  BY <1>1, <1>2
<1> QED BY <1>1, <1>3, <1>4

LEMMA NumOfSeven ==
    ASSUME NEW n \in 0..127, NEW bits \in BitStrings(7),
           Spells(bits, 7, n)
    PROVE  Num(bits) = n
<1>1. PICK num : /\ num \in [0..7 -> Nat] /\ num[0] = 0 /\ Num(bits) = num[7]
                 /\ \A i \in 1..7 : num[i] = num[i - 1] + bits[i] * 2^(i - 1)
  BY NumRecursion
<1>2. \A i \in 1..7 : bits[i] \in 0..1
  BY DEF BitStrings
<1>3. /\ bits[1] = n % 2
      /\ bits[2] = (n \div 2) % 2
      /\ bits[3] = (n \div 4) % 2
      /\ bits[4] = (n \div 8) % 2
      /\ bits[5] = (n \div 16) % 2
      /\ bits[6] = (n \div 32) % 2
      /\ bits[7] = (n \div 64) % 2
  BY DEF Bit, Spells
<1>4. /\ num[1] = bits[1]
      /\ num[2] = num[1] + bits[2] * 2
      /\ num[3] = num[2] + bits[3] * 4
      /\ num[4] = num[3] + bits[4] * 8
      /\ num[5] = num[4] + bits[5] * 16
      /\ num[6] = num[5] + bits[6] * 32
      /\ num[7] = num[6] + bits[7] * 64
  BY <1>1, <1>2
<1>5. num[1] = n % 2
  BY <1>1, <1>3, <1>4
<1>6. num[2] = n % 4
  <2>1. n % 4 = (n % 2) + ((n \div 2) % 2) * 2
    OBVIOUS
  <2> QED BY <2>1, <1>5, <1>3, <1>4
<1>7. num[3] = n % 8
  <2>1. n % 8 = (n % 4) + ((n \div 4) % 2) * 4
    OBVIOUS
  <2> QED BY <2>1, <1>6, <1>3, <1>4
<1>8. num[4] = n % 16
  <2>1. n % 16 = (n % 8) + ((n \div 8) % 2) * 8
    OBVIOUS
  <2> QED BY <2>1, <1>7, <1>3, <1>4
<1>9. num[5] = n % 32
  <2>1. n % 32 = (n % 16) + ((n \div 16) % 2) * 16
    OBVIOUS
  <2> QED BY <2>1, <1>8, <1>3, <1>4
<1>10. num[6] = n % 64
  <2>1. n % 64 = (n % 32) + ((n \div 32) % 2) * 32
    OBVIOUS
  <2> QED BY <2>1, <1>9, <1>3, <1>4
<1>11. num[7] = n % 128
  <2>1. n % 128 = (n % 64) + ((n \div 64) % 2) * 64
    OBVIOUS
  <2> QED BY <2>1, <1>10, <1>3, <1>4
<1>12. n % 128 = n
  OBVIOUS
<1> QED BY <1>1, <1>11, <1>12

LEMMA NumOfEleven ==
    ASSUME NEW n \in Nat, n < 2048, NEW bits \in BitStrings(11),
           Spells(bits, 11, n)
    PROVE  Num(bits) = n
<1>1. PICK num : /\ num \in [0..11 -> Nat] /\ num[0] = 0 /\ Num(bits) = num[11]
                 /\ \A i \in 1..11 : num[i] = num[i - 1] + bits[i] * 2^(i - 1)
  BY NumRecursion
<1>2. \A i \in 1..11 : bits[i] \in 0..1
  BY DEF BitStrings
<1>3. /\ bits[1] = n % 2
      /\ bits[2] = (n \div 2) % 2
      /\ bits[3] = (n \div 4) % 2
      /\ bits[4] = (n \div 8) % 2
      /\ bits[5] = (n \div 16) % 2
      /\ bits[6] = (n \div 32) % 2
      /\ bits[7] = (n \div 64) % 2
      /\ bits[8] = (n \div 128) % 2
      /\ bits[9] = (n \div 256) % 2
      /\ bits[10] = (n \div 512) % 2
      /\ bits[11] = (n \div 1024) % 2
  BY DEF Bit, Spells
<1>4. /\ num[1] = bits[1]
      /\ num[2] = num[1] + bits[2] * 2
      /\ num[3] = num[2] + bits[3] * 4
      /\ num[4] = num[3] + bits[4] * 8
      /\ num[5] = num[4] + bits[5] * 16
      /\ num[6] = num[5] + bits[6] * 32
      /\ num[7] = num[6] + bits[7] * 64
      /\ num[8] = num[7] + bits[8] * 128
      /\ num[9] = num[8] + bits[9] * 256
      /\ num[10] = num[9] + bits[10] * 512
      /\ num[11] = num[10] + bits[11] * 1024
  BY <1>1, <1>2
<1>5. num[1] = n % 2
  BY <1>1, <1>3, <1>4
<1>6. num[2] = n % 4
  <2>1. n % 4 = (n % 2) + ((n \div 2) % 2) * 2
    OBVIOUS
  <2> QED BY <2>1, <1>5, <1>3, <1>4
<1>7. num[3] = n % 8
  <2>1. n % 8 = (n % 4) + ((n \div 4) % 2) * 4
    OBVIOUS
  <2> QED BY <2>1, <1>6, <1>3, <1>4
<1>8. num[4] = n % 16
  <2>1. n % 16 = (n % 8) + ((n \div 8) % 2) * 8
    OBVIOUS
  <2> QED BY <2>1, <1>7, <1>3, <1>4
<1>9. num[5] = n % 32
  <2>1. n % 32 = (n % 16) + ((n \div 16) % 2) * 16
    OBVIOUS
  <2> QED BY <2>1, <1>8, <1>3, <1>4
<1>10. num[6] = n % 64
  <2>1. n % 64 = (n % 32) + ((n \div 32) % 2) * 32
    OBVIOUS
  <2> QED BY <2>1, <1>9, <1>3, <1>4
<1>11. num[7] = n % 128
  <2>1. n % 128 = (n % 64) + ((n \div 64) % 2) * 64
    OBVIOUS
  <2> QED BY <2>1, <1>10, <1>3, <1>4
<1>12. num[8] = n % 256
  <2>1. n % 256 = (n % 128) + ((n \div 128) % 2) * 128
    OBVIOUS
  <2> QED BY <2>1, <1>11, <1>3, <1>4
<1>13. num[9] = n % 512
  <2>1. n % 512 = (n % 256) + ((n \div 256) % 2) * 256
    OBVIOUS
  <2> QED BY <2>1, <1>12, <1>3, <1>4
<1>14. num[10] = n % 1024
  <2>1. n % 1024 = (n % 512) + ((n \div 512) % 2) * 512
    OBVIOUS
  <2> QED BY <2>1, <1>13, <1>3, <1>4
<1>15. num[11] = n % 2048
  <2>1. n % 2048 = (n % 1024) + ((n \div 1024) % 2) * 1024
    OBVIOUS
  <2> QED BY <2>1, <1>14, <1>3, <1>4
<1>16. n % 2048 = n
  OBVIOUS
<1> QED BY <1>1, <1>15, <1>16

-----------------------------------------------------------------------------
(***************************************************************************)
(* The fields of a packet.                                                 *)
(***************************************************************************)
LEMMA SequenceOfBits ==
    ASSUME NEW n \in Nat, NEW s \in Seq(0..1), Len(s) = n
    PROVE  s \in BitStrings(n)
BY DEF BitStrings

\* The k bits of s that follow the first "before" are those of part.
Part(s, before, k, part) == \A i \in 1..k : s[before + i] = part[i]

LEMMA PartOfPart ==
    ASSUME NEW raw, NEW whole, NEW part, NEW b \in Nat, NEW c \in Nat, NEW at, at = b + c,
           NEW k \in Nat, NEW m \in Nat, c + m <= k,
           Part(raw, b, k, whole), Part(whole, c, m, part)
    PROVE  Part(raw, at, m, part)
<1>1. ASSUME NEW i \in 1..m PROVE raw[at + i] = part[i]
  <2>1. c + i \in 1..k /\ b + (c + i) = at + i
    OBVIOUS
  <2>2. raw[at + i] = whole[c + i]
    BY <2>1 DEF Part
  <2>3. whole[c + i] = part[i]
    BY DEF Part
  <2> QED BY <2>2, <2>3
<1> QED BY <1>1 DEF Part

LEMMA Joined ==
    ASSUME NEW m \in Nat, NEW n \in Nat, NEW all \in Nat, all = m + n,
           NEW s \in BitStrings(m), NEW t \in BitStrings(n)
    PROVE  /\ s \o t \in BitStrings(all)
           /\ Part(s \o t, 0, m, s)
           /\ Part(s \o t, m, n, t)
<1> DEFINE j == s \o t
<1>1. s \in Seq(0..1) /\ Len(s) = m /\ t \in Seq(0..1) /\ Len(t) = n
  BY BitString
<1>2. j \in Seq(0..1) /\ Len(j) = all
  BY <1>1
<1>3. Part(j, 0, m, s)
  BY <1>1 DEF Part
<1>4. Part(j, m, n, t)
  BY <1>1 DEF Part
<1> HIDE DEF j
<1>5. j \in BitStrings(all)
  BY <1>2, SequenceOfBits
<1> QED BY <1>3, <1>4, <1>5 DEF j

\* A field of a packet that has been stored is the part of the packet it was.
LEMMA FieldIs ==
    ASSUME NEW n \in Nat, NEW raw \in BitStrings(n), NEW before \in Nat, NEW k \in Nat,
           before + k <= n, NEW first, first = before + 1, NEW last, last = before + k,
           NEW part \in BitStrings(k), Part(raw, before, k, part)
    PROVE  Field(raw, first, last) = part
<1>1. raw \in Seq(0..1) /\ Len(raw) = n
  BY BitString
<1> DEFINE f == SubSeq(raw, first, last)
<1>2. f \in Seq(0..1) /\ Len(f) = k
  BY <1>1
<1>3. \A i \in 1..k : f[i] = part[i]
  <2>1. ASSUME NEW i \in 1..k PROVE f[i] = raw[before + i]
    BY <1>1
  <2> QED BY <2>1 DEF Part
<1> HIDE DEF f
<1>4. f \in BitStrings(k)
  BY <1>2, SequenceOfBits
<1>5. f = part
  BY <1>3, <1>4 DEF BitStrings
<1> QED BY <1>5 DEF Field, f

LEMMA StoredBits ==
    ASSUME NEW n \in Nat, NEW raw \in BitStrings(n), NEW d, d.bits \in Seq(0..1),
           d.status = "done", Len(d.bits) % 8 = 0
    PROVE  /\ BitCount(d) = Len(d.bits)
           /\ \A i \in 1..n : i <= Len(d.bits) => Stored(raw, d)[i] = d.bits[i]
<1>1. Residue(d) = 0
  BY DEF Residue
<1>0. DOMAIN raw = 1..n
  BY DEF BitStrings
<1>2. BitCount(d) = Len(d.bits)
  BY <1>1 DEF BitCount
<1>3. Stored(raw, d) = [i \in 1..n |->
                          IF i > Len(d.bits) THEN raw[i]
                          ELSE IF i > Len(d.bits) THEN 0 ELSE d.bits[i]]
  BY <1>0, <1>1 DEF Stored
<1> QED BY <1>1, <1>2, <1>3

LEMMA StoredTyped ==
    ASSUME NEW n \in Nat, NEW raw \in BitStrings(n), NEW d \in Decoders
    PROVE  Stored(raw, d) \in BitStrings(n)
<1> DEFINE whole == Len(d.bits) - Residue(d)
           filled == IF d.status = "done" /\ Residue(d) > 0 THEN whole + 8 ELSE whole
           v(i) == IF i > filled THEN raw[i] ELSE IF i > Len(d.bits) THEN 0 ELSE d.bits[i]
<1>1. d.bits \in Seq(0..1) /\ Len(d.bits) \in Nat
  BY DEF Decoders
<1>2. Stored(raw, d) = [i \in 1..n |-> v(i)]
  BY DEF Stored, BitStrings
<1>3. ASSUME NEW i \in 1..n PROVE v(i) \in 0..1
  <2>1. raw[i] \in 0..1
    BY BitString
  <2>2. i <= Len(d.bits) => d.bits[i] \in 0..1
    BY <1>1
  <2> HIDE DEF filled
  <2> QED BY <1>1, <2>1, <2>2
<1> QED BY <1>2, <1>3 DEF BitStrings

-----------------------------------------------------------------------------
(***************************************************************************)
(* What usbPktGen makes of a packet, usbPktDecode reads again.             *)
(***************************************************************************)
Supported == Tokens \union {"SOF"} \union DataPids \union Handshakes

LEMMA PidOf ==
    ASSUME NEW pid \in Supported
    PROVE  PidCode(pid) \in 1..15 /\ PidName[PidCode(pid)] = pid
<1>1. DOMAIN PidName = 1..15
  BY DEF PidName
<1>2. \E code \in 1..15 : PidName[code] = pid
  <2>1. /\ PidName[1] = "OUT" /\ PidName[2] = "ACK" /\ PidName[3] = "DATA0"
        /\ PidName[5] = "SOF" /\ PidName[6] = "NYET" /\ PidName[9] = "IN"
        /\ PidName[10] = "NAK" /\ PidName[11] = "DATA1" /\ PidName[13] = "SETUP"
        /\ PidName[14] = "STALL"
    BY DEF PidName
  <2> HIDE DEF PidName
  <2> QED BY <2>1 DEF Supported, Tokens, DataPids, Handshakes
<1> HIDE DEF PidName
<1> QED BY <1>1, <1>2 DEF PidCode

\* Sync, PID and its complement; the sync begins with a 0.
LEMMA HeadBits ==
    ASSUME NEW pid \in Supported
    PROVE  /\ Head16(pid) \in BitStrings(16) /\ Head16(pid)[1] = 0
           /\ Part(Head16(pid), 8, 4, Bits(PidCode(pid), 4))
           /\ Part(Head16(pid), 12, 4, Complement(Bits(PidCode(pid), 4)))
<1> DEFINE sync == Bits(128, 8)
           code == Bits(PidCode(pid), 4)
           neg == Complement(code)
           both == sync \o code
           all == both \o neg
<1>1. sync \in BitStrings(8) /\ sync[1] = 0
  <2>1. Bit(128, 0) = 0
    BY DEF Bit
  <2> QED BY <2>1, BitsTyped
<1>2. code \in BitStrings(4)
  BY PidOf, BitsTyped
<1>3. neg \in BitStrings(4)
  BY <1>2, ComplementTyped
<1>4. all = Head16(pid)
  BY DEF Head16
<1> HIDE DEF sync, code, neg
<1>5. both \in BitStrings(12) /\ Part(both, 0, 8, sync) /\ Part(both, 8, 4, code)
  BY <1>1, <1>2, Joined
<1> HIDE DEF both
<1>6. all \in BitStrings(16) /\ Part(all, 0, 12, both) /\ Part(all, 12, 4, neg)
  BY <1>3, <1>5, Joined
<1> HIDE DEF all
<1>7. all[1] = 0 /\ Part(all, 8, 4, code)
  BY <1>1, <1>5, <1>6 DEF Part
<1> QED BY <1>4, <1>6, <1>7 DEF neg, code

LEMMA PidRead ==
    ASSUME NEW pid \in Supported, NEW n \in Nat, n >= 16, NEW raw \in BitStrings(n),
           Part(raw, 0, 16, Head16(pid))
    PROVE  PidIntact(raw) /\ Num(Field(raw, 9, 12)) = PidCode(pid)
<1> DEFINE code == Bits(PidCode(pid), 4)
<1>1. /\ code \in BitStrings(4) /\ Complement(code) \in BitStrings(4)
      /\ Spells(code, 4, PidCode(pid))
  <2>1. PidCode(pid) \in Nat /\ 4 \in 0..11
    BY PidOf
  <2>2. code \in BitStrings(4) /\ Spells(code, 4, PidCode(pid))
    BY <2>1, BitsTyped DEF Spells
  <2> HIDE DEF code
  <2>3. Complement(code) \in BitStrings(4)
    BY <2>2, ComplementTyped
  <2> QED BY <2>2, <2>3
<1>2. Part(raw, 8, 4, code) /\ Part(raw, 12, 4, Complement(code))
  BY HeadBits DEF Part
<1> HIDE DEF code
<1>3. Field(raw, 9, 12) = code
  BY <1>1, <1>2, FieldIs
<1>4. Field(raw, 13, 16) = Complement(code)
  BY <1>1, <1>2, FieldIs
<1>5. Num(code) = PidCode(pid)
  BY <1>1, PidOf, NumOfFour
<1> QED BY <1>3, <1>4, <1>5 DEF PidIntact

-----------------------------------------------------------------------------
\* The endpoint bytes that usbPktGen accepts: a direction in bit 7, an index below it.
EndpBytes == {e \in 0..255 : e % 128 <= 15}

LEMMA EndpBits ==
    ASSUME NEW e \in EndpBytes
    PROVE  /\ EpIdx(e) \in 0..15 /\ EpDir(e) \in 0..1
           /\ \A i \in 0..3 : Bit(e, i) = Bit(EpIdx(e), i)
           /\ Bit(e, 4) = 0 /\ Bit(e, 5) = 0 /\ Bit(e, 6) = 0 /\ Bit(e, 8) = 0
           /\ Bit(e, 7) = EpDir(e)
<1>1. e \in 0..255 /\ e % 128 <= 15
  BY DEF EndpBytes
<1>2. e \in 0..15 \/ e \in 128..143
  BY <1>1
<1>3. EpIdx(e) \in 0..15 /\ EpDir(e) \in 0..1
  BY <1>1 DEF EpIdx, EpDir
<1>4. /\ e % 2 = (e % 16) % 2 /\ (e \div 2) % 2 = ((e % 16) \div 2) % 2
      /\ (e \div 4) % 2 = ((e % 16) \div 4) % 2 /\ (e \div 8) % 2 = ((e % 16) \div 8) % 2
  BY <1>2
<1>5. ASSUME NEW i \in 0..3 PROVE Bit(e, i) = Bit(EpIdx(e), i)
  <2>1. CASE i = 0
    BY <1>1, <1>4, <2>1 DEF Bit, EpIdx
  <2>2. CASE i = 1
    BY <1>1, <1>4, <2>2 DEF Bit, EpIdx
  <2>3. CASE i = 2
    BY <1>1, <1>4, <2>3 DEF Bit, EpIdx
  <2>4. CASE i = 3
    BY <1>1, <1>4, <2>4 DEF Bit, EpIdx
  <2> QED BY <2>1, <2>2, <2>3, <2>4
<1>6. Bit(e, 4) = 0 /\ Bit(e, 5) = 0 /\ Bit(e, 6) = 0 /\ Bit(e, 8) = 0
  BY <1>2 DEF Bit
<1>7. Bit(e, 7) = EpDir(e)
  BY <1>1 DEF Bit, EpDir
<1> QED BY <1>3, <1>5, <1>6, <1>7

\* The CRC5 as it is sent: the direction is ORed into bit 3.
SentCrc(a, e) ==
    LET crc == usbcrc5(TokenBits(a, e))
    IN  [i \in 1..5 |-> IF Bit(e, 3 + i) = 1 THEN 1 ELSE crc[i]]

LEMMA TokenBitsTyped ==
    ASSUME NEW a \in 0..127, NEW e \in EndpBytes
    PROVE  /\ TokenBits(a, e) \in BitStrings(11)
           /\ \A i \in 1..7 : TokenBits(a, e)[i] = Bit(a, i - 1)
           /\ \A i \in 1..4 : TokenBits(a, e)[7 + i] = Bit(EpIdx(e), i - 1)
<1> DEFINE v(i) == IF i <= 7 THEN Bit(a, i - 1) ELSE Bit(e, i - 8)
<1>1. ASSUME NEW i \in 1..11 PROVE v(i) \in 0..1
  <2>1. CASE i <= 7
    <3>1. a \in Nat /\ i - 1 \in 0..10
      BY <2>1
    <3> QED BY <2>1, <3>1, BitTyped
  <2>2. CASE ~(i <= 7)
    <3>1. e \in Nat /\ i - 8 \in 0..10
      BY <2>2 DEF EndpBytes
    <3> QED BY <2>2, <3>1, BitTyped
  <2> QED BY <2>1, <2>2
<1>2. TokenBits(a, e) = [i \in 1..11 |-> v(i)]
  BY DEF TokenBits
<1>3. TokenBits(a, e) \in BitStrings(11)
  <2> HIDE DEF v
  <2> QED BY <1>1, <1>2 DEF BitStrings
<1>4. \A i \in 1..7 : TokenBits(a, e)[i] = Bit(a, i - 1)
  BY <1>2
<1>5. ASSUME NEW i \in 1..4 PROVE TokenBits(a, e)[7 + i] = Bit(EpIdx(e), i - 1)
  <2>1. 7 + i \in 1..11 /\ ~(7 + i <= 7) /\ (7 + i) - 8 = i - 1 /\ i - 1 \in 0..3
    OBVIOUS
  <2>2. TokenBits(a, e)[7 + i] = Bit(e, i - 1)
    BY <1>2, <2>1
  <2> QED BY <2>1, <2>2, EndpBits
<1> QED BY <1>3, <1>4, <1>5

\* What is sent is the CRC5 exactly when the token is intact.
LEMMA SentCrcIs ==
    ASSUME NEW a \in 0..127, NEW e \in EndpBytes
    PROVE  /\ SentCrc(a, e) \in BitStrings(5)
           /\ SentCrc(a, e) = usbcrc5(TokenBits(a, e)) <=> TokenIntact(a, e)
<1> DEFINE crc == usbcrc5(TokenBits(a, e))
           idx == EpIdx(e)
<1>1. crc \in BitStrings(5)
  <2>1. TokenBits(a, e) \in Seq(0..1)
    <3>1. 11 \in Nat
      OBVIOUS
    <3> QED BY <3>1, TokenBitsTyped, BitString
  <2> QED BY <2>1, CrcsTyped
<1>2. TokenBits(a, idx) = TokenBits(a, e)
  <2>1. idx \in 0..15
    BY EndpBits
  <2>2. idx \in EndpBytes /\ EpIdx(idx) = idx
    BY <2>1 DEF EndpBytes, EpIdx
  <2>3. /\ TokenBits(a, idx) \in BitStrings(11) /\ TokenBits(a, e) \in BitStrings(11)
        /\ \A i \in 1..7 : TokenBits(a, idx)[i] = TokenBits(a, e)[i]
        /\ \A i \in 1..4 : TokenBits(a, idx)[7 + i] = TokenBits(a, e)[7 + i]
    <3>1. /\ TokenBits(a, e) \in BitStrings(11)
          /\ \A i \in 1..7 : TokenBits(a, e)[i] = Bit(a, i - 1)
          /\ \A i \in 1..4 : TokenBits(a, e)[7 + i] = Bit(idx, i - 1)
      BY TokenBitsTyped
    <3>2. /\ TokenBits(a, idx) \in BitStrings(11)
          /\ \A i \in 1..7 : TokenBits(a, idx)[i] = Bit(a, i - 1)
          /\ \A i \in 1..4 : TokenBits(a, idx)[7 + i] = Bit(EpIdx(idx), i - 1)
      <4> HIDE DEF idx
      <4> QED BY <2>2, TokenBitsTyped
    <3> HIDE DEF idx
    <3> QED BY <2>2, <3>1, <3>2
  <2>4. ASSUME NEW i \in 1..11 PROVE TokenBits(a, idx)[i] = TokenBits(a, e)[i]
    <3>1. CASE i <= 7
      BY <2>3, <3>1
    <3>2. CASE ~(i <= 7)
      <4>1. i - 7 \in 1..4 /\ 7 + (i - 7) = i
        BY <3>2
      <4> QED BY <2>3, <4>1
    <3> QED BY <3>1, <3>2
  <2> QED BY <2>3, <2>4 DEF BitStrings
<1>3. TokenIntact(a, e) <=> EpDir(e) = 0 \/ crc[4] = 1
  <2>1. a % 128 = a /\ idx \in 0..15
    BY EndpBits
  <2>2. <<a, idx>> \in StrayBitHidden <=> Crc5Bit(a, idx, 3) = 1
    BY <2>1 DEF StrayBitHidden
  <2>3. Crc5Bit(a, idx, 3) = crc[4]
    BY <1>2 DEF Crc5Bit
  <2> QED BY <2>1, <2>2, <2>3 DEF TokenIntact
<1>4. SentCrc(a, e) = [i \in 1..5 |-> IF Bit(e, 3 + i) = 1 THEN 1 ELSE crc[i]]
  BY DEF SentCrc
<1> HIDE DEF crc
<1>5. \A i \in 1..5 : crc[i] \in 0..1
  BY <1>1 DEF BitStrings
<1>6. SentCrc(a, e) \in BitStrings(5)
  BY <1>4, <1>5 DEF BitStrings
<1>7. ASSUME NEW i \in 1..5, i # 4 PROVE SentCrc(a, e)[i] = crc[i]
  <2>1. 3 + i \in {4, 5, 6, 8}
    BY <1>7
  <2>2. Bit(e, 3 + i) = 0
    BY <2>1, EndpBits
  <2> QED BY <1>4, <2>2
<1>8. SentCrc(a, e)[4] = IF EpDir(e) = 1 THEN 1 ELSE crc[4]
  BY <1>4, EndpBits
<1>9. SentCrc(a, e) = crc <=> SentCrc(a, e)[4] = crc[4]
  BY <1>1, <1>6, <1>7 DEF BitStrings
<1>10. EpDir(e) \in 0..1
  BY EndpBits
<1> QED BY <1>3, <1>5, <1>6, <1>8, <1>9, <1>10 DEF crc

LEMMA TokenFieldBits ==
    ASSUME NEW a \in 0..127, NEW e \in EndpBytes
    PROVE  /\ TokenField(a, e) \in BitStrings(16)
           /\ Part(TokenField(a, e), 0, 11, TokenBits(a, e))
           /\ Part(TokenField(a, e), 11, 5, SentCrc(a, e))
<1> DEFINE bits == TokenBits(a, e)
           sent == SentCrc(a, e)
<1>1. bits \in BitStrings(11) /\ sent \in BitStrings(5)
  BY TokenBitsTyped, SentCrcIs
<1>2. TokenField(a, e) = bits \o sent
  BY DEF TokenField, SentCrc
<1> HIDE DEF bits, sent
<1> QED BY <1>1, <1>2, Joined DEF bits, sent

\* The token decoder yields address and endpoint index, or refuses.
LEMMA TokenRead ==
    ASSUME NEW pid \in Tokens, NEW a \in 0..127, NEW e \in EndpBytes,
           NEW n \in Nat, n >= 32, NEW raw \in BitStrings(n),
           Part(raw, 16, 16, TokenField(a, e))
    PROVE  DecodeToken(pid, raw) =
             IF TokenIntact(a, e) THEN Packet(pid, <<a, EpIdx(e)>>) ELSE Refused
<1> DEFINE field == TokenField(a, e)
           bits == TokenBits(a, e)
           sent == SentCrc(a, e)
           addr == [i \in 1..7 |-> bits[i]]
           endp == [i \in 1..4 |-> bits[7 + i]]
<1>1. /\ bits \in BitStrings(11) /\ sent \in BitStrings(5)
      /\ \A i \in 1..7 : bits[i] = Bit(a, i - 1)
      /\ \A i \in 1..4 : bits[7 + i] = Bit(EpIdx(e), i - 1)
  BY TokenBitsTyped, SentCrcIs
<1>2. Part(field, 0, 11, bits) /\ Part(field, 11, 5, sent)
  BY TokenFieldBits
<1> HIDE DEF field, bits, sent
<1>3. Part(raw, 16, 16, field)
  BY DEF field
<1>4. Part(raw, 16, 11, bits) /\ Part(raw, 27, 5, sent)
  BY <1>2, <1>3, PartOfPart
<1>5. addr \in BitStrings(7) /\ endp \in BitStrings(4)
  BY <1>1 DEF BitStrings
<1>6. Part(bits, 0, 7, addr) /\ Part(bits, 7, 4, endp)
  BY DEF Part
<1>7. Num(addr) = a /\ Num(endp) = EpIdx(e)
  <2>1. Spells(addr, 7, a)
    BY <1>1 DEF Spells
  <2>2. Spells(endp, 4, EpIdx(e))
    BY <1>1 DEF Spells
  <2> HIDE DEF addr, endp
  <2> QED BY <1>5, <2>1, <2>2, EndpBits, NumOfSeven, NumOfFour
<1> HIDE DEF addr, endp
<1>8. Part(raw, 16, 7, addr) /\ Part(raw, 23, 4, endp)
  <2>1. Part(raw, 16, 7, addr)
    BY <1>4, <1>6, PartOfPart
  <2>2. Part(raw, 23, 4, endp)
    BY <1>4, <1>6, PartOfPart
  <2> QED BY <2>1, <2>2
<1>9. Field(raw, 17, 23) = addr
  BY <1>5, <1>8, FieldIs
<1>10. Field(raw, 24, 27) = endp
  BY <1>5, <1>8, FieldIs
<1>11. Field(raw, 17, 27) = bits
  BY <1>1, <1>4, FieldIs
<1>12. Field(raw, 28, 32) = sent
  BY <1>1, <1>4, FieldIs
<1>13. pid # "SOF"
  BY DEF Tokens
<1>14. usbcrc5(bits) = sent <=> TokenIntact(a, e)
  BY SentCrcIs DEF bits, sent
<1> QED BY <1>7, <1>9, <1>10, <1>11, <1>12, <1>13, <1>14 DEF DecodeToken

LEMMA SofFieldBits ==
    ASSUME NEW frame \in Nat
    PROVE  /\ Bits(frame % 2048, 11) \in BitStrings(11)
           /\ usbcrc5(Bits(frame % 2048, 11)) \in BitStrings(5)
           /\ SofField(frame) \in BitStrings(16)
           /\ Part(SofField(frame), 0, 11, Bits(frame % 2048, 11))
           /\ Part(SofField(frame), 11, 5, usbcrc5(Bits(frame % 2048, 11)))
           /\ Num(Bits(frame % 2048, 11)) = frame % 2048
<1> DEFINE f == frame % 2048
           bits == Bits(f, 11)
           crc == usbcrc5(bits)
<1>1. f \in Nat /\ f < 2048
  OBVIOUS
<1>2. SofField(frame) = bits \o crc
  BY DEF SofField
<1> HIDE DEF f
<1>3. bits \in BitStrings(11) /\ Spells(bits, 11, f)
  BY <1>1, BitsTyped DEF Spells
<1> HIDE DEF bits
<1>4. bits \in Seq(0..1)
  <2>1. 11 \in Nat
    OBVIOUS
  <2> QED BY <1>3, <2>1, BitString
<1>5. crc \in BitStrings(5)
  BY <1>4, CrcsTyped
<1> HIDE DEF crc
<1>6. /\ bits \o crc \in BitStrings(16)
      /\ Part(bits \o crc, 0, 11, bits) /\ Part(bits \o crc, 11, 5, crc)
  BY <1>3, <1>5, Joined
<1>7. Num(bits) = f
  BY <1>1, <1>3, NumOfEleven
<1> QED BY <1>2, <1>3, <1>5, <1>6, <1>7 DEF crc, bits, f

LEMMA SofRead ==
    ASSUME NEW frame \in Nat, NEW n \in Nat, n >= 32, NEW raw \in BitStrings(n),
           Part(raw, 16, 16, SofField(frame))
    PROVE  DecodeToken("SOF", raw) = Packet("SOF", <<frame % 2048>>)
<1> DEFINE f == frame % 2048
           bits == Bits(f, 11)
           crc == usbcrc5(bits)
<1>1. /\ bits \in BitStrings(11) /\ crc \in BitStrings(5) /\ Num(bits) = f
      /\ Part(SofField(frame), 0, 11, bits) /\ Part(SofField(frame), 11, 5, crc)
  BY SofFieldBits
<1>2. usbcrc5(bits) = crc
  OBVIOUS
<1> HIDE DEF f, bits, crc
<1>3. Part(raw, 16, 11, bits)
  BY <1>1, PartOfPart
<1>4. Part(raw, 27, 5, crc)
  BY <1>1, PartOfPart
<1>5. Field(raw, 17, 27) = bits
  BY <1>1, <1>3, FieldIs
<1>6. Field(raw, 28, 32) = crc
  BY <1>1, <1>4, FieldIs
<1> QED BY <1>1, <1>2, <1>5, <1>6 DEF DecodeToken, f

LEMMA PayloadBits ==
    ASSUME NEW k \in Nat, NEW bits \in BitStrings(k)
    PROVE  /\ usbcrc16(bits) \in BitStrings(16)
           /\ Payload(bits) \in BitStrings(k + 16)
           /\ Part(Payload(bits), 0, k, bits) /\ Part(Payload(bits), k, 16, usbcrc16(bits))
<1>1. bits \in Seq(0..1)
  BY BitString
<1>2. usbcrc16(bits) \in BitStrings(16)
  BY <1>1, CrcsTyped
<1> DEFINE crc == usbcrc16(bits)
           all == k + 16
<1>3. all \in Nat /\ 16 \in Nat /\ all = k + 16
  OBVIOUS
<1> HIDE DEF crc, all
<1>4. /\ bits \o crc \in BitStrings(all)
      /\ Part(bits \o crc, 0, k, bits) /\ Part(bits \o crc, k, 16, crc)
  BY <1>2, <1>3, Joined DEF crc
<1> QED BY <1>2, <1>3, <1>4 DEF Payload, crc

\* The count of bits tells the data decoder where the CRC16 begins.
LEMMA DataRead ==
    ASSUME NEW pid \in DataPids, NEW k \in Nat, k % 8 = 0, NEW bits \in BitStrings(k),
           NEW n \in Nat, n >= k + 32, NEW raw \in BitStrings(n),
           Part(raw, 16, k + 16, Payload(bits))
    PROVE  DecodeData(pid, raw, k + 32) = Packet(pid, bits)
<1> DEFINE crc == usbcrc16(bits)
           end == 8 * ((k + 32) \div 8 - 2)
<1>1. /\ crc \in BitStrings(16)
      /\ Part(Payload(bits), 0, k, bits) /\ Part(Payload(bits), k, 16, crc)
  BY PayloadBits
<1>2. end = 16 + k
  OBVIOUS
<1> HIDE DEF crc, end
<1>3. k + 16 \in Nat /\ 16 \in Nat
  OBVIOUS
<1>4. Part(raw, 16, k, bits)
  BY <1>1, <1>3, PartOfPart
<1>5. Part(raw, end, 16, crc)
  BY <1>1, <1>2, <1>3, PartOfPart
<1>6. Field(raw, 17, end) = bits
  BY <1>2, <1>4, FieldIs
<1>7. Field(raw, end + 1, end + 16) = crc
  <2>1. end \in Nat /\ end + 16 <= n
    BY <1>2
  <2> QED BY <1>1, <1>5, <2>1, FieldIs
<1>8. usbcrc16(bits) = crc
  BY DEF crc
<1>9. ~(end < 16)
  BY <1>2
<1> QED BY <1>6, <1>7, <1>8, <1>9 DEF DecodeData, end

-----------------------------------------------------------------------------
\* usbPktGen(p) is whole bytes that begin with a 0, and usbPktDecode yields q from a
\* buffer that holds them, whatever it holds behind them.
ReadAs(p, q) ==
    /\ usbPktGen(p) \in Seq(0..1) /\ Len(usbPktGen(p)) % 8 = 0
    /\ Len(usbPktGen(p)) > 0 /\ usbPktGen(p)[1] = 0
    /\ \A n \in Nat : \A raw \in BitStrings(n) :
          n >= Len(usbPktGen(p)) /\ Part(raw, 0, Len(usbPktGen(p)), usbPktGen(p))
            => usbPktDecode(raw, Len(usbPktGen(p))) = q

\* The decoder of what follows the PID.
DecodeBody(pid, raw, bitcnt) ==
    IF pid \in Tokens \union {"SOF"} THEN DecodeToken(pid, raw)
    ELSE IF pid \in DataPids THEN DecodeData(pid, raw, bitcnt)
    ELSE Packet(pid, <<>>)

\* m bits of it are read as q when they stand behind the PID.
BodyReadAs(pid, body, m, q) ==
    \A n \in Nat : \A raw \in BitStrings(n) :
        n >= m + 16 /\ Part(raw, 16, m, body) => DecodeBody(pid, raw, m + 16) = q

BodyOf(p) ==
    CASE p.pid \in Tokens   -> TokenField(p.args[1], p.args[2])
      [] p.pid = "SOF"      -> SofField(p.args[1])
      [] p.pid \in DataPids -> Payload(p.args)
      [] OTHER              -> <<>>

LEMMA DecodeIsBody ==
    ASSUME NEW raw, NEW bitcnt, ~(bitcnt < 16), PidIntact(raw), NEW code, code # 0,
           Num(Field(raw, 9, 12)) = code, PidName[code] # "BAD"
    PROVE  usbPktDecode(raw, bitcnt) = DecodeBody(PidName[code], raw, bitcnt)
<1> HIDE DEF PidName
<1> QED BY DEF usbPktDecode, DecodeBody

LEMMA BodyRead ==
    ASSUME NEW p, NEW q, p.pid \in Supported, NEW m \in Nat, m % 8 = 0,
           NEW all \in Nat, all = m + 16,
           NEW body \in BitStrings(m), BodyOf(p) = body, BodyReadAs(p.pid, body, m, q)
    PROVE  ReadAs(p, q) /\ Len(usbPktGen(p)) = all
<1> DEFINE gen == usbPktGen(p)
           head == Head16(p.pid)
           pid == p.pid
<1>1. pid \in Supported /\ all \in Nat /\ all = 16 + m /\ all % 8 = 0 /\ 16 \in Nat
  OBVIOUS
<1>2. head \in BitStrings(16) /\ head[1] = 0
  BY HeadBits
<1>3. gen = head \o body
  BY DEF usbPktGen, BodyOf
<1>4. \A n \in Nat : \A raw \in BitStrings(n) :
         n >= all /\ Part(raw, 16, m, body) => DecodeBody(pid, raw, all) = q
  BY DEF BodyReadAs
<1> HIDE DEF gen, head, pid
<1>5. gen \in BitStrings(all) /\ Part(gen, 0, 16, head) /\ Part(gen, 16, m, body)
  BY <1>1, <1>2, <1>3, Joined
<1>6. gen \in Seq(0..1) /\ Len(gen) = all
  BY <1>1, <1>5, BitString
<1>7. gen[1] = 0
  BY <1>2, <1>5 DEF Part
<1>8. ASSUME NEW n \in Nat, NEW raw \in BitStrings(n), n >= all, Part(raw, 0, all, gen)
      PROVE  usbPktDecode(raw, all) = q
  <2>1. Part(raw, 0, 16, head)
    BY <1>1, <1>5, <1>8, PartOfPart
  <2>2. Part(raw, 16, m, body)
    BY <1>1, <1>5, <1>8, PartOfPart
  <2>3. PidIntact(raw) /\ Num(Field(raw, 9, 12)) = PidCode(pid)
    <3>1. n >= 16
      BY <1>1, <1>8
    <3> QED BY <1>1, <2>1, <3>1, PidRead DEF head, pid
  <2>4. PidCode(pid) \in 1..15 /\ PidName[PidCode(pid)] = pid /\ pid # "BAD"
    <3>1. pid # "BAD"
      BY <1>1 DEF Supported, Tokens, DataPids, Handshakes
    <3> QED BY <1>1, <3>1, PidOf
  <2>5. ~(all < 16)
    BY <1>1
  <2>6. usbPktDecode(raw, all) = DecodeBody(pid, raw, all)
    <3>1. PidCode(pid) # 0
      BY <2>4
    <3> QED BY <2>3, <2>4, <2>5, <3>1, DecodeIsBody
  <2> QED BY <1>4, <1>8, <2>2, <2>6
<1>9. Len(gen) > 0 /\ Len(gen) % 8 = 0
  BY <1>1, <1>6
<1>10. ReadAs(p, q)
  BY <1>6, <1>7, <1>8, <1>9 DEF ReadAs, gen
<1> QED BY <1>6, <1>10 DEF gen

\* A token for every address and endpoint byte arrives with the endpoint's index, or,
\* when its direction bit has spoilt the CRC5, is refused.
LEMMA TokenGenerated ==
    ASSUME NEW pid \in Tokens, NEW a \in 0..127, NEW e \in EndpBytes
    PROVE  /\ ReadAs(Packet(pid, <<a, e>>),
                     IF TokenIntact(a, e) THEN Packet(pid, <<a, EpIdx(e)>>) ELSE Refused)
           /\ Len(usbPktGen(Packet(pid, <<a, e>>))) = 32
<1> DEFINE p == Packet(pid, <<a, e>>)
           q == IF TokenIntact(a, e) THEN Packet(pid, <<a, EpIdx(e)>>) ELSE Refused
           body == TokenField(a, e)
           m == 16
           all == 32
<1>1. /\ p.pid = pid /\ p.args[1] = a /\ p.args[2] = e /\ pid \in Supported
      /\ pid # "SOF" /\ pid \notin DataPids
  BY DEF Packet, Supported, Tokens, DataPids
<1>2. BodyOf(p) = body
  <2> HIDE DEF p
  <2> QED BY <1>1 DEF BodyOf
<1>3. body \in BitStrings(16)
  BY TokenFieldBits
<1>4. BodyReadAs(pid, body, 16, q)
  <2>1. ASSUME NEW n \in Nat, NEW raw \in BitStrings(n), n >= 32, Part(raw, 16, 16, body)
        PROVE  DecodeBody(pid, raw, 32) = q
    <3>1. DecodeToken(pid, raw) = q
      BY <2>1, TokenRead
    <3> QED BY <3>1 DEF DecodeBody
  <2> HIDE DEF q, body
  <2> QED BY <2>1 DEF BodyReadAs
<1>5. m \in Nat /\ m % 8 = 0 /\ all \in Nat /\ all = m + 16
  OBVIOUS
<1>6. body \in BitStrings(m) /\ BodyReadAs(p.pid, body, m, q)
  BY <1>1, <1>3, <1>4
<1> HIDE DEF p, q, body, m, all
<1>7. ReadAs(p, q) /\ Len(usbPktGen(p)) = all
  BY <1>1, <1>2, <1>5, <1>6, BodyRead
<1> QED BY <1>7 DEF p, q, all

\* A frame number arrives modulo 2048.
LEMMA SofGenerated ==
    ASSUME NEW frame \in Nat
    PROVE  /\ ReadAs(Packet("SOF", <<frame>>), Packet("SOF", <<frame % 2048>>))
           /\ Len(usbPktGen(Packet("SOF", <<frame>>))) = 32
<1> DEFINE p == Packet("SOF", <<frame>>)
           q == Packet("SOF", <<frame % 2048>>)
           body == SofField(frame)
           m == 16
           all == 32
<1>1. /\ p.pid = "SOF" /\ p.args[1] = frame /\ "SOF" \in Supported
      /\ "SOF" \notin Tokens /\ "SOF" \notin DataPids
  BY DEF Packet, Supported, Tokens, DataPids
<1>2. BodyOf(p) = body
  <2> HIDE DEF p
  <2> QED BY <1>1 DEF BodyOf
<1>3. body \in BitStrings(16)
  BY SofFieldBits
<1>4. BodyReadAs("SOF", body, 16, q)
  <2>1. ASSUME NEW n \in Nat, NEW raw \in BitStrings(n), n >= 32, Part(raw, 16, 16, body)
        PROVE  DecodeBody("SOF", raw, 32) = q
    <3>1. DecodeToken("SOF", raw) = q
      BY <2>1, SofRead
    <3> HIDE DEF q
    <3> QED BY <3>1 DEF DecodeBody
  <2> HIDE DEF q, body
  <2> QED BY <2>1 DEF BodyReadAs
<1>5. m \in Nat /\ m % 8 = 0 /\ all \in Nat /\ all = m + 16
  OBVIOUS
<1>6. body \in BitStrings(m) /\ BodyReadAs(p.pid, body, m, q)
  BY <1>1, <1>3, <1>4
<1> HIDE DEF p, q, body, m, all
<1>7. ReadAs(p, q) /\ Len(usbPktGen(p)) = all
  BY <1>1, <1>2, <1>5, <1>6, BodyRead
<1> QED BY <1>7 DEF p, q, all

\* A payload of whole bytes arrives as it was sent.
LEMMA DataGenerated ==
    ASSUME NEW pid \in DataPids, NEW k \in Nat, k % 8 = 0, NEW bits \in BitStrings(k)
    PROVE  /\ ReadAs(Packet(pid, bits), Packet(pid, bits))
           /\ Len(usbPktGen(Packet(pid, bits))) = k + 32
<1> DEFINE p == Packet(pid, bits)
           body == Payload(bits)
           m == k + 16
<1>1. /\ p.pid = pid /\ p.args = bits /\ pid \in Supported
      /\ pid \notin Tokens /\ pid # "SOF"
  BY DEF Packet, Supported, Tokens, DataPids
<1>2. BodyOf(p) = body
  <2> HIDE DEF p
  <2> QED BY <1>1 DEF BodyOf
<1>3. body \in BitStrings(m)
  BY PayloadBits
<1>4. m \in Nat /\ m % 8 = 0 /\ m + 16 = k + 32
  OBVIOUS
<1>5. BodyReadAs(pid, body, m, p)
  <2>1. ASSUME NEW n \in Nat, NEW raw \in BitStrings(n), n >= k + 32, Part(raw, 16, m, body)
        PROVE  DecodeBody(pid, raw, k + 32) = p
    <3>1. DecodeData(pid, raw, k + 32) = p
      BY <1>4, <2>1, DataRead
    <3> HIDE DEF p, m
    <3> QED BY <1>1, <3>1 DEF DecodeBody
  <2> HIDE DEF p, m, body
  <2> QED BY <1>4, <2>1 DEF BodyReadAs
<1> HIDE DEF p, body, m
<1>6. ReadAs(p, p) /\ Len(usbPktGen(p)) = m + 16
  BY <1>1, <1>2, <1>3, <1>4, <1>5, BodyRead
<1> QED BY <1>4, <1>6 DEF p

LEMMA HandshakeGenerated ==
    ASSUME NEW pid \in Handshakes
    PROVE  /\ ReadAs(Packet(pid, <<>>), Packet(pid, <<>>))
           /\ Len(usbPktGen(Packet(pid, <<>>))) = 16
<1> DEFINE p == Packet(pid, <<>>)
           body == <<>>
           m == 0
           all == 16
<1>1. /\ p.pid = pid /\ pid \in Supported /\ pid \notin Tokens /\ pid # "SOF"
      /\ pid \notin DataPids
  BY DEF Packet, Supported, Tokens, DataPids, Handshakes
<1>2. BodyOf(p) = body
  <2> HIDE DEF p
  <2> QED BY <1>1 DEF BodyOf
<1>3. body \in BitStrings(0)
  <2>1. body \in Seq(0..1) /\ Len(body) = 0 /\ 0 \in Nat
    OBVIOUS
  <2> QED BY <2>1, SequenceOfBits
<1>4. BodyReadAs(pid, body, 0, p)
  BY <1>1 DEF DecodeBody, BodyReadAs
<1>5. m \in Nat /\ m % 8 = 0 /\ all \in Nat /\ all = m + 16
  OBVIOUS
<1>6. body \in BitStrings(m) /\ BodyReadAs(p.pid, body, m, p)
  BY <1>1, <1>3, <1>4
<1> HIDE DEF p, body, m, all
<1>7. ReadAs(p, p) /\ Len(usbPktGen(p)) = all
  BY <1>1, <1>2, <1>5, <1>6, BodyRead
<1> QED BY <1>7 DEF p, all

-----------------------------------------------------------------------------
(***************************************************************************)
(* From generator to decoder, over the line and through the buffer.        *)
(***************************************************************************)
LEMMA StoredRead ==
    ASSUME NEW p, NEW q, ReadAs(p, q), NEW n \in Nat, NEW raw \in BitStrings(n),
           n >= Len(usbPktGen(p)),
           NEW d \in Decoders, d.bits = usbPktGen(p), d.status = "done"
    PROVE  usbPktDecode(Stored(raw, d), BitCount(d)) = q
<1> DEFINE gen == usbPktGen(p)
           buf == Stored(raw, d)
<1>1. /\ gen \in Seq(0..1) /\ Len(gen) % 8 = 0
      /\ \A m \in Nat : \A r \in BitStrings(m) :
            m >= Len(gen) /\ Part(r, 0, Len(gen), gen) => usbPktDecode(r, Len(gen)) = q
  BY DEF ReadAs
<1>2. d.bits = gen /\ n >= Len(gen)
  OBVIOUS
<1>3. buf \in BitStrings(n)
  BY StoredTyped
<1> HIDE DEF gen
<1>4. BitCount(d) = Len(gen) /\ \A i \in 1..n : i <= Len(gen) => buf[i] = gen[i]
  <2>1. d.bits \in Seq(0..1) /\ Len(d.bits) % 8 = 0
    BY <1>1, <1>2
  <2>2. BitCount(d) = Len(d.bits) /\ \A i \in 1..n : i <= Len(d.bits) => buf[i] = d.bits[i]
    BY <2>1, StoredBits
  <2> HIDE DEF buf
  <2> QED BY <1>2, <2>2
<1> HIDE DEF buf
<1>5. Part(buf, 0, Len(gen), gen)
  <2>1. Len(gen) \in Nat
    BY <1>1
  <2> QED BY <1>2, <1>4, <2>1 DEF Part
<1>6. usbPktDecode(buf, Len(gen)) = q
  BY <1>1, <1>2, <1>3, <1>5
<1> QED BY <1>4, <1>6 DEF buf

\* A packet on the line, as it is decoded over what rawbuf still holds.
Received(raw, p) ==
    LET d == nrziDec(Wire(p)) IN usbPktDecode(Stored(raw, d), BitCount(d))

LEMMA ReceivedIs ==
    ASSUME NEW p, NEW q, ReadAs(p, q), NEW n \in Nat, NEW raw \in BitStrings(n),
           n >= Len(usbPktGen(p))
    PROVE  Received(raw, p) = q
<1> DEFINE gen == usbPktGen(p)
           d == nrziDec(nrziEnc(gen))
<1>1. gen \in Seq(0..1)
  BY DEF ReadAs
<1>2. d.bits = gen /\ d.status = "done"
  <2> HIDE DEF gen
  <2> QED BY <1>1, LineCodeLossless
<1>3. d \in Decoders
  <2> HIDE DEF gen
  <2>1. PICK line \in Seq(Levels) : nrziEnc(gen) = line \o EOP
    BY <1>1, EncodedLine
  <2>2. line \o EOP \in Seq({"J", "K", "SE0", "SE1"})
    BY DEF EOP, Levels
  <2> DEFINE wire == line \o EOP
  <2>3. wire \in Seq({"J", "K", "SE0", "SE1"}) /\ Len(wire) \in Nat
    BY <2>2
  <2> HIDE DEF wire
  <2>4. nrziDec(wire) \in Decoders
    BY <2>3, nrziDecRecursion
  <2> QED BY <2>1, <2>4 DEF wire
<1> HIDE DEF d
<1>4. usbPktDecode(Stored(raw, d), BitCount(d)) = q
  BY <1>2, <1>3, StoredRead
<1> QED BY <1>4 DEF Received, Wire, d

\* usbPktGen and usbPktDecode treat a token as UsbPacket says host and device see it:
\* for every byte as address and every byte as endpoint, over every content of rawbuf.
\* Where one is out of range usbPktGen makes nothing; else the receiver obtains the
\* address and the endpoint's index, or refuses the token when the direction bit has
\* spoilt its CRC5.
THEOREM TokenArrives ==
    \A pid \in Tokens, a \in 0..255, e \in 0..255 :
        /\ Token(pid, a, e) = NoPkt <=> ~Generable(Packet(pid, <<a, e>>))
        /\ \A n \in Nat : \A raw \in BitStrings(n) :
              n >= 32 /\ Token(pid, a, e) # NoPkt =>
                Received(raw, Packet(pid, <<a, e>>)) =
                  IF Token(pid, a, e) = BadPkt THEN Refused
                  ELSE Packet(pid, <<Token(pid, a, e).addr, Token(pid, a, e).endp>>)
<1> SUFFICES ASSUME NEW pid \in Tokens, NEW a \in 0..255, NEW e \in 0..255
             PROVE  /\ Token(pid, a, e) = NoPkt <=> ~Generable(Packet(pid, <<a, e>>))
                    /\ \A n \in Nat : \A raw \in BitStrings(n) :
                          n >= 32 /\ Token(pid, a, e) # NoPkt =>
                            Received(raw, Packet(pid, <<a, e>>)) =
                              IF Token(pid, a, e) = BadPkt THEN Refused
                              ELSE Packet(pid, <<Token(pid, a, e).addr,
                                                 Token(pid, a, e).endp>>)
  OBVIOUS
<1> DEFINE t == Token(pid, a, e)
           p == Packet(pid, <<a, e>>)
           sent == Pkt(pid, a, EpIdx(e), 0, 0, NoReq)
           q == IF TokenIntact(a, e) THEN Packet(pid, <<a, EpIdx(e)>>) ELSE Refused
<1>1. /\ sent.pid = pid /\ sent.addr = a /\ sent.endp = EpIdx(e)
      /\ BadPkt.pid = "BAD" /\ NoPkt.pid = "NONE" /\ pid \notin {"BAD", "NONE"}
  BY DEF Pkt, BadPkt, NoPkt, Hshk, Tokens
<1>2. Generable(p) <=> TokenGenerable(a, e)
  <2>1. p.pid = pid /\ p.args[1] = a /\ p.args[2] = e
    BY DEF Packet
  <2>2. pid # "SOF" /\ pid \notin DataPids
    BY DEF Tokens, DataPids
  <2> HIDE DEF p
  <2>3. p.pid \in Tokens /\ p.pid # "SOF" /\ p.pid \notin DataPids
    BY <2>1, <2>2
  <2>4. Generable(p) <=> TokenGenerable(p.args[1], p.args[2])
    BY <2>3 DEF Generable, TokenGenerable
  <2> QED BY Zenon, <2>1, <2>4
<1> HIDE DEF sent
<1>3. /\ ~TokenGenerable(a, e) => t = NoPkt
      /\ TokenGenerable(a, e) /\ ~TokenIntact(a, e) => t = BadPkt
      /\ TokenGenerable(a, e) /\ TokenIntact(a, e) => t = sent
  BY Zenon DEF Token, sent
<1> HIDE DEF t, p
<1>4. t = NoPkt <=> ~Generable(p)
  BY <1>1, <1>2, <1>3
<1>5. ASSUME NEW n \in Nat, NEW raw \in BitStrings(n), n >= 32, t # NoPkt
      PROVE  Received(raw, p) = IF t = BadPkt THEN Refused ELSE Packet(pid, <<t.addr, t.endp>>)
  <2>1. TokenGenerable(a, e)
    BY <1>3, <1>5
  <2>2. a \in 0..127 /\ e \in EndpBytes
    BY <2>1 DEF TokenGenerable, EndpBytes
  <2>3. Received(raw, p) = q
    <3>1. ReadAs(p, q) /\ Len(usbPktGen(p)) = 32
      BY <2>2, TokenGenerated DEF p
    <3> HIDE DEF q
    <3> QED BY <1>5, <3>1, ReceivedIs
  <2>4. CASE TokenIntact(a, e)
    BY <1>1, <1>3, <2>1, <2>3, <2>4
  <2>5. CASE ~TokenIntact(a, e)
    BY <1>3, <2>1, <2>3, <2>5
  <2> QED BY <2>4, <2>5
<1> QED BY <1>4, <1>5 DEF t, p

\* The frame numbers that usbPktGen accepts.
FrameNumbers == 0..4095

LEMMA FrameReceived ==
    ASSUME NEW frame \in Nat, NEW n \in Nat, NEW raw \in BitStrings(n), n >= 32
    PROVE  Received(raw, Packet("SOF", <<frame>>)) = Packet("SOF", <<Sof(frame).off>>)
<1> DEFINE q == Packet("SOF", <<frame % 2048>>)
<1>1. /\ ReadAs(Packet("SOF", <<frame>>), q)
      /\ Len(usbPktGen(Packet("SOF", <<frame>>))) = 32
  BY SofGenerated
<1>2. q = Packet("SOF", <<Sof(frame).off>>)
  BY DEF Sof, Pkt
<1> HIDE DEF q
<1>3. Received(raw, Packet("SOF", <<frame>>)) = q
  BY <1>1, ReceivedIs
<1> QED BY <1>2, <1>3

\* A frame number arrives modulo 2048, as UsbPacket says.
THEOREM FrameArrives ==
    \A frame \in FrameNumbers : \A n \in Nat : \A raw \in BitStrings(n) : n >= 32 =>
        Received(raw, Packet("SOF", <<frame>>)) = Packet("SOF", <<Sof(frame).off>>)
<1>1. \A frame \in FrameNumbers : frame \in Nat
  BY DEF FrameNumbers
<1> QED BY <1>1, FrameReceived

\* A payload of whole bytes arrives bit for bit, whatever it holds and however long it
\* is, up to the 64 bytes that are sent and to what rawbuf can hold.
THEOREM PayloadArrives ==
    \A pid \in DataPids : \A k \in 0..8 * 64 : \A bits \in BitStrings(k) :
        \A n \in Nat : \A raw \in BitStrings(n) : k % 8 = 0 /\ n >= k + 32 =>
            Received(raw, Packet(pid, bits)) = Packet(pid, bits)
<1> SUFFICES ASSUME NEW pid \in DataPids, NEW k \in 0..8 * 64, NEW bits \in BitStrings(k),
                    NEW n \in Nat, NEW raw \in BitStrings(n), k % 8 = 0, n >= k + 32
             PROVE  Received(raw, Packet(pid, bits)) = Packet(pid, bits)
  OBVIOUS
<1> DEFINE p == Packet(pid, bits)
<1>1. ReadAs(p, p) /\ Len(usbPktGen(p)) = k + 32
  BY DataGenerated
<1> HIDE DEF p
<1>2. Received(raw, p) = p
  BY <1>1, ReceivedIs
<1> QED BY <1>2 DEF p

-----------------------------------------------------------------------------
(***************************************************************************)
(* The decoder sample by sample: after each it is where nrziDec would be   *)
(* with the samples up to this one.                                        *)
(***************************************************************************)
LineStates == {"J", "K", "SE0", "SE1"}

DecodesTo(line, n, dec) ==
    dec[0] = DecStart /\ \A i \in 1..n : dec[i] = DecodeSample(dec[i - 1], line[i])

LEMMA SameRecursion ==
    ASSUME NEW line, NEW n \in Nat, NEW f, NEW g, DecodesTo(line, n, f), DecodesTo(line, n, g)
    PROVE  f[n] = g[n]
<1> DEFINE good == {m \in 0..n : f[m] = g[m]}
<1>1. 0 \in good
  BY DEF DecodesTo
<1>2. ASSUME NEW m \in 0..n - 1, m \in good PROVE m + 1 \in good
  <2>1. m + 1 \in 1..n /\ (m + 1) - 1 = m
    OBVIOUS
  <2>2. f[m + 1] = DecodeSample(f[m], line[m + 1]) /\ g[m + 1] = DecodeSample(g[m], line[m + 1])
    BY <2>1 DEF DecodesTo
  <2> QED BY <1>2, <2>1, <2>2
<1>3. 0..n \subseteq good
  <2> HIDE DEF good
  <2> QED BY <1>1, <1>2, UpTo
<1> QED BY <1>3

LEMMA DecodesAlong ==
    ASSUME NEW line \in Seq(LineStates)
    PROVE  \E dec : DecodesTo(line, Len(line), dec) /\ nrziDec(line) = dec[Len(line)]
BY nrziDecRecursion DEF DecodesTo, LineStates

LEMMA NothingDecoded == nrziDec(<<>>) = DecStart
<1>1. <<>> \in Seq(LineStates) /\ Len(<<>>) = 0
  OBVIOUS
<1> QED BY <1>1, DecodesAlong DEF DecodesTo

LEMMA PrefixDecoded ==
    ASSUME NEW line \in Seq(LineStates), NEW k \in Nat, k < Len(line)
    PROVE  nrziDec(SubSeq(line, 1, k + 1)) = DecodeSample(nrziDec(SubSeq(line, 1, k)), line[k + 1])
<1> DEFINE short == SubSeq(line, 1, k)
           long == SubSeq(line, 1, k + 1)
<1>1. /\ short \in Seq(LineStates) /\ Len(short) = k
      /\ long \in Seq(LineStates) /\ Len(long) = k + 1
      /\ \A i \in 1..k : short[i] = line[i] /\ long[i] = line[i]
      /\ long[k + 1] = line[k + 1]
  OBVIOUS
<1> HIDE DEF short, long
<1>2. PICK f : DecodesTo(short, k, f) /\ nrziDec(short) = f[k]
  BY <1>1, DecodesAlong
<1>3. PICK g : DecodesTo(long, k + 1, g) /\ nrziDec(long) = g[k + 1]
  <2>1. PICK g : DecodesTo(long, Len(long), g) /\ nrziDec(long) = g[Len(long)]
    BY <1>1, DecodesAlong
  <2> QED BY <1>1, <2>1
<1>4. DecodesTo(short, k, g)
  <2>1. ASSUME NEW i \in 1..k PROVE g[i] = DecodeSample(g[i - 1], short[i])
    <3>1. i \in 1..k + 1
      OBVIOUS
    <3>2. g[i] = DecodeSample(g[i - 1], long[i])
      BY <1>3, <3>1 DEF DecodesTo
    <3> QED BY <1>1, <3>2
  <2> QED BY <1>3, <2>1 DEF DecodesTo
<1>5. f[k] = g[k]
  BY <1>2, <1>4, SameRecursion
<1>6. g[k + 1] = DecodeSample(g[k], long[k + 1])
  <2>1. k + 1 \in 1..k + 1 /\ (k + 1) - 1 = k
    OBVIOUS
  <2> QED BY <1>3, <2>1 DEF DecodesTo
<1> QED BY <1>1, <1>2, <1>3, <1>5, <1>6 DEF short, long

\* The samples of a packet: levels of which the first is a K, and an end of packet.
Framed(line, n) ==
    /\ line \in Seq(LineStates) /\ n \in Nat \ {0} /\ Len(line) = n + 3
    /\ line[1] = "K" /\ \A i \in 1..n : line[i] \in Levels
    /\ line[n + 1] = "SE0" /\ line[n + 2] = "SE0" /\ line[n + 3] = "J"

LEMMA WireFramed ==
    ASSUME NEW p, NEW q, ReadAs(p, q)
    PROVE  /\ Framed(Wire(p), Len(Wire(p)) - 3)
           /\ nrziDec(Wire(p)).bits = usbPktGen(p) /\ nrziDec(Wire(p)).status = "done"
<1> DEFINE gen == usbPktGen(p)
<1>1. gen \in Seq(0..1) /\ Len(gen) > 0 /\ gen[1] = 0
  BY DEF ReadAs
<1>2. Wire(p) = nrziEnc(gen)
  BY DEF Wire
<1> HIDE DEF gen
<1>3. PICK line \in Seq(Levels) : nrziEnc(gen) = line \o EOP /\ Len(line) > 0 /\ line[1] = "K"
  BY <1>1, EncodedLine
<1> DEFINE wire == line \o EOP
           n == Len(line)
<1>4. /\ wire \in Seq(LineStates) /\ n \in Nat \ {0} /\ Len(wire) = n + 3
      /\ \A i \in 1..n : wire[i] = line[i]
      /\ wire[n + 1] = "SE0" /\ wire[n + 2] = "SE0" /\ wire[n + 3] = "J"
  BY <1>3 DEF EOP, Levels, LineStates
<1>5. \A i \in 1..n : line[i] \in Levels
  OBVIOUS
<1> HIDE DEF wire, n
<1>6. wire[1] = "K"
  <2>1. 1 \in 1..n
    BY <1>4
  <2> QED BY <1>3, <1>4, <2>1
<1>7. Framed(wire, n)
  BY <1>4, <1>5, <1>6 DEF Framed
<1>8. Wire(p) = wire /\ n = Len(wire) - 3
  BY <1>2, <1>3, <1>4 DEF wire
<1>9. nrziDec(Wire(p)).bits = gen /\ nrziDec(Wire(p)).status = "done"
  BY <1>1, <1>2, LineCodeLossless
<1> QED BY <1>7, <1>8, <1>9 DEF gen

=============================================================================
