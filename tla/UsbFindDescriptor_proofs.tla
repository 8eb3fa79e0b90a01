----------------------- MODULE UsbFindDescriptor_proofs -----------------------
(***************************************************************************)
(* What usbHostFindDescriptor copies, for every buffer that descriptors    *)
(* are packed into, whatever lies behind them and wherever len cuts it.    *)
(***************************************************************************)
EXTENDS UsbFindDescriptor, TLAPS

\* The bytes the loop looks at, at the start of a descriptor.
LEMMA Header ==
    ASSUME NEW b \in Buffers, NEW i \in 1..Len(b.descs)
    PROVE  LET d == b.descs[i] IN
           /\ d.at \in Nat /\ d.bLength \in Nat /\ d.bLength > 2
           /\ b.raw[d.at] = d.bLength
           /\ b.raw[d.at + 1] = d.type /\ b.raw[d.at + 2] = d.third
           /\ i = Len(b.descs) => d.at + d.bLength = b.end
           /\ i # Len(b.descs) => d.at + d.bLength = b.descs[i + 1].at
<1>1. b.descs \in Seq(Places) /\ Packed(b)
  BY FindAssumption
<1>2. b.descs[i] \in Places
  BY <1>1
<1>3. b.descs[i].at \in Nat /\ b.descs[i].bLength \in Nat
  BY <1>2 DEF Places
<1> QED BY <1>1, <1>3 DEF Packed

\* The length byte that the loop reads behind the last descriptor.
LEMMA Behind ==
    ASSUME NEW b \in Buffers
    PROVE  b.end \in Nat /\ b.raw[b.end] \in 0..255
<1>1. b.end \in Nat /\ Packed(b)
  BY FindAssumption
<1>2. b.raw \in [0..b.end + 2 -> 0..255] /\ b.end \in 0..b.end + 2
  BY <1>1 DEF Packed
<1> QED BY <1>1, <1>2

\* At a descriptor the loop compares what the search wants.
LEMMA MatchesFits ==
    ASSUME buf \in Buffers, NEW i \in 1..Len(buf.descs), idx = buf.descs[i].at
    PROVE  /\ Matches <=> Fits(buf.descs[i])
           /\ bLength = buf.descs[i].bLength
BY Header DEF Matches, Fits, bLength, bDescriptorType, descIndex

-----------------------------------------------------------------------------
Before(i) == \A j \in 1..i - 1 : ~Fits(buf.descs[j])

NoneFits == \A j \in 1..Len(buf.descs) : ~Fits(buf.descs[j])

LEMMA FoundKeeps ==
    ASSUME AtDescriptor, Found
    PROVE  AtDescriptor' /\ FindsFirst'
<1>1. /\ buf \in Buffers /\ want \in Wanted /\ len \in Nat /\ len <= buf.end
      /\ UNCHANGED <<buf, len, want>> /\ pc' = "done" /\ pc = "search" /\ Matches
  BY DEF AtDescriptor, Found, Args
<1>2. AtDescriptor'
  BY <1>1 DEF AtDescriptor
<1>3. CASE error' = "ERROR"
  BY <1>2, <1>3 DEF FindsFirst
<1>4. CASE error' # "ERROR"
  <2>1. descdata' = <<idx, bLength>> /\ idx + bLength <= len
    BY <1>4 DEF Found
  <2>2. ASSUME idx = buf.end, NoneFits
        PROVE  FindsFirst'
    <3>1. bLength = 0 /\ len = buf.end
      BY <1>1, <2>1, <2>2, Behind DEF bLength
    <3>2. bDescriptorType = want[1]
      BY <1>1 DEF Matches
    <3>3. descdata' = <<buf.end, 0>>
      BY <2>1, <2>2, <3>1
    <3>4. EmptyMatch'
      BY <1>1, <2>2, <3>1, <3>2, <3>3
         DEF EmptyMatch, NoneFits, Fits, bLength, bDescriptorType
    <3> QED BY <3>4 DEF FindsFirst
  <2>3. ASSUME NEW i \in 1..Len(buf.descs), idx = buf.descs[i].at, Before(i)
        PROVE  FindsFirst'
    <3>1. Fits(buf.descs[i]) /\ bLength = buf.descs[i].bLength
      BY <1>1, <2>3, MatchesFits
    <3>2. First(i) /\ Ending(i) <= len
      BY <2>1, <2>3, <3>1 DEF First, Ending, Before
    <3>3. descdata' = <<buf.descs[i].at, buf.descs[i].bLength>>
      BY <2>1, <2>3, <3>1
    <3>4. First(i)' /\ Ending(i)' <= len'
      BY <1>1, <3>2 DEF First, Ending, Fits
    <3> QED BY <1>1, <3>3, <3>4 DEF FindsFirst
  <2> QED BY <1>1, <1>2, <2>2, <2>3 DEF AtDescriptor, Before, NoneFits
<1> QED BY <1>3, <1>4

LEMMA SkipKeeps ==
    ASSUME AtDescriptor, Skip
    PROVE  AtDescriptor' /\ FindsFirst'
<1>1. /\ buf \in Buffers /\ want \in Wanted /\ len \in Nat /\ len <= buf.end
      /\ UNCHANGED <<buf, len, want>> /\ pc' = "search" /\ pc = "search" /\ ~Matches
      /\ idx' = idx + bLength /\ idx + bLength <= len
  BY DEF AtDescriptor, Skip, Args
<1>2. FindsFirst'
  BY <1>1 DEF FindsFirst
<1>3. ASSUME idx = buf.end, NoneFits
      PROVE  AtDescriptor'
  <2>1. bLength = 0 /\ idx' = buf.end'
    BY <1>1, <1>3, Behind DEF bLength
  <2> QED BY <1>1, <1>3, <2>1 DEF AtDescriptor, NoneFits, Fits
<1>4. ASSUME NEW i \in 1..Len(buf.descs), idx = buf.descs[i].at, Before(i)
      PROVE  AtDescriptor'
  <2>1. ~Fits(buf.descs[i]) /\ bLength = buf.descs[i].bLength
    BY <1>1, <1>4, MatchesFits
  <2>2. CASE i = Len(buf.descs)
    <3>1. idx' = buf.end'
      BY <1>1, <1>4, <2>1, <2>2, Header
    <3>2. NoneFits
      <4>1. Len(buf.descs) \in Nat
        BY <1>1, FindAssumption
      <4>2. \A j \in 1..Len(buf.descs) : j = i \/ j \in 1..i - 1
        BY <2>2, <4>1
      <4> QED BY <1>4, <2>1, <4>2 DEF Before, NoneFits
    <3> QED BY <1>1, <3>1, <3>2 DEF AtDescriptor, NoneFits, Fits
  <2>3. CASE i # Len(buf.descs)
    <3>1. idx' = buf.descs[i + 1].at
      BY <1>1, <1>4, <2>1, <2>3, Header
    <3>2. i + 1 \in 1..Len(buf.descs)
      <4>1. Len(buf.descs) \in Nat
        BY <1>1, FindAssumption
      <4> QED BY <2>3, <4>1
    <3>3. Before(i + 1)
      BY <1>4, <2>1 DEF Before
    <3>4. \E k \in 1..Len(buf.descs) : idx' = buf.descs[k].at /\ Before(k)
      BY <3>1, <3>2, <3>3
    <3> QED BY <1>1, <3>4 DEF AtDescriptor, Before, Fits
  <2> QED BY <2>2, <2>3
<1> QED BY <1>1, <1>2, <1>3, <1>4 DEF AtDescriptor, Before, NoneFits

\* A search that reports success has copied the whole of the first descriptor of the
\* kind that is wanted, and no byte from behind len.  Where no descriptor is of that
\* kind it may report success as well, but then has copied nothing.  The bytes behind
\* the descriptors are any.
THEOREM SearchSound == Spec => []FindsFirst
<1>1. Init => AtDescriptor /\ FindsFirst
  <2> SUFFICES ASSUME Init PROVE AtDescriptor /\ FindsFirst
    OBVIOUS
  <2>1. Packed(buf) /\ buf.descs \in Seq(Places) /\ buf.end \in Nat
    BY FindAssumption DEF Init
  <2>2. 1 \in 1..Len(buf.descs) /\ idx = buf.descs[1].at
    BY <2>1 DEF Init, Packed
  <2>3. \E i \in 1..Len(buf.descs) :
            idx = buf.descs[i].at /\ \A j \in 1..i - 1 : ~Fits(buf.descs[j])
    BY <2>2
  <2> QED BY <2>1, <2>3 DEF Init, AtDescriptor, FindsFirst
<1>2. AtDescriptor /\ FindsFirst /\ [Next]_vars => (AtDescriptor /\ FindsFirst)'
  <2> SUFFICES ASSUME AtDescriptor, FindsFirst, [Next]_vars
               PROVE  AtDescriptor' /\ FindsFirst'
    OBVIOUS
  <2>1. CASE Found
    BY <2>1, FoundKeeps
  <2>2. CASE Skip
    BY <2>2, SkipKeeps
  <2>3. CASE Overrun
    <3>1. pc' = "search" /\ UNCHANGED <<buf, len, want, idx, pc>>
      BY <2>3 DEF Overrun, Args
    <3> QED BY <3>1 DEF AtDescriptor, FindsFirst, Fits
  <2>4. CASE UNCHANGED vars
    BY <2>4 DEF vars, AtDescriptor, FindsFirst, First, Ending, Fits, EmptyMatch
  <2> QED BY <2>1, <2>2, <2>3, <2>4 DEF Next
<1> QED BY <1>1, <1>2, PTL DEF Spec

=============================================================================
