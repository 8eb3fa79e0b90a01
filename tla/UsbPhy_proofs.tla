----------------------------- MODULE UsbPhy_proofs -----------------------------
(***************************************************************************)
(* Theorems about UsbPhy.  The decoder never looks for samples that        *)
(* apiWaitForPkt has not collected, whatever is sent and however many      *)
(* samples are struck; with one struck at most, the packets it leaves      *)
(* alone are delivered, and those whose end it strikes are refused.        *)
(***************************************************************************)
EXTENDS UsbPhy, UsbPktCodec_proofs

\* What nrziDec goes on with: the samples that the buffer holds.
Before == IF bitcount = 0 THEN DecStart ELSE dec

LEMMA BeforeInStep ==
    ASSUME EopInStep, Before.status = "more"
    PROVE  Before.se0 = eop_count
BY DEF EopInStep, Before, DecStart

\* One sample of an end of packet takes the decoder one step on.
LEMMA DecoderMoves ==
    ASSUME NEW d, NEW l, DecodeSample(d, l).status = "more"
    PROVE  /\ d.status = "more" /\ d.se0 # 2
           /\ l = "SE0" => DecodeSample(d, l).se0 = d.se0 + 1
           /\ l # "SE0" => d.se0 # 1 /\ DecodeSample(d, l).se0 = 0
<1>1. d.status = "more"
  BY DEF DecodeSample
<1>2. ~Wrong(d, l) /\ d.se0 # 2
  BY <1>1 DEF DecodeSample, DecodeEnd
<1>3. l = "SE0" => DecodeSample(d, l) = DecodeEnd(d, d.se0 + 1, "more")
  BY <1>1, <1>2 DEF DecodeSample
<1>4. l # "SE0" => DecodeSample(d, l) = DecodeLevel(d, l)
  BY <1>1, <1>2 DEF DecodeSample
<1> QED BY <1>1, <1>2, <1>3, <1>4 DEF DecodeEnd, DecodeLevel, Wrong

-----------------------------------------------------------------------------
\* The ways a sample is taken.
LEMMA ReturnInStep ==
    ASSUME EopInStep, NEW status, Rx!Returns(status), status # "PACKET", NEW l, Collect(l)
    PROVE  EopInStep' /\ NeverReadsAhead'
BY DEF EopInStep, NeverReadsAhead, Rx!Returns, Collect

LEMMA QuietInStep ==
    ASSUME EopInStep, idle \/ lookforreset, NEW l, NEW looking, NEW count,
           Rx!Quiet(l, looking, count), Collect(l)
    PROVE  EopInStep' /\ NeverReadsAhead'
<1>1. CASE Rx!SuspendDue
  BY <1>1, ReturnInStep DEF Rx!Quiet
<1>2. CASE ~Rx!SuspendDue /\ Rx!TimeoutDue
  BY <1>2, ReturnInStep DEF Rx!Quiet
<1>3. CASE ~Rx!SuspendDue /\ ~Rx!TimeoutDue
  <2>1. ret' = "none" /\ bitcount = 0 /\ UNCHANGED <<bitcount, eop_count>>
    BY <1>3 DEF Rx!Quiet, EopInStep
  <2> QED BY <2>1 DEF EopInStep, NeverReadsAhead
<1> QED BY <1>1, <1>2, <1>3

LEMMA BitInStep ==
    ASSUME EopInStep, NEW l, Rx!Bit(l), Collect(l)
    PROVE  EopInStep' /\ NeverReadsAhead'
<1> DEFINE d == DecodeSample(Before, l)
<1>1. d.status = "more" => /\ Before.se0 = eop_count /\ eop_count # 2
                           /\ l = "SE0" => d.se0 = eop_count + 1
                           /\ l # "SE0" => eop_count # 1 /\ d.se0 = 0
  BY BeforeInStep, DecoderMoves
<1>2. eop_count \in 0..2 /\ bitcount \in Nat
  BY DEF EopInStep
<1>3. CASE eop_count = 2
  <2>1. ret' = "PACKET" /\ bitcount' = 0 /\ eop_count' = 0
    BY <1>3 DEF Rx!Bit, Rx!Returns
  <2>2. dec' = d
    BY <2>1 DEF Collect, Before
  <2>3. d.status # "more"
    BY <1>1, <1>3
  <2> HIDE DEF d
  <2> QED BY <2>1, <2>2, <2>3 DEF EopInStep, NeverReadsAhead
<1>4. CASE eop_count # 2
  <2>1. /\ ret' = "none" /\ ~idle' /\ ~lookforreset'
        /\ bitcount' = bitcount + 1
        /\ eop_count' = IF eop_count > 0 \/ l = "SE0" THEN eop_count + 1 ELSE 0
    BY <1>4 DEF Rx!Bit
  <2>2. dec' = d
    BY <1>2, <2>1 DEF Collect, Before
  <2> HIDE DEF d
  <2>3. eop_count' \in 0..2 /\ bitcount' \in Nat /\ bitcount' > 0
    BY <1>2, <1>4, <2>1
  <2>4. d.status = "more" => d.se0 = eop_count'
    BY <1>1, <1>2, <2>1
  <2> QED BY <2>1, <2>2, <2>3, <2>4 DEF EopInStep, NeverReadsAhead
<1> QED BY <1>3, <1>4

LEMMA ReceiveInStep ==
    ASSUME EopInStep, NEW l, Receive(l)
    PROVE  EopInStep' /\ NeverReadsAhead'
<1>1. Collect(l) /\ Rx!apiWaitForPkt(l)
  BY DEF Receive, Rx!Sample
<1>2. CASE Rx!Disconnected(l)
  BY <1>1, <1>2, ReturnInStep DEF Rx!Disconnected
<1>3. CASE Rx!EndOfSe0(l)
  BY <1>1, <1>3, ReturnInStep DEF Rx!EndOfSe0
<1>4. CASE Rx!Se0(l)
  BY <1>1, <1>4, QuietInStep DEF Rx!Se0
<1>5. CASE Rx!Idle(l)
  BY <1>1, <1>5, QuietInStep DEF Rx!Idle
<1>6. CASE Rx!Bit(l)
  BY <1>1, <1>6, BitInStep
<1> QED BY <1>1, <1>2, <1>3, <1>4, <1>5, <1>6 DEF Rx!apiWaitForPkt

-----------------------------------------------------------------------------
\* apiWaitForPkt stops at the third sample from the first SE0, and nrziDec, which is
\* given no length, has always returned by then.
THEOREM DecoderStaysInPacket == Spec => []NeverReadsAhead
<1>1. Init => EopInStep /\ NeverReadsAhead
  BY DEF Init, Rx!Init, EopInStep, NeverReadsAhead
<1>2. EopInStep /\ NeverReadsAhead /\ [Next]_vars => (EopInStep /\ NeverReadsAhead)'
  <2> SUFFICES ASSUME EopInStep, NeverReadsAhead, [Next]_vars
               PROVE  EopInStep' /\ NeverReadsAhead'
    OBVIOUS
  <2>1. CASE apiSendPacket \/ apiSendReset
    <3>1. UNCHANGED rxVars
      BY <2>1 DEF apiSendPacket, apiSendReset, Drive
    <3> QED BY <3>1 DEF rxVars, EopInStep, NeverReadsAhead
  <2>2. CASE Clean
    BY <2>2, ReceiveInStep DEF Clean
  <2>3. CASE Struck
    BY <2>3, ReceiveInStep DEF Struck
  <2>4. CASE Finished \/ UNCHANGED vars
    BY <2>4 DEF Finished, vars, rxVars, EopInStep, NeverReadsAhead
  <2> QED BY <2>1, <2>2, <2>3, <2>4 DEF Next
<1> QED BY <1>1, <1>2, PTL DEF Spec

-----------------------------------------------------------------------------
(***************************************************************************)
(* What is sent.                                                           *)
(***************************************************************************)
LEMMA FaithfulRead ==
    ASSUME NEW p, Faithful(p)
    PROVE  /\ ReadAs(p, p) /\ Len(usbPktGen(p)) <= RAWBITS /\ Generable(p)
           /\ p # Nothing /\ p # ResetSe0
<1>0. RAWBITS \in Nat /\ RAWBITS > 32
  BY PhyAssumption
<1>1. CASE FaithfulToken(p)
  <2> DEFINE pid == p.pid
             a == p.args[1]
             e == p.args[2]
  <2>1. /\ pid \in Tokens /\ p = Packet(pid, <<a, e>>) /\ a \in 0..127 /\ e \in 0..15
    BY <1>1 DEF FaithfulToken
  <2> HIDE DEF pid, a, e
  <2>2. e \in EndpBytes /\ EpDir(e) = 0 /\ EpIdx(e) = e /\ e % 128 = e
    BY <2>1 DEF EndpBytes, EpDir, EpIdx
  <2>3. TokenIntact(a, e)
    BY <2>2 DEF TokenIntact
  <2>4. ReadAs(p, p) /\ Len(usbPktGen(p)) = 32
    <3>1. /\ ReadAs(Packet(pid, <<a, e>>),
                    IF TokenIntact(a, e) THEN Packet(pid, <<a, EpIdx(e)>>) ELSE Refused)
          /\ Len(usbPktGen(Packet(pid, <<a, e>>))) = 32
      BY <2>1, <2>2, TokenGenerated
    <3> QED BY <2>1, <2>2, <2>3, <3>1
  <2>5. /\ p.pid = pid /\ p.args[1] = a /\ p.args[2] = e
        /\ pid # "NONE" /\ pid # "RESET" /\ pid # "SOF" /\ pid \notin DataPids
    BY <2>1 DEF Packet, Tokens, DataPids
  <2>6. Generable(p)
    <3>1. p.args[1] <= 127 /\ p.args[2] % 128 <= 15
      BY <2>1, <2>2, <2>5
    <3>2. p.pid \in Tokens /\ p.pid # "SOF" /\ p.pid \notin DataPids
      BY <2>1, <2>5
    <3> QED BY <3>1, <3>2 DEF Generable, TokenGenerable
  <2> QED BY <1>0, <2>4, <2>5, <2>6 DEF Nothing, ResetSe0, Packet
<1>2. CASE FaithfulFrame(p)
  <2>1. PICK f \in ElevenBits : p = Packet("SOF", <<f>>)
    BY <1>2 DEF FaithfulFrame
  <2>2. p.pid = "SOF" /\ p.args[1] = f /\ "SOF" \notin Tokens /\ "SOF" \notin DataPids
    BY <2>1 DEF Packet, Tokens, DataPids
  <2>3. f \in Nat /\ f % 2048 = f /\ f <= 4095
    BY ONLY f \in ElevenBits DEF ElevenBits
  <2>4. ReadAs(p, p) /\ Len(usbPktGen(p)) = 32
    BY <2>1, <2>3, SofGenerated
  <2>5. Generable(p)
    BY <2>2, <2>3 DEF Generable
  <2>6. p # Nothing /\ p # ResetSe0
    <3>1. Nothing.pid = "NONE" /\ ResetSe0.pid = "RESET"
      BY DEF Nothing, ResetSe0, Packet
    <3> QED BY <2>2, <3>1
  <2> QED BY <1>0, <2>4, <2>5, <2>6
<1>3. CASE FaithfulData(p)
  <2> DEFINE pid == p.pid
             bits == p.args
  <2>1. PICK k \in 0..64 : bits \in [1..8 * k -> 0..1] /\ 8 * k + 32 <= RAWBITS
    BY <1>3 DEF FaithfulData
  <2> DEFINE m == 8 * k
  <2>2. m \in Nat /\ m % 8 = 0 /\ m <= 8 * 64 /\ m + 32 <= RAWBITS
    BY <2>1
  <2>3. bits \in BitStrings(m)
    BY <2>1 DEF BitStrings
  <2>4. pid \in DataPids /\ p = Packet(pid, bits)
    BY <1>3 DEF FaithfulData
  <2> HIDE DEF m, bits, pid
  <2>5. ReadAs(p, p) /\ Len(usbPktGen(p)) = m + 32
    BY <2>2, <2>3, <2>4, DataGenerated
  <2>6. p.pid = pid /\ pid # "NONE" /\ pid # "RESET" /\ pid \notin Tokens /\ pid # "SOF"
    BY <2>4 DEF Packet, Tokens, DataPids
  <2>7. Generable(p)
    <3>1. Len(bits) = m
      BY <2>2, <2>3, BitString
    <3> QED BY <2>2, <2>4, <2>6, <3>1 DEF Generable, MaxData, bits
  <2> QED BY <1>0, <2>2, <2>5, <2>6, <2>7 DEF Nothing, ResetSe0, Packet
<1>4. CASE FaithfulHandshake(p)
  <2> DEFINE pid == p.pid
  <2>1. pid \in Handshakes /\ p = Packet(pid, <<>>)
    BY <1>4 DEF FaithfulHandshake
  <2>2. /\ pid # "NONE" /\ pid # "RESET"
        /\ pid \notin Tokens /\ pid # "SOF" /\ pid \notin DataPids
    BY <2>1 DEF Tokens, DataPids, Handshakes
  <2>3. Generable(p)
    BY <2>1, <2>2 DEF Generable
  <2>4. p # Nothing /\ p # ResetSe0
    BY <2>2 DEF Nothing, ResetSe0, Packet
  <2> HIDE DEF pid
  <2>5. ReadAs(p, p) /\ Len(usbPktGen(p)) = 16
    BY <2>1, HandshakeGenerated
  <2> QED BY <1>0, <2>3, <2>4, <2>5
<1> QED BY <1>1, <1>2, <1>3, <1>4 DEF Faithful

-----------------------------------------------------------------------------
(***************************************************************************)
(* The receiver: waiting for a packet, or within one with e samples of its *)
(* end of packet counted.                                                  *)
(***************************************************************************)
Waiting     == (idle \/ lookforreset) /\ bitcount = 0 /\ eop_count = 0
Resting     == idle /\ ~lookforreset /\ bitcount = 0 /\ eop_count = 0
InPacket(e) == ~idle /\ ~lookforreset /\ bitcount \in Nat \ {0} /\ eop_count = e

LEMMA RestingWaits == Resting => Waiting
BY DEF Resting, Waiting

LEMMA ReturnRests ==
    ASSUME NEW status, Rx!Returns(status)
    PROVE  Resting' /\ Waiting' /\ ret' = status
BY DEF Rx!Returns, Resting, Waiting

LEMMA QuietWaits ==
    ASSUME Waiting, NEW l, NEW looking \in BOOLEAN, NEW count, Rx!Quiet(l, looking, count),
           ~looking => idle
    PROVE  Waiting' /\ ret' # "PACKET" /\ (~looking => Resting')
<1>1. CASE Rx!SuspendDue
  BY <1>1, ReturnRests DEF Rx!Quiet
<1>2. CASE ~Rx!SuspendDue /\ Rx!TimeoutDue
  BY <1>2, ReturnRests DEF Rx!Quiet
<1>3. CASE ~Rx!SuspendDue /\ ~Rx!TimeoutDue
  <2>1. /\ ret' = "none" /\ idle' = (IF looking THEN FALSE ELSE idle)
        /\ lookforreset' = looking /\ UNCHANGED <<eop_count, bitcount>>
    BY <1>3 DEF Rx!Quiet
  <2> QED BY <2>1 DEF Waiting, Resting
<1> QED BY <1>1, <1>2, <1>3

\* What starts no packet leaves it waiting; the idle level brings it to rest.
LEMMA WaitingHears ==
    ASSUME Waiting, NEW l, l # "K", Rx!apiWaitForPkt(l)
    PROVE  Waiting' /\ ret' # "PACKET" /\ (l = "J" => Resting')
<1>1. CASE Rx!Disconnected(l)
  BY <1>1, ReturnRests DEF Rx!Disconnected
<1>2. CASE Rx!EndOfSe0(l)
  BY <1>2, ReturnRests DEF Rx!EndOfSe0
<1>3. CASE Rx!Se0(l)
  <2>1. l = "SE0" /\ \E count : Rx!Quiet(l, TRUE, count)
    BY <1>3 DEF Rx!Se0
  <2> QED BY <2>1, QuietWaits
<1>4. CASE Rx!Idle(l)
  <2>1. idle /\ Rx!Quiet(l, FALSE, rstcount)
    BY <1>4 DEF Rx!Idle
  <2> QED BY <2>1, QuietWaits
<1>5. CASE Rx!Bit(l)
  BY <1>5 DEF Rx!Bit, Waiting
<1> QED BY <1>1, <1>2, <1>3, <1>4, <1>5 DEF Rx!apiWaitForPkt

LEMMA WaitingHearsK ==
    ASSUME Waiting, Rx!apiWaitForPkt("K")
    PROVE  /\ Resting' \/ InPacket(0)'
           /\ ret' # "PACKET"
           /\ Resting => InPacket(0)' /\ ret' = "none" /\ bitcount' > bitcount
<1>1. CASE Rx!EndOfSe0("K")
  BY <1>1, ReturnRests DEF Rx!EndOfSe0, Resting
<1>2. CASE Rx!Bit("K")
  BY <1>2 DEF Rx!Bit, Waiting, InPacket
<1> QED BY <1>1, <1>2 DEF Rx!apiWaitForPkt, Rx!Disconnected, Rx!Se0, Rx!Idle

LEMMA PacketHears ==
    ASSUME NEW e, InPacket(e), NEW l, Rx!apiWaitForPkt(l)
    PROVE  Rx!Bit(l)
BY DEF InPacket, Rx!apiWaitForPkt, Rx!Disconnected, Rx!EndOfSe0, Rx!Se0, Rx!Idle

LEMMA PacketGoesOn ==
    ASSUME NEW e \in 0..1, InPacket(e), NEW l, Rx!apiWaitForPkt(l)
    PROVE  /\ ret' = "none" /\ bitcount' > bitcount
           /\ InPacket(IF e = 1 \/ l = "SE0" THEN e + 1 ELSE 0)'
<1>1. Rx!Bit(l) /\ eop_count = e /\ bitcount \in Nat \ {0} /\ ~lookforreset
  BY PacketHears DEF InPacket
<1>2. /\ ret' = "none" /\ idle' = FALSE /\ bitcount' = bitcount + 1
      /\ eop_count' = (IF eop_count > 0 \/ l = "SE0" THEN eop_count + 1 ELSE 0)
      /\ UNCHANGED lookforreset
  BY <1>1 DEF Rx!Bit
<1> QED BY <1>1, <1>2 DEF InPacket

LEMMA PacketOver ==
    ASSUME InPacket(2), NEW l, Rx!apiWaitForPkt(l)
    PROVE  ret' = "PACKET" /\ Resting' /\ Waiting'
<1>1. Rx!Bit(l) /\ eop_count = 2
  BY PacketHears DEF InPacket
<1>2. Rx!Returns("PACKET")
  BY <1>1 DEF Rx!Bit
<1> QED BY <1>2, ReturnRests

Somewhere == Waiting \/ InPacket(0) \/ InPacket(1) \/ InPacket(2)

LEMMA SomewhereHears ==
    ASSUME Somewhere, NEW l, Rx!apiWaitForPkt(l)
    PROVE  Somewhere'
<1>1. CASE Waiting /\ l # "K"
  BY <1>1, WaitingHears DEF Somewhere
<1>2. CASE Waiting /\ l = "K"
  BY <1>2, WaitingHearsK, RestingWaits DEF Somewhere, Waiting, Resting
<1>3. CASE InPacket(0)
  <2>1. InPacket(IF l = "SE0" THEN 1 ELSE 0)'
    BY <1>3, PacketGoesOn
  <2> QED BY <2>1 DEF Somewhere
<1>4. CASE InPacket(1)
  <2>1. InPacket(2)'
    BY <1>4, PacketGoesOn
  <2> QED BY <2>1 DEF Somewhere
<1>5. CASE InPacket(2)
  BY <1>5, PacketOver DEF Somewhere
<1> QED BY <1>1, <1>2, <1>3, <1>4, <1>5 DEF Somewhere

-----------------------------------------------------------------------------
(***************************************************************************)
(* What the receiver has collected.                                        *)
(***************************************************************************)
Error == dec.status = "error"

Held ==
    /\ dec \in Decoders /\ rawbuf \in BitStrings(RAWBITS)
    /\ Somewhere /\ EopInStep
    /\ bitcount > 0 => dec.status # "done"

LEMMA CollectBit ==
    ASSUME NEW l, Collect(l), ret' = "none", bitcount' > bitcount
    PROVE  dec' = DecodeSample(Before, l) /\ got' = Nothing /\ UNCHANGED rawbuf
BY DEF Collect, Before

LEMMA CollectNothing ==
    ASSUME NEW l, Collect(l), ret' # "PACKET"
    PROVE  /\ got' = Nothing /\ UNCHANGED rawbuf
           /\ dec' = dec \/ dec' = DecodeSample(Before, l)
BY DEF Collect, Before

LEMMA CollectPacket ==
    ASSUME NEW l, Collect(l), ret' = "PACKET"
    PROVE  /\ dec' = DecodeSample(Before, l) /\ rawbuf' = Stored(rawbuf, dec')
           /\ got' = IF dec'.status = "more" THEN OutOfBuffer
                     ELSE usbPktDecode(Stored(rawbuf, dec'), BitCount(dec'))
BY DEF Collect, Before

LEMMA ErrorStays ==
    ASSUME NEW d, d.status = "error", NEW l
    PROVE  DecodeSample(d, l) = d
BY DEF DecodeSample

LEMMA ErrorIsRefused ==
    ASSUME NEW raw, NEW d, d.status = "error"
    PROVE  usbPktDecode(raw, BitCount(d)) = Refused
<1>1. BitCount(d) = -1
  BY DEF BitCount
<1>2. -1 < 16
  OBVIOUS
<1> HIDE DEF PidName
<1> QED BY <1>1, <1>2 DEF usbPktDecode

LEMMA DecStartDecodes == DecStart \in Decoders /\ DecStart.status = "more" /\ DecStart.se0 = 0
BY DEF DecStart, Decoders, Levels

\* The decoder is done only with the sample at which apiWaitForPkt returns.
LEMMA NotDoneYet ==
    ASSUME NEW d, d.status # "done", d.status = "more" => d.se0 # 2, NEW l
    PROVE  DecodeSample(d, l).status # "done"
BY DEF DecodeSample, DecodeEnd, DecodeLevel

LEMMA HeldKept ==
    ASSUME Held, NEW l \in LineStates, Receive(l)
    PROVE  Held'
<1>1. Collect(l) /\ Rx!apiWaitForPkt(l)
  BY DEF Receive, Rx!Sample
<1>2. Before \in Decoders
  BY DecStartDecodes DEF Held, Before
<1>3. DecodeSample(Before, l) \in Decoders
  BY <1>2, DecodeTyped DEF LineStates
<1>4. dec' \in Decoders /\ rawbuf' \in BitStrings(RAWBITS)
  <2>1. CASE ret' = "PACKET"
    <3>1. dec' \in Decoders /\ rawbuf' = Stored(rawbuf, dec')
      BY <1>1, <1>3, <2>1, CollectPacket
    <3>2. RAWBITS \in Nat /\ rawbuf \in BitStrings(RAWBITS)
      BY PhyAssumption DEF Held
    <3>3. Stored(rawbuf, dec') \in BitStrings(RAWBITS)
      BY <3>1, <3>2, StoredTyped
    <3> QED BY <3>1, <3>3
  <2>2. CASE ret' # "PACKET"
    BY <1>1, <1>3, <2>2, CollectNothing DEF Held
  <2> QED BY <2>1, <2>2
<1>5. Somewhere' /\ EopInStep'
  BY <1>1, SomewhereHears, ReceiveInStep DEF Held
<1>6. bitcount' > 0 => dec'.status # "done"
  <2>1. CASE Waiting /\ l # "K"
    <3>1. bitcount' = 0
      BY <1>1, <2>1, WaitingHears DEF Waiting
    <3> QED BY <3>1
  <2>2. CASE Waiting /\ l = "K" /\ ~lookforreset
    <3>1. Resting
      BY <2>2 DEF Waiting, Resting
    <3>2. ret' = "none" /\ bitcount' > bitcount /\ bitcount = 0
      BY <1>1, <2>2, <3>1, WaitingHearsK DEF Waiting
    <3>3. dec' = DecodeSample(DecStart, l)
      BY <1>1, <3>2, CollectBit DEF Before
    <3> QED BY <3>3, DecStartDecodes, NotDoneYet
  <2>3. CASE Waiting /\ l = "K" /\ lookforreset
    <3>1. bitcount' = 0
      BY <1>1, <2>3 DEF Rx!apiWaitForPkt, Rx!Disconnected, Rx!EndOfSe0, Rx!Se0, Rx!Idle,
                        Rx!Bit, Rx!Returns
    <3> QED BY <3>1
  <2>4. CASE InPacket(0) \/ InPacket(1)
    <3>1. PICK e \in 0..1 : InPacket(e)
      BY <2>4
    <3>2. ret' = "none" /\ bitcount' > bitcount
      BY <1>1, <3>1, PacketGoesOn
    <3>3. Before = dec /\ dec.status # "done" /\ (dec.status = "more" => dec.se0 # 2)
      BY <3>1 DEF Held, InPacket, EopInStep, Before
    <3>4. dec' = DecodeSample(dec, l)
      BY <1>1, <3>2, <3>3, CollectBit
    <3> QED BY <3>3, <3>4, NotDoneYet
  <2>5. CASE InPacket(2)
    <3>1. bitcount' = 0
      BY <1>1, <2>5, PacketOver DEF Waiting
    <3> QED BY <3>1
  <2> QED BY <2>1, <2>2, <2>3, <2>4, <2>5 DEF Held, Somewhere
<1> QED BY <1>4, <1>5, <1>6 DEF Held

-----------------------------------------------------------------------------
(***************************************************************************)
(* How far the receiver is with the packet being sent.                     *)
(***************************************************************************)

\* The sample that is sent when "left" of them are left, the idle time included.
Expected(p, left) ==
    IF left > Len(Wire(p)) THEN "J" ELSE Wire(p)[Len(Wire(p)) + 1 - left]

Remaining ==
    tx \in Seq(LineStates) /\ \A i \in 1..Len(tx) : tx[i] = Expected(cur, Len(tx) + 1 - i)

\* Samples of the packet that have been heard; below zero within the idle time.
Heard == Len(Wire(cur)) - Len(tx)

\* The next idle sample brings the receiver to rest: it waits, or it ends with that
\* sample what a strike has left it with.  What is left of a struck end of packet is
\* an error.
Ready == Waiting \/ (InPacket(2) /\ (Was("EOP") => Error))

\* No strike so far: the receiver is where the packet is.
Following ==
    /\ Heard < 0 => Ready
    /\ Heard = 0 => Resting
    /\ Heard > 0 /\ tx # <<>> => dec = nrziDec(SubSeq(Wire(cur), 1, Heard))
    /\ Heard > 0 /\ Len(tx) >= 3 => InPacket(0)
    /\ Heard > 0 /\ Len(tx) = 2 => InPacket(1)
    /\ Heard > 0 /\ Len(tx) = 1 => InPacket(2)
    /\ Heard > 0 /\ tx = <<>> => Resting /\ got = cur

\* Struck before its end: the end of packet ends whatever the receiver is in.
Recovering ==
    /\ Len(tx) = 1 => ~InPacket(0)
    /\ tx = <<>> => Ready

\* Its end of packet struck: the receiver is late with it, and has an error.
Spoilt ==
    /\ Len(tx) \in 0..2
    /\ Len(tx) = 2 => InPacket(0)
    /\ Len(tx) = 1 => InPacket(1) \/ (InPacket(2) /\ Error)
    /\ tx = <<>> => Ready

LEMMA FaithfulWire ==
    ASSUME NEW p, Faithful(p)
    PROVE  /\ Framed(Wire(p), Len(Wire(p)) - 3) /\ Len(Wire(p)) \in Nat
           /\ nrziDec(Wire(p)).bits = usbPktGen(p) /\ nrziDec(Wire(p)).status = "done"
<1>1. ReadAs(p, p)
  BY FaithfulRead
<1>2. Framed(Wire(p), Len(Wire(p)) - 3)
  BY <1>1, WireFramed
<1>3. Wire(p) \in Seq(LineStates)
  BY <1>2 DEF Framed
<1> QED BY <1>1, <1>2, <1>3, WireFramed

\* What is left of a packet from its end.
LEMMA ExpectedEnd ==
    ASSUME NEW p, Faithful(p)
    PROVE  /\ Expected(p, 3) = "SE0" /\ Expected(p, 2) = "SE0" /\ Expected(p, 1) = "J"
           /\ Len(Wire(p)) \in Nat /\ Len(Wire(p)) > 3
<1> DEFINE w == Wire(p)
           n == Len(w) - 3
<1>1. Framed(w, n) /\ Len(w) \in Nat
  BY FaithfulWire
<1>2. Expected(p, 3) = IF 3 > Len(w) THEN "J" ELSE w[Len(w) + 1 - 3]
  BY DEF Expected
<1>3. Expected(p, 2) = IF 2 > Len(w) THEN "J" ELSE w[Len(w) + 1 - 2]
  BY DEF Expected
<1>4. Expected(p, 1) = IF 1 > Len(w) THEN "J" ELSE w[Len(w) + 1 - 1]
  BY DEF Expected
<1> HIDE DEF w
<1>5. n \in Nat \ {0} /\ w[n + 1] = "SE0" /\ w[n + 2] = "SE0" /\ w[n + 3] = "J"
  BY <1>1 DEF Framed
<1> DEFINE len == Len(w)
<1>6. len \in Nat /\ n \in Nat \ {0} /\ n = len - 3
  BY <1>1, <1>5
<1> HIDE DEF len, n
<1>7. len + 1 - 3 = n + 1 /\ len + 1 - 2 = n + 2 /\ len + 1 - 1 = n + 3 /\ len > 3
  BY <1>6
<1>8. len = Len(w)
  BY DEF len
<1> QED BY <1>1, <1>2, <1>3, <1>4, <1>5, <1>7, <1>8 DEF w

LEMMA TailOfLine ==
    ASSUME NEW s \in Seq(LineStates), s # <<>>
    PROVE  /\ Len(s) \in Nat \ {0} /\ Len(Tail(s)) = Len(s) - 1
           /\ Head(s) = s[1] /\ Head(s) \in LineStates
           /\ Tail(s) \in Seq(LineStates)
           /\ \A i \in 1..(Len(s) - 1) : Tail(s)[i] = s[i + 1]
           /\ Tail(s) = <<>> <=> Len(s) = 1
<1>1. Len(s) \in Nat \ {0}
  OBVIOUS
<1>2. Tail(s) \in Seq(LineStates) /\ Len(Tail(s)) = Len(s) - 1
  OBVIOUS
<1>3. Head(s) = s[1] /\ Head(s) \in LineStates
  BY <1>1
<1>4. \A i \in 1..(Len(s) - 1) : Tail(s)[i] = s[i + 1]
  OBVIOUS
<1>5. Tail(s) = <<>> <=> Len(Tail(s)) = 0
  BY <1>2
<1> QED BY <1>1, <1>2, <1>3, <1>4, <1>5

LEMMA NextSample ==
    ASSUME Remaining, tx # <<>>, tx' = Tail(tx), UNCHANGED cur
    PROVE  /\ Remaining' /\ Len(tx) \in Nat \ {0} /\ Len(tx') = Len(tx) - 1
           /\ Head(tx) = Expected(cur, Len(tx)) /\ Head(tx) \in LineStates
           /\ tx' = <<>> <=> Len(tx) = 1
<1>1. tx \in Seq(LineStates)
  BY DEF Remaining
<1>2. /\ Len(tx) \in Nat \ {0} /\ Len(tx') = Len(tx) - 1 /\ Head(tx) = tx[1]
      /\ tx' \in Seq(LineStates) /\ \A i \in 1..(Len(tx) - 1) : tx'[i] = tx[i + 1]
      /\ Head(tx) \in LineStates
      /\ tx' = <<>> <=> Len(tx) = 1
  BY <1>1, TailOfLine
<1>3. tx[1] = Expected(cur, Len(tx))
  <2>1. tx[1] = Expected(cur, Len(tx) + 1 - 1)
    BY <1>2 DEF Remaining
  <2> QED BY <1>2, <2>1
<1>4. ASSUME NEW i \in 1..Len(tx')
      PROVE  tx'[i] = Expected(cur', Len(tx') + 1 - i)
  <2> DEFINE left == Len(tx)
             last == Len(tx')
  <2>1. left \in Nat \ {0} /\ last = left - 1 /\ i \in 1..last
    BY <1>2
  <2>2. \A j \in 1..(left - 1) : tx'[j] = tx[j + 1]
    BY <1>2
  <2>3. \A j \in 1..left : tx[j] = Expected(cur, left + 1 - j)
    BY DEF Remaining
  <2> HIDE DEF left, last
  <2>4. i + 1 \in 1..left /\ left + 1 - (i + 1) = last + 1 - i
    BY <2>1
  <2>5. tx'[i] = tx[i + 1] /\ tx[i + 1] = Expected(cur, left + 1 - (i + 1))
    BY <2>1, <2>2, <2>3, <2>4
  <2> QED BY <2>4, <2>5 DEF last
<1> QED BY <1>2, <1>3, <1>4 DEF Remaining

\* A packet with an error in it is refused when it ends.
LEMMA BadPacketOver ==
    ASSUME Held, InPacket(2), NEW l, Receive(l), DecodeSample(dec, l).status = "error"
    PROVE  got' = Refused /\ Resting' /\ Waiting'
<1>1. Collect(l) /\ Rx!apiWaitForPkt(l) /\ Before = dec
  BY DEF Receive, Rx!Sample, InPacket, Before
<1>2. ret' = "PACKET" /\ Resting' /\ Waiting'
  BY <1>1, PacketOver
<1>3. dec' = DecodeSample(dec, l)
  BY <1>1, <1>2, CollectPacket
<1>4. got' = usbPktDecode(Stored(rawbuf, dec'), BitCount(dec'))
  BY <1>1, <1>2, <1>3, CollectPacket
<1>5. dec'.status = "error"
  BY <1>3
<1> HIDE DEF Refused
<1>6. usbPktDecode(Stored(rawbuf, dec'), BitCount(dec')) = Refused
  BY <1>5, ErrorIsRefused
<1> QED BY <1>2, <1>4, <1>6

LEMMA ReadyHears ==
    ASSUME Held, Ready, NEW l \in {"J", "SE0"}, Receive(l), UNCHANGED strikes
    PROVE  /\ Ready' /\ (l = "J" => Resting')
           /\ Was("EOP") => got' \in {Nothing, Refused}
<1>1. Collect(l) /\ Rx!apiWaitForPkt(l)
  BY DEF Receive, Rx!Sample
<1>2. CASE Waiting
  <2>1. Waiting' /\ ret' # "PACKET" /\ (l = "J" => Resting')
    BY <1>1, <1>2, WaitingHears
  <2>2. got' = Nothing
    BY <1>1, <2>1, CollectNothing
  <2> QED BY <2>1, <2>2 DEF Ready
<1>3. CASE InPacket(2) /\ (Was("EOP") => Error)
  <2>1. Resting' /\ Waiting'
    BY <1>1, <1>3, PacketOver
  <2>2. ASSUME Was("EOP") PROVE got' = Refused
    <3>1. DecodeSample(dec, l).status = "error"
      BY <1>3, <2>2, ErrorStays DEF Error
    <3> QED BY <1>3, <3>1, BadPacketOver
  <2> QED BY <2>1, <2>2 DEF Ready
<1> QED BY <1>2, <1>3 DEF Ready

-----------------------------------------------------------------------------
(***************************************************************************)
(* A sample that noise leaves alone.                                       *)
(***************************************************************************)

\* Within the idle time, and at its end.
LEMMA FollowingIdle ==
    ASSUME Held, Faithful(cur), Remaining, Following, tx # <<>>, Heard < 0,
           tx' = Tail(tx), Receive(Head(tx)), UNCHANGED <<cur, strikes>>
    PROVE  Following' /\ (Was("EOP") => got' \in {Nothing, Refused})
<1>1. /\ Len(tx) \in Nat \ {0} /\ Len(tx') = Len(tx) - 1 /\ Head(tx) = Expected(cur, Len(tx))
      /\ Len(Wire(cur)) \in Nat
  BY NextSample, ExpectedEnd
<1>2. Heard' = Heard + 1 /\ Len(tx) > Len(Wire(cur))
  BY <1>1 DEF Heard
<1>3. Head(tx) = "J"
  BY <1>1, <1>2 DEF Expected
<1>4. Ready' /\ Resting' /\ (Was("EOP") => got' \in {Nothing, Refused})
  BY <1>3, ReadyHears DEF Following
<1>5. Heard \in Int /\ ~(Heard' > 0)
  BY <1>1, <1>2 DEF Heard
<1> QED BY <1>4, <1>5 DEF Following

\* The first sample of the packet.
LEMMA FollowingStart ==
    ASSUME Held, Faithful(cur), Remaining, Following, tx # <<>>, Heard = 0,
           tx' = Tail(tx), Receive(Head(tx)), UNCHANGED <<cur, strikes>>
    PROVE  Following' /\ got' = Nothing
<1> DEFINE w == Wire(cur)
<1>1. /\ Len(tx) \in Nat \ {0} /\ Len(tx') = Len(tx) - 1 /\ Head(tx) = Expected(cur, Len(tx))
      /\ Len(w) \in Nat /\ Len(w) > 3
  BY NextSample, ExpectedEnd
<1>2. Framed(w, Len(w) - 3)
  BY FaithfulWire
<1>3. w \in Seq(LineStates) /\ w[1] = "K"
  BY <1>2 DEF Framed
<1>4. Len(tx) = Len(w) /\ Heard' = 1
  BY <1>1 DEF Heard
<1>5. Head(tx) = "K"
  BY <1>1, <1>3, <1>4 DEF Expected
<1>6. Collect("K") /\ Rx!apiWaitForPkt("K") /\ Resting
  BY <1>5 DEF Receive, Rx!Sample, Following
<1>7. InPacket(0)' /\ ret' = "none" /\ bitcount' > bitcount /\ bitcount = 0
  BY <1>6, WaitingHearsK, RestingWaits DEF Resting
<1>8. dec' = DecodeSample(DecStart, "K") /\ got' = Nothing
  BY <1>6, <1>7, CollectBit DEF Before
<1>9. dec' = nrziDec(SubSeq(w, 1, 1))
  <2> HIDE DEF w
  <2>1. nrziDec(SubSeq(w, 1, 0 + 1)) = DecodeSample(nrziDec(SubSeq(w, 1, 0)), w[0 + 1])
    BY <1>1, <1>3, PrefixDecoded
  <2>2. SubSeq(w, 1, 0) = <<>> /\ 0 + 1 = 1
    BY <1>3
  <2> QED BY <1>3, <1>8, <2>1, <2>2, NothingDecoded
<1>10. Len(tx') >= 3 /\ tx' # <<>>
  BY <1>1, <1>4
<1> QED BY <1>4, <1>7, <1>8, <1>9, <1>10 DEF Following

\* What has been collected of a packet within it.
LEMMA FollowingCollects ==
    ASSUME Faithful(cur), Remaining, Following, tx # <<>>, Heard > 0, UNCHANGED cur,
           tx' = Tail(tx), Collect(Head(tx)), bitcount > 0,
           ret' = "PACKET" \/ (ret' = "none" /\ bitcount' > bitcount)
    PROVE  /\ Heard' = Heard + 1 /\ Heard' > 0
           /\ dec' = nrziDec(SubSeq(Wire(cur), 1, Heard'))
<1> DEFINE w == Wire(cur)
           k == Heard
<1>1. /\ Len(tx) \in Nat \ {0} /\ Len(tx') = Len(tx) - 1 /\ Head(tx) = Expected(cur, Len(tx))
      /\ Len(w) \in Nat
  BY NextSample, ExpectedEnd
<1>2. Framed(w, Len(w) - 3)
  BY FaithfulWire
<1>3. w \in Seq(LineStates)
  BY <1>2 DEF Framed
<1>4. /\ k \in Nat /\ k > 0 /\ k < Len(w) /\ Heard' = k + 1
      /\ Len(tx) <= Len(w) /\ Len(w) + 1 - Len(tx) = k + 1
  BY <1>1 DEF Heard
<1>5. Head(tx) = w[k + 1]
  BY <1>1, <1>4 DEF Expected
<1>6. dec' = DecodeSample(dec, w[k + 1])
  BY <1>5, CollectBit, CollectPacket DEF Before
<1>7. dec = nrziDec(SubSeq(w, 1, k))
  BY DEF Following
<1> HIDE DEF w, k
<1>8. nrziDec(SubSeq(w, 1, k + 1)) = DecodeSample(nrziDec(SubSeq(w, 1, k)), w[k + 1])
  BY <1>3, <1>4, PrefixDecoded
<1>9. dec' = nrziDec(SubSeq(w, 1, Heard')) /\ Heard' > 0
  BY <1>4, <1>6, <1>7, <1>8
<1> QED BY <1>4, <1>9 DEF w, k

LEMMA FollowingPacket ==
    ASSUME Held, Faithful(cur), Remaining, Following, tx # <<>>, Heard > 0, Len(tx) # 1,
           tx' = Tail(tx), Receive(Head(tx)), UNCHANGED <<cur, strikes>>
    PROVE  Following' /\ got' = Nothing
<1>0. PICK l, w, rest : l = Head(tx) /\ w = Wire(cur) /\ rest = Len(tx')
  OBVIOUS
<1>1. /\ Len(tx) \in Nat \ {0} /\ rest = Len(tx) - 1 /\ l = Expected(cur, Len(tx))
      /\ Len(w) \in Nat /\ tx' # <<>>
  BY <1>0, NextSample, ExpectedEnd
<1>2. Collect(l) /\ Rx!apiWaitForPkt(l)
  BY <1>0 DEF Receive, Rx!Sample
<1>3. PICK e \in 0..1 : InPacket(e) /\ (e = 1 <=> Len(tx) = 2)
  <2>1. CASE Len(tx) = 2
    BY <2>1 DEF Following
  <2>2. CASE Len(tx) >= 3
    BY <2>2 DEF Following
  <2> QED BY <1>1, <2>1, <2>2
<1>4. /\ ret' = "none" /\ bitcount' > bitcount /\ bitcount > 0
      /\ InPacket(IF e = 1 \/ l = "SE0" THEN e + 1 ELSE 0)'
  <2>1. bitcount > 0
    BY <1>3 DEF InPacket
  <2> QED BY <1>2, <1>3, <2>1, PacketGoesOn
<1>5. /\ ~(Heard' < 0) /\ Heard' # 0 /\ got' = Nothing
      /\ dec' = nrziDec(SubSeq(Wire(cur'), 1, Heard'))
  <2>1. Heard \in Int
    BY <1>0, <1>1 DEF Heard
  <2>2. Heard' = Heard + 1 /\ dec' = nrziDec(SubSeq(Wire(cur), 1, Heard'))
    BY <1>0, <1>2, <1>4, FollowingCollects
  <2>3. ~(Heard' < 0) /\ Heard' # 0
    BY <2>1, <2>2
  <2> QED BY <1>2, <1>4, <2>2, <2>3, CollectBit
<1>6. CASE Len(tx) = 2
  <2>1. InPacket(2)' /\ ~(rest >= 3) /\ rest # 2
    BY <1>1, <1>3, <1>4, <1>6
  <2> QED BY <1>0, <1>1, <1>5, <2>1 DEF Following
<1>7. CASE Len(tx) = 3
  <2>1. l = "SE0"
    BY <1>1, <1>7, ExpectedEnd
  <2>2. InPacket(1)' /\ ~(rest >= 3) /\ rest # 1
    BY <1>1, <1>3, <1>4, <1>7, <2>1
  <2> QED BY <1>0, <1>1, <1>5, <2>2 DEF Following
<1>8. CASE Len(tx) > 3
  <2>1. Framed(w, Len(w) - 3)
    BY <1>0, FaithfulWire
  <2>2. /\ Heard + 1 \in 1..(Len(w) - 3) /\ Len(tx) <= Len(w)
        /\ Len(w) + 1 - Len(tx) = Heard + 1
    BY <1>0, <1>1, <1>8 DEF Heard
  <2>3. l = w[Heard + 1]
    BY <1>0, <1>1, <2>2 DEF Expected
  <2>4. l # "SE0"
    BY <2>1, <2>2, <2>3 DEF Framed, Levels
  <2>5. e # 1 /\ rest # 2 /\ rest # 1
    BY <1>1, <1>3, <1>8
  <2>6. InPacket(0)'
    BY <1>4, <2>4, <2>5
  <2> QED BY <1>0, <1>1, <1>5, <2>5, <2>6 DEF Following
<1> QED BY <1>1, <1>6, <1>7, <1>8

\* The last sample of the packet.
LEMMA FollowingEnd ==
    ASSUME Held, Faithful(cur), Remaining, Following, Heard > 0, Len(tx) = 1,
           tx' = Tail(tx), Receive(Head(tx)), UNCHANGED <<cur, strikes>>
    PROVE  Following' /\ tx' = <<>>
<1>0. PICK l, w, rest : l = Head(tx) /\ w = Wire(cur) /\ rest = Len(tx')
  OBVIOUS
<1>1. /\ tx # <<>> /\ rest = 0 /\ tx' = <<>>
      /\ Len(w) \in Nat /\ Len(w) > 3 /\ w = Wire(cur')
  <2>1. tx # <<>>
    OBVIOUS
  <2> QED BY <1>0, <2>1, NextSample, ExpectedEnd
<1>2. Heard' = Len(w)
  <2>1. Heard' = Len(Wire(cur')) - rest
    BY <1>0 DEF Heard
  <2>2. Heard' = Len(w) - 0
    BY <1>1, <2>1
  <2> QED BY <1>1, <2>2
<1>3. Collect(l) /\ Rx!apiWaitForPkt(l) /\ InPacket(2)
  BY <1>0 DEF Receive, Rx!Sample, Following
<1>4. ret' = "PACKET" /\ Resting' /\ bitcount > 0
  BY <1>3, PacketOver DEF InPacket
<1>5. dec' = nrziDec(w)
  <2>1. dec' = nrziDec(SubSeq(w, 1, Heard'))
    BY <1>0, <1>1, <1>3, <1>4, FollowingCollects
  <2>2. w \in Seq(LineStates)
    BY <1>0, FaithfulWire DEF Framed
  <2>3. SubSeq(w, 1, Len(w)) = w
    BY <2>2
  <2> QED BY <1>2, <2>1, <2>3
<1>6. dec' \in Decoders /\ dec'.bits = usbPktGen(cur) /\ dec'.status = "done"
  <2>1. dec' \in Decoders
    <3>1. Head(tx) \in LineStates
      BY <1>1, NextSample
    <3> QED BY <3>1, HeldKept DEF Held
  <2> QED BY <1>0, <1>5, <2>1, FaithfulWire
<1>7. got' = usbPktDecode(Stored(rawbuf, dec'), BitCount(dec'))
  <2>1. dec'.status # "more"
    BY <1>6
  <2> QED BY <1>3, <1>4, <2>1, CollectPacket
<1>8. usbPktDecode(Stored(rawbuf, dec'), BitCount(dec')) = cur
  <2>1. /\ RAWBITS \in Nat /\ rawbuf \in BitStrings(RAWBITS) /\ ReadAs(cur, cur)
        /\ RAWBITS >= Len(usbPktGen(cur))
    <3>1. Len(usbPktGen(cur)) \in Nat
      BY FaithfulRead DEF ReadAs
    <3> QED BY <3>1, PhyAssumption, FaithfulRead DEF Held
  <2> QED BY <1>6, <2>1, StoredRead
<1>9. /\ ~(Heard' < 0) /\ Heard' # 0
      /\ ~(rest >= 3) /\ rest # 2 /\ rest # 1
  BY <1>1, <1>2
<1> QED BY <1>0, <1>1, <1>4, <1>7, <1>8, <1>9 DEF Following

LEMMA FollowingHears ==
    ASSUME Held, Faithful(cur), Remaining, Following, tx # <<>>,
           tx' = Tail(tx), Receive(Head(tx)), UNCHANGED <<cur, strikes>>
    PROVE  /\ Following'
           /\ Was("EOP") /\ tx' # <<>> => got' \in {Nothing, Refused}
<1>1. Heard \in Int
  BY NextSample, ExpectedEnd DEF Heard
<1>2. CASE Heard < 0
  BY <1>2, FollowingIdle
<1>3. CASE Heard = 0
  BY <1>3, FollowingStart
<1>4. CASE Heard > 0 /\ Len(tx) # 1
  BY <1>4, FollowingPacket
<1>5. CASE Heard > 0 /\ Len(tx) = 1
  BY <1>5, FollowingEnd
<1> QED BY <1>1, <1>2, <1>3, <1>4, <1>5

LEMMA RecoveringHears ==
    ASSUME Held, Faithful(cur), Remaining, Recovering, tx # <<>>, ~Was("EOP"),
           tx' = Tail(tx), Receive(Head(tx)), UNCHANGED <<cur, strikes>>
    PROVE  Recovering'
<1>0. PICK l, rest : l = Head(tx) /\ rest = Len(tx')
  OBVIOUS
<1>1. /\ Len(tx) \in Nat \ {0} /\ rest = Len(tx) - 1 /\ l = Expected(cur, Len(tx))
      /\ tx' = <<>> <=> Len(tx) = 1
  BY <1>0, NextSample
<1>2. Rx!apiWaitForPkt(l) /\ Somewhere
  BY <1>0 DEF Receive, Rx!Sample, Held
<1>3. CASE Len(tx) > 2
  <2>1. rest # 1 /\ tx' # <<>>
    BY <1>1, <1>3
  <2> QED BY <1>0, <2>1 DEF Recovering
<1>4. CASE Len(tx) = 2
  <2>1. l = "SE0" /\ tx' # <<>>
    BY <1>1, <1>4, ExpectedEnd
  <2>2. CASE Waiting
    BY <1>2, <2>1, <2>2, WaitingHears DEF Waiting, InPacket, Recovering
  <2>3. CASE InPacket(0)
    <3>1. InPacket(1)'
      BY <1>2, <2>1, <2>3, PacketGoesOn
    <3> QED BY <2>1, <3>1 DEF InPacket, Recovering
  <2>4. CASE InPacket(1)
    <3>1. InPacket(2)'
      BY <1>2, <2>4, PacketGoesOn
    <3> QED BY <2>1, <3>1 DEF InPacket, Recovering
  <2>5. CASE InPacket(2)
    BY <1>2, <2>1, <2>5, PacketOver DEF Resting, InPacket, Recovering
  <2> QED BY <1>2, <2>2, <2>3, <2>4, <2>5 DEF Somewhere
<1>5. CASE Len(tx) = 1
  <2>1. l = "J" /\ rest # 1 /\ ~InPacket(0) /\ ~Was("EOP")'
    <3>1. l = "J" /\ rest # 1
      BY <1>1, <1>5, ExpectedEnd
    <3> QED BY <1>5, <3>1 DEF Recovering, Was
  <2>2. CASE Waiting
    BY <1>0, <1>2, <2>1, <2>2, WaitingHears DEF Recovering, Ready
  <2>3. CASE InPacket(1)
    <3>1. InPacket(2)'
      BY <1>2, <2>3, PacketGoesOn
    <3> QED BY <1>0, <2>1, <3>1 DEF Recovering, Ready
  <2>4. CASE InPacket(2)
    BY <1>0, <1>2, <2>1, <2>4, PacketOver DEF Recovering, Ready
  <2> QED BY <1>2, <2>1, <2>2, <2>3, <2>4 DEF Somewhere
<1> QED BY <1>1, <1>3, <1>4, <1>5

\* A sample other than the one an end of packet goes on with is an error.
LEMMA OutOfStep ==
    ASSUME Held, NEW e \in 1..2, InPacket(e), NEW l, l # (IF e = 1 THEN "SE0" ELSE "J")
    PROVE  DecodeSample(dec, l).status = "error"
<1>1. bitcount > 0 /\ eop_count = e
  BY DEF InPacket
<1>2. dec \in Decoders /\ dec.status # "done" /\ (dec.status = "more" => dec.se0 = e)
  BY <1>1 DEF Held, EopInStep
<1>3. CASE dec.status = "more"
  <2>1. Wrong(dec, l)
    BY <1>2, <1>3 DEF Wrong
  <2> QED BY <1>3, <2>1 DEF DecodeSample, DecodeEnd
<1>4. CASE dec.status = "error"
  BY <1>4, ErrorStays
<1> QED BY <1>2, <1>3, <1>4 DEF Decoders

\* Late by one sample, the receiver comes to an error and the end of what it is in.
LEMMA SpoiltHears ==
    ASSUME Held, Faithful(cur), Remaining, Spoilt, tx # <<>>,
           tx' = Tail(tx), Receive(Head(tx)), UNCHANGED <<cur, strikes>>
    PROVE  Spoilt' /\ got' \in {Nothing, Refused}
<1>0. PICK l, rest : l = Head(tx) /\ rest = Len(tx')
  OBVIOUS
<1>1. /\ Len(tx) \in Nat \ {0} /\ rest = Len(tx) - 1 /\ l = Expected(cur, Len(tx))
      /\ tx' = <<>> <=> Len(tx) = 1
  BY <1>0, NextSample
<1>2. Receive(l) /\ Collect(l) /\ Rx!apiWaitForPkt(l)
  BY <1>0 DEF Receive, Rx!Sample
<1>3. CASE Len(tx) = 2
  <2>1. l = "SE0" /\ rest = 1 /\ tx' # <<>> /\ InPacket(0)
    BY <1>1, <1>3, ExpectedEnd DEF Spoilt
  <2>2. InPacket(1)' /\ ret' = "none" /\ bitcount' > bitcount
    BY <1>2, <2>1, PacketGoesOn
  <2>3. got' = Nothing
    BY <1>2, <2>2, CollectBit
  <2> QED BY <1>0, <2>1, <2>2, <2>3 DEF Spoilt
<1>4. CASE Len(tx) = 1
  <2>1. l = "J" /\ rest \in 0..2 /\ rest # 2 /\ rest # 1
    BY <1>1, <1>4, ExpectedEnd
  <2>2. CASE InPacket(1)
    <3>1. InPacket(2)' /\ ret' = "none" /\ bitcount' > bitcount /\ Before = dec
      <4>1. Before = dec
        BY <2>2 DEF InPacket, Before
      <4> QED BY <1>2, <2>2, <4>1, PacketGoesOn
    <3>2. dec' = DecodeSample(dec, l) /\ got' = Nothing
      BY <1>2, <3>1, CollectBit
    <3>3. Error'
      <4>1. DecodeSample(dec, l).status = "error"
        BY <2>1, <2>2, OutOfStep
      <4> QED BY <3>2, <4>1 DEF Error
    <3>4. Ready'
      BY <3>1, <3>3 DEF Ready
    <3> QED BY <1>0, <2>1, <3>2, <3>4 DEF Spoilt
  <2>3. CASE InPacket(2) /\ Error
    <3>1. DecodeSample(dec, l).status = "error"
      BY <2>3, ErrorStays DEF Error
    <3>2. got' = Refused /\ Waiting'
      BY <1>2, <2>3, <3>1, BadPacketOver
    <3>3. Ready'
      BY <3>2 DEF Ready
    <3> QED BY <1>0, <2>1, <3>2, <3>3 DEF Spoilt
  <2> QED BY <1>4, <2>2, <2>3 DEF Spoilt
<1> QED BY <1>1, <1>3, <1>4 DEF Spoilt

-----------------------------------------------------------------------------
(***************************************************************************)
(* A sample of the end of packet that noise strikes.                       *)
(***************************************************************************)
LEMMA EopStruck ==
    ASSUME Held, Faithful(cur), Remaining, Following, tx # <<>>, Len(tx) <= 3,
           tx' = Tail(tx), UNCHANGED cur, NEW l, l # Head(tx), Receive(l)
    PROVE  Spoilt' /\ got' \in {Nothing, Refused}
<1>0. PICK rest : rest = Len(tx')
  OBVIOUS
<1>1. /\ Len(tx) \in 1..3 /\ rest = Len(tx) - 1 /\ l # Expected(cur, Len(tx))
      /\ tx' = <<>> <=> Len(tx) = 1
  BY <1>0, NextSample
<1>2. Receive(l) /\ Collect(l) /\ Rx!apiWaitForPkt(l)
  BY DEF Receive, Rx!Sample
<1>3. Heard > 0
  BY <1>1, ExpectedEnd DEF Heard
<1>4. CASE Len(tx) = 3
  <2>1. l # "SE0" /\ rest = 2 /\ tx' # <<>> /\ InPacket(0)
    BY <1>1, <1>3, <1>4, ExpectedEnd DEF Following
  <2>2. InPacket(0)' /\ ret' = "none" /\ bitcount' > bitcount
    BY <1>2, <2>1, PacketGoesOn
  <2>3. got' = Nothing
    BY <1>2, <2>2, CollectBit
  <2> QED BY <1>0, <2>1, <2>2, <2>3 DEF Spoilt
<1>5. CASE Len(tx) = 2
  <2>1. l # "SE0" /\ rest = 1 /\ tx' # <<>> /\ InPacket(1)
    BY <1>1, <1>3, <1>5, ExpectedEnd DEF Following
  <2>2. Before = dec
    BY <2>1 DEF InPacket, Before
  <2>3. InPacket(2)' /\ ret' = "none" /\ bitcount' > bitcount
    BY <1>2, <2>1, PacketGoesOn
  <2>4. dec' = DecodeSample(dec, l) /\ got' = Nothing
    BY <1>2, <2>2, <2>3, CollectBit
  <2>5. Error'
    <3>1. DecodeSample(dec, l).status = "error"
      BY <2>1, OutOfStep
    <3> QED BY <2>4, <3>1 DEF Error
  <2> QED BY <1>0, <2>1, <2>3, <2>4, <2>5 DEF Spoilt
<1>6. CASE Len(tx) = 1
  <2>1. l # "J" /\ rest = 0 /\ InPacket(2)
    BY <1>1, <1>3, <1>6, ExpectedEnd DEF Following
  <2>2. DecodeSample(dec, l).status = "error"
    BY <2>1, OutOfStep
  <2>3. got' = Refused /\ Waiting'
    BY <1>2, <2>1, <2>2, BadPacketOver
  <2> QED BY <1>0, <2>1, <2>3 DEF Spoilt, Ready
<1> QED BY <1>1, <1>4, <1>5, <1>6

-----------------------------------------------------------------------------
(***************************************************************************)
(* The invariant, with one sample struck at most.                          *)
(***************************************************************************)

\* What a strike leaves behind is over when the next packet begins, unless it has
\* begun a packet within the SE0 of a reset: nothing ends that one but the next.
Good == strikes = <<>> \/ Was("EOP") \/ NoResets

AtMostOne ==
    /\ strikes = <<>> \/ \E kind \in {"EOP", "SE0", "LEVEL"} : strikes = <<kind>>
    /\ hurt => strikes # <<>>
    /\ MaxStrikes = 0 => strikes = <<>>

OnReset ==
    /\ tx \in Seq({"J", "SE0"})
    /\ hurt => ~Was("EOP")
    /\ ~hurt /\ Good => Ready

OnPacket ==
    /\ Remaining
    /\ ~hurt /\ Good => Following
    /\ hurt /\ ~Was("EOP") => Recovering
    /\ hurt /\ Was("EOP") => Spoilt

Underway ==
    /\ cur = Nothing => tx = <<>> /\ Ready
    /\ cur = ResetSe0 => OnReset
    /\ cur \notin {Nothing, ResetSe0} => OnPacket

PhyInv ==
    /\ Held /\ AtMostOne
    /\ queue \in Seq(Sent) /\ tx \in Seq(LineStates)
    /\ cur \in {Nothing} \union {m.pkt : m \in Sent}
    /\ Underway
    /\ CorruptEopRefused

LEMMA SentFaithful ==
    ASSUME FaithfulTraffic, PhyInv, cur \notin {Nothing, ResetSe0}
    PROVE  Faithful(cur)
BY DEF PhyInv, FaithfulTraffic

LEMMA ReadyAgain ==
    ASSUME FaithfulTraffic, PhyInv, tx = <<>>, Good
    PROVE  Ready
<1>1. Underway /\ AtMostOne
  BY DEF PhyInv
<1>2. CASE cur = Nothing
  BY <1>1, <1>2 DEF Underway
<1>3. CASE cur = ResetSe0 /\ cur # Nothing
  <2>1. hurt => strikes # <<>> /\ ~Was("EOP")
    BY <1>1, <1>3 DEF Underway, OnReset, AtMostOne
  <2>2. ~NoResets
    BY <1>3 DEF PhyInv, NoResets
  <2> QED BY <1>1, <1>3, <2>1, <2>2 DEF Underway, OnReset, Good
<1>4. CASE cur \notin {Nothing, ResetSe0}
  <2>1. OnPacket /\ Faithful(cur)
    BY <1>1, <1>4, SentFaithful DEF Underway
  <2>2. Heard > 0
    <3>1. Len(tx) = 0
      OBVIOUS
    <3> QED BY <2>1, <3>1, ExpectedEnd DEF Heard
  <2> QED BY <2>1, <2>2, RestingWaits DEF OnPacket, Following, Recovering, Spoilt, Ready
<1> QED BY <1>2, <1>3, <1>4

LEMMA SampleLine ==
    ASSUME NEW S, NEW l \in S, NEW n \in Nat
    PROVE  Samples(l, n) \in Seq(S) /\ Len(Samples(l, n)) = n
           /\ \A i \in 1..n : Samples(l, n)[i] = l
BY DEF Samples

LEMMA JoinedLines ==
    ASSUME NEW S, NEW s \in Seq(S), NEW t \in Seq(S)
    PROVE  /\ s \o t \in Seq(S) /\ Len(s \o t) = Len(s) + Len(t)
           /\ \A i \in 1..(Len(s) + Len(t)) :
                 (s \o t)[i] = IF i <= Len(s) THEN s[i] ELSE t[i - Len(s)]
OBVIOUS

\* What apiSendPacket puts on the line.
LEMMA PacketLine ==
    ASSUME NEW p, Faithful(p), NEW delay \in Nat,
           NEW s, s = IdleBefore(delay) \o Wire(p)
    PROVE  /\ s \in Seq(LineStates) /\ Len(s) > Len(Wire(p))
           /\ \A i \in 1..Len(s) : s[i] = Expected(p, Len(s) + 1 - i)
<1> DEFINE w == Wire(p)
           idles == IF delay < MINIMUMIDLE THEN MINIMUMIDLE ELSE delay
           m == Len(w)
<1>1. idles \in Nat /\ idles >= 1
  BY DEF MINIMUMIDLE
<1>2. w \in Seq(LineStates) /\ m \in Nat
  BY FaithfulWire DEF Framed
<1>3. \A left : Expected(p, left) = IF left > m THEN "J" ELSE w[m + 1 - left]
  BY DEF Expected
<1>4. IdleBefore(delay) = Samples("J", idles)
  BY DEF IdleBefore
<1> DEFINE quiet == Samples("J", idles)
<1>5. s = quiet \o w
  BY <1>4
<1> HIDE DEF idles
<1>6. "J" \in LineStates
  BY DEF LineStates
<1>7. quiet \in Seq(LineStates) /\ Len(quiet) = idles /\ \A i \in 1..idles : quiet[i] = "J"
  BY <1>1, <1>6, SampleLine
<1> HIDE DEF quiet, w
<1>8. /\ s \in Seq(LineStates) /\ Len(s) = idles + m
      /\ \A i \in 1..(idles + m) : s[i] = IF i <= idles THEN quiet[i] ELSE w[i - idles]
  <2>1. /\ quiet \o w \in Seq(LineStates) /\ Len(quiet \o w) = Len(quiet) + Len(w)
        /\ \A i \in 1..(Len(quiet) + Len(w)) :
              (quiet \o w)[i] = IF i <= Len(quiet) THEN quiet[i] ELSE w[i - Len(quiet)]
    BY <1>2, <1>7, JoinedLines
  <2>2. Len(quiet) = idles /\ Len(w) = m
    BY <1>7
  <2> HIDE DEF m
  <2> QED BY <1>5, <2>1, <2>2
<1> HIDE DEF m
<1>9. ASSUME NEW i \in 1..(idles + m)
      PROVE  s[i] = Expected(p, idles + m + 1 - i)
  <2>1. CASE i <= idles
    <3>1. idles + m + 1 - i > m
      BY <1>1, <1>2, <2>1
    <3>2. i \in 1..idles
      BY <1>1, <1>2, <2>1
    <3>3. s[i] = "J"
      BY <1>7, <1>8, <2>1, <3>2
    <3> QED BY <1>3, <3>1, <3>3
  <2>2. CASE ~(i <= idles)
    <3>1. ~(idles + m + 1 - i > m) /\ m + 1 - (idles + m + 1 - i) = i - idles
      BY <1>1, <1>2, <2>2
    <3>2. s[i] = w[i - idles]
      BY <1>8, <2>2
    <3> QED BY <1>3, <3>1, <3>2
  <2> QED BY <2>1, <2>2
<1>10. Len(s) > m
  BY <1>1, <1>2, <1>8
<1> QED BY <1>8, <1>9, <1>10 DEF m, w

LEMMA PacketBegins ==
    ASSUME FaithfulTraffic, PhyInv, apiSendPacket
    PROVE  PhyInv'
<1> PICK p, delay, line :
        /\ p = Head(queue).pkt /\ delay = Head(queue).delay
        /\ line = IdleBefore(delay) \o Wire(p)
  OBVIOUS
<1>1. /\ tx = <<>> /\ queue # <<>> /\ p # ResetSe0
      /\ cur' = p /\ queue' = Tail(queue) /\ got' = Nothing /\ hurt' = FALSE
      /\ UNCHANGED <<rxVars, strikes>>
  BY DEF apiSendPacket, Drive
<1>2. /\ Head(queue) \in Sent /\ queue' \in Seq(Sent)
      /\ p \in {m.pkt : m \in Sent} /\ delay \in Nat
  <2>1. Head(queue) \in Sent /\ Tail(queue) \in Seq(Sent)
    BY <1>1 DEF PhyInv
  <2> QED BY <1>1, <2>1, PhyAssumption
<1>3. Faithful(p) /\ Generable(p) /\ p # Nothing
  <2>1. Faithful(p)
    BY <1>1, <1>2 DEF FaithfulTraffic
  <2> QED BY <2>1, FaithfulRead
<1>4. tx' = line
  BY <1>1, <1>3 DEF apiSendPacket, Drive
<1>5. /\ line \in Seq(LineStates) /\ Len(line) > Len(Wire(p))
      /\ \A i \in 1..Len(line) : line[i] = Expected(p, Len(line) + 1 - i)
  <2>1. line = IdleBefore(delay) \o Wire(p) /\ Faithful(p) /\ delay \in Nat
    BY <1>2, <1>3
  <2> QED BY ONLY <2>1, PacketLine
<1>6. Held' /\ (Ready => Ready')
  BY <1>1 DEF rxVars, PhyInv, Held, Somewhere, EopInStep, Ready, Waiting, InPacket, Error, Was
<1>7. AtMostOne' /\ (Good' => Good)
  BY <1>1 DEF PhyInv, AtMostOne, Good, Was
<1>8. Good' => Following'
  <2>1. ASSUME Good' PROVE Ready'
    BY <1>1, <1>6, <1>7, <2>1, ReadyAgain
  <2>2. Heard' = Len(Wire(p)) - Len(line)
    BY <1>1, <1>4 DEF Heard
  <2>3. Heard' < 0 /\ ~(Heard' > 0) /\ Heard' # 0
    <3>1. Len(line) \in Nat /\ Len(Wire(p)) \in Nat
      BY <1>3, <1>5, ExpectedEnd
    <3> QED BY <1>5, <2>2, <3>1
  <2> QED BY <2>1, <2>3 DEF Following
<1>9. Underway'
  <2>1. Remaining'
    BY <1>1, <1>4, <1>5 DEF Remaining
  <2> QED BY <1>1, <1>3, <1>8, <2>1 DEF Underway, OnPacket
<1>10. CorruptEopRefused'
  BY <1>1 DEF CorruptEopRefused
<1> QED BY <1>1, <1>2, <1>4, <1>5, <1>6, <1>7, <1>9, <1>10 DEF PhyInv

LEMMA ResetBegins ==
    ASSUME FaithfulTraffic, PhyInv, apiSendReset
    PROVE  PhyInv'
<1> PICK delay, line :
        delay = Head(queue).delay /\ line = Samples("J", delay) \o Samples("SE0", MINRSTCOUNT)
  OBVIOUS
<1>1. /\ tx = <<>> /\ queue # <<>> /\ tx' = line
      /\ cur' = ResetSe0 /\ queue' = Tail(queue) /\ got' = Nothing /\ hurt' = FALSE
      /\ UNCHANGED <<rxVars, strikes>>
  BY DEF apiSendReset, Drive
<1>2. /\ Head(queue) \in Sent /\ queue' \in Seq(Sent)
      /\ ResetSe0 \in {m.pkt : m \in Sent} /\ delay \in Nat
  <2>1. Head(queue) \in Sent /\ Tail(queue) \in Seq(Sent)
    BY <1>1 DEF PhyInv
  <2>2. Head(queue).pkt = ResetSe0
    BY DEF apiSendReset
  <2> QED BY <1>1, <2>1, <2>2, PhyAssumption
<1>3. line \in Seq({"J", "SE0"})
  <2> DEFINE S == {"J", "SE0"}
             a == Samples("J", delay)
             b == Samples("SE0", MINRSTCOUNT)
  <2>1. a \in Seq(S) /\ b \in Seq(S)
    BY <1>2, PhyAssumption, SampleLine
  <2> HIDE DEF S, a, b
  <2>2. a \o b \in Seq(S)
    BY <2>1
  <2> QED BY <2>2 DEF S, a, b
<1>4. line \in Seq(LineStates)
  BY <1>3 DEF LineStates
<1>5. Held' /\ (Ready => Ready')
  BY <1>1 DEF rxVars, PhyInv, Held, Somewhere, EopInStep, Ready, Waiting, InPacket, Error, Was
<1>6. AtMostOne' /\ (Good' => Good)
  BY <1>1 DEF PhyInv, AtMostOne, Good, Was
<1>7. Good' => Ready'
  BY <1>1, <1>5, <1>6, ReadyAgain
<1>8. Underway'
  <2>1. ResetSe0 # Nothing
    BY DEF ResetSe0, Nothing, Packet
  <2> QED BY <1>1, <1>3, <1>7, <2>1 DEF Underway, OnReset
<1>9. CorruptEopRefused'
  BY <1>1 DEF CorruptEopRefused
<1> QED BY <1>1, <1>2, <1>4, <1>5, <1>6, <1>8, <1>9 DEF PhyInv

LEMMA CleanSample ==
    ASSUME FaithfulTraffic, PhyInv, Clean
    PROVE  PhyInv'
<1>1. /\ tx # <<>> /\ tx' = Tail(tx) /\ Receive(Head(tx))
      /\ UNCHANGED <<queue, cur, hurt, strikes>>
  BY DEF Clean
<1>2. /\ Held /\ AtMostOne /\ queue \in Seq(Sent) /\ tx \in Seq(LineStates)
      /\ cur \in {Nothing} \union {m.pkt : m \in Sent}
      /\ Underway /\ CorruptEopRefused
  BY DEF PhyInv
<1>3. Head(tx) \in LineStates /\ tx' \in Seq(LineStates)
  BY <1>1, <1>2, TailOfLine
<1>4. Held'
  BY <1>1, <1>2, <1>3, HeldKept
<1>5. AtMostOne' /\ (Good' <=> Good) /\ (Was("EOP")' <=> Was("EOP"))
  BY <1>1, <1>2 DEF AtMostOne, Good, Was
<1>6. Underway' /\ CorruptEopRefused'
  <2>1. cur # Nothing
    BY <1>1, <1>2 DEF Underway
  <2>2. CASE cur = ResetSe0
    <3>1. OnReset
      BY <1>2, <2>2 DEF Underway
    <3>2. Head(tx) \in {"J", "SE0"} /\ tx' \in Seq({"J", "SE0"})
      BY <1>1, <3>1 DEF OnReset
    <3>3. ASSUME ~hurt, Good
          PROVE  Ready' /\ (Was("EOP") => got' \in {Nothing, Refused})
      BY <1>1, <1>2, <3>1, <3>2, <3>3, ReadyHears DEF OnReset
    <3>4. OnReset'
      BY <1>1, <1>5, <3>1, <3>2, <3>3 DEF OnReset
    <3>5. CorruptEopRefused'
      <4>1. Was("EOP") => ~hurt /\ Good
        BY <3>1 DEF OnReset, Good
      <4> QED BY <1>1, <1>5, <3>3, <4>1 DEF CorruptEopRefused
    <3> QED BY <1>1, <2>1, <2>2, <3>4, <3>5 DEF Underway
  <2>3. CASE cur # ResetSe0
    <3>1. OnPacket /\ Faithful(cur)
      BY <1>2, <2>1, <2>3, SentFaithful DEF Underway
    <3>2. Remaining /\ Remaining'
      BY <1>1, <3>1, NextSample DEF OnPacket
    <3>3. ASSUME ~hurt, Good
          PROVE  Following' /\ (Was("EOP") /\ tx' # <<>> => got' \in {Nothing, Refused})
      BY <1>1, <1>2, <3>1, <3>3, FollowingHears DEF OnPacket
    <3>4. ASSUME hurt, ~Was("EOP")
          PROVE  Recovering'
      BY <1>1, <1>2, <3>1, <3>4, RecoveringHears DEF OnPacket
    <3>5. ASSUME hurt, Was("EOP")
          PROVE  Spoilt' /\ got' \in {Nothing, Refused}
      BY <1>1, <1>2, <3>1, <3>5, SpoiltHears DEF OnPacket
    <3>6. OnPacket'
      BY <1>1, <1>5, <3>2, <3>3, <3>4, <3>5 DEF OnPacket
    <3>7. CorruptEopRefused'
      <4>1. Was("EOP") => Good
        BY DEF Good
      <4> QED BY <1>1, <1>5, <3>3, <3>5, <4>1 DEF CorruptEopRefused
    <3> QED BY <1>1, <2>1, <2>3, <3>6, <3>7 DEF Underway
  <2> QED BY <2>2, <2>3
<1> QED BY <1>1, <1>2, <1>3, <1>4, <1>5, <1>6 DEF PhyInv

LEMMA StruckSample ==
    ASSUME FaithfulTraffic, MaxStrikes <= 1, PhyInv, Struck
    PROVE  PhyInv'
<1>1. PICK l \in Rx!Lines \ {Head(tx)} : Receive(l) /\ strikes' = Append(strikes, Kind(l))
  BY DEF Struck
<1>2. PICK kind : kind = Kind(l)
  OBVIOUS
<1>3. /\ tx # <<>> /\ tx' = Tail(tx) /\ Len(strikes) < MaxStrikes
      /\ hurt' = TRUE /\ UNCHANGED <<queue, cur>>
  BY DEF Struck
<1>4. /\ Held /\ AtMostOne /\ queue \in Seq(Sent) /\ tx \in Seq(LineStates)
      /\ cur \in {Nothing} \union {m.pkt : m \in Sent}
      /\ Underway
  BY DEF PhyInv
<1>5. strikes = <<>> /\ ~hurt /\ Good /\ MaxStrikes # 0 /\ strikes' = <<kind>>
  <2>1. MaxStrikes \in Nat
    BY PhyAssumption
  <2>2. ASSUME NEW k, strikes = <<k>> PROVE FALSE
    <3>1. Len(<<k>>) = 1
      OBVIOUS
    <3> QED BY <1>3, <2>1, <2>2, <3>1
  <2>3. strikes = <<>>
    BY <1>4, <2>2 DEF AtMostOne
  <2>4. MaxStrikes # 0
    BY <1>3, <2>3
  <2> QED BY <1>1, <1>2, <1>4, <2>3, <2>4 DEF AtMostOne, Good
<1>6. kind \in {"EOP", "SE0", "LEVEL"} /\ (Was("EOP")' <=> kind = "EOP")
  <2>1. kind \in {"EOP", "SE0", "LEVEL"}
    BY <1>2 DEF Kind
  <2> QED BY <1>5, <2>1 DEF Was
<1>7. AtMostOne'
  BY <1>5, <1>6 DEF AtMostOne
<1>8. Held' /\ tx' \in Seq(LineStates)
  <2>1. l \in LineStates
    BY DEF Rx!Lines, LineStates
  <2> QED BY <1>1, <1>3, <1>4, <2>1, HeldKept, TailOfLine
<1>9. Underway' /\ CorruptEopRefused'
  <2>1. cur # Nothing
    BY <1>3, <1>4 DEF Underway
  <2>2. CASE cur = ResetSe0
    <3>1. OnReset /\ kind # "EOP"
      BY <1>2, <1>4, <2>2 DEF Underway, Kind
    <3>2. tx' \in Seq({"J", "SE0"})
      BY <1>3, <3>1 DEF OnReset
    <3>3. OnReset'
      BY <1>3, <1>6, <3>1, <3>2 DEF OnReset
    <3> QED BY <1>3, <1>6, <2>1, <2>2, <3>1, <3>3 DEF Underway, CorruptEopRefused
  <2>3. CASE cur # ResetSe0
    <3>1. OnPacket /\ Faithful(cur)
      BY <1>4, <2>1, <2>3, SentFaithful DEF Underway
    <3>2. Remaining /\ Remaining' /\ Following
      BY <1>3, <1>5, <3>1, NextSample DEF OnPacket
    <3>3. kind = "EOP" <=> Len(tx) <= 3
      <4>1. Len(EOP) = 3
        BY DEF EOP
      <4> QED BY <1>2, <2>3, <4>1 DEF Kind
    <3>4. ASSUME kind = "EOP"
          PROVE  Spoilt' /\ got' \in {Nothing, Refused}
      <4>1. l # Head(tx) /\ Len(tx) <= 3
        BY <3>3, <3>4
      <4> QED BY <1>1, <1>3, <1>4, <3>1, <3>2, <4>1, EopStruck
    <3>5. ASSUME kind # "EOP"
          PROVE  Recovering'
      <4>1. PICK left, rest : left = Len(tx) /\ rest = Len(tx')
        OBVIOUS
      <4>2. left \in Nat /\ rest = left - 1 /\ (tx' = <<>> <=> left = 1) /\ ~(left <= 3)
        BY <1>3, <3>2, <3>3, <3>5, <4>1, NextSample
      <4>3. tx' # <<>> /\ rest # 1
        BY <4>2
      <4> QED BY <4>1, <4>3 DEF Recovering
    <3>6. OnPacket'
      BY <1>3, <1>6, <3>2, <3>4, <3>5 DEF OnPacket
    <3>7. CorruptEopRefused'
      BY <1>6, <3>4 DEF CorruptEopRefused
    <3> QED BY <1>3, <2>1, <2>3, <3>6, <3>7 DEF Underway
  <2> QED BY <2>2, <2>3
<1> QED BY <1>3, <1>4, <1>7, <1>8, <1>9 DEF PhyInv

LEMMA PhyStart ==
    ASSUME Init
    PROVE  PhyInv
<1>1. Waiting
  BY DEF Init, Rx!Init, Waiting
<1>2. Held
  <2>1. EopInStep
    BY DEF Init, Rx!Init, EopInStep
  <2>2. dec \in Decoders
    BY DecStartDecodes DEF Init
  <2>3. rawbuf \in BitStrings(RAWBITS)
    <3>1. [i \in 1..RAWBITS |-> 0] \in BitStrings(RAWBITS)
      BY DEF BitStrings
    <3> QED BY <3>1 DEF Init
  <2> QED BY <1>1, <2>1, <2>2, <2>3 DEF Held, Somewhere, Waiting
<1>3. AtMostOne /\ tx = <<>> /\ cur = Nothing /\ ~Was("EOP")
  BY DEF Init, AtMostOne, Was
<1>4. queue \in Seq(Sent)
  BY PhyAssumption DEF Init
<1>5. Underway
  <2>1. Nothing # ResetSe0
    BY DEF Nothing, ResetSe0, Packet
  <2> QED BY <1>1, <1>3, <2>1 DEF Underway, Ready
<1> QED BY <1>2, <1>3, <1>4, <1>5 DEF PhyInv, CorruptEopRefused

LEMMA PhyInvariant ==
    ASSUME FaithfulTraffic, MaxStrikes <= 1
    PROVE  Spec => []PhyInv
<1>1. Init => PhyInv
  BY PhyStart
<1>2. PhyInv /\ [Next]_vars => PhyInv'
  <2> SUFFICES ASSUME PhyInv, [Next]_vars PROVE PhyInv'
    OBVIOUS
  <2>1. CASE apiSendPacket
    BY <2>1, PacketBegins
  <2>2. CASE apiSendReset
    BY <2>2, ResetBegins
  <2>3. CASE Clean
    BY <2>3, CleanSample
  <2>4. CASE Struck
    BY <2>4, StruckSample
  <2>5. CASE Finished \/ UNCHANGED vars
    <3>1. UNCHANGED vars
      BY <2>5 DEF Finished
    <3>2. Held' /\ AtMostOne' /\ CorruptEopRefused'
      BY <3>1 DEF vars, rxVars, PhyInv, Held, Somewhere, Waiting, InPacket, EopInStep, AtMostOne,
                  CorruptEopRefused, Was
    <3>3. Underway'
      BY <3>1 DEF vars, rxVars, PhyInv, Underway, OnReset, OnPacket, Remaining, Following, Heard,
                  Recovering, Spoilt, Ready, Error, Waiting, Resting, InPacket, Good, Was
    <3> QED BY <3>1, <3>2, <3>3 DEF vars, PhyInv
  <2> QED BY <2>1, <2>2, <2>3, <2>4, <2>5 DEF Next
<1> QED BY <1>1, <1>2, PTL DEF Spec

-----------------------------------------------------------------------------
\* With one sample struck anywhere, in a packet or in the idle time before it, every
\* packet that is not struck is reported as it was sent; the packets may have any of
\* the PIDs, fields and payloads that Faithful allows, and follow each other at any
\* distance.
THEOREM PacketsDelivered ==
    ASSUME FaithfulTraffic, MaxStrikes <= 1, MaxStrikes = 0 \/ NoResets
    PROVE  Spec => []Delivered
<1>1. PhyInv => Delivered
  <2> SUFFICES ASSUME PhyInv, tx = <<>>, cur \notin {Nothing, ResetSe0}, ~hurt
               PROVE  got = cur
    BY DEF Delivered
  <2>1. Good /\ OnPacket /\ Faithful(cur)
    BY SentFaithful DEF PhyInv, AtMostOne, Good, Underway
  <2>2. Heard > 0
    <3>1. Len(tx) = 0
      OBVIOUS
    <3> QED BY <2>1, <3>1, ExpectedEnd DEF Heard
  <2> QED BY <2>1, <2>2 DEF OnPacket, Following
<1> QED BY <1>1, PhyInvariant, PTL

\* A strike of an end of packet is never taken for the end of a good packet: nothing is
\* reported until another packet has come.
THEOREM CorruptEopIsRefused ==
    ASSUME FaithfulTraffic, MaxStrikes <= 1
    PROVE  Spec => []CorruptEopRefused
<1>1. PhyInv => CorruptEopRefused
  BY DEF PhyInv
<1> QED BY <1>1, PhyInvariant, PTL

=============================================================================
