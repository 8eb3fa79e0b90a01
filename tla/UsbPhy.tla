-------------------------------- MODULE UsbPhy --------------------------------
(***************************************************************************)
(* One direction of the line, sample by sample: apiSendPacket and          *)
(* apiSendReset of one side drive it, apiWaitForPkt of the other (module   *)
(* UsbLine) samples it, and what it has collected when it returns is       *)
(* decoded.  A sample may be struck by noise.                              *)
(***************************************************************************)
EXTENDS UsbPktCodec

CONSTANTS
    MINRSTCOUNT, MINSUSPENDCOUNT, TIMEOUT, MaxRun, MaxBits, MaxIdle,    \* of UsbLine
    RAWBITS,        \* bits of rawbuf
    Traffic,        \* sequences of what is sent, with the idle time before each
    MaxStrikes      \* bound: samples that noise changes

\* Everything that is ever sent.
Sent == UNION {{q[i] : i \in DOMAIN q} : q \in Traffic}

ASSUME PhyAssumption ==
    /\ RAWBITS \in Nat /\ RAWBITS > 32
    /\ MINRSTCOUNT \in Nat
    /\ MaxStrikes \in Nat
    /\ Traffic \subseteq Seq(Sent)
    /\ \A m \in Sent : m.delay \in Nat

VARIABLES
    isDevice, idle, lookforreset, rstcount, idlecount, eop_count, bitcount,
    suspended, ret, run, cut,       \* of UsbLine, for the receiver
    queue,      \* what is still to be sent
    cur, tx,    \* what is being sent, and the samples left of it
    dec,        \* nrziDec after the samples in the nrzi buffer
    rawbuf,     \* the decoded bits, and those that earlier packets left behind them
    got,        \* what the sample before made usbPktDecode return, or Nothing
    hurt,       \* noise struck the packet being sent or the idle time before it (history)
    strikes     \* kinds of the strikes so far (history)

rxVars == <<isDevice, idle, lookforreset, rstcount, idlecount, eop_count, bitcount,
            suspended, ret, run, cut, dec, rawbuf>>
vars   == <<rxVars, queue, cur, tx, got, hurt, strikes>>

Rx == INSTANCE UsbLine

Nothing == Packet("NONE", <<>>)
ResetSe0 == Packet("RESET", <<>>)

\* The host is not sent resets: it is the one that drives them.  The constructor
\* of usbPkt clears rawbuf.
Init ==
    /\ Rx!Init
    /\ queue \in Traffic
    /\ ~isDevice => \A i \in DOMAIN queue : queue[i].pkt # ResetSe0
    /\ cur = Nothing /\ tx = <<>>
    /\ dec = DecStart /\ rawbuf = [i \in 1..RAWBITS |-> 0] /\ got = Nothing
    /\ hurt = FALSE /\ strikes = <<>>

-----------------------------------------------------------------------------
Samples(level, n) == [i \in 1..n |-> level]

MINIMUMIDLE == 1

\* At least one sample of the idle level separates two packets.
IdleBefore(delay) == Samples("J", IF delay < MINIMUMIDLE THEN MINIMUMIDLE ELSE delay)

Drive(line) ==
    /\ tx = <<>> /\ queue # <<>>
    /\ cur' = Head(queue).pkt /\ queue' = Tail(queue)
    /\ tx' = line
    /\ got' = Nothing /\ hurt' = FALSE
    /\ UNCHANGED <<rxVars, strikes>>

apiSendPacket ==
    /\ queue # <<>> /\ Head(queue).pkt # ResetSe0
    /\ LET p == Head(queue).pkt
       IN  Drive(IdleBefore(Head(queue).delay) \o IF Generable(p) THEN Wire(p) ELSE <<>>)

apiSendReset ==
    /\ queue # <<>> /\ Head(queue).pkt = ResetSe0
    /\ Drive(Samples("J", Head(queue).delay) \o Samples("SE0", MINRSTCOUNT))

-----------------------------------------------------------------------------
\* The sample goes into the nrzi buffer, and the packet it completes is decoded.
\* nrziDec goes through the buffer from its start until it returns, whatever was
\* collected: going on behind the last sample it would leave what was received.
Collect(l) ==
    LET d == DecodeSample(IF bitcount = 0 THEN DecStart ELSE dec, l) IN
    IF ret' = "PACKET"
    THEN /\ dec' = d /\ rawbuf' = Stored(rawbuf, d)
         /\ got' = IF d.status = "more" THEN OutOfBuffer
                   ELSE usbPktDecode(rawbuf', BitCount(d))
    ELSE /\ dec' = IF bitcount' > bitcount THEN d ELSE dec
         /\ got' = Nothing
         /\ UNCHANGED rawbuf

Receive(l) == Rx!Sample(l) /\ Collect(l)

Clean ==
    /\ tx # <<>> /\ tx' = Tail(tx)
    /\ Receive(Head(tx))
    /\ UNCHANGED <<queue, cur, hurt, strikes>>

\* The end of packet is struck, the line reads SE0 within a packet or before it, or
\* it reads a level (or SE1) that is not sent.
Kind(l) == IF Len(tx) <= Len(EOP) /\ cur # ResetSe0 THEN "EOP"
           ELSE IF l = "SE0" THEN "SE0"
           ELSE "LEVEL"

Struck ==
    /\ tx # <<>> /\ tx' = Tail(tx)
    /\ Len(strikes) < MaxStrikes
    /\ \E l \in Rx!Lines \ {Head(tx)} :
          Receive(l) /\ strikes' = Append(strikes, Kind(l))
    /\ hurt' = TRUE
    /\ UNCHANGED <<queue, cur>>

\* Everything has been sent.
Finished == tx = <<>> /\ queue = <<>> /\ UNCHANGED vars

Next == apiSendPacket \/ apiSendReset \/ Clean \/ Struck \/ Finished

Spec == Init /\ [][Next]_vars

-----------------------------------------------------------------------------
(***************************************************************************)
(* Properties.                                                             *)
(***************************************************************************)
Was(kind) == \E i \in DOMAIN strikes : strikes[i] = kind

\* What the receiver is to report as it was sent: an endpoint without the direction
\* that spoils the CRC5, a frame number of eleven bits, whole bytes that fit in rawbuf.
FaithfulToken(p) ==
    /\ p.pid \in Tokens /\ p = Packet(p.pid, <<p.args[1], p.args[2]>>)
    /\ p.args[1] \in 0..127 /\ p.args[2] \in 0..15

ElevenBits == 0..2047

FaithfulFrame(p) == \E f \in ElevenBits : p = Packet("SOF", <<f>>)

FaithfulData(p) ==
    /\ p.pid \in DataPids /\ p = Packet(p.pid, p.args)
    /\ \E k \in 0..64 : p.args \in [1..8 * k -> 0..1] /\ 8 * k + 32 <= RAWBITS

FaithfulHandshake(p) ==
    p.pid \in Handshakes /\ p = Packet(p.pid, <<>>)

Faithful(p) ==
    FaithfulToken(p) \/ FaithfulFrame(p) \/ FaithfulData(p) \/ FaithfulHandshake(p)

FaithfulTraffic == \A m \in Sent : m.pkt = ResetSe0 \/ Faithful(m.pkt)

NoResets == \A m \in Sent : m.pkt # ResetSe0

\* A packet that noise has not struck is reported as it was sent when its last sample
\* has come, whatever the buffers hold: damage to the packet before it, which may have
\* been reported as two or as none, is over when its end of packet has passed.
Delivered ==
    tx = <<>> /\ cur \notin {Nothing, ResetSe0} /\ ~hurt => got = cur

\* One strike never makes a data packet out of something else.
DataGenuine == got.pid \in DataPids => got = cur

\* "The decoding of the packet will detect any corrupt EOP": with the end of packet
\* struck nothing is reported, then or with the samples that follow it.
CorruptEopRefused ==
    Was("EOP") /\ (hurt \/ tx # <<>>) => got \in {Nothing, Refused}

\* nrziDec, which has no length to stop at, has returned when it has gone through the
\* samples of a packet, whatever the line did to them.
NeverReadsAhead == ret = "PACKET" => dec.status # "more"

\* What makes it so: the decoder has found an error, or it has seen as much of an end
\* of packet as apiWaitForPkt counts.
EopInStep ==
    /\ bitcount \in Nat /\ eop_count \in 0..2
    /\ idle \/ lookforreset => bitcount = 0
    /\ bitcount = 0 => eop_count = 0
    /\ bitcount > 0 /\ dec.status = "more" => dec.se0 = eop_count

\* usbPktDecode stays within its buffer as long as no SE0 has cut a packet short.
WithinBuffers == got = OutOfBuffer => Was("SE0")

=============================================================================
