----------------------------- MODULE UsbPktCodec -----------------------------
(***************************************************************************)
(* usbPktGen and usbPktDecode on bits.  A packet is its PID with the       *)
(* arguments of the generator, which are also what the decoder yields:     *)
(* address and endpoint, a frame number, or the bits of the payload.       *)
(***************************************************************************)
EXTENDS UsbPacket, UsbNrzi

\* The packet identifiers by their codes; "BAD" where the decoder supports none.
PidName == <<"OUT", "ACK", "DATA0", "BAD", "SOF", "NYET", "BAD", "BAD",
             "IN", "NAK", "DATA1", "BAD", "SETUP", "STALL", "BAD">>

PidCode(pid) == CHOOSE code \in DOMAIN PidName : PidName[code] = pid

Packet(pid, args) == [pid |-> pid, args |-> args]

Refused     == Packet("BAD", <<>>)      \* USBERROR or USBUNSUPPORTED
\* A payload length below zero is passed to usbcrc16 as an unsigned number, and the
\* loop there leaves the buffer.
OutOfBuffer == Packet("OVERRUN", <<>>)

\* Numbers are sent from their lowest bit.
Bits(n, width) == [i \in 1..width |-> Bit(n, i - 1)]

Num(bits) ==
    LET num[i \in 0..Len(bits)] == IF i = 0 THEN 0 ELSE num[i - 1] + bits[i] * 2^(i - 1)
    IN  num[Len(bits)]

-----------------------------------------------------------------------------
(***************************************************************************)
(* The four generators.  What fails their checks is not sent at all.       *)
(***************************************************************************)
Head16(pid) == Bits(128, 8) \o Bits(PidCode(pid), 4) \o Complement(Bits(PidCode(pid), 4))

\* endp >> 1 and the CRC share a byte: what endp has above bit 3 is ORed into the CRC,
\* which is computed from the byte without it.
TokenField(addr, endp) ==
    LET crc == usbcrc5(TokenBits(addr, endp))
    IN  TokenBits(addr, endp)
          \o [i \in 1..5 |-> IF Bit(endp, 3 + i) = 1 THEN 1 ELSE crc[i]]

SofField(frame) == Bits(frame % 2048, 11) \o usbcrc5(Bits(frame % 2048, 11))

Payload(bits) == bits \o usbcrc16(bits)

Generable(p) ==
    CASE p.pid \in Tokens   -> TokenGenerable(p.args[1], p.args[2])
      [] p.pid = "SOF"      -> p.args[1] <= 4095
      [] p.pid \in DataPids -> Len(p.args) <= 8 * MaxData
      [] OTHER              -> p.pid \in Handshakes

usbPktGen(p) ==
    Head16(p.pid)
      \o (CASE p.pid \in Tokens   -> TokenField(p.args[1], p.args[2])
            [] p.pid = "SOF"      -> SofField(p.args[1])
            [] p.pid \in DataPids -> Payload(p.args)
            [] OTHER              -> <<>>)

\* The samples that apiSendPacket puts on the line.
Wire(p) == nrziEnc(usbPktGen(p))

-----------------------------------------------------------------------------
(***************************************************************************)
(* The decoder.  rawbuf keeps what earlier packets left behind the bits of *)
(* this one, and the fields are read from it wherever the packet ends.     *)
(***************************************************************************)

\* nrziDec stores whole bytes, at the end of a packet also an incomplete one; the
\* bits of that one are counted a second time.
Residue(d) == Len(d.bits) % 8

Stored(raw, d) ==
    LET whole  == Len(d.bits) - Residue(d)
        filled == IF d.status = "done" /\ Residue(d) > 0 THEN whole + 8 ELSE whole
    IN  [i \in DOMAIN raw |->
            IF i > filled THEN raw[i] ELSE IF i > Len(d.bits) THEN 0 ELSE d.bits[i]]

BitCount(d) == IF d.status = "done" THEN Len(d.bits) + Residue(d) ELSE -1

Field(raw, first, last) == SubSeq(raw, first, last)

DecodeToken(pid, raw) ==
    IF usbcrc5(Field(raw, 17, 27)) # Field(raw, 28, 32) THEN Refused
    ELSE IF pid = "SOF" THEN Packet(pid, <<Num(Field(raw, 17, 27))>>)
    ELSE Packet(pid, <<Num(Field(raw, 17, 23)), Num(Field(raw, 24, 27))>>)

\* Mutant of DecodeData: the CRC16 is not looked at.
DecodeDataUnchecked(pid, raw, bitcnt) ==
    LET end == 8 * (bitcnt \div 8 - 2) IN
    IF end < 16 THEN OutOfBuffer ELSE Packet(pid, Field(raw, 17, end))

\* Mutant of DecodeData: the CRC16 is left out of the count twice.
DecodeDataShort(pid, raw, bitcnt) ==
    LET end == 8 * (bitcnt \div 8 - 4) IN
    IF end < 16 THEN OutOfBuffer
    ELSE IF usbcrc16(Field(raw, 17, end)) # Field(raw, end + 1, end + 16) THEN Refused
    ELSE Packet(pid, Field(raw, 17, end))

\* The payload is what the bit count leaves between PID and CRC16.
DecodeData(pid, raw, bitcnt) ==
    LET end == 8 * (bitcnt \div 8 - 2) IN
    IF end < 16 THEN OutOfBuffer
    ELSE IF usbcrc16(Field(raw, 17, end)) # Field(raw, end + 1, end + 16) THEN Refused
    ELSE Packet(pid, Field(raw, 17, end))

\* MINPKTSIZEBITS is all a length is checked for.
PidIntact(raw) == Field(raw, 13, 16) = Complement(Field(raw, 9, 12))

usbPktDecode(raw, bitcnt) ==
    LET code == Num(Field(raw, 9, 12))
        pid  == IF code = 0 THEN "BAD" ELSE PidName[code]
    IN  IF bitcnt < 16 \/ ~PidIntact(raw) \/ pid = "BAD" THEN Refused
        ELSE IF pid \in Tokens \union {"SOF"} THEN DecodeToken(pid, raw)
        ELSE IF pid \in DataPids THEN DecodeData(pid, raw, bitcnt)
        ELSE Packet(pid, <<>>)

=============================================================================
