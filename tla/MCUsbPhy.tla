------------------------------- MODULE MCUsbPhy -------------------------------
(***************************************************************************)
(* An instance of UsbPhy for TLC: three packets, one of them struck, with  *)
(* the counts of UsbLine scaled down.                                      *)
(***************************************************************************)
EXTENDS UsbPhy

After(delay, p) == [delay |-> delay, pkt |-> p]

\* Packets without a one too many and with stuffed bits, in the PID and CRC, in the
\* address, across payload and CRC.
Ack       == Packet("ACK", <<>>)
Stall     == Packet("STALL", <<>>)
SetupTok  == Packet("SETUP", <<0, 0>>)
OutStuff  == Packet("OUT", <<127, 15>>)
Frame     == Packet("SOF", <<1023>>)
InTok     == Packet("IN", <<1, 0>>)
NoData    == Packet("DATA1", <<>>)
OnesData  == Packet("DATA0", Bits(65535, 16))

\* Four bytes of which a part, cut off by an SE0, reads as a data packet too short to
\* hold a CRC16, and the first four of a GET_DESCRIPTOR request.
CutData   == Packet("DATA0", Bits(0, 8) \o Bits(3, 8) \o Bits(1, 8) \o Bits(0, 8))
Request   == Packet("DATA0", Bits(128, 8) \o Bits(6, 8) \o Bits(256, 16))

MCTraffic ==
    {<<After(1, a), After(d, b), After(0, c)>> :
        a \in {Ack, OnesData}, d \in {0, 14},
        b \in {Stall, SetupTok, OutStuff, InTok, Frame, NoData, OnesData, CutData,
               Request, ResetSe0},
        c \in {Ack, NoData}}

\* What the theorems about UsbPhy require of the traffic.
ASSUME FaithfulTraffic

-----------------------------------------------------------------------------
(***************************************************************************)
(* What UsbPacket says of packets, compared with generating and decoding   *)
(* their bits.  (The line code loses nothing: UsbPktCodec_proofs.)         *)
(***************************************************************************)
Transferred(p) == usbPktDecode(usbPktGen(p), Len(usbPktGen(p)))

\* Every token arrives as it was sent unless the direction bit of its endpoint has
\* spoilt the CRC.
ASSUME TokensArrive ==
    \A a \in 0..127, e \in {0, 1, 2, 8, 15, 128, 129, 136} :
        LET t == Token("OUT", a, e)
        IN  Transferred(Packet("OUT", <<a, e>>)) =
              IF t = BadPkt THEN Refused ELSE Packet("OUT", <<t.addr, t.endp>>)

\* Frame numbers arrive modulo 2048.
ASSUME FramesArrive ==
    \A f \in {0, 1, 127, 128, 2047, 2048, 4095} :
        Transferred(Packet("SOF", <<f>>)) = Packet("SOF", <<Sof(f).off>>)

=============================================================================
