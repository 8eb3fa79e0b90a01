------------------------------ MODULE UsbPacket ------------------------------
(***************************************************************************)
(* The packets that usbPkt.cpp generates and decodes, as host and device   *)
(* see them after usbPktDecode, and the three line conditions that         *)
(* apiWaitForPkt reports besides a packet.                                 *)
(*                                                                         *)
(* A payload is named by the place of its bytes in the buffer they were    *)
(* taken from, <<off, len>>: two payloads are equal exactly when they      *)
(* carry the same bytes.  The eight bytes of a SETUP stage are the request *)
(* record they encode.                                                     *)
(***************************************************************************)
EXTENDS UsbCrc

CONSTANT MAXPKT     \* bMaxPacketSize of the device: 0x20 in usbDevice.h

\* The longest payload that usbPktGen takes at full speed.
MaxData == 64

ASSUME MAXPKTAssumption == MAXPKT \in 1..MaxData

ReqTypes  == {"dev", "if", "ep", "other"}
ReqDirs   == {"get", "set"}
Requested == {"none", "GET_STATUS", "CLEAR_FEATURE", "SET_FEATURE", "SET_ADDRESS",
              "GET_DESCRIPTOR", "SET_DESCRIPTOR", "GET_CONFIG", "SET_CONFIG",
              "GET_INTERFACE", "SET_INTERFACE", "SYNCH_FRAME", "PRIVATE"}
DescTypes == {"none", "DEVICE", "CONFIG", "STRING0", "STRING1", "STRING2",
              "IFEP",           \* interface, endpoint or class-specific interface
              "QUALIFIER"}      \* a type the device does not know

\* The setup packet of a standard request (usbModel::setupRequest).  "desc" is
\* the upper byte of wValue when it names a descriptor, "value" the rest of it.
Req(type, dir, breq, desc, value, index, length) ==
    [type |-> type, dir |-> dir, breq |-> breq, desc |-> desc,
     value |-> value, index |-> index, length |-> length]

NoReq == Req("other", "set", "none", "none", 0, 0, 0)

Tokens     == {"SETUP", "IN", "OUT"}
DataPids   == {"DATA0", "DATA1"}
Handshakes == {"ACK", "NAK", "STALL", "NYET"}
GoodPids   == Tokens \union {"SOF"} \union DataPids \union Handshakes

Pkt(pid, addr, endp, off, len, req) ==
    [pid |-> pid, addr |-> addr, endp |-> endp, off |-> off, len |-> len, req |-> req]

Hshk(pid)           == Pkt(pid, 0, 0, 0, 0, NoReq)
Data(pid, off, len) == Pkt(pid, 0, 0, off, len, NoReq)
SetupData(req)      == Pkt("DATA0", 0, 0, 0, 8, req)
Sof(frame)          == Pkt("SOF", 0, 0, frame % 2048, 0, NoReq)

\* A packet that usbPktDecode refuses: a bad CRC, sync, EOP or PID.
BadPkt == Hshk("BAD")

\* What apiWaitForPkt returns in place of a packet: USBRESET, USBSUSPEND, and
\* USBERROR for an SE0 that is no reset and no end of packet.
LineReset   == Hshk("RESET")
LineSuspend == Hshk("SUSPEND")
LineError   == Hshk("ERROR")
LineEvents  == {LineReset, LineSuspend, LineError}

\* No packet in flight.
NoPkt == Hshk("NONE")

SetupRequests == [type : ReqTypes, dir : ReqDirs, breq : Requested,
                  desc : DescTypes, value : Nat, index : Nat, length : Nat]

Packets == [pid : GoodPids \union {"BAD", "RESET", "SUSPEND", "ERROR", "NONE"},
            addr : 0..127, endp : 0..15, off : Nat, len : Nat, req : SetupRequests]

-----------------------------------------------------------------------------
(***************************************************************************)
(* The token generator.  usbPktGen stores endp >> 1 in the byte that also  *)
(* takes the CRC5 and ORs the CRC in above bit 2: the direction bit (bit 7 *)
(* of endp) becomes bit 6 of that byte and is ORed into bit 3 of the CRC.  *)
(* An address or endpoint out of range is an error, and nothing is sent.   *)
(***************************************************************************)
Bit(n, i)  == (n \div (2^i)) % 2
EpIdx(endp) == endp % 16
EpDir(endp) == (endp \div 128) % 2

\* The eleven bits of a token field in the order they are sent.
TokenBits(addr, endp) ==
    [i \in 1..11 |-> IF i <= 7 THEN Bit(addr, i - 1) ELSE Bit(endp, i - 8)]

\* Bit n of the CRC5 that is sent.
Crc5Bit(addr, endp, n) == usbcrc5(TokenBits(addr, endp))[n + 1]

\* Addresses and endpoints for which that bit of the CRC is set already.
StrayBitHidden == {t \in (0..127) \X (0..15) : Crc5Bit(t[1], t[2], 3) = 1}

\* The receiver finds the CRC it computes itself.
TokenIntact(addr, endp) ==
    EpDir(endp) = 0 \/ <<addr, EpIdx(endp)>> \in StrayBitHidden

TokenGenerable(addr, endp) == addr <= 127 /\ endp % 128 <= 15

Token(pid, addr, endp) ==
    CASE ~TokenGenerable(addr, endp) -> NoPkt
      [] TokenGenerable(addr, endp) /\ ~TokenIntact(addr, endp) -> BadPkt
      [] OTHER -> Pkt(pid, addr, EpIdx(endp), 0, 0, NoReq)

-----------------------------------------------------------------------------
(***************************************************************************)
(* The per-endpoint, per-direction flags both classes keep, and the        *)
(* DATA0/DATA1 toggle (epdata0: TRUE when the next data packet is DATA0).  *)
(***************************************************************************)
Flag(f, endp)         == f[EpIdx(endp)][EpDir(endp)]
SetFlag(f, endp, b)   == [f EXCEPT ![EpIdx(endp)][EpDir(endp)] = b]
dataPid(t, endp)      == IF Flag(t, endp) THEN "DATA0" ELSE "DATA1"
dataPidUpdate(t, endp) == SetFlag(t, endp, ~Flag(t, endp))

MinOf(a, b) == IF a < b THEN a ELSE b

=============================================================================
