----------------------------- MODULE UsbLockstep -----------------------------
(***************************************************************************)
(* Host and device on a line without noise, used as the test programs use  *)
(* it.  Neither side has a timeout and the device never looks at the PID   *)
(* it was promised, so a transfer works only if each side is always at the *)
(* place the other expects.  This module says which places those are: the  *)
(* pairs of hPc and dPc, the packet between them, and how their toggles,   *)
(* byte counts and addresses are related meanwhile.                        *)
(***************************************************************************)
EXTENDS UsbSystem

-----------------------------------------------------------------------------
(***************************************************************************)
(* The conditions.                                                         *)
(***************************************************************************)
ControlOf(c) == c.endp = 0 /\ c.addr \in 0..127 /\ c.req # NoReq

\* A read of a status or a number, which fits one packet.
GetOf(c) ==
    /\ c.req.dir = "get" /\ c.size <= MAXPKT
    /\ \/ /\ c.size = 2
          /\ \/ c.req.type \in {"dev", "if", "ep"} /\ c.req.breq = "GET_STATUS"
             \/ c.req.type = "ep" /\ c.req.breq = "SYNCH_FRAME"
       \/ /\ c.size = 1
          /\ \/ c.req.type = "dev" /\ c.req.breq = "GET_CONFIG"
             \/ c.req.type = "if" /\ c.req.breq = "GET_INTERFACE"

\* A read of a descriptor: chklen asks for no more than there is.
DescOf(c) ==
    /\ c.req.type = "dev" /\ c.req.dir = "get" /\ c.req.breq = "GET_DESCRIPTOR"
    /\ c.size = c.req.length /\ c.size > 0 /\ DescSize[c.req.desc] > 0
    /\ c.chklen => c.size <= DescSize[c.req.desc]

\* An order the device obeys, to an address a token can hold; the endpoint features
\* name endpoint 0, as the two methods of usbHost do.
SetOf(c) ==
    \/ c.req.type = "dev" /\ c.req.breq \in {"CLEAR_FEATURE", "SET_FEATURE", "SET_CONFIG"}
    \/ c.req.type = "dev" /\ c.req.breq = "SET_ADDRESS" /\ c.req.value \in 0..127
    \/ c.req.type = "if" /\ c.req.breq \in {"CLEAR_FEATURE", "SET_FEATURE", "SET_INTERFACE"}
    \/ /\ c.req.type = "ep" /\ c.req.breq \in {"CLEAR_FEATURE", "SET_FEATURE"}
       /\ c.req.index = 0

\* Bulk data on the device's endpoints, with packets that are generated and decode.  A
\* read asks for a whole number of the callback's answers.
OutOf(c) == c.endp = 1 /\ c.addr \in 0..127 /\ c.req = NoReq /\ c.maxpkt \in 1..MaxData

InOf(c) ==
    /\ c.addr \in 0..127 /\ c.req = NoReq
    /\ EpDir(c.endp) = 1 /\ <<EpIdx(c.endp), 1>> \in epvalid
    /\ TokenGenerable(c.addr, c.endp) /\ TokenIntact(c.addr, c.endp)
    /\ \A n \in InSizes : \E k \in 0..c.size : c.size = k * n

Usual(c) ==
    /\ c.kind \in Controls => ControlOf(c)
    /\ c.kind = "get" => GetOf(c)
    /\ c.kind \in Descs => DescOf(c)
    /\ c.kind \in Sets => SetOf(c)
    /\ c.kind = "out" => OutOf(c)
    /\ c.kind = "in" => InOf(c)
    /\ c.kind \notin {"isoOut", "isoIn"}

\* A reset takes the device's toggles back to DATA0 and leaves the host's, so between
\* two of them every read must be of an even number of packets: here of two.
EvenReads ==
    /\ "NAK" \notin Responses
    /\ InSizes \subseteq {MAXPKT}
    /\ \A c \in Calls : c.kind = "in" => c.size = 2 * MAXPKT

Quiet ==
    /\ MaxFaults = 0 /\ ~Wild
    /\ Responses \subseteq {"ACK", "NAK"}
    /\ 0 \notin InSizes /\ \A m, n \in InSizes : m = n
    /\ \A c \in Calls : Usual(c)
    /\ ResetSeenAs = {} \/ (ResetSeenAs = {"RESET"} /\ EvenReads)

-----------------------------------------------------------------------------
(***************************************************************************)
(* Where the two sides stand, and what is on the line between them.        *)
(***************************************************************************)
Clear         == toDev = NoPkt /\ toHost = NoPkt
Sent(pid)     == toDev.pid = pid /\ toHost = NoPkt
Answered(pid) == toHost.pid = pid /\ toDev = NoPkt

\* The packet that waits for its handshake is not the last of the transfer.
More == dCtx.sent + Chunk(dCtx) < dCtx.size

AtRest ==
    \/ hPc = "Start" /\ dPc \in {"Start", "Run"} /\ Clear
    \/ /\ hPc = "Ready" /\ dPc = "Run" /\ toHost = NoPkt
       /\ toDev = NoPkt \/ toDev.pid \in {"SUSPEND", "SOF"} \union ResetSeenAs
    \/ hPc = "Ready" /\ dPc = "StatusAck" /\ Sent("ACK")
    \/ hPc = "Ready" /\ dPc = "InHshk" /\ ~dCtx.ctl /\ ~More /\ Sent("ACK")

SetupStage ==
    \/ hPc = "CheckSof" /\ dPc = "Run" /\ Clear
    \/ hPc = "Setup" /\ dPc = "Run" /\ (Clear \/ Sent("SOF"))
    \/ hPc = "SetupData" /\ dPc = "Run" /\ Sent("SETUP")
    \/ hPc = "SetupData" /\ dPc = "SetupData" /\ Clear
    \/ hPc = "SetupAck" /\ dPc = "SetupData" /\ Sent("DATA0")
    \/ hPc = "SetupAck" /\ dPc = "StatusIn" /\ hCall.kind \in Sets /\ Answered("ACK")
    \/ hPc = "SetupAck" /\ dPc = "InToken" /\ hCall.kind \notin Sets /\ Answered("ACK")

\* Data to the host, in a control transfer or on a data endpoint.
InStage ==
    \/ hPc = "InTok" /\ dPc = "InToken" /\ Clear
    \/ hPc = "InData" /\ dPc = "InToken" /\ Sent("IN")
    \/ hPc = "InData" /\ dPc = "InHshk" /\ (Answered("DATA0") \/ Answered("DATA1"))
    \/ hPc = "InTok" /\ dPc = "InHshk" /\ (dCtx.ctl => More) /\ Sent("ACK")
    \/ hPc = "StatusOutTok" /\ dPc = "InHshk" /\ ~More /\ Sent("ACK")
    \/ /\ dPc = "Run" /\ hCall.kind = "in"
       /\ \/ hPc = "InTok" /\ Clear
          \/ hPc = "InData" /\ (Sent("IN") \/ (Answered("NAK") /\ "NAK" \in Responses))

StatusStage ==
    \/ hPc = "StatusOutTok" /\ dPc = "StatusOut" /\ Clear
    \/ hPc = "StatusOutData" /\ dPc = "StatusOut" /\ Sent("OUT")
    \/ hPc = "StatusOutData" /\ dPc = "StatusData" /\ Clear
    \/ hPc = "StatusOutAck" /\ dPc = "StatusData" /\ Sent("DATA1")
    \/ hPc = "StatusOutAck" /\ dPc = "Run" /\ Answered("ACK")
    \/ hPc = "StatusInTok" /\ dPc = "StatusIn" /\ Clear
    \/ hPc = "StatusInData" /\ dPc = "StatusIn" /\ Sent("IN")
    \/ hPc = "StatusInData" /\ dPc = "StatusAck" /\ Answered("DATA1")

OutStage ==
    \/ hPc = "OutTok" /\ dPc = "Run" /\ Clear
    \/ hPc = "OutData" /\ dPc = "Run" /\ Sent("OUT")
    \/ hPc = "OutData" /\ dPc = "OutData" /\ Clear
    \/ hPc = "OutAck" /\ dPc = "OutData" /\ (Sent("DATA0") \/ Sent("DATA1"))
    \/ hPc = "OutAck" /\ dPc = "Run" /\ (Answered("ACK") \/ Answered("NAK"))

InStep == AtRest \/ SetupStage \/ InStage \/ StatusStage \/ OutStage

-----------------------------------------------------------------------------
(***************************************************************************)
(* What the places have in common.                                         *)
(***************************************************************************)
Transferring == dPc \in {"InToken", "InHshk"}
DataIn       == Transferring /\ ~dCtx.ctl

\* What the host has taken of the device's transfer.
Gained == dCtx.sent + (IF toDev.pid = "ACK" THEN Chunk(dCtx) ELSE 0)

AnswerSize(c) == IF c.kind = "get" THEN c.size ELSE MinOf(c.size, DescSize[c.req.desc])

\* The token is for the device, and the setup packet is the call's.
Addressed ==
    /\ devaddr \in {NoAddr} \union (0..127)
    /\ hPc \in {"CheckSof", "Setup", "SetupData"} => hCall.addr \in {0, devaddr}
    /\ hCall.kind \in {"in", "out"} => hCall.addr = devaddr
    /\ toDev.pid \in Tokens =>
          toDev.addr = hCall.addr /\ toDev.endp = EpIdx(hCall.endp) /\ toDev.len = 0
    /\ hPc = "SetupAck" /\ dPc = "SetupData" => toDev.len = 8 /\ toDev.req = hCall.req
    /\ dPc = "OutData" => dCtx.endp = 1
    /\ dPc = "SetupData" => dCtx.endp = 0 /\ ~dCtx.bad

\* No endpoint but the control endpoint is halted.
OnlyControlHalted ==
    \A e \in 0..255 : EpIdx(e) \in EP /\ Flag(ephalted, e) => EpIdx(e) = 0 /\ EpDir(e) = 0

\* The device's transfer is that of the call, and its bytes are where the host's are.
ControlIn ==
    /\ hPc \in {"CheckSof", "Setup", "SetupData", "SetupAck"} => hDone = 0 /\ hRx = <<>>
    /\ Transferring /\ dCtx.ctl =>
          /\ dCtx.base = 0 /\ dCtx.size = AnswerSize(hCall)
          /\ hDone = Gained
    /\ hPc \in {"StatusOutTok", "StatusOutData", "StatusOutAck"} => hDone = AnswerSize(hCall)
    /\ dPc \in {"StatusIn", "StatusAck", "StatusOut", "StatusData"} => dCtx.endp = 0

BulkIn ==
    /\ hIn = dIn + (IF DataIn THEN Gained ELSE 0)
    /\ DataIn => /\ dCtx.base = dIn /\ dCtx.size \in InSizes
                 /\ EpDir(dCtx.endp) = 1 /\ EpIdx(dCtx.endp) \in EP
                 /\ hPc # "Ready" => EpIdx(dCtx.endp) = EpIdx(hCall.endp)
    /\ hCall.kind = "in" =>
          /\ hDone < hCall.size
          /\ \A n \in InSizes : \E k \in 0..hDone :
                hDone = k * n + (IF DataIn THEN Gained ELSE 0)

InTransfer ==
    /\ Transferring => /\ dCtx.sent < dCtx.size /\ (dCtx.ctl => dCtx.endp = 0)
                       /\ dCtx.sent > 0 => dCtx.size > MAXPKT
    /\ Transferring /\ hPc # "Ready" => (dCtx.ctl <=> hCall.kind # "in")
    /\ dPc = "InHshk" /\ toDev = NoPkt =>
          /\ toHost.off = dCtx.base + dCtx.sent /\ toHost.len = Chunk(dCtx)
          /\ toHost.pid = dataPid(dEpdata0, dCtx.endp)

\* The host has the whole of what it counts, in order.
RxWhole ==
    hCall.kind \in Controls =>
        /\ Whole(hRx)
        /\ hDone = IF hRx = <<>> THEN 0 ELSE hRx[Len(hRx)][1] + hRx[Len(hRx)][2]

InEndps == {e \in 128..255 : EpIdx(e) \in EP}

\* The toggles: equal, but for the packet the host has acknowledged and the device
\* has yet to hear of.
ControlToggles ==
    /\ dPc \in {"Start", "Run", "SetupData", "OutData"} \/ DataIn =>
          dataPid(dEpdata0, 0) = "DATA0"
    /\ hPc = "SetupAck" => dataPid(hEpdata0, 0) = "DATA1"
    /\ hPc \in {"StatusInTok", "StatusInData"} => dataPid(hEpdata0, 0) = "DATA1"
    /\ hCall.kind \notin Controls \/ hPc = "StatusOutAck" => dataPid(hEpdata0, 0) = "DATA0"
    /\ Transferring /\ dCtx.ctl =>
          (dataPid(hEpdata0, 0) = dataPid(dEpdata0, 0) <=> toDev.pid # "ACK")

InToggles ==
    /\ \A e \in InEndps :
          dataPid(hEpdata0, e) = dataPid(dEpdata0, e)
             <=> ~(DataIn /\ toDev.pid = "ACK" /\ EpIdx(e) = EpIdx(dCtx.endp))
    /\ ResetSeenAs # {} => \A e \in InEndps :
          dataPid(hEpdata0, e) =
             IF hCall.kind = "in" /\ EpIdx(e) = EpIdx(hCall.endp) /\ hDone = MAXPKT
             THEN "DATA1" ELSE "DATA0"

\* The request of the call is acted on where the device answers its setup packet.
Unserved == hPc \in {"CheckSof", "Setup", "SetupData"} \/ dPc = "SetupData"

Serving ==
    /\ hCall.kind \in Ins \union Outs => mark = -1
    /\ hCall.kind \in Controls =>
          /\ mark = IF Unserved THEN Len(dServed) ELSE Len(dServed) - 1
          /\ ~Unserved /\ hCall.req.breq = "SET_ADDRESS" /\ hCall.kind \in Sets
                => devaddr = hCall.req.value

DeviceOn == pullup <=> dPc # "Start"

Places == DeviceOn /\ InStep /\ Addressed /\ OnlyControlHalted
Bytes  == InTransfer /\ ControlIn /\ BulkIn /\ RxWhole
Toggles == ControlToggles /\ InToggles

\* On a quiet line the two sides never lose each other.
Lockstep == Quiet /\ Places /\ Bytes /\ Toggles /\ Serving

-----------------------------------------------------------------------------
(***************************************************************************)
(* The bulk OUT data and their toggle.                                     *)
(***************************************************************************)
\* What the data callback has taken of the OUT call in progress.
OutGained == hDone + (IF hPc = "OutAck" /\ Answered("ACK") THEN OutSize ELSE 0)

OutTaken == hCall.kind = "out" => Taken(hOut) = hOut..(hOut + OutGained - 1)

\* A callback that accepts every packet, and no reset between the transfers.
NothingLost == Responses \subseteq {"ACK"} /\ ResetSeenAs = {}

OutEndps == {e \in 0..127 : EpIdx(e) \in EP \ {0}}

\* The OUT toggles differ while the packet is under way.
OutToggles ==
    NothingLost => \A e \in OutEndps :
        dataPid(hEpdata0, e) = dataPid(dEpdata0, e)
           <=> ~(hPc = "OutAck" /\ toDev # NoPkt /\ EpIdx(e) = EpIdx(hCall.endp))

=============================================================================
