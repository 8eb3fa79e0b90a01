------------------------------ MODULE UsbDevice ------------------------------
(***************************************************************************)
(* The device model, class usbDevice: usbDeviceRun and everything it       *)
(* calls.  The code is one thread that blocks in waitForExpectedPacket; a  *)
(* step of this module is what the thread does from the return of one such *)
(* wait to the start of the next, and dPc names the wait it blocks in.     *)
(*                                                                         *)
(* The check of the received PID at the end of waitForExpectedPacket never *)
(* runs: status holds a bit count, which is positive, and the check asks   *)
(* for status == USBOK (0).  So every wait accepts whatever packet comes,  *)
(* and only code that looks at the PID itself tells packets apart.         *)
(***************************************************************************)
EXTENDS UsbBus

CONSTANTS
    Requests,   \* requests that user data left in rxdata may be taken for
    InSizes,    \* byte counts the data callback may answer an IN token with
    Responses,  \* answers the data callback may give
    MaxOut      \* bound: packets the data callback accepts

\* Endpoints and directions of this device, as the constructor sets them.
epvalid == {<<0, 0>>, <<1, 0>>, <<1, 1>>, <<8, 1>>}

ASSUME DeviceAssumption ==
    /\ {0, 1, 8} \subseteq EP
    /\ InSizes \subseteq Nat
    /\ Responses \subseteq {"ACK", "NAK", "STALL"}
    /\ Requests \subseteq SetupRequests
    /\ MaxOut \in Nat

VARIABLES
    dPc,                \* the wait the thread blocks in, or "Start", "Stopped"
    dCtx,               \* locals of the calls in progress
    devaddr, deviceConfigured, ephalted, dEpdata0, dFramenum, dSuspended,
    dNrzi,              \* the packet the nrzi buffer holds, sent or received
    dRx,                \* the request rxdata holds, or NoReq for other bytes
    dServed,            \* requests acted on, in order (history)
    dOut,               \* <<endp, off, len>> the data callback accepted (history)
    dIn                 \* bytes of callback data the host acknowledged (history)

dState   == <<devaddr, deviceConfigured, ephalted, dEpdata0, dFramenum>>
dHistory == <<dServed, dOut, dIn>>
dVars    == <<dPc, dCtx, dState, dSuspended, dNrzi, dRx, pullup, dHistory, toDev,
              toHost>>

NoAddr == -1    \* USB_NO_ASSIGNED_ADDR

\* endp: endpoint of the token; bad: its address check failed; ctl: sendInData
\* was called for a control transfer; base, size, sent, naks: its locals.
NoCtx == [endp |-> 0, bad |-> FALSE, ctl |-> FALSE,
          base |-> 0, size |-> 0, sent |-> 0, naks |-> 0]

Waits == {"Run", "SetupData", "InToken", "InHshk", "OutData",
          "StatusIn", "StatusAck", "StatusOut", "StatusData"}

DeviceInit ==
    /\ dPc = "Start" /\ dCtx = NoCtx
    /\ devaddr = NoAddr /\ deviceConfigured = FALSE
    /\ ephalted = AllFlags(FALSE) /\ dEpdata0 = AllFlags(TRUE)
    /\ dFramenum = 0 /\ dSuspended = FALSE
    /\ dNrzi = BadPkt       \* memory that holds no packet yet
    /\ dRx = NoReq
    /\ dServed = <<>> /\ dOut = <<>> /\ dIn = 0

-----------------------------------------------------------------------------
(***************************************************************************)
(* waitForExpectedPacket and sendPktToHost.                                *)
(***************************************************************************)

\* What usbPktDecode is given: after USBERROR, which waitForExpectedPacket does
\* not look for, the buffer still holds the packet sent or received last.
Received == IF toDev = LineError THEN dNrzi ELSE toDev

Take(pc) ==
    /\ dPc = pc
    /\ toDev # NoPkt /\ Received.pid \in GoodPids
    /\ toDev' = NoPkt
    /\ UNCHANGED <<dSuspended, pullup>>

\* The wait "pc" returns to its caller; the bytes of a data packet are in rxdata.
Return(pc) ==
    /\ Take(pc)
    /\ dRx' = IF Received.len = 0 THEN dRx ELSE Received.req

sendPktToHost(pkt) == toHost' = pkt /\ dNrzi' = pkt
Silent             == toHost' = toHost /\ dNrzi' = Received

Goto(pc, ctx) == dPc' = pc /\ dCtx' = ctx
Stop          == Goto("Stopped", NoCtx)     \* usbDeviceRun returns USBERROR

\* USBRESET: the state is reset and the wait in progress goes on.
WaitReset ==
    /\ dPc \in Waits /\ toDev = LineReset
    /\ toDev' = NoPkt
    /\ devaddr' = NoAddr /\ deviceConfigured' = FALSE
    /\ ephalted' = AllFlags(FALSE) /\ dEpdata0' = AllFlags(TRUE)
    /\ dFramenum' = 0 /\ dSuspended' = FALSE
    /\ UNCHANGED <<dPc, dCtx, dNrzi, dRx, pullup, dHistory, toHost>>

WaitSuspend ==
    /\ dPc \in Waits /\ toDev = LineSuspend
    /\ toDev' = NoPkt /\ dSuspended' = TRUE
    /\ UNCHANGED <<dPc, dCtx, dState, dNrzi, dRx, pullup, dHistory, toHost>>

\* A packet that does not decode is ignored and the wait goes on.
WaitBad ==
    /\ dPc \in Waits /\ toDev # NoPkt /\ Received = BadPkt
    /\ toDev' = NoPkt /\ dSuspended' = FALSE /\ dNrzi' = BadPkt
    /\ UNCHANGED <<dPc, dCtx, dState, dRx, pullup, dHistory, toHost>>

-----------------------------------------------------------------------------
(***************************************************************************)
(* usbDeviceRun                                                            *)
(***************************************************************************)

usbDeviceRun ==
    /\ dPc = "Start" /\ dPc' = "Run" /\ pullup' = TRUE
    /\ UNCHANGED <<dCtx, dState, dSuspended, dNrzi, dRx, dHistory, toDev, toHost>>

\* User code whose usbDeviceRun returned may take the device off the line.
usbDeviceDisconnect ==
    /\ dPc = "Stopped" /\ pullup /\ pullup' = FALSE
    /\ UNCHANGED <<dPc, dCtx, dState, dSuspended, dNrzi, dRx, dHistory, toDev, toHost>>

\* ... and on it again, without running it: nobody samples the line.
usbDeviceReconnect ==
    /\ dPc = "Stopped" /\ ~pullup /\ pullup' = TRUE
    /\ UNCHANGED <<dPc, dCtx, dState, dSuspended, dNrzi, dRx, dHistory, toDev, toHost>>

\* Or it calls usbDeviceRun again.  The object keeps all its state: address, halts
\* and toggles are those the error left behind.
usbDeviceRunAgain ==
    /\ dPc = "Stopped" /\ dPc' = "Run" /\ pullup' = TRUE
    /\ UNCHANGED <<dCtx, dState, dSuspended, dNrzi, dRx, dHistory, toDev, toHost>>

\* A stopped device samples the line no more.
Deaf ==
    /\ dPc = "Stopped" /\ toDev # NoPkt /\ toDev' = NoPkt
    /\ UNCHANGED <<dPc, dCtx, dState, dSuspended, dNrzi, dRx, pullup, dHistory, toHost>>

RunSetup ==
    /\ Return("Run") /\ Received.pid = "SETUP"
    /\ LET a == Received.addr
           e == Received.endp
       IN  Goto("SetupData",
                [NoCtx EXCEPT !.endp = e,
                   !.bad = ~ \/ a = 0 /\ e = 0
                             \/ a = devaddr /\ <<EpIdx(e), EpDir(e)>> \in epvalid])
    /\ Silent
    /\ UNCHANGED <<dState, dHistory>>

processSOF ==
    /\ Return("Run") /\ Received.pid = "SOF"
    /\ dFramenum' = Received.off % 2048
    /\ Goto("Run", NoCtx) /\ Silent
    /\ UNCHANGED <<devaddr, deviceConfigured, ephalted, dEpdata0, dHistory>>

RunUnexpected ==
    /\ Return("Run") /\ Received.pid \in DataPids \union Handshakes
    /\ Stop /\ Silent
    /\ UNCHANGED <<dState, dHistory>>

-----------------------------------------------------------------------------
(***************************************************************************)
(* sendInData: chunks of at most MAXPKT, each sent on an IN token and      *)
(* acknowledged before the next.                                           *)
(***************************************************************************)

\* Mutant of Chunk: the last packet is sent full.
ChunkFull(ctx) == MAXPKT

Chunk(ctx) == MinOf(ctx.size - ctx.sent, MAXPKT)

\* Mutant of SendChunk: data for &data[datasent].
SendChunkFromStart(ctx) ==
    /\ sendPktToHost(Data(dataPid(dEpdata0, ctx.endp), ctx.base, Chunk(ctx)))
    /\ Goto("InHshk", ctx)

SendChunk(ctx) ==
    /\ sendPktToHost(Data(dataPid(dEpdata0, ctx.endp), ctx.base + ctx.sent, Chunk(ctx)))
    /\ Goto("InHshk", ctx)

SendOnIn ==
    /\ Return("InToken")
    /\ SendChunk(dCtx)
    /\ UNCHANGED <<dState, dHistory>>

\* Mutant of InAcked: whatever is not a NAK acknowledges.
InAckedByAny ==
    LET ctx == [dCtx EXCEPT !.sent = @ + Chunk(dCtx)] IN
    /\ Return("InHshk") /\ Received.pid # "NAK"
    /\ dEpdata0' = dataPidUpdate(dEpdata0, ctx.endp)
    /\ IF ctx.sent < ctx.size THEN Goto("InToken", ctx)
       ELSE IF ctx.ctl THEN Goto("StatusOut", ctx) ELSE Goto("Run", NoCtx)
    /\ dIn' = IF ctx.sent = ctx.size /\ ~ctx.ctl THEN dIn + ctx.size ELSE dIn
    /\ Silent
    /\ UNCHANGED <<devaddr, deviceConfigured, ephalted, dFramenum, dServed, dOut>>

\* Mutant of InAcked: a token is awaited when all bytes have gone.
InAckedOneMore ==
    LET ctx == [dCtx EXCEPT !.sent = @ + Chunk(dCtx)] IN
    /\ Return("InHshk") /\ Received.pid = "ACK"
    /\ dEpdata0' = dataPidUpdate(dEpdata0, ctx.endp)
    /\ Goto("InToken", ctx)
    /\ Silent
    /\ UNCHANGED <<devaddr, deviceConfigured, ephalted, dFramenum, dHistory>>

InAcked ==
    LET ctx == [dCtx EXCEPT !.sent = @ + Chunk(dCtx)] IN
    /\ Return("InHshk") /\ Received.pid = "ACK"
    /\ dEpdata0' = dataPidUpdate(dEpdata0, ctx.endp)
    /\ IF ctx.sent < ctx.size THEN Goto("InToken", ctx)
       ELSE IF ctx.ctl THEN Goto("StatusOut", ctx) ELSE Goto("Run", NoCtx)
    /\ dIn' = IF ctx.sent = ctx.size /\ ~ctx.ctl THEN dIn + ctx.size ELSE dIn
    /\ Silent
    /\ UNCHANGED <<devaddr, deviceConfigured, ephalted, dFramenum, dServed, dOut>>

\* Mutant of InNaked: the first chunk of processIn waits for a token as well.
InNakedWaits ==
    LET ctx == [dCtx EXCEPT !.naks = @ + 1] IN
    /\ Return("InHshk") /\ Received.pid = "NAK"
    /\ (IF ctx.naks > MAXNAKS THEN Stop ELSE Goto("InToken", ctx)) /\ Silent
    /\ UNCHANGED <<dState, dHistory>>

\* A NAK repeats the chunk; only the first chunk of processIn needs no new token.
InNaked ==
    LET ctx == [dCtx EXCEPT !.naks = @ + 1] IN
    /\ Return("InHshk") /\ Received.pid = "NAK"
    /\ IF ctx.naks > MAXNAKS THEN Stop /\ Silent
       ELSE IF ~ctx.ctl /\ ctx.sent = 0 THEN SendChunk(ctx)
       ELSE Goto("InToken", ctx) /\ Silent
    /\ UNCHANGED <<dState, dHistory>>

InNoHandshake ==
    /\ Return("InHshk") /\ Received.pid \notin {"ACK", "NAK"}
    /\ Stop /\ Silent
    /\ UNCHANGED <<dState, dHistory>>

-----------------------------------------------------------------------------
(***************************************************************************)
(* processIn and processOut: transfers on the data endpoints.              *)
(***************************************************************************)

\* Mutant of Refused: a halted endpoint is not refused.
RefusedUnlessHalted(addr, endp) ==
    addr # devaddr \/ <<EpIdx(endp), EpDir(endp)>> \notin epvalid

\* The check at the head of both, for the endpoint with its direction bit.
Refused(addr, endp) ==
    \/ addr # devaddr
    \/ <<EpIdx(endp), EpDir(endp)>> \notin epvalid
    \/ Flag(ephalted, endp)

InEndp == Received.endp + 128       \* | DIRTOHOST

Refuse(pid, endp) ==
    /\ Return("Run") /\ Received.pid = pid /\ Refused(Received.addr, endp)
    /\ sendPktToHost(Hshk("STALL")) /\ Stop
    /\ UNCHANGED <<dState, dHistory>>

CallbackStall(endp) ==
    /\ "STALL" \in Responses
    /\ ephalted' = SetFlag(ephalted, endp, TRUE)
    /\ sendPktToHost(Hshk("STALL")) /\ Stop
    /\ UNCHANGED <<devaddr, deviceConfigured, dEpdata0, dFramenum, dHistory>>

CallbackNak ==
    /\ "NAK" \in Responses
    /\ sendPktToHost(Hshk("NAK")) /\ Goto("Run", NoCtx)
    /\ UNCHANGED <<dState, dHistory>>

\* No byte to send: sendInData breaks off at once, and the token has no answer.
CallbackData(endp) ==
    /\ "ACK" \in Responses
    /\ \E n \in InSizes :
          IF n = 0 THEN Goto("Run", NoCtx) /\ Silent
          ELSE SendChunk([NoCtx EXCEPT !.endp = endp, !.base = dIn, !.size = n])
    /\ UNCHANGED <<dState, dHistory>>

processIn ==
    \/ Refuse("IN", InEndp)
    \/ /\ Take("Run") /\ Received.pid = "IN" /\ ~Refused(Received.addr, InEndp)
       /\ \/ CallbackStall(InEndp) /\ UNCHANGED dRx
          \/ CallbackNak /\ UNCHANGED dRx
          \/ CallbackData(InEndp) /\ dRx' = NoReq      \* rxdata is its buffer

\* The STALL goes out before the data packet that follows the token.
processOut ==
    \/ Refuse("OUT", Received.endp)
    \/ /\ Return("Run") /\ Received.pid = "OUT"
       /\ ~Refused(Received.addr, Received.endp)
       /\ Goto("OutData", [NoCtx EXCEPT !.endp = Received.endp]) /\ Silent
       /\ UNCHANGED <<dState, dHistory>>

\* Mutant of OutAccept: the toggle stays.
OutAcceptNoToggle ==
    /\ "ACK" \in Responses /\ Len(dOut) < MaxOut
    /\ sendPktToHost(Hshk("ACK"))
    /\ dOut' = Append(dOut, <<dCtx.endp, Received.off, Received.len>>)
    /\ Goto("Run", NoCtx)
    /\ UNCHANGED <<dState, dServed, dIn>>

OutAccept ==
    /\ "ACK" \in Responses /\ Len(dOut) < MaxOut
    /\ sendPktToHost(Hshk("ACK"))
    /\ dEpdata0' = dataPidUpdate(dEpdata0, dCtx.endp)
    /\ dOut' = Append(dOut, <<dCtx.endp, Received.off, Received.len>>)
    /\ Goto("Run", NoCtx)
    /\ UNCHANGED <<devaddr, deviceConfigured, ephalted, dFramenum, dServed, dIn>>

OutData ==
    /\ Return("OutData")
    /\ CallbackStall(dCtx.endp) \/ CallbackNak \/ OutAccept

-----------------------------------------------------------------------------
(***************************************************************************)
(* processControl: the setup packet and the request in it.                 *)
(***************************************************************************)

\* The request in rxdata: if the packet taken for the setup packet had no data, the
\* one before it.  Bytes of user data may read as any request.
Request == IF dRx' # NoReq THEN {dRx'} ELSE Requests \union {NoReq}

CtlCtx(size) == [NoCtx EXCEPT !.endp = dCtx.endp, !.ctl = TRUE, !.size = size]

\* ACK for the SETUP data: every request that is acted on starts with it.
AckSetup(r) ==
    /\ sendPktToHost(Hshk("ACK"))
    /\ dEpdata0' = dataPidUpdate(dEpdata0, dCtx.endp)
    /\ dServed' = Append(dServed, r)
    /\ UNCHANGED <<dFramenum, dOut, dIn>>

\* Mutant of Answer: a descriptor is sent whole, whatever wLength says.
AnswerWhole(r, size) ==
    /\ AckSetup(r)
    /\ IF r.dir # "get" THEN Stop
       ELSE Goto(IF size = 0 THEN "StatusOut" ELSE "InToken",
                 CtlCtx(IF r.breq = "GET_DESCRIPTOR" THEN DescSize[r.desc] ELSE size))
    /\ UNCHANGED <<devaddr, deviceConfigured, ephalted>>

\* sendGetResp: only a "get" request type may be answered with data.
Answer(r, size) ==
    /\ AckSetup(r)
    /\ IF r.dir # "get" THEN Stop
       ELSE Goto(IF size = 0 THEN "StatusOut" ELSE "InToken", CtlCtx(size))
    /\ UNCHANGED <<devaddr, deviceConfigured, ephalted>>

Obey(r) == AckSetup(r) /\ Goto("StatusIn", CtlCtx(0))

StallStop(endp) ==
    /\ ephalted' = SetFlag(ephalted, endp, TRUE)
    /\ sendPktToHost(Hshk("STALL")) /\ Stop
    /\ UNCHANGED <<devaddr, deviceConfigured, dEpdata0, dFramenum, dHistory>>

\* STALL for an unknown bRequest.  error stays USBOK, so the status stage is
\* entered, in a direction (instatus) that was never assigned.
StallStatus ==
    /\ sendPktToHost(Hshk("STALL"))
    /\ \E pc \in {"StatusIn", "StatusOut"} : Goto(pc, CtlCtx(0))
    /\ UNCHANGED <<devaddr, deviceConfigured, dEpdata0, dFramenum, dHistory>>

Ignored == UNCHANGED <<devaddr, deviceConfigured, ephalted>>

DevReqs == {"GET_STATUS", "CLEAR_FEATURE", "SET_FEATURE", "SET_ADDRESS", "GET_DESCRIPTOR",
            "SET_DESCRIPTOR", "GET_CONFIG", "SET_CONFIG"}

handleDevReq(r) ==
    \/ r.breq = "GET_STATUS" /\ Answer(r, 2)
    \/ r.breq \in {"CLEAR_FEATURE", "SET_FEATURE", "SET_DESCRIPTOR"} /\ Obey(r) /\ Ignored
    \/ /\ r.breq = "SET_ADDRESS" /\ Obey(r)
       /\ devaddr' = r.value
       /\ UNCHANGED <<deviceConfigured, ephalted>>
    \/ /\ r.breq = "GET_DESCRIPTOR" /\ r.desc \in DOMAIN DescSize
       /\ Answer(r, MinOf(r.length, DescSize[r.desc]))
    \/ /\ r.breq = "GET_DESCRIPTOR" /\ r.desc = "IFEP"      \* no handshake at all
       /\ Stop /\ Silent
       /\ UNCHANGED <<dState, dHistory>>
    \/ /\ r.breq = "GET_DESCRIPTOR" /\ r.desc \notin DOMAIN DescSize \union {"IFEP"}
       /\ StallStop(0)
    \/ r.breq = "GET_CONFIG" /\ Answer(r, 1)
    \/ /\ r.breq = "SET_CONFIG" /\ Obey(r)
       /\ deviceConfigured' = IF r.value % 256 = 1 THEN TRUE
                              ELSE IF r.value % 256 = 0 THEN FALSE
                              ELSE deviceConfigured
       /\ UNCHANGED <<devaddr, ephalted>>
    \/ /\ r.breq \notin DevReqs
       /\ ephalted' = SetFlag(ephalted, 0, TRUE)
       /\ StallStatus

handleIfReq(r) ==
    \/ r.breq = "GET_STATUS" /\ Answer(r, 2)
    \/ r.breq = "GET_INTERFACE" /\ Answer(r, 1)
    \/ r.breq \in {"CLEAR_FEATURE", "SET_FEATURE", "SET_INTERFACE"} /\ Obey(r) /\ Ignored
    \/ /\ r.breq \notin {"GET_STATUS", "GET_INTERFACE", "CLEAR_FEATURE", "SET_FEATURE",
                         "SET_INTERFACE"}
       /\ UNCHANGED ephalted
       /\ StallStatus

\* The endpoint halted or released is the one in wIndex.
SetHalt(r, b) ==
    /\ ephalted' = SetFlag(ephalted, r.index, b)
    /\ UNCHANGED <<devaddr, deviceConfigured>>

handleEpReq(r) ==
    \/ r.breq \in {"GET_STATUS", "SYNCH_FRAME"} /\ Answer(r, 2)
    \/ r.breq = "CLEAR_FEATURE" /\ Obey(r) /\ SetHalt(r, FALSE)
    \/ r.breq = "SET_FEATURE" /\ Obey(r) /\ SetHalt(r, TRUE)
    \/ /\ r.breq \notin {"GET_STATUS", "SYNCH_FRAME", "CLEAR_FEATURE", "SET_FEATURE"}
       /\ ephalted' = SetFlag(ephalted, r.index, TRUE)
       /\ StallStatus

processControl ==
    /\ Return("SetupData")
    /\ IF dCtx.bad THEN StallStop(dCtx.endp)
       ELSE \E r \in Request :
              \/ r.type = "dev" /\ handleDevReq(r)
              \/ r.type = "if" /\ handleIfReq(r)
              \/ r.type = "ep" /\ handleEpReq(r)
              \/ r.type = "other" /\ StallStop(dCtx.endp)

-----------------------------------------------------------------------------
(***************************************************************************)
(* controlStatusStage, and the return to usbDeviceRun, which sets the      *)
(* toggle of the token's endpoint back to DATA0.                           *)
(***************************************************************************)

\* Mutant of EndControl: the toggle is not set back.
EndControlKeepToggle(t) ==
    /\ dEpdata0' = t
    /\ Goto("Run", NoCtx)
    /\ UNCHANGED <<devaddr, deviceConfigured, ephalted, dFramenum, dHistory>>

EndControl(t) ==
    /\ dEpdata0' = SetFlag(t, dCtx.endp, TRUE)
    /\ Goto("Run", NoCtx)
    /\ UNCHANGED <<devaddr, deviceConfigured, ephalted, dFramenum, dHistory>>

\* Mutant of StatusIn: the host's ACK is not awaited.
StatusInNoAck ==
    /\ Return("StatusIn")
    /\ sendPktToHost(Data("DATA1", 0, 0))
    /\ EndControl(dEpdata0)

StatusIn ==
    /\ Return("StatusIn")
    /\ sendPktToHost(Data("DATA1", 0, 0))
    /\ Goto("StatusAck", dCtx)
    /\ UNCHANGED <<dState, dHistory>>

StatusAck == Return("StatusAck") /\ EndControl(dEpdata0) /\ Silent

StatusOut ==
    /\ Return("StatusOut")
    /\ Goto("StatusData", dCtx) /\ Silent
    /\ UNCHANGED <<dState, dHistory>>

StatusData ==
    /\ Return("StatusData")
    /\ EndControl(dataPidUpdate(dEpdata0, dCtx.endp))
    /\ sendPktToHost(Hshk("ACK"))

-----------------------------------------------------------------------------
controlStatusStage == StatusIn \/ StatusAck \/ StatusOut \/ StatusData

sendInData == SendOnIn \/ InAcked \/ InNaked \/ InNoHandshake

waitForExpectedPacket == WaitReset \/ WaitSuspend \/ WaitBad

\* A step of the device's thread.
DeviceStep ==
    \/ usbDeviceRun \/ Deaf
    \/ waitForExpectedPacket
    \/ RunSetup \/ processSOF \/ RunUnexpected
    \/ processIn \/ processOut \/ OutData
    \/ sendInData
    \/ processControl \/ controlStatusStage

\* What user code does with a device that has stopped.
DeviceUser == usbDeviceDisconnect \/ usbDeviceReconnect \/ usbDeviceRunAgain

DeviceNext == DeviceStep \/ DeviceUser

-----------------------------------------------------------------------------
\* Every variable of the device, and the line, holds values of its kind.
LineOK ==
    /\ toDev \in Packets /\ toHost \in Packets /\ dNrzi \in Packets
    /\ dRx \in SetupRequests

Contexts == [endp : 0..255, bad : BOOLEAN, ctl : BOOLEAN,
             base : Nat, size : Nat, sent : Nat, naks : 0..MAXNAKS]

ControlOK ==
    /\ dPc \in Waits \union {"Start", "Stopped"}
    /\ dCtx \in Contexts /\ dCtx.sent <= dCtx.size

StateOK ==
    /\ devaddr \in {NoAddr} \union Nat
    /\ dFramenum \in 0..2047
    /\ ephalted \in Flags /\ dEpdata0 \in Flags

SwitchesOK ==
    pullup \in BOOLEAN /\ dSuspended \in BOOLEAN /\ deviceConfigured \in BOOLEAN

HistoryOK ==
    /\ dServed \in Seq(SetupRequests)
    /\ dOut \in Seq((0..255) \X Nat \X Nat)
    /\ dIn \in Nat

DeviceTypeOK == LineOK /\ ControlOK /\ StateOK /\ SwitchesOK /\ HistoryOK

=============================================================================
