------------------------------- MODULE UsbHost -------------------------------
(***************************************************************************)
(* The host model, class usbHost.  User code calls one method at a time;   *)
(* each call sends tokens and data and waits for the device's answers.  A  *)
(* step sends one packet or takes one answer, and hPc names what the call  *)
(* in progress does next.                                                  *)
(*                                                                         *)
(* The two directions share one pair of wires.  A packet the device sends  *)
(* while the host sends is not heard: each send empties toHost.            *)
(***************************************************************************)
EXTENDS UsbBus

CONSTANTS
    Calls,          \* the calls user code may make
    MaxCalls,       \* bound: calls in a behaviour
    MaxFrame,       \* bound: frame numbers
    ResetSeenAs     \* what apiWaitForPkt may report of the SE0 of a reset

ASSUME HostAssumption ==
    /\ MaxCalls \in Nat /\ MaxFrame \in Nat
    /\ ResetSeenAs \subseteq {"RESET", "SUSPEND", "ERROR"}

VARIABLES
    hPc, hCall,     \* where the call in progress is, and its arguments
    hDone,          \* its receivedbytes or datasent
    hNaks,
    hEpdata0, hConnected, hFramenum,
    hRet,           \* the status the last call returned
    hCalls,         \* calls made so far (bound)
    hOut, hIn,      \* stream positions of the bulk data, OUT and IN (history)
    hRx             \* <<off, len>> of the data packets this call took (history)

hHistory == <<hOut, hIn, hRx>>
hVars    == <<hPc, hCall, hDone, hNaks, hEpdata0, hConnected, hFramenum, hRet, hCalls,
              hHistory, toDev, toHost>>

-----------------------------------------------------------------------------
(***************************************************************************)
(* The public methods, by what their bodies do with the arguments:         *)
(*   set     SETUP and an IN status stage                                  *)
(*   epset   the same, the error of sendStandardRequest dropped            *)
(*   get     SETUP, one data packet, an OUT status stage                   *)
(*   desc    SETUP, data packets up to the descriptor's length or reqlen,  *)
(*           an OUT status stage unless chklen finds another length        *)
(*   str     as desc, in a loop that an error does not end                 *)
(*   out, isoOut, in, isoIn   data transfers                               *)
(***************************************************************************)
Call(kind, addr, endp, req, size, chklen, maxpkt) ==
    [kind |-> kind, addr |-> addr, endp |-> endp, req |-> req, size |-> size,
     chklen |-> chklen, maxpkt |-> maxpkt]

NoCall == Call("none", 0, 0, NoReq, 0, FALSE, 0)

Control(kind, addr, endp, req) == Call(kind, addr, endp, req, req.length, FALSE, 0)
Desc(kind, addr, endp, req, chklen) == Call(kind, addr, endp, req, req.length, chklen, 0)

usbHostGetDeviceStatus(a, e) ==
    Control("get", a, e, Req("dev", "get", "GET_STATUS", "none", 0, 0, 2))
usbHostGetInterfaceStatus(a, e, ifidx) ==
    Control("get", a, e, Req("if", "get", "GET_STATUS", "none", 0, ifidx, 2))
usbHostGetEndpointStatus(a, e) ==
    Control("get", a, e, Req("ep", "get", "GET_STATUS", "none", 0, e, 2))
usbHostGetDeviceConfig(a, e, index) ==
    Control("get", a, e, Req("dev", "get", "GET_CONFIG", "none", index, 0, 1))
usbHostGetInterface(a, e, ifidx) ==
    Control("get", a, e, Req("if", "get", "GET_INTERFACE", "none", 0, ifidx, 1))
usbHostGetEndpointSynchFrame(a, e) ==
    Control("get", a, e, Req("ep", "get", "GET_STATUS", "none", 0, e, 2))

usbHostGetDeviceDescriptor(a, e, reqlen, chklen) ==
    Desc("desc", a, e, Req("dev", "get", "GET_DESCRIPTOR", "DEVICE", 0, 0, reqlen), chklen)
usbHostGetConfigDescriptor(a, e, reqlen, chklen) ==
    Desc("desc", a, e, Req("dev", "get", "GET_DESCRIPTOR", "CONFIG", 0, 0, reqlen), chklen)
usbHostGetStrDescriptor(a, e, string, reqlen, chklen) ==
    Desc("str", a, e, Req("dev", "get", "GET_DESCRIPTOR", string, 0, 0, reqlen), chklen)

usbHostSetDeviceAddress(a, e, address) ==
    Control("set", a, e, Req("dev", "set", "SET_ADDRESS", "none", address, 0, 0))
usbHostSetDeviceConfig(a, e, index) ==
    Control("set", a, e, Req("dev", "set", "SET_CONFIG", "none", index, 0, 0))
usbHostClearDeviceFeature(a, e, feature) ==
    Control("set", a, e, Req("dev", "set", "CLEAR_FEATURE", "none", feature, 0, 0))
usbHostSetDeviceFeature(a, e, feature) ==
    Control("set", a, e, Req("dev", "set", "SET_FEATURE", "none", feature, 0, 0))
usbHostClearInterfaceFeature(a, e, ifidx, feature) ==
    Control("set", a, e, Req("if", "set", "CLEAR_FEATURE", "none", feature, ifidx, 0))
usbHostSetInterfaceFeature(a, e, ifidx, feature) ==
    Control("set", a, e, Req("if", "set", "SET_FEATURE", "none", feature, ifidx, 0))
usbHostSetInterface(a, e, ifidx, altif) ==
    Control("set", a, e, Req("if", "set", "SET_INTERFACE", "none", altif, ifidx, 0))
usbHostClearEndpointFeature(a, e, feature) ==
    Control("epset", a, e, Req("ep", "set", "CLEAR_FEATURE", "none", feature, 0, 0))
usbHostSetEndpointFeature(a, e, feature) ==
    Control("epset", a, e, Req("ep", "set", "SET_FEATURE", "none", feature, 0, 0))

\* The caller says how long the packets to the device may be.
usbHostBulkDataOut(a, e, databytes, maxpktsize) ==
    Call("out", a, e, NoReq, databytes, FALSE, maxpktsize)
usbHostIsoDataOut(a, e, databytes, maxpktsize) ==
    Call("isoOut", a, e, NoReq, databytes, FALSE, maxpktsize)
usbHostBulkDataIn(a, e, reqlen) == Call("in", a, e, NoReq, reqlen, FALSE, 0)
usbHostIsoDataIn(a, e, reqlen)  == Call("isoIn", a, e, NoReq, reqlen, FALSE, 0)

Outs     == {"out", "isoOut"}
Ins      == {"in", "isoIn"}
Descs    == {"desc", "str"}
Sets     == {"set", "epset"}
Controls == {"get"} \union Descs \union Sets

\* The arguments are bytes and requests; a descriptor read names one the device has.
ASSUME CallsAssumption ==
    \A c \in Calls :
        /\ c \in [kind : Outs \union Ins \union Controls, addr : 0..255, endp : 0..255,
                  req : SetupRequests, size : Nat, chklen : BOOLEAN, maxpkt : Nat]
        /\ c.kind \in Descs => c.req.desc \in DOMAIN DescSize

-----------------------------------------------------------------------------
HostInit ==
    /\ hPc = "Start" /\ hCall = NoCall /\ hDone = 0 /\ hNaks = 0
    /\ hEpdata0 = AllFlags(TRUE)
    /\ hConnected = FALSE /\ hFramenum = 0
    /\ hRet = "none" /\ hCalls = 0
    /\ hOut = 0 /\ hIn = 0 /\ hRx = <<>>

\* The waits of apiWaitForPkt on the host's side.
Listening == {"SetupAck", "InData", "StatusOutAck", "StatusInData", "OutAck"}

\* sendTokenToDevice, sendDataToDevice, sendSofToDevice: the last packet has left
\* the line, and what the device sends now is lost.  Of a packet that could not be
\* generated nothing is sent, and the caller is not told.
Send(pkt) == toDev = NoPkt /\ toDev' = pkt /\ toHost' = NoPkt

Hear(pc) == hPc = pc /\ toHost # NoPkt /\ toHost' = NoPkt

\* The call goes on at "pc".
At(pc) == hPc' = pc /\ UNCHANGED <<hCall, hRet, hOut>>

\* The call returns to user code.
Finish(status) ==
    /\ hPc' = "Ready" /\ hRet' = status /\ hCall' = NoCall
    /\ hOut' = IF hCall.kind \in Outs THEN hOut + hCall.size ELSE hOut

Fail    == Finish("ERROR")
Succeed == Finish("OK")

-----------------------------------------------------------------------------
(***************************************************************************)
(* User code: connection, calls, and the methods that only use the line.   *)
(***************************************************************************)
lineVars == <<toDev, toHost>>

\* The line is polled until it shows a device, or the time is out.  (It may be out
\* at the poll that shows one.)  User code that is told of no device may call again.
usbHostWaitForConnection ==
    /\ hPc = "Start"
    /\ \/ pullup /\ hPc' = "Ready" /\ hConnected' = TRUE /\ hRet' = "OK"
       \/ hRet' = "ERROR" /\ UNCHANGED <<hPc, hConnected>>
    /\ UNCHANGED <<hCall, hDone, hNaks, hEpdata0, hFramenum, hCalls, hHistory, lineVars>>

Counted == hPc = "Ready" /\ hCalls < MaxCalls /\ hCalls' = hCalls + 1

\* (A data transfer of no bytes returns at once and is no step.)
Begin(c) ==
    /\ Counted
    /\ c.kind \in Outs \union Ins => c.size > 0
    /\ hCall' = c /\ hDone' = 0 /\ hNaks' = 0 /\ hRx' = <<>> /\ hRet' = "none"
    /\ hPc' = IF c.kind \in Controls THEN "CheckSof"
              ELSE IF c.kind \in Outs THEN "OutTok" ELSE "InTok"
    /\ UNCHANGED <<hEpdata0, hConnected, hFramenum, hOut, hIn, lineVars>>

\* The SE0 of a reset, or an idle period, as the device's apiWaitForPkt sees it.
Condition(event) ==
    /\ Counted
    /\ Send(event)
    /\ UNCHANGED <<hPc, hCall, hDone, hNaks, hEpdata0, hConnected, hFramenum, hRet,
                   hHistory>>

usbHostResetDevice   == \E seen \in ResetSeenAs : Condition(Hshk(seen))
usbHostSuspendDevice == Condition(LineSuspend)

-----------------------------------------------------------------------------
(***************************************************************************)
(* checkSof: the next frame number, when its millisecond has begun and the *)
(* line shows a device.  framenum becomes the number of the first frame    *)
(* that is still to come, however many have gone by.                       *)
(***************************************************************************)
SendSof ==
    /\ pullup /\ hFramenum < MaxFrame
    /\ Send(Sof(hFramenum))
    /\ \E f \in (hFramenum + 1)..MaxFrame : hFramenum' = f
    /\ hConnected' = TRUE

checkSof ==
    /\ hPc = "CheckSof" /\ hPc' = "Setup"
    /\ \/ SendSof
       \/ /\ hConnected' = pullup
          /\ UNCHANGED <<hFramenum, lineVars>>
    /\ UNCHANGED <<hCall, hDone, hNaks, hEpdata0, hRet, hCalls, hHistory>>

\* The idle period of usbHostSleepUs is cut at each frame to send its SOF.
usbHostSleepUs ==
    /\ hPc = "Ready"
    /\ SendSof
    /\ UNCHANGED <<hPc, hCall, hDone, hNaks, hEpdata0, hRet, hCalls, hHistory>>

-----------------------------------------------------------------------------
(***************************************************************************)
(* sendStandardRequest and waitForAck.                                     *)
(***************************************************************************)
SendToken(pc, pid, next) ==
    /\ hPc = pc
    /\ Send(Token(pid, hCall.addr, hCall.endp))
    /\ At(next)
    /\ UNCHANGED <<hDone, hNaks, hEpdata0, hConnected, hFramenum, hCalls, hIn, hRx>>

\* Mutant of SendSetupData: a set request returns once it is sent.
SendSetupDataNoWait ==
    /\ hPc = "SetupData"
    /\ Send(SetupData(hCall.req))
    /\ hEpdata0' = SetFlag(hEpdata0, hCall.endp, FALSE)
    /\ IF hCall.kind \in Sets THEN Succeed ELSE At("SetupAck")
    /\ UNCHANGED <<hDone, hNaks, hConnected, hFramenum, hCalls, hIn, hRx>>

SendSetupData ==
    /\ hPc = "SetupData"
    /\ Send(SetupData(hCall.req))
    /\ hEpdata0' = SetFlag(hEpdata0, hCall.endp, FALSE)
    /\ At("SetupAck")
    /\ UNCHANGED <<hDone, hNaks, hConnected, hFramenum, hCalls, hIn, hRx>>

\* NAK is waited out; what is neither ACK nor NAK ends the wait with an error.
waitForAck(pc, acked, failed) ==
    /\ Hear(pc)
    /\ \/ toHost.pid = "ACK" /\ acked
       \/ toHost.pid = "NAK" /\ At(pc)
       \/ toHost.pid \notin {"ACK", "NAK"} /\ failed
    /\ UNCHANGED <<hDone, hNaks, hEpdata0, hConnected, hFramenum, hCalls, hIn, hRx, toDev>>

SetupAck ==
    waitForAck("SetupAck",
               At(IF hCall.kind \in Sets THEN "StatusInTok" ELSE "InTok"),
               IF hCall.kind = "epset" THEN Succeed ELSE Fail)

sendStandardRequest ==
    \/ SendToken("Setup", "SETUP", "SetupData")
    \/ SendSetupData
    \/ SetupAck

-----------------------------------------------------------------------------
(***************************************************************************)
(* getDataFromDevice in the data stages of the get calls and in getDataIn. *)
(***************************************************************************)

\* rxdata holds the length field of the descriptor once a packet of it has come.
DescPending(done) ==
    /\ done < hCall.size
    /\ done > 0 => done < DescSize[hCall.req.desc]

\* The loop ends: chklen wants reqlen bytes, and an error of the loop is
\* overwritten by the status of sendControlStatus.
\* (The first definition is a mutant: no status stage.)
EndDescriptorAtOnce(done) == IF hCall.chklen /\ done # hCall.size THEN Fail ELSE Succeed

EndDescriptor(done) ==
    IF hCall.chklen /\ done # hCall.size THEN Fail ELSE At("StatusOutTok")

AfterData(done) ==
    \/ hCall.kind = "get" /\ At("StatusOutTok")
    \/ /\ hCall.kind \in Descs
       /\ IF DescPending(done) THEN At("InTok") ELSE EndDescriptor(done)
    \/ /\ hCall.kind \in Ins
       /\ IF done < hCall.size THEN At("InTok") ELSE Succeed

DataArrives ==
    LET done == hDone + toHost.len IN
    /\ Hear("InData") /\ toHost.pid = dataPid(hEpdata0, hCall.endp)
    /\ hDone' = done
    /\ hRx' = Append(hRx, <<toHost.off, toHost.len>>)
    /\ hIn' = IF hCall.kind \in Ins THEN hIn + toHost.len ELSE hIn
    /\ hEpdata0' = dataPidUpdate(hEpdata0, hCall.endp)
    /\ IF hCall.kind = "isoIn" THEN UNCHANGED toDev
       ELSE toDev = NoPkt /\ toDev' = Hshk("ACK")
    /\ AfterData(done)
    /\ UNCHANGED <<hNaks, hConnected, hFramenum, hCalls>>

\* No acknowledgement is sent.  The loop of usbHostGetStrDescriptor does not look
\* at the error; with nothing received it reads the length in an old buffer.
DataError ==
    \/ hCall.kind \notin Descs /\ Fail
    \/ /\ hCall.kind \in Descs
       /\ hCall.kind = "str" /\ DescPending(hDone) => hDone = 0
       /\ EndDescriptor(hDone)
    \/ hCall.kind = "str" /\ DescPending(hDone) /\ At("InTok")

DataFails ==
    /\ Hear("InData") /\ toHost.pid # dataPid(hEpdata0, hCall.endp)
    /\ DataError
    /\ UNCHANGED <<hDone, hNaks, hEpdata0, hConnected, hFramenum, hCalls, hIn, hRx, toDev>>

getDataFromDevice ==
    \/ SendToken("InTok", "IN", "InData")
    \/ DataArrives \/ DataFails

-----------------------------------------------------------------------------
(***************************************************************************)
(* sendControlStatus                                                       *)
(***************************************************************************)
SendStatusData ==
    /\ hPc = "StatusOutData"
    /\ Send(Data("DATA1", 0, 0))
    /\ hEpdata0' = SetFlag(hEpdata0, hCall.endp, TRUE)
    /\ At("StatusOutAck")
    /\ UNCHANGED <<hDone, hNaks, hConnected, hFramenum, hCalls, hIn, hRx>>

StatusInData ==
    /\ Hear("StatusInData")
    /\ IF toHost.pid = "DATA1"
       THEN /\ toDev = NoPkt /\ toDev' = Hshk("ACK")
            /\ hEpdata0' = dataPidUpdate(hEpdata0, hCall.endp)
            /\ Succeed
       ELSE UNCHANGED <<toDev, hEpdata0>> /\ Fail
    /\ UNCHANGED <<hDone, hNaks, hConnected, hFramenum, hCalls, hIn, hRx>>

sendControlStatus ==
    \/ SendToken("StatusOutTok", "OUT", "StatusOutData")
    \/ SendStatusData
    \/ waitForAck("StatusOutAck", Succeed, Fail)
    \/ SendToken("StatusInTok", "IN", "StatusInData")
    \/ StatusInData

-----------------------------------------------------------------------------
(***************************************************************************)
(* sendDataOut.  The toggle is flipped as the packet is sent, before any   *)
(* answer; without an answer to wait for (isochronous) datasent stays and  *)
(* the loop sends the same bytes again.                                    *)
(***************************************************************************)
OutSize == MinOf(hCall.size - hDone, hCall.maxpkt)

OutPacket == IF OutSize > MaxData THEN NoPkt
             ELSE Data(dataPid(hEpdata0, hCall.endp), hOut + hDone, OutSize)

\* Mutant of SendOutData: no packet's answer is awaited.
SendOutDataNoWait ==
    /\ hPc = "OutData"
    /\ Send(OutPacket)
    /\ hEpdata0' = dataPidUpdate(hEpdata0, hCall.endp)
    /\ At("OutTok")
    /\ UNCHANGED <<hDone, hNaks, hConnected, hFramenum, hCalls, hIn, hRx>>

SendOutData ==
    /\ hPc = "OutData"
    /\ Send(OutPacket)
    /\ hEpdata0' = dataPidUpdate(hEpdata0, hCall.endp)
    /\ At(IF hCall.kind = "isoOut" THEN "OutTok" ELSE "OutAck")
    /\ UNCHANGED <<hDone, hNaks, hConnected, hFramenum, hCalls, hIn, hRx>>

\* The handshakes as OutAnswer takes them, in three mutants of it: "advance" what an
\* ACK adds to datasent, "acks" and "naks" the PIDs that count as ACK and as NAK.
OutAnswerAs(advance, acks, naks) ==
    /\ Hear("OutAck")
    /\ \/ /\ toHost.pid \in acks
          /\ hDone' = hDone + advance /\ UNCHANGED hNaks
          /\ IF hDone' < hCall.size THEN At("OutTok") ELSE Succeed
       \/ /\ toHost.pid \in naks
          /\ hNaks' = hNaks + 1 /\ UNCHANGED hDone
          /\ IF hNaks' > MAXNAKS THEN Fail ELSE At("OutTok")
       \/ /\ toHost.pid \notin acks \union naks
          /\ UNCHANGED <<hDone, hNaks>> /\ Fail
    /\ UNCHANGED <<hEpdata0, hConnected, hFramenum, hCalls, hIn, hRx, toDev>>

OutAnswerNoAdvance == OutAnswerAs(0, {"ACK"}, {"NAK"})
OutAnswerNakIsAck  == OutAnswerAs(OutSize, {"ACK", "NAK"}, {})
OutAnswerBadIsNak  == OutAnswerAs(OutSize, {"ACK"}, {"NAK", "BAD"})

OutAnswer ==
    /\ Hear("OutAck")
    /\ \/ /\ toHost.pid = "ACK"
          /\ hDone' = hDone + OutSize /\ UNCHANGED hNaks
          /\ IF hDone' < hCall.size THEN At("OutTok") ELSE Succeed
       \/ /\ toHost.pid = "NAK"
          /\ hNaks' = hNaks + 1 /\ UNCHANGED hDone
          /\ IF hNaks' > MAXNAKS THEN Fail ELSE At("OutTok")
       \/ /\ toHost.pid \notin {"ACK", "NAK"}
          /\ UNCHANGED <<hDone, hNaks>> /\ Fail
    /\ UNCHANGED <<hEpdata0, hConnected, hFramenum, hCalls, hIn, hRx, toDev>>

sendDataOut ==
    \/ SendToken("OutTok", "OUT", "OutData")
    \/ SendOutData
    \/ OutAnswer

-----------------------------------------------------------------------------
\* Mutant of Disconnected: every set call drops the status, as the "epset" ones do.
DisconnectedDropped ==
    /\ hPc \in Listening /\ ~pullup /\ toHost = NoPkt
    /\ IF hCall.kind \in Sets THEN Succeed
       ELSE IF hPc = "InData" THEN DataError
       ELSE Fail
    /\ UNCHANGED <<hDone, hNaks, hEpdata0, hConnected, hFramenum, hCalls, hIn, hRx, lineVars>>

\* With no pull-up the line is at SE0, and apiWaitForPkt returns USBDISCONNECTED.
Disconnected ==
    /\ hPc \in Listening /\ ~pullup /\ toHost = NoPkt
    /\ IF hCall.kind = "epset" /\ hPc = "SetupAck" THEN Succeed
       ELSE IF hPc = "InData" THEN DataError
       ELSE Fail
    /\ UNCHANGED <<hDone, hNaks, hEpdata0, hConnected, hFramenum, hCalls, hIn, hRx, lineVars>>

\* A step of a call in progress.
HostStep ==
    /\ \/ checkSof \/ sendStandardRequest \/ getDataFromDevice \/ sendControlStatus
       \/ sendDataOut
       \/ Disconnected
    /\ UNCHANGED pullup

\* What user code starts.
HostUser ==
    /\ \/ usbHostWaitForConnection
       \/ \E c \in Calls : Begin(c)
       \/ usbHostResetDevice \/ usbHostSuspendDevice \/ usbHostSleepUs
    /\ UNCHANGED pullup

-----------------------------------------------------------------------------
\* Every variable of the host holds values of its kind.
CallOK ==
    /\ hCall \in Calls \union {NoCall} /\ hRet \in {"none", "OK", "ERROR"}
    /\ hCalls \in 0..MaxCalls
    /\ hDone \in Nat /\ hNaks \in 0..MAXNAKS + 1

\* The call in progress has the stage that hPc names.
StageOK ==
    /\ hPc \in {"Start", "Ready", "CheckSof", "Setup", "SetupData", "InTok",
                "StatusOutTok", "StatusOutData", "StatusInTok", "OutTok", "OutData"}
                \union Listening
    /\ hPc \in {"Start", "Ready"} <=> hCall = NoCall
    /\ hPc \in {"CheckSof", "Setup", "SetupData", "SetupAck"} => hCall.kind \in Controls
    /\ hPc \in {"InTok", "InData"} => hCall.kind \in {"get"} \union Descs \union Ins
    /\ hPc \in {"StatusOutTok", "StatusOutData", "StatusOutAck"} =>
          hCall.kind \in {"get"} \union Descs
    /\ hPc \in {"StatusInTok", "StatusInData"} => hCall.kind \in Sets
    /\ hPc \in {"OutTok", "OutData", "OutAck"} =>
          hCall.kind \in Outs /\ hDone < hCall.size /\ hNaks <= MAXNAKS

CountsOK == hFramenum \in 0..MaxFrame /\ hOut \in Nat /\ hIn \in Nat
FlagsOK  == hEpdata0 \in Flags /\ hConnected \in BOOLEAN

HostTypeOK == CallOK /\ StageOK /\ CountsOK /\ FlagsOK /\ hRx \in Seq(Nat \X Nat)

=============================================================================
