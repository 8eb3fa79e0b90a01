--------------------------- MODULE UsbDevice_proofs ---------------------------
(***************************************************************************)
(* What holds of the device whatever its host is: no action leads out of   *)
(* the types of its variables, for every value of the constants.           *)
(***************************************************************************)
EXTENDS UsbDevice, SequenceTheorems, TLAPS

\* A packet of the device takes at least one byte.
LEMMA MAXPKTPositive == MAXPKT \in Nat \ {0}
BY MAXPKTAssumption DEF MaxData

USE MAXPKTPositive, BusAssumption, DeviceAssumption

-----------------------------------------------------------------------------
\* The operators of UsbPacket and UsbBus stay within their kinds.
LEMMA HshkPacket ==
    ASSUME NEW pid \in GoodPids \union {"BAD", "RESET", "SUSPEND", "ERROR", "NONE"}
    PROVE  Hshk(pid) \in Packets
BY DEF Hshk, Pkt, Packets, NoReq, Req, SetupRequests, ReqTypes, ReqDirs, Requested, DescTypes

LEMMA NoReqTyped == NoReq \in SetupRequests
BY DEF NoReq, Req, SetupRequests, ReqTypes, ReqDirs, Requested, DescTypes

LEMMA DataPacket ==
    ASSUME NEW t, NEW endp, NEW off \in Nat, NEW len \in Nat
    PROVE  Data(dataPid(t, endp), off, len) \in Packets
<1>1. dataPid(t, endp) \in GoodPids
  BY Zenon DEF dataPid, GoodPids, DataPids
<1> QED BY <1>1, NoReqTyped DEF Data, Pkt, Packets

LEMMA SetFlagTyped ==
    ASSUME NEW f \in Flags, NEW endp \in Nat, NEW b \in BOOLEAN
    PROVE  SetFlag(f, endp, b) \in Flags
<1>1. EpDir(endp) \in 0..1
  BY DEF EpDir
<1>2. CASE EpIdx(endp) \in EP
  <2>1. [f[EpIdx(endp)] EXCEPT ![EpDir(endp)] = b] \in [0..1 -> BOOLEAN]
    BY <1>1, <1>2 DEF Flags
  <2> QED BY <2>1, <1>2 DEF SetFlag, Flags
<1>3. CASE EpIdx(endp) \notin EP
  BY <1>3 DEF SetFlag, Flags
<1> QED BY <1>2, <1>3

LEMMA HaltTyped ==
    ASSUME NEW f \in Flags, NEW endp \in Nat
    PROVE  SetFlag(f, endp, TRUE) \in Flags /\ SetFlag(f, endp, FALSE) \in Flags
BY Zenon, SetFlagTyped

LEMMA ToggleTyped ==
    ASSUME NEW f \in Flags, NEW endp \in 0..255
    PROVE  dataPidUpdate(f, endp) \in Flags
<1>1. (~Flag(f, endp)) \in BOOLEAN
  BY Zenon
<1>2. endp \in Nat
  OBVIOUS
<1> QED BY Zenon, <1>1, <1>2, SetFlagTyped DEF dataPidUpdate

LEMMA AllFlagsTyped == ASSUME NEW b \in BOOLEAN PROVE AllFlags(b) \in Flags
BY DEF AllFlags, Flags

LEMMA ReceivedTyped == LineOK => Received \in Packets
BY DEF LineOK, Received

LEMMA NoPktTyped == NoPkt \in Packets
BY HshkPacket DEF NoPkt

LEMMA BadPktTyped == BadPkt \in Packets
BY HshkPacket DEF BadPkt

-----------------------------------------------------------------------------
(***************************************************************************)
(* The parts actions are made of.                                          *)
(***************************************************************************)
LEMMA TakeTyped ==
    ASSUME DeviceTypeOK, NEW pc, Take(pc)
    PROVE  Received \in Packets /\ toDev' \in Packets /\ dPc = pc
           /\ UNCHANGED <<dSuspended, pullup>>
BY ReceivedTyped, NoPktTyped DEF DeviceTypeOK, Take

LEMMA ReturnTyped ==
    ASSUME DeviceTypeOK, NEW pc, Return(pc)
    PROVE  Take(pc) /\ dRx' \in SetupRequests
BY ReceivedTyped DEF DeviceTypeOK, LineOK, Return, Packets

LEMMA SilentTyped ==
    ASSUME DeviceTypeOK, Silent
    PROVE  toHost' \in Packets /\ dNrzi' \in Packets
BY ReceivedTyped DEF DeviceTypeOK, LineOK, Silent

LEMMA SendTyped ==
    ASSUME NEW pkt \in Packets, sendPktToHost(pkt)
    PROVE  toHost' \in Packets /\ dNrzi' \in Packets
BY DEF sendPktToHost

LEMMA NoCtxTyped == NoCtx \in Contexts /\ NoCtx.sent <= NoCtx.size
BY DEF NoCtx, Contexts

LEMMA GotoTyped ==
    ASSUME NEW pc \in Waits \union {"Start", "Stopped"},
           NEW ctx \in Contexts, ctx.sent <= ctx.size, Goto(pc, ctx)
    PROVE  ControlOK'
BY DEF Goto, ControlOK

LEMMA StopTyped == Stop => ControlOK'
BY NoCtxTyped, GotoTyped DEF Stop

LEMMA StateKept == DeviceTypeOK /\ UNCHANGED dState => StateOK' /\ UNCHANGED deviceConfigured
BY DEF DeviceTypeOK, StateOK, dState

LEMMA HistoryKept == DeviceTypeOK /\ UNCHANGED dHistory => HistoryOK'
BY DEF DeviceTypeOK, HistoryOK, dHistory

\* What a step needs beyond these.
LEMMA SwitchesKept ==
    ASSUME DeviceTypeOK, UNCHANGED <<pullup, dSuspended, deviceConfigured>>
    PROVE  SwitchesOK'
BY Zenon DEF DeviceTypeOK, SwitchesOK

-----------------------------------------------------------------------------
(***************************************************************************)
(* Each action of the device keeps its type invariant.                     *)
(***************************************************************************)
LEMMA WaitTyped ==
    ASSUME DeviceTypeOK, waitForExpectedPacket
    PROVE  DeviceTypeOK'
<1>1. CASE WaitReset
  <2>1. LineOK'
    BY <1>1, NoPktTyped DEF WaitReset, DeviceTypeOK, LineOK
  <2>2. ControlOK' /\ HistoryOK'
    BY <1>1, HistoryKept DEF WaitReset, DeviceTypeOK, ControlOK
  <2>3. StateOK'
    <3>1. AllFlags(TRUE) \in Flags /\ AllFlags(FALSE) \in Flags
      BY Zenon, AllFlagsTyped
    <3>2. ephalted' \in Flags /\ dEpdata0' \in Flags
      BY Zenon, <1>1, <3>1 DEF WaitReset
    <3>3. devaddr' = NoAddr /\ dFramenum' = 0
      BY Zenon, <1>1 DEF WaitReset
    <3> QED BY <3>2, <3>3 DEF StateOK
  <2>4. SwitchesOK'
    BY Zenon, <1>1 DEF WaitReset, DeviceTypeOK, SwitchesOK
  <2> QED BY <2>1, <2>2, <2>3, <2>4 DEF DeviceTypeOK
<1>2. CASE WaitSuspend \/ WaitBad
  <2>1. LineOK'
    BY <1>2, NoPktTyped, BadPktTyped DEF WaitSuspend, WaitBad, DeviceTypeOK, LineOK
  <2>2. ControlOK' /\ HistoryOK' /\ StateOK' /\ UNCHANGED deviceConfigured
    BY <1>2, HistoryKept, StateKept DEF WaitSuspend, WaitBad, DeviceTypeOK, ControlOK
  <2>3. SwitchesOK'
    BY Zenon, <1>2, <2>2 DEF WaitSuspend, WaitBad, DeviceTypeOK, SwitchesOK
  <2> QED BY <2>1, <2>2, <2>3 DEF DeviceTypeOK
<1> QED BY <1>1, <1>2 DEF waitForExpectedPacket

LEMMA RunTyped ==
    ASSUME DeviceTypeOK, usbDeviceRun \/ DeviceUser \/ Deaf
    PROVE  DeviceTypeOK'
<1>1. LineOK'
  BY NoPktTyped DEF usbDeviceRun, DeviceUser, usbDeviceDisconnect,
         usbDeviceReconnect, usbDeviceRunAgain, Deaf, DeviceTypeOK, LineOK
<1>2. ControlOK'
  BY DEF usbDeviceRun, DeviceUser, usbDeviceDisconnect,
         usbDeviceReconnect, usbDeviceRunAgain, Deaf, DeviceTypeOK, ControlOK, Waits
<1>3. UNCHANGED <<dState, dHistory, dSuspended>>
  BY DEF usbDeviceRun, DeviceUser, usbDeviceDisconnect,
         usbDeviceReconnect, usbDeviceRunAgain, Deaf
<1>4. StateOK' /\ HistoryOK' /\ UNCHANGED deviceConfigured
  BY <1>3, StateKept, HistoryKept
<1>5. SwitchesOK'
  BY Zenon, <1>3, <1>4
     DEF usbDeviceRun, DeviceUser, usbDeviceDisconnect,
         usbDeviceReconnect, usbDeviceRunAgain, Deaf, DeviceTypeOK, SwitchesOK
<1> QED BY <1>1, <1>2, <1>4, <1>5 DEF DeviceTypeOK

LEMMA RunLoopTyped ==
    ASSUME DeviceTypeOK, RunSetup \/ processSOF \/ RunUnexpected
    PROVE  DeviceTypeOK'
<1>1. Return("Run") /\ Silent /\ UNCHANGED <<dHistory, deviceConfigured>>
  BY DEF RunSetup, processSOF, RunUnexpected, dState
<1>2. Received \in Packets /\ toDev' \in Packets /\ UNCHANGED <<dSuspended, pullup>>
      /\ dRx' \in SetupRequests
  BY <1>1, ReturnTyped, TakeTyped
<1>3. LineOK'
  BY <1>1, <1>2, SilentTyped DEF LineOK
<1>4. HistoryOK' /\ SwitchesOK'
  BY <1>1, <1>2, HistoryKept, SwitchesKept
<1>5. CASE RunSetup
  <2> DEFINE a == Received.addr
             e == Received.endp
             b == ~ \/ a = 0 /\ e = 0
                    \/ a = devaddr /\ <<EpIdx(e), EpDir(e)>> \in epvalid
  <2>1. b \in BOOLEAN
    BY Zenon
  <2>2. e \in 0..255
    BY <1>2 DEF Packets
  <2>3. ASSUME NEW x \in BOOLEAN
        PROVE  LET c == [NoCtx EXCEPT !.endp = e, !.bad = x]
               IN  c \in Contexts /\ c.sent <= c.size
    BY <2>2, NoCtxTyped DEF Contexts
  <2>4. Goto("SetupData", [NoCtx EXCEPT !.endp = e, !.bad = b])
    BY Zenon, <1>5 DEF RunSetup
  <2> HIDE DEF b
  <2>5. ControlOK'
    BY <2>1, <2>3, <2>4, GotoTyped DEF Waits
  <2> QED BY <1>3, <1>4, <1>5, <2>5, StateKept DEF DeviceTypeOK, RunSetup
<1>6. CASE processSOF
  <2>1. ControlOK'
    BY <1>6, NoCtxTyped, GotoTyped DEF processSOF, Waits
  <2>2. dFramenum' \in 0..2047
    <3>1. Received.off \in Nat
      BY <1>2 DEF Packets
    <3>2. dFramenum' = Received.off % 2048
      BY Zenon, <1>6 DEF processSOF
    <3>3. Received.off % 2048 \in 0..2047
      BY <3>1
    <3> QED BY <3>2, <3>3
  <2>3. UNCHANGED <<devaddr, ephalted, dEpdata0>>
    BY Zenon, <1>6 DEF processSOF
  <2>4. StateOK'
    BY <2>2, <2>3 DEF DeviceTypeOK, StateOK
  <2> QED BY <1>3, <1>4, <2>1, <2>4 DEF DeviceTypeOK
<1>7. CASE RunUnexpected
  BY <1>3, <1>4, <1>7, StateKept, StopTyped DEF RunUnexpected, DeviceTypeOK
<1> QED BY <1>5, <1>6, <1>7

\* What every action that leaves a wait by Return has in common.
LEMMA Frame ==
    ASSUME DeviceTypeOK, NEW pc, Return(pc), UNCHANGED deviceConfigured,
           toHost' \in Packets, dNrzi' \in Packets
    PROVE  LineOK' /\ SwitchesOK'
<1>1. Take(pc) /\ dRx' \in SetupRequests
  BY ReturnTyped
<1>2. toDev' \in Packets /\ UNCHANGED <<dSuspended, pullup>>
  BY <1>1, TakeTyped
<1> QED BY <1>1, <1>2, SwitchesKept DEF LineOK

-----------------------------------------------------------------------------
\* A chunk is what is left to send, or a full packet.
LEMMA ChunkTyped ==
    ASSUME NEW ctx \in Contexts, ctx.sent <= ctx.size
    PROVE  Chunk(ctx) \in Nat /\ ctx.sent + Chunk(ctx) <= ctx.size
BY DEF Contexts, Chunk, MinOf

LEMMA SendChunkTyped ==
    ASSUME NEW ctx \in Contexts, ctx.sent <= ctx.size, SendChunk(ctx)
    PROVE  toHost' \in Packets /\ dNrzi' \in Packets /\ ControlOK'
<1>1. ctx.base + ctx.sent \in Nat
  BY DEF Contexts
<1>2. Data(dataPid(dEpdata0, ctx.endp), ctx.base + ctx.sent, Chunk(ctx)) \in Packets
  BY <1>1, ChunkTyped, DataPacket
<1> QED BY <1>2, SendTyped, GotoTyped DEF SendChunk, Waits

LEMMA SendOnInTyped == ASSUME DeviceTypeOK, SendOnIn PROVE DeviceTypeOK'
<1>1. dCtx \in Contexts /\ dCtx.sent <= dCtx.size
  BY DEF DeviceTypeOK, ControlOK
<1>2. toHost' \in Packets /\ dNrzi' \in Packets /\ ControlOK'
  BY <1>1, SendChunkTyped DEF SendOnIn
<1>3. StateOK' /\ HistoryOK' /\ UNCHANGED deviceConfigured
  BY StateKept, HistoryKept DEF SendOnIn
<1> QED BY <1>2, <1>3, Frame DEF SendOnIn, DeviceTypeOK

LEMMA InAckedTyped == ASSUME DeviceTypeOK, InAcked PROVE DeviceTypeOK'
<1> DEFINE ctx == [dCtx EXCEPT !.sent = @ + Chunk(dCtx)]
<1>1. dCtx \in Contexts /\ dCtx.sent <= dCtx.size
  BY DEF DeviceTypeOK, ControlOK
<1>2. ctx \in Contexts /\ ctx.sent <= ctx.size
  BY <1>1, ChunkTyped DEF Contexts
<1>3. /\ Return("InHshk") /\ Silent
      /\ dEpdata0' = dataPidUpdate(dEpdata0, ctx.endp)
      /\ \/ Goto("InToken", ctx) \/ Goto("StatusOut", ctx) \/ Goto("Run", NoCtx)
      /\ dIn' \in {dIn, dIn + ctx.size}
      /\ UNCHANGED <<devaddr, deviceConfigured, ephalted, dFramenum, dServed, dOut>>
  BY Zenon DEF InAcked
<1>4. LineOK' /\ SwitchesOK'
  BY <1>3, SilentTyped, Frame
<1>5. ControlOK'
  BY <1>2, <1>3, NoCtxTyped, GotoTyped DEF Waits
<1>6. StateOK'
  <2>1. dEpdata0' \in Flags
    BY <1>2, <1>3, ToggleTyped DEF DeviceTypeOK, StateOK, Contexts
  <2> QED BY <1>3, <2>1 DEF DeviceTypeOK, StateOK
<1>7. HistoryOK'
  <2>1. dIn' \in Nat
    <3>1. ctx.size \in Nat
      BY <1>2 DEF Contexts
    <3>2. dIn \in Nat
      BY DEF DeviceTypeOK, HistoryOK
    <3> QED BY <1>3, <3>1, <3>2
  <2> QED BY <1>3, <2>1 DEF DeviceTypeOK, HistoryOK
<1> QED BY <1>4, <1>5, <1>6, <1>7 DEF DeviceTypeOK

LEMMA InNakedTyped == ASSUME DeviceTypeOK, InNaked PROVE DeviceTypeOK'
<1> DEFINE ctx == [dCtx EXCEPT !.naks = @ + 1]
<1>1. dCtx \in Contexts /\ dCtx.sent <= dCtx.size
  BY DEF DeviceTypeOK, ControlOK
<1>2. Return("InHshk") /\ UNCHANGED <<dState, dHistory>>
  BY DEF InNaked
<1>3. StateOK' /\ HistoryOK' /\ UNCHANGED deviceConfigured
  BY <1>2, StateKept, HistoryKept
<1>4. CASE ctx.naks > MAXNAKS
  BY <1>2, <1>3, <1>4, StopTyped, SilentTyped, Frame DEF InNaked, DeviceTypeOK
<1>5. CASE ~(ctx.naks > MAXNAKS)
  <2>1. ctx \in Contexts /\ ctx.sent <= ctx.size
    BY <1>1, <1>5 DEF Contexts
  <2>2. SendChunk(ctx) \/ (Goto("InToken", ctx) /\ Silent)
    BY Zenon, <1>5 DEF InNaked
  <2>3. toHost' \in Packets /\ dNrzi' \in Packets /\ ControlOK'
    BY <2>1, <2>2, SendChunkTyped, GotoTyped, SilentTyped DEF Waits
  <2> QED BY <1>2, <1>3, <2>3, Frame DEF DeviceTypeOK
<1> QED BY <1>4, <1>5

LEMMA InNoHandshakeTyped == ASSUME DeviceTypeOK, InNoHandshake PROVE DeviceTypeOK'
<1>1. StateOK' /\ HistoryOK' /\ UNCHANGED deviceConfigured
  BY StateKept, HistoryKept DEF InNoHandshake
<1> QED BY <1>1, StopTyped, SilentTyped, Frame DEF InNoHandshake, DeviceTypeOK

-----------------------------------------------------------------------------
\* The answers to a token of a data transfer, for an endpoint number with direction.
LEMMA RefuseTyped ==
    ASSUME DeviceTypeOK, NEW pid, NEW endp, Refuse(pid, endp) PROVE DeviceTypeOK'
<1>1. toHost' \in Packets /\ dNrzi' \in Packets
  BY HshkPacket, SendTyped DEF Refuse, GoodPids, Handshakes
<1>2. StateOK' /\ HistoryOK' /\ UNCHANGED deviceConfigured
  BY StateKept, HistoryKept DEF Refuse
<1> QED BY <1>1, <1>2, StopTyped, Frame DEF Refuse, DeviceTypeOK

LEMMA CallbackTyped ==
    ASSUME DeviceTypeOK, NEW endp \in 0..255,
           CallbackStall(endp) \/ CallbackNak \/ (CallbackData(endp) /\ Received \in Packets)
    PROVE  /\ toHost' \in Packets /\ dNrzi' \in Packets
           /\ ControlOK' /\ StateOK' /\ HistoryOK' /\ UNCHANGED deviceConfigured
<1>1. CASE CallbackStall(endp)
  <2>1. toHost' \in Packets /\ dNrzi' \in Packets
    BY <1>1, HshkPacket, SendTyped DEF CallbackStall, GoodPids, Handshakes
  <2>2. /\ ephalted' = SetFlag(ephalted, endp, TRUE)
        /\ UNCHANGED <<devaddr, dEpdata0, dFramenum>>
    BY Zenon, <1>1 DEF CallbackStall
  <2>3. ephalted \in Flags /\ endp \in Nat
    BY DEF DeviceTypeOK, StateOK
  <2>4. SetFlag(ephalted, endp, TRUE) \in Flags
    BY Zenon, <2>3, HaltTyped
  <2>5. ephalted' \in Flags /\ UNCHANGED <<devaddr, dEpdata0, dFramenum>>
    BY Zenon, <2>2, <2>4
  <2>6. StateOK'
    BY <2>5 DEF DeviceTypeOK, StateOK
  <2> QED BY <1>1, <2>1, <2>6, StopTyped, HistoryKept DEF CallbackStall
<1>2. CASE CallbackNak
  <2>1. toHost' \in Packets /\ dNrzi' \in Packets
    BY <1>2, HshkPacket, SendTyped DEF CallbackNak, GoodPids, Handshakes
  <2> QED BY <1>2, <2>1, NoCtxTyped, GotoTyped, StateKept, HistoryKept DEF CallbackNak, Waits
<1>3. CASE CallbackData(endp) /\ Received \in Packets
  <2>1. PICK n \in InSizes :
          IF n = 0 THEN Goto("Run", NoCtx) /\ Silent
          ELSE SendChunk([NoCtx EXCEPT !.endp = endp, !.base = dIn, !.size = n])
    BY Zenon, <1>3 DEF CallbackData
  <2>2. CASE n = 0
    BY <1>3, <2>1, <2>2, NoCtxTyped, GotoTyped, SilentTyped, StateKept, HistoryKept
       DEF CallbackData, Waits
  <2>3. CASE n # 0
    <3> DEFINE ctx == [NoCtx EXCEPT !.endp = endp, !.base = dIn, !.size = n]
    <3>1. ctx \in Contexts /\ ctx.sent <= ctx.size
      <4>1. dIn \in Nat /\ n \in Nat
        BY DEF DeviceTypeOK, HistoryOK
      <4>2. ctx \in Contexts
        BY <4>1, NoCtxTyped DEF Contexts
      <4>3. ctx.sent = 0 /\ ctx.size = n
        BY DEF NoCtx
      <4> QED BY <4>1, <4>2, <4>3
    <3> QED BY <1>3, <2>1, <2>3, <3>1, SendChunkTyped, StateKept, HistoryKept
            DEF CallbackData
  <2> QED BY <2>2, <2>3
<1> QED BY <1>1, <1>2, <1>3

LEMMA ProcessInTyped == ASSUME DeviceTypeOK, processIn PROVE DeviceTypeOK'
<1>1. CASE Refuse("IN", InEndp)
  BY <1>1, RefuseTyped
<1>2. CASE /\ Take("Run")
           /\ \/ CallbackStall(InEndp) /\ UNCHANGED dRx
              \/ CallbackNak /\ UNCHANGED dRx
              \/ CallbackData(InEndp) /\ dRx' = NoReq
  <2>1. Received \in Packets /\ toDev' \in Packets /\ UNCHANGED <<dSuspended, pullup>>
    BY <1>2, TakeTyped
  <2>2. InEndp \in 0..255
    BY <2>1 DEF InEndp, Packets
  <2>3. /\ toHost' \in Packets /\ dNrzi' \in Packets
        /\ ControlOK' /\ StateOK' /\ HistoryOK' /\ UNCHANGED deviceConfigured
    BY <1>2, <2>1, <2>2, CallbackTyped
  <2>4. dRx' \in SetupRequests
    BY <1>2, NoReqTyped DEF DeviceTypeOK, LineOK
  <2> QED BY <2>1, <2>3, <2>4, SwitchesKept DEF DeviceTypeOK, LineOK
<1> QED BY Zenon, <1>1, <1>2 DEF processIn

LEMMA ProcessOutTyped == ASSUME DeviceTypeOK, processOut PROVE DeviceTypeOK'
<1>1. CASE Refuse("OUT", Received.endp)
  BY <1>1, RefuseTyped
<1>2. CASE /\ Return("Run") /\ UNCHANGED <<dState, dHistory>>
           /\ Goto("OutData", [NoCtx EXCEPT !.endp = Received.endp]) /\ Silent
  <2>1. Received \in Packets
    BY <1>2, ReturnTyped, TakeTyped
  <2>2. [NoCtx EXCEPT !.endp = Received.endp] \in Contexts
    BY <2>1, NoCtxTyped DEF Contexts, Packets
  <2>3. ControlOK'
    BY <1>2, <2>2, NoCtxTyped, GotoTyped DEF Waits, Contexts
  <2> QED BY <1>2, <2>3, StateKept, HistoryKept, SilentTyped, Frame DEF DeviceTypeOK
<1> QED BY Zenon, <1>1, <1>2 DEF processOut

LEMMA OutDataTyped == ASSUME DeviceTypeOK, OutData PROVE DeviceTypeOK'
<1>1. Return("OutData") /\ Received \in Packets /\ dCtx.endp \in 0..255
  BY ReturnTyped, TakeTyped DEF OutData, DeviceTypeOK, ControlOK, Contexts
<1>2. CASE CallbackStall(dCtx.endp) \/ CallbackNak
  BY <1>1, <1>2, CallbackTyped, Frame DEF DeviceTypeOK
<1>3. CASE OutAccept
  <2>1. toHost' \in Packets /\ dNrzi' \in Packets
    BY <1>3, HshkPacket, SendTyped DEF OutAccept, GoodPids, Handshakes
  <2>2. ControlOK'
    BY <1>3, NoCtxTyped, GotoTyped DEF OutAccept, Waits
  <2>3. /\ dEpdata0' = dataPidUpdate(dEpdata0, dCtx.endp)
        /\ dOut' = Append(dOut, <<dCtx.endp, Received.off, Received.len>>)
        /\ UNCHANGED <<devaddr, deviceConfigured, ephalted, dFramenum, dServed, dIn>>
    BY Zenon, <1>3 DEF OutAccept
  <2>4. StateOK'
    <3>1. dataPidUpdate(dEpdata0, dCtx.endp) \in Flags
      BY <1>1, ToggleTyped DEF DeviceTypeOK, StateOK
    <3> QED BY <2>3, <3>1 DEF DeviceTypeOK, StateOK
  <2>5. <<dCtx.endp, Received.off, Received.len>> \in (0..255) \X Nat \X Nat
    BY <1>1 DEF Packets
  <2>6. HistoryOK'
    BY <2>3, <2>5 DEF DeviceTypeOK, HistoryOK
  <2> QED BY <1>1, <2>1, <2>2, <2>3, <2>4, <2>6, Frame DEF DeviceTypeOK
<1> QED BY Zenon, <1>2, <1>3 DEF OutData

-----------------------------------------------------------------------------
(***************************************************************************)
(* Control transfers.  Every way to deal with a request keeps the parts    *)
(* of the invariant it changes.                                            *)
(***************************************************************************)
LEMMA CtlCtxTyped ==
    ASSUME DeviceTypeOK, NEW size \in Nat
    PROVE  CtlCtx(size) \in Contexts /\ CtlCtx(size).sent <= CtlCtx(size).size
<1>1. dCtx.endp \in 0..255
  BY DEF DeviceTypeOK, ControlOK, Contexts
<1>2. CtlCtx(size) \in Contexts
  BY <1>1, NoCtxTyped DEF CtlCtx, Contexts
<1>3. CtlCtx(size).sent = 0 /\ CtlCtx(size).size = size
  BY DEF CtlCtx, NoCtx
<1> QED BY <1>2, <1>3

LEMMA AckSetupTyped ==
    ASSUME DeviceTypeOK, NEW r \in SetupRequests, AckSetup(r)
    PROVE  /\ toHost' \in Packets /\ dNrzi' \in Packets
           /\ dEpdata0' \in Flags /\ dFramenum' = dFramenum /\ HistoryOK'
<1>1. toHost' \in Packets /\ dNrzi' \in Packets
  BY HshkPacket, SendTyped DEF AckSetup, GoodPids, Handshakes
<1>2. dCtx.endp \in 0..255
  BY DEF DeviceTypeOK, ControlOK, Contexts
<1>3. dataPidUpdate(dEpdata0, dCtx.endp) \in Flags
  BY <1>2, ToggleTyped DEF DeviceTypeOK, StateOK
<1>4. HistoryOK'
  BY DEF AckSetup, DeviceTypeOK, HistoryOK
<1> QED BY <1>1, <1>3, <1>4 DEF AckSetup

\* What a handler promises.
Handled ==
    /\ toHost' \in Packets /\ dNrzi' \in Packets
    /\ ControlOK' /\ StateOK' /\ HistoryOK' /\ deviceConfigured' \in BOOLEAN

LEMMA ConfiguredTyped == DeviceTypeOK => deviceConfigured \in BOOLEAN
BY DEF DeviceTypeOK, SwitchesOK

LEMMA AnswerTyped ==
    ASSUME DeviceTypeOK, NEW r \in SetupRequests, NEW size \in Nat, Answer(r, size)
    PROVE  Handled
<1>1. AckSetup(r) /\ UNCHANGED <<devaddr, deviceConfigured, ephalted>>
  BY DEF Answer
<1>2. ControlOK'
  BY CtlCtxTyped, GotoTyped, StopTyped DEF Answer, Waits
<1>3. StateOK'
  BY <1>1, AckSetupTyped DEF DeviceTypeOK, StateOK
<1>4. deviceConfigured' \in BOOLEAN
  BY Zenon, <1>1, ConfiguredTyped
<1> QED BY <1>1, <1>2, <1>3, <1>4, AckSetupTyped DEF Handled

LEMMA ObeyTyped ==
    ASSUME DeviceTypeOK, NEW r \in SetupRequests, Obey(r),
           devaddr' \in {devaddr} \union Nat, deviceConfigured' \in BOOLEAN,
           ephalted' \in Flags
    PROVE  Handled
<1>1. AckSetup(r)
  BY DEF Obey
<1>2. ControlOK'
  BY CtlCtxTyped, GotoTyped DEF Obey, Waits
<1>3. StateOK'
  BY <1>1, AckSetupTyped DEF DeviceTypeOK, StateOK
<1> QED BY <1>1, <1>2, <1>3, AckSetupTyped DEF Handled

LEMMA StallStopTyped ==
    ASSUME DeviceTypeOK, NEW endp \in 0..255, StallStop(endp) PROVE Handled
<1>1. toHost' \in Packets /\ dNrzi' \in Packets
  BY HshkPacket, SendTyped DEF StallStop, GoodPids, Handshakes
<1>2. ephalted \in Flags /\ endp \in Nat
  BY DEF DeviceTypeOK, StateOK
<1>3. ephalted' \in Flags /\ UNCHANGED <<devaddr, dEpdata0, dFramenum>>
  BY Zenon, <1>2, HaltTyped DEF StallStop
<1>4. deviceConfigured' \in BOOLEAN
  BY Zenon, ConfiguredTyped DEF StallStop
<1>5. ControlOK' /\ HistoryOK'
  BY StopTyped, HistoryKept DEF StallStop
<1>6. StateOK'
  BY <1>3 DEF DeviceTypeOK, StateOK
<1> QED BY <1>1, <1>4, <1>5, <1>6 DEF Handled

LEMMA StallStatusTyped ==
    ASSUME DeviceTypeOK, StallStatus, ephalted' \in Flags PROVE Handled
<1>1. toHost' \in Packets /\ dNrzi' \in Packets
  BY HshkPacket, SendTyped DEF StallStatus, GoodPids, Handshakes
<1>2. ControlOK'
  BY CtlCtxTyped, GotoTyped DEF StallStatus, Waits
<1>3. StateOK' /\ HistoryOK'
  BY HistoryKept DEF StallStatus, DeviceTypeOK, StateOK
<1>4. deviceConfigured' \in BOOLEAN
  BY Zenon, ConfiguredTyped DEF StallStatus
<1> QED BY <1>1, <1>2, <1>3, <1>4 DEF Handled

LEMMA HaltedFlags == DeviceTypeOK => ephalted \in Flags
BY DEF DeviceTypeOK, StateOK

\* No handler changes more than the part of the state its request names.
LEMMA DevReqTyped ==
    ASSUME DeviceTypeOK, NEW r \in SetupRequests, handleDevReq(r)
    PROVE  Handled
<1>1. r.value \in Nat /\ r.length \in Nat
  BY DEF SetupRequests
<1>2. ephalted \in Flags /\ deviceConfigured \in BOOLEAN
  BY Zenon, HaltedFlags, ConfiguredTyped
<1>3. CASE Answer(r, 1) \/ Answer(r, 2)
  BY <1>3, AnswerTyped
<1>4. CASE Obey(r) /\ Ignored
  BY Zenon, <1>2, <1>4, ObeyTyped DEF Ignored
<1>5. CASE Obey(r) /\ devaddr' = r.value /\ UNCHANGED <<deviceConfigured, ephalted>>
  BY Zenon, <1>1, <1>2, <1>5, ObeyTyped
<1>6. CASE r.desc \in DOMAIN DescSize /\ Answer(r, MinOf(r.length, DescSize[r.desc]))
  <2>1. MinOf(r.length, DescSize[r.desc]) \in Nat
    BY <1>1, <1>6 DEF MinOf
  <2> QED BY <1>6, <2>1, AnswerTyped
<1>7. CASE Stop /\ Silent /\ UNCHANGED <<dState, dHistory>>
  <2>1. StateOK' /\ HistoryOK' /\ UNCHANGED deviceConfigured
    BY <1>7, StateKept, HistoryKept
  <2>2. deviceConfigured' \in BOOLEAN
    BY Zenon, <1>2, <2>1
  <2> QED BY <1>7, <2>1, <2>2, StopTyped, SilentTyped DEF Handled
<1>8. CASE StallStop(0)
  BY <1>8, StallStopTyped
<1>9. CASE /\ Obey(r)
           /\ deviceConfigured' = IF r.value % 256 = 1 THEN TRUE
                                  ELSE IF r.value % 256 = 0 THEN FALSE
                                  ELSE deviceConfigured
           /\ UNCHANGED <<devaddr, ephalted>>
  <2>1. deviceConfigured' \in BOOLEAN
    BY Zenon, <1>2, <1>9
  <2> QED BY Zenon, <1>2, <1>9, <2>1, ObeyTyped
<1>10. CASE ephalted' = SetFlag(ephalted, 0, TRUE) /\ StallStatus
  <2>1. 0 \in Nat
    OBVIOUS
  <2>2. ephalted' \in Flags
    BY Zenon, <1>2, <1>10, <2>1, HaltTyped
  <2> QED BY <1>10, <2>2, StallStatusTyped
<1> QED BY Zenon, <1>3, <1>4, <1>5, <1>6, <1>7, <1>8, <1>9, <1>10 DEF handleDevReq

LEMMA IfReqTyped ==
    ASSUME DeviceTypeOK, NEW r \in SetupRequests, handleIfReq(r)
    PROVE  Handled
<1>1. ephalted \in Flags /\ deviceConfigured \in BOOLEAN
  BY Zenon, HaltedFlags, ConfiguredTyped
<1>2. CASE Answer(r, 1) \/ Answer(r, 2)
  BY <1>2, AnswerTyped
<1>3. CASE Obey(r) /\ Ignored
  BY Zenon, <1>1, <1>3, ObeyTyped DEF Ignored
<1>4. CASE UNCHANGED ephalted /\ StallStatus
  BY Zenon, <1>1, <1>4, StallStatusTyped
<1> QED BY Zenon, <1>2, <1>3, <1>4 DEF handleIfReq

LEMMA EpReqTyped ==
    ASSUME DeviceTypeOK, NEW r \in SetupRequests, handleEpReq(r)
    PROVE  Handled
<1>1. ephalted \in Flags /\ deviceConfigured \in BOOLEAN
  BY Zenon, HaltedFlags, ConfiguredTyped
<1>2. r.index \in Nat
  BY DEF SetupRequests
<1>3. SetFlag(ephalted, r.index, TRUE) \in Flags /\ SetFlag(ephalted, r.index, FALSE) \in Flags
  BY Zenon, <1>1, <1>2, HaltTyped
<1>4. CASE Answer(r, 2)
  BY <1>4, AnswerTyped
<1>5. CASE Obey(r) /\ (SetHalt(r, TRUE) \/ SetHalt(r, FALSE))
  BY Zenon, <1>1, <1>3, <1>5, ObeyTyped DEF SetHalt
<1>6. CASE ephalted' = SetFlag(ephalted, r.index, TRUE) /\ StallStatus
  BY Zenon, <1>3, <1>6, StallStatusTyped
<1> QED BY Zenon, <1>4, <1>5, <1>6 DEF handleEpReq

LEMMA HandledTyped ==
    ASSUME DeviceTypeOK, NEW pc, Return(pc), Handled
    PROVE  DeviceTypeOK'
<1>1. Take(pc) /\ dRx' \in SetupRequests
  BY ReturnTyped
<1>2. toDev' \in Packets /\ UNCHANGED <<dSuspended, pullup>>
  BY <1>1, TakeTyped
<1>3. LineOK'
  BY <1>1, <1>2 DEF LineOK, Handled
<1>4. SwitchesOK'
  BY Zenon, <1>2 DEF DeviceTypeOK, SwitchesOK, Handled
<1> QED BY <1>3, <1>4 DEF DeviceTypeOK, Handled

LEMMA ProcessControlTyped == ASSUME DeviceTypeOK, processControl PROVE DeviceTypeOK'
<1>1. Return("SetupData") /\ dRx' \in SetupRequests /\ dCtx.endp \in 0..255
  BY ReturnTyped DEF processControl, DeviceTypeOK, ControlOK, Contexts
<1>2. CASE StallStop(dCtx.endp)
  BY <1>1, <1>2, StallStopTyped, HandledTyped
<1>3. CASE \E r \in Request : handleDevReq(r) \/ handleIfReq(r) \/ handleEpReq(r)
  <2>1. Request \subseteq SetupRequests
    BY <1>1, NoReqTyped DEF Request
  <2> QED BY <1>1, <1>3, <2>1, DevReqTyped, IfReqTyped, EpReqTyped, HandledTyped
<1> QED BY Zenon, <1>2, <1>3 DEF processControl

LEMMA EndControlTyped ==
    ASSUME DeviceTypeOK, NEW t \in Flags, EndControl(t)
    PROVE  ControlOK' /\ StateOK' /\ HistoryOK' /\ UNCHANGED deviceConfigured
<1>1. dCtx.endp \in Nat
  BY DEF DeviceTypeOK, ControlOK, Contexts
<1>2. dEpdata0' \in Flags
  BY Zenon, <1>1, SetFlagTyped DEF EndControl
<1>3. UNCHANGED <<devaddr, deviceConfigured, ephalted, dFramenum, dHistory>>
  BY Zenon DEF EndControl
<1>4. ControlOK'
  BY NoCtxTyped, GotoTyped DEF EndControl, Waits
<1> QED BY <1>2, <1>3, <1>4, HistoryKept DEF DeviceTypeOK, StateOK

LEMMA StatusStageTyped ==
    ASSUME DeviceTypeOK, controlStatusStage PROVE DeviceTypeOK'
<1>1. dCtx \in Contexts /\ dCtx.sent <= dCtx.size /\ dEpdata0 \in Flags
  BY DEF DeviceTypeOK, ControlOK, StateOK
<1>2. CASE StatusIn
  <2>1. Data("DATA1", 0, 0) \in Packets
    BY NoReqTyped DEF Data, Pkt, Packets, GoodPids, DataPids
  <2>2. toHost' \in Packets /\ dNrzi' \in Packets
    BY <1>2, <2>1, SendTyped DEF StatusIn
  <2>3. ControlOK'
    BY <1>1, <1>2, GotoTyped DEF StatusIn, Waits
  <2> QED BY <1>2, <2>2, <2>3, StateKept, HistoryKept, Frame DEF StatusIn, DeviceTypeOK
<1>3. CASE StatusAck
  BY <1>1, <1>3, EndControlTyped, SilentTyped, Frame DEF StatusAck, DeviceTypeOK
<1>4. CASE StatusOut
  BY <1>1, <1>4, GotoTyped, StateKept, HistoryKept, SilentTyped, Frame
     DEF StatusOut, DeviceTypeOK, Waits
<1>5. CASE StatusData
  <2>1. dCtx.endp \in 0..255
    BY <1>1 DEF Contexts
  <2>2. dataPidUpdate(dEpdata0, dCtx.endp) \in Flags
    BY <1>1, <2>1, ToggleTyped
  <2>3. toHost' \in Packets /\ dNrzi' \in Packets
    BY <1>5, HshkPacket, SendTyped DEF StatusData, GoodPids, Handshakes
  <2> QED BY <1>5, <2>2, <2>3, EndControlTyped, Frame DEF StatusData, DeviceTypeOK
<1> QED BY <1>2, <1>3, <1>4, <1>5 DEF controlStatusStage

-----------------------------------------------------------------------------
LEMMA DeviceTyped == DeviceTypeOK /\ DeviceNext => DeviceTypeOK'
<1> QED
  BY Zenon, WaitTyped, RunTyped, RunLoopTyped, SendOnInTyped, InAckedTyped, InNakedTyped,
     InNoHandshakeTyped, ProcessInTyped, ProcessOutTyped, OutDataTyped,
     ProcessControlTyped, StatusStageTyped
     DEF DeviceNext, DeviceStep, sendInData

-----------------------------------------------------------------------------
\* The start, and what the other side of the line does.
LEMMA DeviceInitTyped == ASSUME BusInit, DeviceInit PROVE DeviceTypeOK
<1>1. LineOK
  BY NoPktTyped, BadPktTyped, NoReqTyped DEF BusInit, DeviceInit, LineOK
<1>2. ControlOK
  BY NoCtxTyped DEF DeviceInit, ControlOK
<1>3. ephalted \in Flags /\ dEpdata0 \in Flags
  BY Zenon, AllFlagsTyped DEF DeviceInit
<1>4. devaddr = NoAddr /\ dFramenum = 0
  BY Zenon DEF DeviceInit
<1>5. StateOK
  BY <1>3, <1>4 DEF StateOK
<1>6. SwitchesOK
  BY Zenon DEF BusInit, DeviceInit, SwitchesOK
<1>7. HistoryOK
  BY DEF DeviceInit, HistoryOK
<1> QED BY <1>1, <1>2, <1>5, <1>6, <1>7 DEF DeviceTypeOK

LEMMA OnLineTyped ==
    ASSUME DeviceTypeOK, toDev' \in Packets, toHost' \in Packets,
           UNCHANGED <<dPc, dCtx, dState, dSuspended, dNrzi, dRx, dHistory, pullup>>
    PROVE  DeviceTypeOK'
<1>1. LineOK' /\ ControlOK'
  BY DEF DeviceTypeOK, LineOK, ControlOK
<1>2. StateOK' /\ HistoryOK' /\ UNCHANGED deviceConfigured
  BY StateKept, HistoryKept
<1>3. SwitchesOK'
  BY Zenon, <1>2, SwitchesKept
<1> QED BY <1>1, <1>2, <1>3 DEF DeviceTypeOK

-----------------------------------------------------------------------------
(***************************************************************************)
(* What a step of the device does to the line, and the only steps to the   *)
(* wait for OUT data and from it to the data callback.                     *)
(***************************************************************************)
LEMMA DeviceSteps ==
    ASSUME DeviceNext
    PROVE  \/ usbDeviceRun \/ DeviceUser \/ Deaf \/ waitForExpectedPacket
           \/ \E pc \in Waits : Take(pc)
<1>1. \A pc \in Waits : Return(pc) => Take(pc)
  BY DEF Return
<1>2. {"Run", "SetupData", "InToken", "InHshk", "OutData",
       "StatusIn", "StatusAck", "StatusOut", "StatusData"} = Waits
  BY DEF Waits
<1>3. CASE \/ RunSetup \/ processSOF \/ RunUnexpected
           \/ processIn \/ processOut \/ OutData
           \/ sendInData \/ processControl \/ controlStatusStage
  <2> SUFFICES \E pc \in Waits : Take(pc)
    OBVIOUS
  <2>1. \A pid, endp : Refuse(pid, endp) => Return("Run")
    BY Zenon DEF Refuse
  <2>2. /\ "Run" \in Waits /\ "SetupData" \in Waits /\ "InToken" \in Waits
        /\ "InHshk" \in Waits /\ "OutData" \in Waits /\ "StatusIn" \in Waits
        /\ "StatusAck" \in Waits /\ "StatusOut" \in Waits /\ "StatusData" \in Waits
    BY <1>2
  <2>3. CASE RunSetup \/ processSOF \/ RunUnexpected
    BY <1>1, <2>2, <2>3 DEF RunSetup, processSOF, RunUnexpected
  <2>4. CASE processIn \/ processOut \/ OutData
    BY Zenon, <1>1, <2>1, <2>2, <2>4 DEF processIn, processOut, OutData
  <2>5. CASE sendInData \/ processControl
    BY <1>1, <2>2, <2>5
       DEF sendInData, SendOnIn, InAcked, InNaked, InNoHandshake, processControl
  <2>6. CASE controlStatusStage
    BY <1>1, <2>2, <2>6 DEF controlStatusStage, StatusIn, StatusAck, StatusOut, StatusData
  <2> QED BY Zenon, <1>3, <2>3, <2>4, <2>5, <2>6
<1> QED BY Zenon, <1>3 DEF DeviceNext, DeviceStep

LEMMA DeviceTakes ==
    ASSUME DeviceNext
    PROVE  \/ toDev # NoPkt /\ toDev' = NoPkt
           \/ /\ usbDeviceRun \/ DeviceUser
              /\ UNCHANGED <<toDev, toHost, dOut>>
<1>1. CASE usbDeviceRun \/ DeviceUser
  BY <1>1 DEF usbDeviceRun, DeviceUser, usbDeviceDisconnect, usbDeviceReconnect,
              usbDeviceRunAgain, dHistory
<1>2. CASE Deaf \/ waitForExpectedPacket
  <2>1. LineReset # NoPkt /\ LineSuspend # NoPkt
    BY DEF LineReset, LineSuspend, NoPkt, Hshk, Pkt
  <2> QED BY <1>2, <2>1 DEF Deaf, waitForExpectedPacket, WaitReset, WaitSuspend, WaitBad
<1>3. CASE \E pc \in Waits : Take(pc)
  BY <1>3 DEF Take
<1> QED BY DeviceSteps, <1>1, <1>2, <1>3

\* Only user code of a stopped device, and its first run, touch the pull-up.
LEMMA PullupStays ==
    ASSUME DeviceNext, ~(usbDeviceRun \/ DeviceUser)
    PROVE  pullup' = pullup /\ (dPc \in Waits \/ dPc' \notin Waits)
<1>1. CASE Deaf \/ waitForExpectedPacket
  BY <1>1 DEF Deaf, waitForExpectedPacket, WaitReset, WaitSuspend, WaitBad, Waits
<1>2. CASE \E pc \in Waits : Take(pc)
  BY <1>2 DEF Take
<1> QED BY DeviceSteps, <1>1, <1>2

\* The only step to the wait for OUT data.
LEMMA OnlyProcessOut ==
    ASSUME DeviceNext, dPc' = "OutData", ~waitForExpectedPacket
    PROVE  processOut
<1>1. ~(usbDeviceRun \/ DeviceUser \/ Deaf)
  BY DEF usbDeviceRun, DeviceUser, usbDeviceDisconnect,
         usbDeviceReconnect, usbDeviceRunAgain, Deaf
<1>2. ~(RunSetup \/ processSOF \/ RunUnexpected)
  BY DEF RunSetup, processSOF, RunUnexpected, Goto, Stop
<1>3. ~sendInData
  BY DEF sendInData, SendOnIn, InAcked, InNaked, InNoHandshake, SendChunk, Goto, Stop
<1>4. ~processIn
  BY DEF processIn, Refuse, CallbackStall, CallbackNak, CallbackData, SendChunk, Goto, Stop
<1>5. ~OutData
  BY DEF OutData, OutAccept, CallbackStall, CallbackNak, Goto, Stop
<1>6. ~processControl
  <2> SUFFICES ASSUME processControl PROVE FALSE
    OBVIOUS
  <2>1. \A r, n : ~Answer(r, n) /\ ~Obey(r)
    BY DEF Answer, Obey, Goto, Stop
  <2>2. \A n : ~StallStop(n) /\ ~StallStatus /\ ~Stop
    BY DEF StallStop, StallStatus, Goto, Stop
  <2> QED BY Zenon, <2>1, <2>2 DEF processControl, handleDevReq, handleIfReq, handleEpReq
<1>7. ~controlStatusStage
  BY DEF controlStatusStage, StatusIn, StatusAck, StatusOut, StatusData, EndControl, Goto
<1> QED BY Zenon, <1>1, <1>2, <1>3, <1>4, <1>5, <1>6, <1>7 DEF DeviceNext, DeviceStep

\* User data are taken in one place.
LEMMA OnlyOutAccept ==
    ASSUME DeviceNext, dOut' # dOut
    PROVE  dPc = "OutData"
<1>1. ~(usbDeviceRun \/ DeviceUser \/ Deaf \/ waitForExpectedPacket)
  BY DEF usbDeviceRun, DeviceUser, usbDeviceDisconnect,
         usbDeviceReconnect, usbDeviceRunAgain, Deaf, waitForExpectedPacket, WaitReset,
         WaitSuspend, WaitBad, dHistory
<1>2. ~(RunSetup \/ processSOF \/ RunUnexpected \/ processOut \/ processIn)
  <2>1. RunSetup => UNCHANGED dHistory
    BY Zenon DEF RunSetup
  <2>2. processSOF \/ RunUnexpected => UNCHANGED dHistory
    BY DEF processSOF, RunUnexpected
  <2>3. \A pid, endp : Refuse(pid, endp) => UNCHANGED dHistory
    BY Zenon DEF Refuse
  <2>4. \A endp : CallbackStall(endp) \/ CallbackNak \/ CallbackData(endp) => UNCHANGED dHistory
    BY Zenon DEF CallbackStall, CallbackNak, CallbackData
  <2>5. processIn => UNCHANGED dHistory
    BY Zenon, <2>3, <2>4 DEF processIn
  <2>6. processOut => UNCHANGED dHistory
    BY Zenon, <2>3 DEF processOut
  <2> QED BY <2>1, <2>2, <2>5, <2>6 DEF dHistory
<1>3. ~(sendInData \/ controlStatusStage)
  BY DEF sendInData, SendOnIn, InAcked, InNaked, InNoHandshake,
         controlStatusStage, StatusIn, StatusAck, StatusOut, StatusData, EndControl, dHistory
<1>4. ~processControl
  <2> SUFFICES ASSUME processControl PROVE FALSE
    OBVIOUS
  <2>1. \A r, n : ~Answer(r, n) /\ ~Obey(r)
    BY DEF Answer, Obey, AckSetup
  <2>2. \A n : ~StallStop(n) /\ ~StallStatus /\ ~(UNCHANGED <<dState, dHistory>>)
    BY DEF StallStop, StallStatus, dHistory
  <2> QED BY Zenon, <2>1, <2>2 DEF processControl, handleDevReq, handleIfReq, handleEpReq
<1>5. OutData
  BY Zenon, <1>1, <1>2, <1>3, <1>4 DEF DeviceNext, DeviceStep
<1> QED BY <1>5 DEF OutData, Return, Take

\* The waits that go on, and the one for OUT data.
LEMMA WaitKept == waitForExpectedPacket => UNCHANGED <<dPc, dOut, toHost>>
BY DEF waitForExpectedPacket, WaitReset, WaitSuspend, WaitBad, dHistory

LEMMA OutDataEnds ==
    ASSUME DeviceNext, dPc = "OutData"
    PROVE  \/ waitForExpectedPacket /\ UNCHANGED <<dPc, dOut, toHost>>
           \/ OutData /\ dPc' # "OutData"
<1>1. \A pc : Return(pc) => Take(pc)
  BY DEF Return
<1>2. \A pc : pc # "OutData" => ~Take(pc)
  BY DEF Take
<1>3. ~(usbDeviceRun \/ DeviceUser \/ Deaf)
  BY DEF usbDeviceRun, DeviceUser, usbDeviceDisconnect, usbDeviceReconnect,
         usbDeviceRunAgain, Deaf
<1>4. ~(RunSetup \/ processSOF \/ RunUnexpected \/ processIn \/ processOut)
  <2>1. ~Return("Run") /\ ~Take("Run")
    BY <1>1, <1>2
  <2>2. ~(RunSetup \/ processSOF \/ RunUnexpected)
    BY <2>1 DEF RunSetup, processSOF, RunUnexpected
  <2>3. \A pid, endp : ~Refuse(pid, endp)
    BY <2>1 DEF Refuse
  <2> QED BY Zenon, <2>1, <2>2, <2>3 DEF processIn, processOut
<1>5. ~(sendInData \/ processControl \/ controlStatusStage)
  BY <1>1, <1>2 DEF sendInData, SendOnIn, InAcked, InNaked, InNoHandshake, processControl,
         controlStatusStage, StatusIn, StatusAck, StatusOut, StatusData
<1>6. OutData => dPc' # "OutData"
  BY DEF OutData, CallbackStall, CallbackNak, OutAccept, Stop, Goto
<1> QED BY Zenon, <1>3, <1>4, <1>5, <1>6, WaitKept DEF DeviceNext, DeviceStep

=============================================================================
