-------------------------- MODULE UsbAnyHost_proofs --------------------------
(***************************************************************************)
(* The device against any host, proved for every value of the constants:   *)
(* its type invariant, the silence of halted endpoints, the bytes of the   *)
(* data callback, and the toggle of the control endpoint.                  *)
(***************************************************************************)
EXTENDS UsbAnyHost, UsbDevice_proofs

USE MAXPKTPositive, BusAssumption, DeviceAssumption, AnyHostAssumption

-----------------------------------------------------------------------------
LEMMA HostTyped == DeviceTypeOK /\ AnyHost => DeviceTypeOK'
BY NoPktTyped, OnLineTyped DEF AnyHost

LEMMA StutterTyped == DeviceTypeOK /\ UNCHANGED vars => DeviceTypeOK'
BY OnLineTyped DEF vars, dVars, DeviceTypeOK, LineOK

\* Whatever the host sends, the device stays within its types: no packet, request,
\* descriptor size or endpoint number leads it out of its tables.
THEOREM TypeCorrect == Spec => []DeviceTypeOK
<1>1. DeviceTypeOK /\ [Next]_vars => DeviceTypeOK'
  BY Zenon, DeviceTyped, HostTyped, StutterTyped DEF Next, Device
<1>2. Init => DeviceTypeOK
  BY DeviceInitTyped DEF Init
<1> QED BY <1>1, <1>2, PTL DEF Spec

-----------------------------------------------------------------------------
(***************************************************************************)
(* The silence of halted endpoints.  processOut looks at the halt when the *)
(* OUT token comes, the callback gets the data one wait later: the halt    *)
(* must still be off then, through the resets and bad packets in between.  *)
(***************************************************************************)
OutOpen ==
    dPc = "OutData" => /\ <<EpIdx(dCtx.endp), EpDir(dCtx.endp)>> \in epvalid
                       /\ ~Flag(ephalted, dCtx.endp)

\* A reset lifts every halt.
LEMMA NoFlagSet ==
    ASSUME NEW endp, <<EpIdx(endp), EpDir(endp)>> \in epvalid
    PROVE  ~Flag(AllFlags(FALSE), endp)
<1>1. EpIdx(endp) \in EP /\ EpDir(endp) \in 0..1
  BY DEF epvalid
<1> QED BY <1>1 DEF Flag, AllFlags

LEMMA OutOpenKept == DeviceTypeOK /\ OutOpen /\ [Next]_vars => OutOpen'
<1> SUFFICES ASSUME DeviceTypeOK, OutOpen, [Next]_vars, dPc' = "OutData" PROVE OutOpen'
  BY DEF OutOpen
<1>1. CASE WaitReset
  <2>1. dPc' = dPc /\ dCtx' = dCtx /\ ephalted' = AllFlags(FALSE)
    BY Zenon, <1>1 DEF WaitReset
  <2> QED BY <2>1, NoFlagSet DEF OutOpen
<1>2. CASE WaitSuspend \/ WaitBad \/ AnyHost \/ UNCHANGED vars
  <2>1. UNCHANGED <<dPc, dCtx, ephalted>>
    BY <1>2 DEF WaitSuspend, WaitBad, AnyHost, vars, dVars, dState
  <2> QED BY <2>1 DEF OutOpen
<1>3. CASE DeviceNext /\ ~waitForExpectedPacket
  <2>1. processOut
    BY <1>3, OnlyProcessOut
  <2>2. /\ Goto("OutData", [NoCtx EXCEPT !.endp = Received.endp])
        /\ ~Refused(Received.addr, Received.endp) /\ UNCHANGED dState
    BY <2>1 DEF processOut, Refuse, Goto, Stop
  <2>3. dCtx'.endp = Received.endp /\ ephalted' = ephalted
    BY <2>2 DEF Goto, NoCtx, dState
  <2> QED BY <2>2, <2>3 DEF OutOpen, Refused
<1> QED BY Zenon, <1>1, <1>2, <1>3 DEF Next, Device, waitForExpectedPacket

\* The other half: what may leave the run loop with data on the line.
LEMMA OnlyProcessIn ==
    ASSUME DeviceNext, dPc = "Run", dPc' = "InHshk"
    PROVE  ~Flag(ephalted, dCtx'.endp)
<1>1. ~(usbDeviceRun \/ DeviceUser \/ Deaf \/ waitForExpectedPacket)
  BY DEF usbDeviceRun, DeviceUser, usbDeviceDisconnect,
         usbDeviceReconnect, usbDeviceRunAgain, Deaf, waitForExpectedPacket, WaitReset,
         WaitSuspend, WaitBad
<1>2. ~(RunSetup \/ processSOF \/ RunUnexpected \/ processOut)
  BY DEF RunSetup, processSOF, RunUnexpected, processOut, Refuse, Goto, Stop
<1>3. ~(sendInData \/ OutData \/ processControl \/ controlStatusStage)
  BY DEF sendInData, SendOnIn, InAcked, InNaked, InNoHandshake, OutData, processControl,
         controlStatusStage, StatusIn, StatusAck, StatusOut, StatusData, Return, Take
<1>4. processIn
  BY Zenon, <1>1, <1>2, <1>3 DEF DeviceNext, DeviceStep
<1>5. CallbackData(InEndp) /\ ~Refused(Received.addr, InEndp)
  BY <1>4 DEF processIn, Refuse, CallbackStall, CallbackNak, Goto, Stop
<1>6. dCtx'.endp = InEndp
  BY <1>5 DEF CallbackData, SendChunk, Goto, NoCtx
<1> QED BY Zenon, <1>5, <1>6 DEF Refused

\* No data pass a halted endpoint, whoever set the halt: the callback by its STALL,
\* SET_FEATURE, or a request that was refused.
THEOREM HaltHolds == Spec => HaltedIsSilent
<1>1. OutOpen /\ [Next]_vars
        => [/\ dOut' # dOut => ~Flag(ephalted, dCtx.endp)
            /\ dPc = "Run" /\ dPc' = "InHshk" => ~Flag(ephalted, dCtx'.endp)]_vars
  <2>1. AnyHost => UNCHANGED <<dOut, dPc>>
    BY DEF AnyHost, dHistory
  <2>2. OutOpen /\ DeviceNext
          => /\ dOut' # dOut => ~Flag(ephalted, dCtx.endp)
             /\ dPc = "Run" /\ dPc' = "InHshk" => ~Flag(ephalted, dCtx'.endp)
    BY OnlyOutAccept, OnlyProcessIn DEF OutOpen
  <2> QED BY <2>1, <2>2 DEF Next, Device
<1>2. Init => OutOpen
  BY DEF Init, DeviceInit, OutOpen
<1> QED BY TypeCorrect, <1>1, <1>2, OutOpenKept, PTL DEF Spec, HaltedIsSilent

-----------------------------------------------------------------------------
(***************************************************************************)
(* Transfers of callback data.  The first packet needs no IN token of its  *)
(* own and is repeated without one, so the wait for a token comes only     *)
(* when a full packet has gone.                                            *)
(***************************************************************************)
FullPacketGone ==
    dPc \in {"InToken", "InHshk"} /\ ~dCtx.ctl =>
        /\ EpDir(dCtx.endp) = 1
        /\ dCtx.sent >= MAXPKT \/ (dPc = "InHshk" /\ dCtx.sent = 0)

\* What a control transfer sends is marked as such.
LEMMA ControlMarked ==
    ASSUME processControl, dPc' \in {"InToken", "InHshk"}
    PROVE  dCtx'.ctl
<1>1. \A r, n : Answer(r, n) => dCtx'.ctl
  BY DEF Answer, Goto, Stop, CtlCtx, NoCtx
<1>2. \A r : ~Obey(r)
  BY DEF Obey, Goto
<1>3. \A n : ~StallStop(n) /\ ~StallStatus /\ ~Stop
  BY DEF StallStop, StallStatus, Goto, Stop
<1> QED BY Zenon, <1>1, <1>2, <1>3 DEF processControl, handleDevReq, handleIfReq, handleEpReq

\* The steps outside sendInData, processIn and processControl lead to no such wait.
LEMMA NoDataWait ==
    ASSUME \/ usbDeviceRun \/ DeviceUser \/ Deaf
           \/ RunSetup \/ processSOF \/ RunUnexpected
           \/ processOut \/ OutData \/ controlStatusStage
    PROVE  dPc' \notin {"InToken", "InHshk"}
<1>1. CASE usbDeviceRun \/ DeviceUser \/ Deaf
  BY <1>1 DEF usbDeviceRun, DeviceUser, usbDeviceDisconnect, usbDeviceReconnect,
              usbDeviceRunAgain, Deaf
<1>2. CASE RunSetup \/ processSOF \/ RunUnexpected
  BY <1>2 DEF RunSetup, processSOF, RunUnexpected, Goto, Stop
<1>3. CASE processOut \/ OutData
  BY <1>3 DEF processOut, Refuse, OutData, OutAccept, CallbackStall, CallbackNak, Goto, Stop
<1>4. CASE controlStatusStage
  BY <1>4 DEF controlStatusStage, StatusIn, StatusAck, StatusOut, StatusData, EndControl, Goto
<1> QED BY Zenon, <1>1, <1>2, <1>3, <1>4

LEMMA SendInDataKeeps ==
    ASSUME DeviceTypeOK, FullPacketGone, sendInData
    PROVE  FullPacketGone'
<1>1. dCtx \in Contexts /\ dCtx.sent <= dCtx.size
  BY DEF DeviceTypeOK, ControlOK
<1>2. CASE SendOnIn
  BY <1>2 DEF SendOnIn, SendChunk, Goto, Return, Take, FullPacketGone
<1>3. CASE InAcked
  <2> DEFINE ctx == [dCtx EXCEPT !.sent = @ + Chunk(dCtx)]
  <2>1. /\ dPc = "InHshk"
        /\ \/ ctx.sent < ctx.size /\ Goto("InToken", ctx)
           \/ Goto("StatusOut", ctx) \/ Goto("Run", NoCtx)
    BY Zenon, <1>3 DEF InAcked, Return, Take
  <2>2. /\ ctx.sent = dCtx.sent + Chunk(dCtx) /\ ctx.size = dCtx.size
        /\ ctx.ctl = dCtx.ctl /\ ctx.endp = dCtx.endp
    BY <1>1 DEF Contexts
  <2>3. CASE ctx.sent < ctx.size /\ Goto("InToken", ctx)
    <3>1. Chunk(dCtx) = MAXPKT
      BY <1>1, <2>2, <2>3 DEF Contexts, Chunk, MinOf
    <3>2. ctx.sent >= MAXPKT
      BY <1>1, <2>2, <3>1 DEF Contexts
    <3> QED BY <2>1, <2>2, <2>3, <3>2 DEF Goto, FullPacketGone
  <2>4. CASE Goto("StatusOut", ctx) \/ Goto("Run", NoCtx)
    BY <2>4 DEF Goto, FullPacketGone
  <2> QED BY <2>1, <2>3, <2>4
<1>4. CASE InNaked
  <2> DEFINE ctx == [dCtx EXCEPT !.naks = @ + 1]
  <2>1. /\ dPc = "InHshk"
        /\ \/ Stop
           \/ ~ctx.ctl /\ ctx.sent = 0 /\ SendChunk(ctx)
           \/ ~(~ctx.ctl /\ ctx.sent = 0) /\ Goto("InToken", ctx)
    BY Zenon, <1>4 DEF InNaked, Return, Take
  <2>2. ctx.sent = dCtx.sent /\ ctx.ctl = dCtx.ctl /\ ctx.endp = dCtx.endp
    BY <1>1 DEF Contexts
  <2> QED BY <2>1, <2>2 DEF SendChunk, Goto, Stop, FullPacketGone
<1>5. CASE InNoHandshake
  BY <1>5 DEF InNoHandshake, Stop, Goto, FullPacketGone
<1> QED BY <1>2, <1>3, <1>4, <1>5 DEF sendInData

LEMMA ProcessInKeeps ==
    ASSUME DeviceTypeOK, processIn
    PROVE  FullPacketGone'
<1>1. CASE dPc' \notin {"InToken", "InHshk"}
  BY <1>1 DEF FullPacketGone
<1>2. CASE dPc' \in {"InToken", "InHshk"}
  <2>1. Take("Run") /\ CallbackData(InEndp)
    BY <1>2 DEF processIn, Refuse, CallbackStall, CallbackNak, Goto, Stop
  <2>2. dPc' = "InHshk" /\ dCtx'.sent = 0 /\ dCtx'.endp = InEndp
    BY <1>2, <2>1 DEF CallbackData, SendChunk, Goto, NoCtx
  <2>3. EpDir(InEndp) = 1
    BY <2>1, TakeTyped DEF InEndp, EpDir, Packets
  <2> QED BY <2>2, <2>3 DEF FullPacketGone
<1> QED BY <1>1, <1>2

LEMMA FullPacketGoneKept == DeviceTypeOK /\ FullPacketGone /\ [Next]_vars => FullPacketGone'
<1> SUFFICES ASSUME DeviceTypeOK, FullPacketGone, [Next]_vars PROVE FullPacketGone'
  OBVIOUS
<1>1. CASE waitForExpectedPacket \/ AnyHost \/ UNCHANGED vars
  <2>1. UNCHANGED <<dPc, dCtx>>
    BY <1>1 DEF waitForExpectedPacket, WaitReset, WaitSuspend, WaitBad, AnyHost, vars, dVars
  <2> QED BY <2>1 DEF FullPacketGone
<1>2. CASE sendInData
  BY <1>2, SendInDataKeeps
<1>3. CASE processIn
  BY <1>3, ProcessInKeeps
<1>4. CASE processControl
  BY <1>4, ControlMarked DEF FullPacketGone
<1>5. CASE \/ usbDeviceRun \/ DeviceUser \/ Deaf
           \/ RunSetup \/ processSOF \/ RunUnexpected
           \/ processOut \/ OutData \/ controlStatusStage
  BY <1>5, NoDataWait DEF FullPacketGone
<1> QED BY Zenon, <1>1, <1>2, <1>3, <1>4, <1>5 DEF Next, Device, DeviceNext, DeviceStep

\* Of the callback data that are still to be sent, a packet taken for an IN token
\* overwrites none within the first MAXPKT bytes of rxdata: for every size of the
\* callback data and of the packet, which may be longer than MAXPKT.
THEOREM CallbackDataSafe == Spec => CallbackDataIntact
<1> DEFINE A == TakenForIn => Overwritten \subseteq MAXPKT..Received.len - 1
<1>1. DeviceTypeOK /\ FullPacketGone => A
  <2> SUFFICES ASSUME DeviceTypeOK, FullPacketGone, dPc = "InToken", ~dCtx.ctl,
                      NEW place \in Overwritten
               PROVE  place \in MAXPKT..Received.len - 1
    BY DEF TakenForIn
  <2>1. dCtx.sent >= MAXPKT
    BY DEF FullPacketGone
  <2>2. Received.len \in Nat /\ dCtx.sent \in Nat /\ dCtx.size \in Nat
    BY ReceivedTyped DEF DeviceTypeOK, ControlOK, Contexts, Packets
  <2>3. place \in 0..Received.len - 1 /\ place \in dCtx.sent..dCtx.size - 1
    BY DEF Overwritten
  <2> QED BY <2>1, <2>2, <2>3
<1>2. DeviceTypeOK /\ FullPacketGone /\ [Next]_vars => [A]_vars
  BY <1>1
<1>3. Init => FullPacketGone
  BY DEF Init, DeviceInit, FullPacketGone
<1> QED BY TypeCorrect, <1>2, <1>3, FullPacketGoneKept, PTL DEF Spec, CallbackDataIntact

-----------------------------------------------------------------------------
(***************************************************************************)
(* The toggle of the control endpoint.  A transfer on another endpoint     *)
(* leaves it alone, and the ends of a control transfer set it back.        *)
(***************************************************************************)
LEMMA ControlFlag == \A t : Flag(t, 0) = t[0][0]
BY DEF Flag, EpIdx, EpDir

LEMMA ToggleElsewhere ==
    ASSUME NEW t \in Flags, ~OnControl, NEW b
    PROVE  Flag(SetFlag(t, dCtx.endp, b), 0) = Flag(t, 0)
<1>1. 0 \in EP /\ t \in [EP -> [0..1 -> BOOLEAN]]
  BY DEF Flags
<1> DEFINE i == EpIdx(dCtx.endp)
           d == EpDir(dCtx.endp)
           u == [t EXCEPT ![i][d] = b]
<1>2. i # 0 \/ d # 0
  BY DEF OnControl
<1> HIDE DEF i, d
<1>3. u[0][0] = t[0][0]
  <2>1. CASE i # 0
    BY <1>1, <2>1
  <2>2. CASE i = 0 /\ d # 0
    BY <1>1, <2>2
  <2> QED BY <1>2, <2>1, <2>2
<1> QED BY <1>3, ControlFlag DEF SetFlag, i, d

LEMMA ToggleHere ==
    ASSUME NEW t \in Flags, OnControl
    PROVE  Flag(SetFlag(t, dCtx.endp, TRUE), 0)
<1>1. 0 \in EP /\ t \in [EP -> [0..1 -> BOOLEAN]]
  BY DEF Flags
<1>2. SetFlag(t, dCtx.endp, TRUE) = [t EXCEPT ![0][0] = TRUE]
  BY DEF SetFlag, OnControl
<1>3. [t EXCEPT ![0][0] = TRUE][0][0] = TRUE
  BY <1>1
<1> QED BY <1>2, <1>3, ControlFlag

\* Where the toggle matters: outside control transfers on endpoint 0.
Needed == \/ dPc \in {"Run", "Start", "OutData"}
          \/ dPc # "Stopped" /\ ~OnControl

Toggled == ~skew /\ Needed => Flag(dEpdata0, 0)

\* The packet that a wait returns is no reset.
LEMMA TakeNoReset ==
    ASSUME NEW pc, Take(pc)
    PROVE  dPc = pc /\ toDev # LineReset
BY DEF Take, Received, LineReset, Hshk, Pkt, GoodPids, Tokens, DataPids, Handshakes,
       LineError

LEMMA StillSkewed ==
    ASSUME Device, ~Settles, ~skew'
    PROVE  ~skew /\ ~Skews
BY Zenon DEF Device

\* A step that changes no toggle, and one that changes that of dCtx.endp.
LEMMA SameToggle ==
    ASSUME Device, Toggled, ~Settles, dEpdata0' = dEpdata0, Needed' => Needed
    PROVE  Toggled'
<1> SUFFICES ASSUME ~skew', Needed' PROVE Flag(dEpdata0, 0)
  BY Zenon DEF Toggled
<1>1. ~skew
  BY StillSkewed
<1> QED BY Zenon, <1>1 DEF Toggled

LEMMA OtherToggle ==
    ASSUME Device, DeviceTypeOK, Toggled, ~Settles, NEW b,
           dEpdata0' = SetFlag(dEpdata0, dCtx.endp, b),
           Needed' => Skews \/ (dPc # "Stopped" /\ ~OnControl)
    PROVE  Toggled'
<1> SUFFICES ASSUME ~skew', Needed' PROVE Flag(dEpdata0', 0)
  BY Zenon DEF Toggled
<1>1. ~skew /\ ~OnControl /\ Needed
  BY Zenon, StillSkewed DEF Needed
<1>2. dEpdata0 \in Flags
  BY DEF DeviceTypeOK, StateOK
<1>3. Flag(dEpdata0', 0) = Flag(dEpdata0, 0)
  BY <1>1, <1>2, ToggleElsewhere
<1> QED BY Zenon, <1>1, <1>3 DEF Toggled

-----------------------------------------------------------------------------
LEMMA WaitKeepsToggle ==
    ASSUME Device, Toggled, waitForExpectedPacket
    PROVE  Toggled'
<1>1. CASE WaitReset
  <2>1. dEpdata0' = AllFlags(TRUE) /\ 0 \in EP
    BY <1>1 DEF WaitReset
  <2>2. AllFlags(TRUE)[0][0] = TRUE
    BY <2>1 DEF AllFlags
  <2> QED BY <2>1, <2>2, ControlFlag DEF Toggled
<1>2. CASE WaitSuspend \/ WaitBad
  <2>1. toDev # LineReset /\ dPc' = dPc /\ UNCHANGED <<dCtx, dEpdata0>>
    BY <1>2 DEF WaitSuspend, WaitBad, dState, Received, LineReset, LineSuspend, LineError,
                BadPkt, Hshk, Pkt
  <2>2. ~Settles
    BY <2>1 DEF Settles
  <2> QED BY <2>1, <2>2, SameToggle DEF Needed, OnControl
<1> QED BY <1>1, <1>2 DEF waitForExpectedPacket

\* The steps outside transfers, and those of data endpoints that change no toggle.
LEMMA RunKeepsToggle ==
    ASSUME Device, Toggled,
           \/ usbDeviceRun \/ DeviceUser \/ Deaf
           \/ RunSetup \/ processSOF \/ RunUnexpected \/ processIn \/ processOut
    PROVE  Toggled'
<1>1. CASE usbDeviceRun \/ usbDeviceDisconnect \/ usbDeviceReconnect \/ Deaf
  <2>1. /\ dPc \notin Waits /\ dEpdata0' = dEpdata0 /\ UNCHANGED dCtx
        /\ dPc' = dPc \/ dPc = "Start"
    BY <1>1 DEF usbDeviceRun, usbDeviceDisconnect, usbDeviceReconnect, Deaf, dState, Waits
  <2>2. ~Settles
    BY <2>1 DEF Settles, Waits
  <2> QED BY <2>1, <2>2, SameToggle DEF Needed, OnControl
<1>2. CASE usbDeviceRunAgain
  <2>1. Skews
    BY <1>2 DEF usbDeviceRunAgain, Skews
  <2> QED BY Zenon, <2>1 DEF Device, Toggled
<1>3. CASE RunSetup \/ processSOF \/ RunUnexpected \/ processIn \/ processOut
  <2>1. Take("Run") /\ dEpdata0' = dEpdata0
    <3>1. CASE RunSetup \/ processSOF \/ RunUnexpected
      <4>1. CASE RunSetup
        <5>1. Take("Run") /\ UNCHANGED dState
          BY Zenon, <4>1 DEF RunSetup, Return
        <5> QED BY <5>1 DEF dState
      <4>2. CASE processSOF \/ RunUnexpected
        BY <4>2 DEF processSOF, RunUnexpected, Return, dState
      <4> QED BY <3>1, <4>1, <4>2
    <3>2. CASE processOut
      BY Zenon, <3>2 DEF processOut, Refuse, Return, dState
    <3>3. CASE processIn
      BY Zenon, <3>3 DEF processIn, Refuse, Return, CallbackStall, CallbackNak,
                         CallbackData, dState
    <3> QED BY <1>3, <3>1, <3>2, <3>3
  <2>2. dPc = "Run" /\ ~Settles
    BY <2>1, TakeNoReset DEF Settles
  <2> QED BY <2>1, <2>2, SameToggle DEF Needed
<1> QED BY Zenon, <1>1, <1>2, <1>3 DEF DeviceUser

LEMMA OutDataKeepsToggle ==
    ASSUME Device, DeviceTypeOK, Toggled, OutData
    PROVE  Toggled'
<1>1. dPc = "OutData" /\ ~Settles
  BY TakeNoReset DEF OutData, Return, Settles
<1>2. CASE CallbackStall(dCtx.endp) \/ CallbackNak
  <2>1. dEpdata0' = dEpdata0
    BY <1>2 DEF CallbackStall, CallbackNak, dState
  <2> QED BY <1>1, <2>1, SameToggle DEF Needed
<1>3. CASE OutAccept
  <2>1. dEpdata0' = SetFlag(dEpdata0, dCtx.endp, ~Flag(dEpdata0, dCtx.endp))
    BY <1>3 DEF OutAccept, dataPidUpdate
  <2>2. dOut' # dOut
    <3>1. dOut \in Seq((0..255) \X Nat \X Nat)
      BY DEF DeviceTypeOK, HistoryOK
    <3>2. \E x : dOut' = Append(dOut, x)
      BY <1>3 DEF OutAccept
    <3>3. Len(dOut') = Len(dOut) + 1 /\ Len(dOut) \in Nat
      BY <3>1, <3>2
    <3> QED BY <3>3
  <2>3. Skews \/ ~OnControl
    BY Zenon, <2>2 DEF Skews
  <2> QED BY <1>1, <2>1, <2>3, OtherToggle
<1> QED BY <1>2, <1>3 DEF OutData

LEMMA SendInKeepsToggle ==
    ASSUME Device, DeviceTypeOK, FullPacketGone, Toggled, sendInData
    PROVE  Toggled'
<1>1. dPc \in {"InToken", "InHshk"} /\ ~Settles
  BY TakeNoReset DEF sendInData, SendOnIn, InAcked, InNaked, InNoHandshake, Return, Settles
<1>0. dCtx \in Contexts
  BY DEF DeviceTypeOK, ControlOK
<1>2. CASE SendOnIn \/ InNaked \/ InNoHandshake
  <2>1. dEpdata0' = dEpdata0
    BY <1>2 DEF SendOnIn, InNaked, InNoHandshake, dState
  <2>2. dPc' = "Stopped" \/ (dCtx'.endp = dCtx.endp /\ dPc' \in {"InToken", "InHshk"})
    <3>1. CASE SendOnIn
      BY <3>1 DEF SendOnIn, SendChunk, Goto
    <3>2. CASE InNaked
      <4> DEFINE ctx == [dCtx EXCEPT !.naks = @ + 1]
      <4>1. ctx.endp = dCtx.endp
        BY <1>0 DEF Contexts
      <4>2. Stop \/ SendChunk(ctx) \/ Goto("InToken", ctx)
        BY Zenon, <3>2 DEF InNaked
      <4> QED BY <4>1, <4>2 DEF Stop, SendChunk, Goto
    <3>3. CASE InNoHandshake
      BY <3>3 DEF InNoHandshake, Stop, Goto
    <3> QED BY <1>2, <3>1, <3>2, <3>3
  <2>3. Needed' => Needed
    BY <1>1, <2>2 DEF Needed, OnControl
  <2> QED BY <1>1, <2>1, <2>3, SameToggle
<1>3. CASE InAcked
  <2> DEFINE ctx == [dCtx EXCEPT !.sent = @ + Chunk(dCtx)]
  <2>1. dEpdata0' = SetFlag(dEpdata0, dCtx.endp, ~Flag(dEpdata0, dCtx.endp))
    <3>1. ctx.endp = dCtx.endp
      BY <1>0 DEF Contexts
    <3>2. dEpdata0' = dataPidUpdate(dEpdata0, ctx.endp)
      BY Zenon, <1>3 DEF InAcked
    <3> QED BY <3>1, <3>2 DEF dataPidUpdate
  <2>2. \/ dPc' \in {"InToken", "StatusOut"} /\ dCtx'.endp = dCtx.endp
        \/ ~dCtx.ctl
    <3>1. ctx.endp = dCtx.endp /\ ctx.ctl = dCtx.ctl
      BY <1>0 DEF Contexts
    <3>2. \/ Goto("InToken", ctx) \/ Goto("StatusOut", ctx) \/ ~ctx.ctl
      BY Zenon, <1>3 DEF InAcked
    <3> QED BY <3>1, <3>2 DEF Goto
  <2>3. Needed' => ~OnControl
    <3>1. CASE dPc' \in {"InToken", "StatusOut"} /\ dCtx'.endp = dCtx.endp
      BY <3>1 DEF Needed, OnControl
    <3>2. CASE ~dCtx.ctl
      BY <1>1, <3>2 DEF FullPacketGone, OnControl
    <3> QED BY <2>2, <3>1, <3>2
  <2> QED BY <1>1, <2>1, <2>3, OtherToggle
<1> QED BY <1>2, <1>3 DEF sendInData

\* A request is answered on the endpoint of its SETUP, or not at all.
LEMMA ControlStays ==
    ASSUME processControl
    PROVE  /\ \/ dPc' = "Stopped"
              \/ dPc' \notin {"Run", "Start", "OutData"} /\ dCtx'.endp = dCtx.endp
           /\ \/ dEpdata0' = dEpdata0
              \/ dEpdata0' = SetFlag(dEpdata0, dCtx.endp, ~Flag(dEpdata0, dCtx.endp))
<1> DEFINE Stays == \/ dPc' = "Stopped"
                    \/ dPc' \notin {"Run", "Start", "OutData"} /\ dCtx'.endp = dCtx.endp
           Turns == \/ dEpdata0' = dEpdata0
                    \/ dEpdata0' = SetFlag(dEpdata0, dCtx.endp, ~Flag(dEpdata0, dCtx.endp))
<1>1. \A r, n : Answer(r, n) => Stays /\ Turns
  BY DEF Answer, AckSetup, dataPidUpdate, Goto, Stop, CtlCtx, NoCtx
<1>2. \A r : Obey(r) => Stays /\ Turns
  BY DEF Obey, AckSetup, dataPidUpdate, Goto, CtlCtx, NoCtx
<1>3. \A n : StallStop(n) => Stays /\ Turns
  BY DEF StallStop, Stop, Goto
<1>4. StallStatus => Stays /\ Turns
  BY DEF StallStatus, Goto, CtlCtx, NoCtx
<1>5. Stop /\ UNCHANGED dState => Stays /\ Turns
  BY DEF Stop, Goto, dState
<1> HIDE DEF Stays, Turns
<1>6. Stays /\ Turns
  BY Zenon, <1>1, <1>2, <1>3, <1>4, <1>5
     DEF processControl, handleDevReq, handleIfReq, handleEpReq
<1> QED BY <1>6 DEF Stays, Turns

LEMMA ProcessControlKeepsToggle ==
    ASSUME Device, DeviceTypeOK, Toggled, processControl
    PROVE  Toggled'
<1>1. dPc = "SetupData" /\ ~Settles
  BY TakeNoReset DEF processControl, Return, Settles
<1>2. Needed' => dPc # "Stopped" /\ ~OnControl
  BY <1>1, ControlStays DEF Needed, OnControl
<1>3. CASE dEpdata0' = dEpdata0
  BY <1>1, <1>2, <1>3, SameToggle DEF Needed
<1>4. CASE dEpdata0' = SetFlag(dEpdata0, dCtx.endp, ~Flag(dEpdata0, dCtx.endp))
  BY <1>1, <1>2, <1>4, OtherToggle
<1> QED BY <1>3, <1>4, ControlStays

LEMMA EndControlKeepsToggle ==
    ASSUME Device, DeviceTypeOK, Toggled, NEW t \in Flags, EndControl(t),
           toDev # LineReset, dPc \in {"StatusAck", "StatusData"},
           ~OnControl => Flag(t, 0) = Flag(dEpdata0, 0)
    PROVE  Toggled'
<1>1. dEpdata0' = SetFlag(t, dCtx.endp, TRUE)
  BY DEF EndControl
<1>2. CASE OnControl
  BY <1>1, <1>2, ToggleHere DEF Toggled
<1>3. CASE ~OnControl
  <2>1. ~Settles
    BY <1>3 DEF Settles
  <2>2. Flag(dEpdata0', 0) = Flag(dEpdata0, 0)
    BY <1>1, <1>3, ToggleElsewhere
  <2>3. ~skew' => Flag(dEpdata0, 0)
    BY Zenon, <1>3, <2>1, StillSkewed DEF Toggled, Needed
  <2> QED BY Zenon, <2>2, <2>3 DEF Toggled
<1> QED BY <1>2, <1>3

LEMMA StatusKeepsToggle ==
    ASSUME Device, DeviceTypeOK, Toggled, controlStatusStage
    PROVE  Toggled'
<1>1. dEpdata0 \in Flags /\ dCtx.endp \in 0..255
  BY DEF DeviceTypeOK, StateOK, ControlOK, Contexts
<1>2. toDev # LineReset /\ dPc \in {"StatusIn", "StatusAck", "StatusOut", "StatusData"}
  BY TakeNoReset DEF controlStatusStage, StatusIn, StatusAck, StatusOut, StatusData, Return
<1>3. CASE StatusIn \/ StatusOut
  <2>1. /\ dEpdata0' = dEpdata0 /\ dCtx' = dCtx
        /\ dPc' \in {"StatusAck", "StatusData"}
    BY <1>3 DEF StatusIn, StatusOut, Goto, dState
  <2>2. ~Settles
    BY <1>2, <2>1 DEF Settles
  <2> QED BY <1>2, <2>1, <2>2, SameToggle DEF Needed, OnControl
<1>4. CASE StatusAck
  <2>1. EndControl(dEpdata0) /\ dPc = "StatusAck"
    BY <1>4, TakeNoReset DEF StatusAck, Return
  <2> QED BY <1>1, <1>2, <2>1, EndControlKeepsToggle
<1>5. CASE StatusData
  <2> DEFINE t == dataPidUpdate(dEpdata0, dCtx.endp)
  <2>1. EndControl(t) /\ dPc = "StatusData"
    BY <1>5, TakeNoReset DEF StatusData, Return
  <2>2. t \in Flags
    BY <1>1, ToggleTyped
  <2>3. ~OnControl => Flag(t, 0) = Flag(dEpdata0, 0)
    BY <1>1, ToggleElsewhere DEF dataPidUpdate
  <2> HIDE DEF t
  <2> QED BY <1>2, <2>1, <2>2, <2>3, EndControlKeepsToggle
<1> QED BY <1>3, <1>4, <1>5 DEF controlStatusStage

LEMMA ToggledKept ==
    DeviceTypeOK /\ FullPacketGone /\ Toggled /\ [Next]_vars => Toggled'
<1> SUFFICES ASSUME DeviceTypeOK, FullPacketGone, Toggled, [Next]_vars PROVE Toggled'
  OBVIOUS
<1>1. CASE AnyHost \/ UNCHANGED vars
  <2>1. UNCHANGED <<dPc, dCtx, dEpdata0, skew>>
    BY <1>1 DEF AnyHost, vars, dVars, dState
  <2> QED BY <2>1 DEF Toggled, Needed, OnControl
<1>2. CASE Device
  BY Zenon, <1>2, WaitKeepsToggle, RunKeepsToggle, OutDataKeepsToggle, SendInKeepsToggle,
     ProcessControlKeepsToggle, StatusKeepsToggle DEF Device, DeviceNext, DeviceStep
<1> QED BY <1>1, <1>2 DEF Next

\* Whatever packets come in whatever order, a control transfer or a reset that ends
\* leaves the control endpoint at DATA0, and no transfer elsewhere changes it.
THEOREM ControlToggle == Spec => []ControlAtData0
<1>1. Init => Toggled /\ FullPacketGone
  <2> SUFFICES ASSUME Init PROVE Toggled /\ FullPacketGone
    OBVIOUS
  <2>1. dEpdata0 = AllFlags(TRUE) /\ 0 \in EP
    BY DEF Init, DeviceInit
  <2>2. AllFlags(TRUE)[0][0] = TRUE
    BY <2>1 DEF AllFlags
  <2>3. FullPacketGone
    BY DEF Init, DeviceInit, FullPacketGone
  <2> QED BY <2>1, <2>2, <2>3, ControlFlag DEF Toggled
<1>2. Toggled => ControlAtData0
  BY Zenon DEF Toggled, Needed, ControlAtData0
<1> QED BY TypeCorrect, <1>1, <1>2, FullPacketGoneKept, ToggledKept, PTL DEF Spec

=============================================================================
