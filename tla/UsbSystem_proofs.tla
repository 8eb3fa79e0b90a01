--------------------------- MODULE UsbSystem_proofs ---------------------------
(***************************************************************************)
(* Host and device on one line, for every value of the constants: noise,   *)
(* resets, callback answers and calls to any address included.             *)
(***************************************************************************)
EXTENDS UsbSystem, UsbDevice_proofs

USE MAXPKTPositive, BusAssumption, DeviceAssumption, HostAssumption,
    SystemAssumption

-----------------------------------------------------------------------------
(***************************************************************************)
(* What the host puts on the line are packets.                             *)
(***************************************************************************)
Kinds == Outs \union Ins \union Controls

CallType == [kind : Kinds \union {"none"}, addr : 0..255, endp : 0..255,
             req : SetupRequests, size : Nat, chklen : BOOLEAN, maxpkt : Nat]

LEMMA NoCallTyped == NoCall \in CallType /\ NoCall.kind = "none" /\ NoCall.size = 0
BY NoReqTyped DEF NoCall, Call, CallType

LEMMA CallTyped ==
    ASSUME HostTypeOK
    PROVE  /\ hCall \in CallType
           /\ hCall.kind \in Descs => hCall.req.desc \in DOMAIN DescSize
           /\ hCall.kind = "none" <=> hCall = NoCall
<1>1. \A c \in Calls : /\ c \in CallType
                       /\ c.kind \in Descs => c.req.desc \in DOMAIN DescSize
                       /\ c.kind # "none"
  BY CallsAssumption DEF CallType, Kinds, Outs, Ins, Controls, Descs, Sets
<1>2. hCall \in Calls \union {NoCall}
  BY DEF HostTypeOK, CallOK
<1> QED BY <1>1, <1>2, NoCallTyped DEF Descs

LEMMA PacketKinds ==
    ASSUME NEW addr \in 0..127, NEW endp \in 0..15, NEW off \in Nat, NEW len \in Nat,
           NEW req \in SetupRequests, NEW pid \in GoodPids
    PROVE  Pkt(pid, addr, endp, off, len, req) \in Packets
BY DEF Pkt, Packets

LEMMA TokenPacket ==
    ASSUME NEW pid \in GoodPids, NEW addr \in 0..255, NEW endp \in 0..255
    PROVE  Token(pid, addr, endp) \in Packets
<1>1. TokenGenerable(addr, endp) => addr \in 0..127
  BY DEF TokenGenerable
<1>2. EpIdx(endp) \in 0..15
  BY DEF EpIdx
<1>3. TokenGenerable(addr, endp) => Pkt(pid, addr, EpIdx(endp), 0, 0, NoReq) \in Packets
  BY <1>1, <1>2, PacketKinds, NoReqTyped
<1> QED BY <1>3, BadPktTyped, NoPktTyped DEF Token

LEMMA SofPacket == ASSUME NEW frame \in Nat PROVE Sof(frame) \in Packets
<1>1. frame % 2048 \in Nat
  OBVIOUS
<1> QED BY <1>1, PacketKinds, NoReqTyped DEF Sof, GoodPids

LEMMA SetupPacket == ASSUME NEW req \in SetupRequests PROVE SetupData(req) \in Packets
BY DEF SetupData, Pkt, Packets, GoodPids, DataPids

LEMMA LineTyped ==
    ASSUME DeviceTypeOK
    PROVE  /\ toDev \in Packets /\ toHost \in Packets
           /\ toHost.len \in Nat /\ toHost.off \in Nat
BY DEF DeviceTypeOK, LineOK, Packets

-----------------------------------------------------------------------------
(***************************************************************************)
(* The ways a step of the host ends.                                       *)
(***************************************************************************)
\* What a step leaves alone outside hPc, the call and the line.
LEMMA FinishTyped ==
    ASSUME HostTypeOK, NEW status \in {"OK", "ERROR"}, Finish(status)
    PROVE  /\ StageOK' /\ hCall' \in Calls \union {NoCall} /\ hRet' \in {"none", "OK", "ERROR"}
           /\ hOut' \in Nat
<1>1. hOut + hCall.size \in Nat
  BY CallTyped DEF HostTypeOK, CountsOK, CallType
<1> QED BY <1>1 DEF Finish, StageOK, Listening, HostTypeOK, CountsOK

LEMMA EndsTyped ==
    ASSUME HostTypeOK, Fail \/ Succeed
    PROVE  /\ StageOK' /\ hCall' \in Calls \union {NoCall} /\ hRet' \in {"none", "OK", "ERROR"}
           /\ hOut' \in Nat
BY FinishTyped DEF Fail, Succeed

LEMMA AtTyped ==
    ASSUME HostTypeOK, NEW pc, At(pc), hPc \notin {"Start", "Ready"},
           \/ pc = hPc /\ UNCHANGED <<hDone, hNaks>>
           \/ pc \in {"SetupData", "SetupAck"} /\ hCall.kind \in Controls
           \/ pc \in {"InTok", "InData"} /\ hCall.kind \in {"get"} \union Descs \union Ins
           \/ /\ pc \in {"StatusOutTok", "StatusOutData", "StatusOutAck"}
              /\ hCall.kind \in {"get"} \union Descs
           \/ pc \in {"StatusInTok", "StatusInData"} /\ hCall.kind \in Sets
           \/ /\ pc \in {"OutTok", "OutData", "OutAck"} /\ hCall.kind \in Outs
              /\ hDone' < hCall.size /\ hNaks' <= MAXNAKS
    PROVE  /\ StageOK' /\ hCall' \in Calls \union {NoCall} /\ hRet' \in {"none", "OK", "ERROR"}
           /\ hOut' \in Nat
<1>1. UNCHANGED <<hCall, hRet, hOut>> /\ hPc' = pc
  BY DEF At
<1>2. StageOK'
  BY <1>1 DEF HostTypeOK, StageOK, Listening, Outs, Ins, Descs, Sets, Controls
<1> QED BY <1>1, <1>2 DEF HostTypeOK, CallOK, CountsOK

-----------------------------------------------------------------------------
(***************************************************************************)
(* Each action of the host keeps the types of both sides.                  *)
(***************************************************************************)
\* The device is not touched by a step that puts packets on the line.
LEMMA DeviceUntouched ==
    ASSUME DeviceTypeOK, UNCHANGED <<dOwn, pullup>>, toDev' \in Packets, toHost' \in Packets
    PROVE  DeviceTypeOK'
BY OnLineTyped DEF dOwn

LEMMA SentTyped ==
    ASSUME NEW pkt \in Packets, Send(pkt)
    PROVE  toDev' \in Packets /\ toHost' \in Packets
BY NoPktTyped DEF Send

\* The host's counts of calls, and what its bus methods leave alone.
LEMMA CallKept ==
    ASSUME HostTypeOK, UNCHANGED <<hCall, hRet, hDone, hNaks, hPc>>,
           hCalls' \in 0..MaxCalls
    PROVE  CallOK' /\ StageOK'
BY DEF HostTypeOK, CallOK, StageOK, Listening

\* What a step of a call in progress has to show besides where it goes on.
LEMMA CallGoesOn ==
    ASSUME HostTypeOK, StageOK', hCall' \in Calls \union {NoCall},
           hRet' \in {"none", "OK", "ERROR"}, hOut' \in Nat, hDone' \in Nat,
           hNaks' \in 0..MAXNAKS + 1, hIn' \in Nat, hEpdata0' \in Flags,
           UNCHANGED <<hConnected, hFramenum, hCalls>>, hRx' \in Seq(Nat \X Nat)
    PROVE  HostTypeOK'
<1>1. CallOK' /\ CountsOK'
  BY DEF HostTypeOK, CallOK, CountsOK
<1>2. FlagsOK'
  BY Zenon DEF HostTypeOK, FlagsOK
<1> QED BY <1>1, <1>2 DEF HostTypeOK

LEMMA HostFacts ==
    ASSUME HostTypeOK
    PROVE  /\ hOut \in Nat /\ hIn \in Nat /\ hDone \in Nat /\ hNaks \in 0..MAXNAKS + 1
           /\ hEpdata0 \in Flags /\ hRx \in Seq(Nat \X Nat)
           /\ hCall.addr \in 0..255 /\ hCall.endp \in 0..255 /\ hCall.size \in Nat
           /\ hCall.endp \in Nat /\ hCall.req \in SetupRequests /\ hCall.maxpkt \in Nat
<1>1. /\ hOut \in Nat /\ hIn \in Nat /\ hDone \in Nat /\ hNaks \in 0..MAXNAKS + 1
      /\ hRx \in Seq(Nat \X Nat)
  BY DEF HostTypeOK, CallOK, CountsOK
<1>2. hEpdata0 \in Flags
  BY Zenon DEF HostTypeOK, FlagsOK
<1>3. hCall \in CallType
  BY CallTyped
<1>4. /\ hCall.addr \in 0..255 /\ hCall.endp \in 0..255 /\ hCall.size \in Nat
      /\ hCall.endp \in Nat /\ hCall.req \in SetupRequests /\ hCall.maxpkt \in Nat
  BY <1>3 DEF CallType
<1> QED BY <1>1, <1>2, <1>4

LEMMA SendTokenTyped ==
    ASSUME DeviceTypeOK, HostTypeOK, NEW pc, NEW pid \in GoodPids, NEW next,
           SendToken(pc, pid, next), UNCHANGED <<dOwn, pullup>>,
           \/ pc = "Setup" /\ next = "SetupData"
           \/ pc = "InTok" /\ next = "InData"
           \/ pc = "StatusOutTok" /\ next = "StatusOutData"
           \/ pc = "StatusInTok" /\ next = "StatusInData"
           \/ pc = "OutTok" /\ next = "OutData"
    PROVE  DeviceTypeOK' /\ HostTypeOK'
<1>1. Token(pid, hCall.addr, hCall.endp) \in Packets
  BY HostFacts, TokenPacket
<1>2. DeviceTypeOK'
  BY <1>1, SentTyped, DeviceUntouched DEF SendToken
<1>3. hPc = pc /\ At(next) /\ UNCHANGED <<hDone, hNaks, hEpdata0, hConnected, hFramenum,
                                          hCalls, hIn, hRx>>
  BY DEF SendToken
<1>4. /\ pc = "Setup" => hCall.kind \in Controls
      /\ pc = "InTok" => hCall.kind \in {"get"} \union Descs \union Ins
      /\ pc = "StatusOutTok" => hCall.kind \in {"get"} \union Descs
      /\ pc = "StatusInTok" => hCall.kind \in Sets
      /\ pc = "OutTok" => hCall.kind \in Outs /\ hDone < hCall.size /\ hNaks <= MAXNAKS
  BY <1>3 DEF HostTypeOK, StageOK
<1>5. /\ StageOK' /\ hCall' \in Calls \union {NoCall} /\ hRet' \in {"none", "OK", "ERROR"}
      /\ hOut' \in Nat
  BY <1>3, <1>4, AtTyped
<1> QED BY <1>2, <1>3, <1>5, HostFacts, CallGoesOn

LEMMA SendSetupDataTyped ==
    ASSUME DeviceTypeOK, HostTypeOK, SendSetupData, UNCHANGED <<dOwn, pullup>>
    PROVE  DeviceTypeOK' /\ HostTypeOK'
<1>1. DeviceTypeOK'
  BY HostFacts, SetupPacket, SentTyped, DeviceUntouched DEF SendSetupData
<1>2. hEpdata0' \in Flags
  BY Zenon, HostFacts, SetFlagTyped DEF SendSetupData
<1>3. /\ hPc = "SetupData" /\ At("SetupAck")
      /\ UNCHANGED <<hDone, hNaks, hConnected, hFramenum, hCalls, hIn, hRx>>
  BY DEF SendSetupData
<1>4. hCall.kind \in Controls
  BY <1>3 DEF HostTypeOK, StageOK
<1>5. /\ StageOK' /\ hCall' \in Calls \union {NoCall} /\ hRet' \in {"none", "OK", "ERROR"}
      /\ hOut' \in Nat
  BY <1>3, <1>4, AtTyped
<1> QED BY <1>1, <1>2, <1>3, <1>5, HostFacts, CallGoesOn

LEMMA WaitForAckTyped ==
    ASSUME DeviceTypeOK, HostTypeOK, UNCHANGED <<dOwn, pullup>>,
           \/ SetupAck
           \/ waitForAck("StatusOutAck", Succeed, Fail)
    PROVE  DeviceTypeOK' /\ HostTypeOK'
<1>1. /\ toHost' = NoPkt
      /\ \/ Succeed \/ Fail
         \/ At(hPc)
         \/ hPc = "SetupAck" /\ At(IF hCall.kind \in Sets THEN "StatusInTok" ELSE "InTok")
      /\ hPc \in {"SetupAck", "StatusOutAck"}
      /\ UNCHANGED <<hDone, hNaks, hEpdata0, hConnected, hFramenum, hCalls, hIn, hRx, toDev>>
  BY DEF SetupAck, waitForAck, Hear
<1>2. DeviceTypeOK'
  BY <1>1, LineTyped, NoPktTyped, DeviceUntouched
<1>3. hPc = "SetupAck" => hCall.kind \in Controls
  BY DEF HostTypeOK, StageOK
<1>4. /\ StageOK' /\ hCall' \in Calls \union {NoCall} /\ hRet' \in {"none", "OK", "ERROR"}
      /\ hOut' \in Nat
  BY <1>1, <1>3, AtTyped, EndsTyped DEF Controls
<1> QED BY <1>1, <1>2, <1>4, HostFacts, CallGoesOn

LEMMA DataArrivesTyped ==
    ASSUME DeviceTypeOK, HostTypeOK, DataArrives, UNCHANGED <<dOwn, pullup>>
    PROVE  DeviceTypeOK' /\ HostTypeOK'
<1> DEFINE done == hDone + toHost.len
<1>1. /\ hPc = "InData" /\ toHost' = NoPkt
      /\ hDone' = done
      /\ hRx' = Append(hRx, <<toHost.off, toHost.len>>)
      /\ hIn' \in {hIn, hIn + toHost.len}
      /\ hEpdata0' = dataPidUpdate(hEpdata0, hCall.endp)
      /\ toDev' \in {toDev, Hshk("ACK")}
      /\ AfterData(done)
      /\ UNCHANGED <<hNaks, hConnected, hFramenum, hCalls>>
  BY Zenon DEF DataArrives, Hear
<1>2. toHost.len \in Nat /\ toHost.off \in Nat
  BY LineTyped
<1>3. DeviceTypeOK'
  BY <1>1, LineTyped, NoPktTyped, HshkPacket, DeviceUntouched DEF GoodPids, Handshakes
<1>4. hEpdata0' \in Flags
  BY Zenon, <1>1, HostFacts, ToggleTyped
<1>5. hDone' \in Nat /\ hIn' \in Nat /\ hRx' \in Seq(Nat \X Nat)
  <2>1. <<toHost.off, toHost.len>> \in Nat \X Nat
    BY <1>2
  <2>2. hDone \in Nat /\ hIn \in Nat /\ hRx \in Seq(Nat \X Nat)
    BY HostFacts
  <2>3. Append(hRx, <<toHost.off, toHost.len>>) \in Seq(Nat \X Nat)
    BY Zenon, <2>1, <2>2, AppendProperties
  <2> QED BY <1>1, <1>2, <2>2, <2>3
<1>6. hCall.kind \in {"get"} \union Descs \union Ins
  BY <1>1 DEF HostTypeOK, StageOK
<1>7. \/ Fail \/ Succeed \/ At("InTok")
      \/ hCall.kind \in {"get"} \union Descs /\ At("StatusOutTok")
  BY <1>1 DEF AfterData, EndDescriptor
<1>8. /\ StageOK' /\ hCall' \in Calls \union {NoCall} /\ hRet' \in {"none", "OK", "ERROR"}
      /\ hOut' \in Nat
  BY <1>1, <1>6, <1>7, AtTyped, EndsTyped
<1> QED BY <1>1, <1>3, <1>4, <1>5, <1>8, HostFacts, CallGoesOn

\* What ends or goes on without data.
LEMMA DataErrorTyped ==
    ASSUME HostTypeOK, hPc = "InData", DataError
    PROVE  /\ StageOK' /\ hCall' \in Calls \union {NoCall} /\ hRet' \in {"none", "OK", "ERROR"}
           /\ hOut' \in Nat
<1>1. hCall.kind \in {"get"} \union Descs \union Ins
  BY DEF HostTypeOK, StageOK
<1>2. Fail \/ (hCall.kind \in Descs /\ (At("StatusOutTok") \/ At("InTok")))
  BY DEF DataError, EndDescriptor, Descs
<1> QED BY <1>1, <1>2, AtTyped, EndsTyped

LEMMA NoDataTyped ==
    ASSUME DeviceTypeOK, HostTypeOK, DataFails \/ Disconnected, UNCHANGED <<dOwn, pullup>>
    PROVE  DeviceTypeOK' /\ HostTypeOK'
<1>1. /\ \/ Fail \/ Succeed
         \/ hPc = "InData" /\ DataError
      /\ toHost' \in {toHost, NoPkt}
      /\ UNCHANGED <<hDone, hNaks, hEpdata0, hConnected, hFramenum, hCalls, hIn, hRx, toDev>>
  BY DEF DataFails, Disconnected, Hear, lineVars
<1>2. DeviceTypeOK'
  BY <1>1, LineTyped, NoPktTyped, DeviceUntouched
<1>3. /\ StageOK' /\ hCall' \in Calls \union {NoCall} /\ hRet' \in {"none", "OK", "ERROR"}
      /\ hOut' \in Nat
  BY <1>1, DataErrorTyped, EndsTyped
<1> QED BY <1>1, <1>2, <1>3, HostFacts, CallGoesOn

LEMMA StatusTyped ==
    ASSUME DeviceTypeOK, HostTypeOK, SendStatusData \/ StatusInData, UNCHANGED <<dOwn, pullup>>
    PROVE  DeviceTypeOK' /\ HostTypeOK'
<1>1. /\ \/ hPc = "StatusOutData" /\ At("StatusOutAck")
         \/ Fail \/ Succeed
      /\ UNCHANGED <<hDone, hNaks, hConnected, hFramenum, hCalls, hIn, hRx>>
  BY DEF SendStatusData, StatusInData, Hear
<1>2. Data("DATA1", 0, 0) \in Packets /\ Hshk("ACK") \in Packets
  BY PacketKinds, NoReqTyped, HshkPacket DEF Data, GoodPids, DataPids, Handshakes
<1>3. toDev' \in Packets /\ toHost' \in Packets
  BY <1>2, SentTyped, LineTyped, NoPktTyped DEF SendStatusData, StatusInData, Hear
<1>4. DeviceTypeOK'
  BY <1>3, DeviceUntouched
<1>5. hEpdata0' \in Flags
  <2>1. /\ SetFlag(hEpdata0, hCall.endp, TRUE) \in Flags
        /\ dataPidUpdate(hEpdata0, hCall.endp) \in Flags
    BY HostFacts, HaltTyped, ToggleTyped
  <2>2. hEpdata0' \in {SetFlag(hEpdata0, hCall.endp, TRUE),
                       dataPidUpdate(hEpdata0, hCall.endp), hEpdata0}
    BY Zenon DEF SendStatusData, StatusInData
  <2> QED BY Zenon, <2>1, <2>2, HostFacts
<1>6. hPc = "StatusOutData" => hCall.kind \in {"get"} \union Descs
  BY DEF HostTypeOK, StageOK
<1>7. /\ StageOK' /\ hCall' \in Calls \union {NoCall} /\ hRet' \in {"none", "OK", "ERROR"}
      /\ hOut' \in Nat
  BY <1>1, <1>6, AtTyped, EndsTyped
<1> QED BY <1>1, <1>4, <1>5, <1>7, HostFacts, CallGoesOn

LEMMA OutSizeTyped ==
    ASSUME HostTypeOK, hPc \in {"OutData", "OutAck"}
    PROVE  OutSize \in Nat /\ hDone + OutSize <= hCall.size
<1>1. hDone < hCall.size
  BY DEF HostTypeOK, StageOK
<1>2. hDone \in Nat /\ hCall.size \in Nat /\ hCall.maxpkt \in Nat
  BY HostFacts
<1> HIDE DEF HostTypeOK
<1> QED BY <1>1, <1>2 DEF OutSize, MinOf

LEMMA SendOutDataTyped ==
    ASSUME DeviceTypeOK, HostTypeOK, SendOutData, UNCHANGED <<dOwn, pullup>>
    PROVE  DeviceTypeOK' /\ HostTypeOK'
<1>1. /\ hPc = "OutData" /\ (At("OutTok") \/ At("OutAck"))
      /\ UNCHANGED <<hDone, hNaks, hConnected, hFramenum, hCalls, hIn, hRx>>
  BY DEF SendOutData
<1>2. hOut + hDone \in Nat /\ OutSize \in Nat
  BY <1>1, HostFacts, OutSizeTyped
<1>3. DeviceTypeOK'
  <2>1. OutPacket \in Packets
    BY <1>2, DataPacket, NoPktTyped DEF OutPacket
  <2> QED BY <2>1, SentTyped, DeviceUntouched DEF SendOutData
<1>4. hEpdata0' \in Flags
  BY Zenon, HostFacts, ToggleTyped DEF SendOutData
<1>5. hCall.kind \in Outs /\ hDone < hCall.size /\ hNaks <= MAXNAKS
  BY <1>1 DEF HostTypeOK, StageOK
<1>6. /\ StageOK' /\ hCall' \in Calls \union {NoCall} /\ hRet' \in {"none", "OK", "ERROR"}
      /\ hOut' \in Nat
  BY <1>1, <1>5, AtTyped
<1> QED BY <1>1, <1>3, <1>4, <1>6, HostFacts, CallGoesOn

LEMMA OutAnswerTyped ==
    ASSUME DeviceTypeOK, HostTypeOK, OutAnswer, UNCHANGED <<dOwn, pullup>>
    PROVE  DeviceTypeOK' /\ HostTypeOK'
<1>1. /\ hPc = "OutAck" /\ toHost' = NoPkt
      /\ hDone' \in {hDone, hDone + OutSize} /\ hNaks' \in {hNaks, hNaks + 1}
      /\ \/ Fail \/ Succeed
         \/ At("OutTok") /\ hDone' < hCall.size /\ hNaks' <= MAXNAKS
      /\ UNCHANGED <<hEpdata0, hConnected, hFramenum, hCalls, hIn, hRx, toDev>>
  <2>1. hCall.kind \in Outs /\ hDone < hCall.size /\ hNaks <= MAXNAKS
    BY DEF HostTypeOK, StageOK, OutAnswer, Hear
  <2>2. hNaks \in Nat /\ MAXNAKS \in Nat
    BY HostFacts
  <2> QED BY <2>1, <2>2 DEF OutAnswer, Hear
<1>2. DeviceTypeOK'
  BY <1>1, LineTyped, NoPktTyped, DeviceUntouched
<1>3. hCall.kind \in Outs /\ hDone < hCall.size /\ hNaks <= MAXNAKS
  BY <1>1 DEF HostTypeOK, StageOK
<1>4. hDone' \in Nat /\ hNaks' \in 0..MAXNAKS + 1
  BY <1>1, <1>3, HostFacts, OutSizeTyped
<1>5. /\ StageOK' /\ hCall' \in Calls \union {NoCall} /\ hRet' \in {"none", "OK", "ERROR"}
      /\ hOut' \in Nat
  BY <1>1, <1>3, AtTyped, EndsTyped
<1> QED BY <1>1, <1>2, <1>4, <1>5, HostFacts, CallGoesOn

LEMMA SofTyped ==
    ASSUME DeviceTypeOK, HostTypeOK, SendSof \/ UNCHANGED <<hFramenum, lineVars>>,
           UNCHANGED <<dOwn, pullup>>
    PROVE  DeviceTypeOK' /\ hFramenum' \in 0..MaxFrame
<1>1. hFramenum \in 0..MaxFrame
  BY DEF HostTypeOK, CountsOK
<1>2. Sof(hFramenum) \in Packets
  BY <1>1, SofPacket
<1>3. toDev' \in Packets /\ toHost' \in Packets
  BY <1>2, SentTyped, LineTyped DEF SendSof, lineVars
<1>4. hFramenum' \in 0..MaxFrame
  BY <1>1 DEF SendSof
<1> QED BY <1>3, <1>4, DeviceUntouched

LEMMA CheckSofTyped ==
    ASSUME DeviceTypeOK, HostTypeOK, checkSof \/ usbHostSleepUs, UNCHANGED <<dOwn, pullup>>
    PROVE  DeviceTypeOK' /\ HostTypeOK'
<1>1. /\ SendSof \/ UNCHANGED <<hFramenum, lineVars>>
      /\ hConnected' \in {pullup, TRUE}
      /\ UNCHANGED <<hCall, hDone, hNaks, hEpdata0, hRet, hCalls, hHistory>>
      /\ \/ hPc = "CheckSof" /\ hPc' = "Setup"
         \/ UNCHANGED hPc
  BY Zenon DEF checkSof, usbHostSleepUs, SendSof
<1>2. DeviceTypeOK' /\ hFramenum' \in 0..MaxFrame
  BY <1>1, SofTyped
<1>3. CallOK' /\ CountsOK' /\ hRx' \in Seq(Nat \X Nat)
  BY <1>1, <1>2 DEF HostTypeOK, CallOK, CountsOK, hHistory
<1>4. StageOK'
  BY <1>1 DEF HostTypeOK, StageOK, Listening
<1>5. FlagsOK'
  BY Zenon, <1>1 DEF HostTypeOK, FlagsOK, DeviceTypeOK, SwitchesOK
<1> QED BY <1>2, <1>3, <1>4, <1>5 DEF HostTypeOK

LEMMA HostStepTyped ==
    ASSUME DeviceTypeOK, HostTypeOK, HostStep, UNCHANGED dOwn
    PROVE  DeviceTypeOK' /\ HostTypeOK'
<1>1. UNCHANGED <<dOwn, pullup>>
  BY DEF HostStep
<1>2. {"SETUP", "IN", "OUT"} \subseteq GoodPids
  BY DEF GoodPids, Tokens
<1>3. CASE sendStandardRequest
  BY <1>1, <1>2, <1>3, SendTokenTyped, SendSetupDataTyped, WaitForAckTyped
     DEF sendStandardRequest
<1>4. CASE getDataFromDevice
  BY <1>1, <1>2, <1>4, SendTokenTyped, DataArrivesTyped, NoDataTyped DEF getDataFromDevice
<1>5. CASE sendControlStatus
  BY <1>1, <1>2, <1>5, SendTokenTyped, StatusTyped, WaitForAckTyped DEF sendControlStatus
<1>6. CASE sendDataOut
  BY <1>1, <1>2, <1>6, SendTokenTyped, SendOutDataTyped, OutAnswerTyped DEF sendDataOut
<1>7. CASE checkSof \/ Disconnected
  BY <1>1, <1>7, CheckSofTyped, NoDataTyped
<1> QED BY <1>3, <1>4, <1>5, <1>6, <1>7 DEF HostStep

-----------------------------------------------------------------------------
LEMMA BeginTyped ==
    ASSUME DeviceTypeOK, HostTypeOK, NEW c \in Calls, Begin(c), UNCHANGED <<dOwn, pullup>>
    PROVE  DeviceTypeOK' /\ HostTypeOK'
<1>1. /\ hPc = "Ready" /\ hCalls < MaxCalls /\ hCalls' = hCalls + 1
      /\ c.kind \in Outs \union Ins => c.size > 0
      /\ hCall' = c /\ hDone' = 0 /\ hNaks' = 0 /\ hRx' = <<>> /\ hRet' = "none"
      /\ hPc' = IF c.kind \in Controls THEN "CheckSof"
                ELSE IF c.kind \in Outs THEN "OutTok" ELSE "InTok"
      /\ UNCHANGED <<hEpdata0, hConnected, hFramenum, hOut, hIn, lineVars>>
  BY DEF Begin, Counted
<1>2. c.kind \in Kinds /\ c # NoCall
  BY CallsAssumption, NoCallTyped DEF Kinds, Outs, Ins, Controls, Descs, Sets
<1>3. DeviceTypeOK'
  BY <1>1, LineTyped, DeviceUntouched DEF lineVars
<1>4. CallOK' /\ CountsOK' /\ hRx' \in Seq(Nat \X Nat)
  BY <1>1 DEF HostTypeOK, CallOK, CountsOK
<1>5. StageOK'
  BY <1>1, <1>2 DEF StageOK, Kinds, Outs, Ins, Controls, Descs, Sets, Listening
<1>6. FlagsOK'
  BY Zenon, <1>1 DEF HostTypeOK, FlagsOK
<1> QED BY <1>3, <1>4, <1>5, <1>6 DEF HostTypeOK

LEMMA ConditionTyped ==
    ASSUME DeviceTypeOK, HostTypeOK, NEW event \in Packets, Condition(event),
           UNCHANGED <<dOwn, pullup>>
    PROVE  DeviceTypeOK' /\ HostTypeOK'
<1>1. /\ Send(event) /\ hCalls' = hCalls + 1 /\ hCalls < MaxCalls
      /\ UNCHANGED <<hPc, hCall, hDone, hNaks, hEpdata0, hConnected, hFramenum, hRet,
                     hHistory>>
  BY DEF Condition, Counted
<1>2. DeviceTypeOK'
  BY <1>1, SentTyped, DeviceUntouched
<1>3. CallOK' /\ StageOK'
  BY <1>1, CallKept DEF HostTypeOK, CallOK
<1>4. CountsOK' /\ hRx' \in Seq(Nat \X Nat)
  BY <1>1 DEF HostTypeOK, CountsOK, hHistory
<1>5. FlagsOK'
  BY Zenon, <1>1 DEF HostTypeOK, FlagsOK
<1> QED BY <1>2, <1>3, <1>4, <1>5 DEF HostTypeOK

LEMMA ConnectTyped ==
    ASSUME DeviceTypeOK, HostTypeOK, usbHostWaitForConnection, UNCHANGED <<dOwn, pullup>>
    PROVE  DeviceTypeOK' /\ HostTypeOK'
<1>1. /\ hPc = "Start" /\ hPc' \in {"Start", "Ready"} /\ hConnected' \in {TRUE, hConnected}
      /\ hRet' \in {"OK", "ERROR"}
      /\ UNCHANGED <<hCall, hDone, hNaks, hEpdata0, hFramenum, hCalls, hHistory, lineVars>>
  BY DEF usbHostWaitForConnection
<1>2. DeviceTypeOK'
  BY <1>1, LineTyped, DeviceUntouched DEF lineVars
<1>3. CallOK' /\ CountsOK' /\ hRx' \in Seq(Nat \X Nat)
  BY <1>1 DEF HostTypeOK, CallOK, CountsOK, hHistory
<1>4. StageOK'
  BY <1>1 DEF HostTypeOK, StageOK, Listening
<1>5. FlagsOK'
  BY Zenon, <1>1 DEF HostTypeOK, FlagsOK
<1> QED BY <1>2, <1>3, <1>4, <1>5 DEF HostTypeOK

LEMMA HostUserTyped ==
    ASSUME DeviceTypeOK, HostTypeOK, HostUser, UNCHANGED dOwn
    PROVE  DeviceTypeOK' /\ HostTypeOK'
<1>1. UNCHANGED <<dOwn, pullup>>
  BY DEF HostUser
<1>2. \A seen \in ResetSeenAs : Hshk(seen) \in Packets
  BY HshkPacket
<1>3. LineSuspend \in Packets
  BY HshkPacket DEF LineSuspend
<1>4. CASE usbHostResetDevice \/ usbHostSuspendDevice
  BY <1>1, <1>2, <1>3, <1>4, ConditionTyped DEF usbHostResetDevice, usbHostSuspendDevice
<1> QED BY <1>1, <1>4, ConnectTyped, BeginTyped, CheckSofTyped DEF HostUser

-----------------------------------------------------------------------------
\* A step of the device leaves the host's variables alone.
LEMMA HostUntouched == HostTypeOK /\ UNCHANGED hOwn => HostTypeOK'
<1> SUFFICES ASSUME HostTypeOK, UNCHANGED hOwn PROVE HostTypeOK'
  OBVIOUS
<1>1. CallOK' /\ StageOK'
  BY CallKept DEF hOwn, HostTypeOK, CallOK
<1>2. CountsOK' /\ hRx' \in Seq(Nat \X Nat)
  BY DEF hOwn, hHistory, HostTypeOK, CountsOK
<1>3. FlagsOK'
  BY Zenon DEF hOwn, HostTypeOK, FlagsOK
<1> QED BY <1>1, <1>2, <1>3 DEF HostTypeOK

LEMMA CorruptTyped ==
    ASSUME DeviceTypeOK, HostTypeOK, Corrupt
    PROVE  DeviceTypeOK' /\ HostTypeOK'
<1>1. toDev' \in Packets /\ toHost' \in Packets
  BY LineTyped, BadPktTyped DEF Corrupt
<1>2. UNCHANGED <<dOwn, pullup>> /\ UNCHANGED hOwn
  BY DEF Corrupt, dOwn, hOwn
<1> QED BY <1>1, <1>2, DeviceUntouched, HostUntouched

\* Neither side leaves the types of its variables, whatever the line does to their
\* packets: no count of bytes or NAKs passes its limit, and no call is in a stage that
\* its kind does not have.
THEOREM SystemTyped == Spec => []TypeOK
<1>1. Init => TypeOK
  <2> SUFFICES ASSUME Init PROVE TypeOK
    OBVIOUS
  <2>1. CallOK /\ CountsOK /\ hRx \in Seq(Nat \X Nat)
    BY DEF Init, HostInit, CallOK, CountsOK
  <2>2. StageOK
    BY NoCallTyped DEF Init, HostInit, StageOK, Listening
  <2>3. FlagsOK
    BY Zenon, AllFlagsTyped DEF Init, HostInit, FlagsOK
  <2>4. DeviceTypeOK
    BY DeviceInitTyped DEF Init
  <2> QED BY <2>1, <2>2, <2>3, <2>4 DEF TypeOK, Init, HostTypeOK
<1>2. TypeOK /\ [Next]_vars => TypeOK'
  <2> SUFFICES ASSUME TypeOK, [Next]_vars PROVE TypeOK'
    OBVIOUS
  <2>1. DeviceTypeOK /\ HostTypeOK
    BY DEF TypeOK
  <2>2. DeviceTypeOK' /\ HostTypeOK'
    <3>1. CASE Device \/ DevUser
      BY <2>1, <3>1, DeviceTyped, HostUntouched DEF Device, DevUser, DeviceNext
    <3>2. CASE Host \/ User
      BY <2>1, <3>2, HostStepTyped, HostUserTyped DEF Host, User
    <3>3. CASE Corrupt
      BY <2>1, <3>3, CorruptTyped
    <3>4. CASE UNCHANGED vars \/ usbHostEndExecution
      <4>1. UNCHANGED <<dOwn, pullup>> /\ UNCHANGED <<hOwn, toDev, toHost>>
        BY <3>4 DEF usbHostEndExecution, vars, dVars, hVars, dOwn, hOwn
      <4> QED BY <2>1, <4>1, LineTyped, DeviceUntouched, HostUntouched
    <3> QED BY <3>1, <3>2, <3>3, <3>4 DEF Next
  <2>3. faults' \in 0..MaxFaults
    BY DEF TypeOK, Next, Device, DevUser, Host, User, Corrupt, usbHostEndExecution, vars
  <2>4. restarts' \in 0..MaxRestarts
    BY DEF TypeOK, Next, Device, DevUser, Host, User, Corrupt, usbHostEndExecution, vars
  <2>5. mark' \in Nat \union {-1}
    <3>1. Len(dServed) \in Nat
      BY DEF TypeOK, DeviceTypeOK, HistoryOK
    <3> QED BY <3>1
          DEF TypeOK, Next, Device, DevUser, Host, User, Corrupt, usbHostEndExecution, vars
  <2> QED BY <2>2, <2>3, <2>4, <2>5 DEF TypeOK
<1> QED BY <1>1, <1>2, PTL DEF Spec

-----------------------------------------------------------------------------
(***************************************************************************)
(* The order of OUT data.  A packet is accepted only while the host waits  *)
(* for its answer, so that it is the one the host's count stands at; and   *)
(* what was accepted before lies below that count, whatever became of the  *)
(* answers.  This holds for acknowledged transfers (an isochronous one     *)
(* sends the same bytes again) and while no line error makes the device    *)
(* decode the packet before once more.                                     *)
(***************************************************************************)
Acknowledged ==
    /\ \A c \in Calls : c.kind # "isoOut"
    /\ "ERROR" \notin ResetSeenAs

\* The device on the line is awake, and decodes what has come.
Heard == toDev.pid # "ERROR" /\ (dPc \in Waits => pullup)

\* An OUT token on the line is the host's last step.
TokenFresh == toDev.pid = "OUT" => hPc \in {"OutData", "StatusOutData"}

\* So is a data packet, as long as the host waits for its answer.
PayloadFresh ==
    toDev.pid \in DataPids =>
        /\ hPc = "OutAck" => toDev.off = hOut + hDone /\ toDev.len = OutSize
        /\ hPc = "StatusOutAck" => toDev.off = 0 /\ toDev.len = 0

\* A device that waits for OUT data has the host's next packet to come, or has it
\* on the line, or has lost it to noise.
DataAwaited ==
    dPc = "OutData" =>
        \/ hPc \in {"OutData", "StatusOutData"} /\ toDev = NoPkt
        \/ /\ hPc \in {"OutAck", "StatusOutAck"} /\ toHost = NoPkt
           /\ toDev.pid \in DataPids \union {"BAD", "NONE"}

\* Where the bytes end that the device may have accepted.
Reach ==
    hOut + (IF hCall.kind \in Outs THEN hDone ELSE 0)
         + (IF hPc = "OutAck" /\ dPc # "OutData" /\ toDev = NoPkt /\ toHost.pid # "NAK"
            THEN OutSize ELSE 0)

WithinReach == \A i \in 1..Len(dOut) : dOut[i][2] + dOut[i][3] <= Reach

OutInv == Heard /\ TokenFresh /\ PayloadFresh /\ DataAwaited /\ WithinReach /\ OutInOrder

-----------------------------------------------------------------------------
LEMMA HshkPids ==
    /\ \A pid : Hshk(pid).pid = pid
    /\ NoPkt.pid = "NONE" /\ BadPkt.pid = "BAD"
    /\ LineReset.pid = "RESET" /\ LineSuspend.pid = "SUSPEND" /\ LineError.pid = "ERROR"
BY DEF NoPkt, BadPkt, LineReset, LineSuspend, LineError, Hshk, Pkt

LEMMA SentPids ==
    /\ \A pid, off, len : /\ Data(pid, off, len).pid = pid
                          /\ Data(pid, off, len).off = off /\ Data(pid, off, len).len = len
    /\ \A pid, addr, endp : Token(pid, addr, endp).pid \in {pid, "BAD", "NONE"}
    /\ \A frame : Sof(frame).pid = "SOF"
    /\ \A req : SetupData(req).pid = "DATA0"
BY DEF Data, Token, Sof, SetupData, BadPkt, NoPkt, Hshk, Pkt

LEMMA ReceivedIsSent == toDev.pid # "ERROR" => Received = toDev
BY HshkPids DEF Received

\* A step that leaves the accepted packets and the wait of the device alone.
LEMMA ReachGrows ==
    ASSUME WithinReach, OutInOrder, UNCHANGED dOut, TypeOK, Reach \in Int, Reach' \in Int,
           Reach <= Reach'
    PROVE  WithinReach' /\ OutInOrder'
<1>1. \A i \in 1..Len(dOut) : dOut[i][2] \in Nat /\ dOut[i][3] \in Nat
  BY DEF TypeOK, DeviceTypeOK, HistoryOK
<1>2. WithinReach'
  BY <1>1 DEF WithinReach
<1>3. OutInOrder'
  BY DEF OutInOrder
<1> QED BY <1>2, <1>3

NumbersOK ==
    /\ hOut \in Nat /\ hDone \in Nat /\ hCall.size \in Nat /\ Reach \in Nat
    /\ hPc = "OutAck" => OutSize \in Nat /\ hDone + OutSize <= hCall.size

LEMMA NumbersTyped == TypeOK => NumbersOK
<1> SUFFICES ASSUME TypeOK PROVE NumbersOK
  OBVIOUS
<1>1. hOut \in Nat /\ hDone \in Nat /\ hCall.size \in Nat
  BY HostFacts DEF TypeOK
<1>2. hPc = "OutAck" => OutSize \in Nat /\ hDone + OutSize <= hCall.size
  BY OutSizeTyped DEF TypeOK
<1> QED BY <1>1, <1>2 DEF Reach, NumbersOK

LEMMA NumbersStayTyped == TypeOK' => NumbersOK'
BY NumbersTyped, PTL

-----------------------------------------------------------------------------
\* Whatever became of it, a call's packets lie within the bytes it was given.
LEMMA ReachInCall ==
    ASSUME TypeOK PROVE Reach <= hOut + (IF hCall.kind \in Outs THEN hCall.size ELSE 0)
<1>1. hOut \in Nat /\ hDone \in Nat /\ hCall.size \in Nat
  BY HostFacts DEF TypeOK
<1>2. hPc = "OutAck" => OutSize \in Nat /\ hDone + OutSize <= hCall.size
  BY OutSizeTyped DEF TypeOK
<1>3. hCall.kind \in Outs => hDone < hCall.size /\ hPc \in {"OutTok", "OutData", "OutAck"}
  BY NoCallTyped
     DEF TypeOK, HostTypeOK, StageOK, Listening, Outs, Ins, Descs, Sets, Controls
<1>4. hPc = "OutAck" => hCall.kind \in Outs
  BY DEF TypeOK, HostTypeOK, StageOK
<1> QED BY <1>1, <1>2, <1>3, <1>4 DEF Reach

LEMMA FinishReach ==
    ASSUME TypeOK, TypeOK', NEW status, Finish(status)
    PROVE  Reach <= Reach'
<1>1. hPc' = "Ready" /\ hOut' = IF hCall.kind \in Outs THEN hOut + hCall.size ELSE hOut
  BY DEF Finish
<1>2. hDone' \in Nat /\ hOut' \in Nat /\ hOut \in Nat /\ hCall.size \in Nat
  BY NumbersTyped, NumbersStayTyped DEF NumbersOK
<1>3. Reach' >= hOut'
  BY <1>1, <1>2 DEF Reach
<1> QED BY <1>1, <1>2, <1>3, ReachInCall, NumbersTyped, NumbersStayTyped DEF NumbersOK

LEMMA GoOnReach ==
    ASSUME TypeOK, TypeOK', hPc # "OutAck", UNCHANGED <<hCall, hOut>>, hDone' >= hDone
    PROVE  Reach <= Reach'
<1>1. hDone' \in Nat /\ hDone \in Nat /\ hOut' \in Nat /\ hOut \in Nat
  BY NumbersTyped, NumbersStayTyped DEF NumbersOK
<1>2. hPc' = "OutAck" => OutSize' \in Nat
  BY NumbersStayTyped DEF NumbersOK
<1> QED BY <1>1, <1>2 DEF Reach

\* A step of the host outside the waits that end a transfer of data.
LEMMA HostLeaves ==
    ASSUME TypeOK, TypeOK', OutInv, UNCHANGED dOwn, UNCHANGED pullup, dPc # "OutData",
           hPc' \notin {"OutAck", "StatusOutAck"},
           toDev'.pid # "ERROR", toDev'.pid = "OUT" => hPc' \in {"OutData", "StatusOutData"},
           Reach <= Reach'
    PROVE  OutInv'
<1>1. UNCHANGED <<dPc, dOut>>
  BY DEF dOwn, dHistory
<1>2. WithinReach' /\ OutInOrder'
  BY <1>1, ReachGrows, NumbersTyped, NumbersStayTyped DEF OutInv, NumbersOK
<1>3. Heard' /\ TokenFresh' /\ PayloadFresh' /\ DataAwaited'
  BY <1>1 DEF OutInv, Heard, TokenFresh, PayloadFresh, DataAwaited
<1> QED BY <1>2, <1>3 DEF OutInv

\* The device waits for OUT data only in these stages of a call.
LEMMA NotAwaited ==
    ASSUME OutInv,
           \/ hPc \notin {"OutData", "StatusOutData", "OutAck", "StatusOutAck"}
           \/ hPc \in {"OutAck", "StatusOutAck"} /\ (toHost # NoPkt \/ ~pullup)
    PROVE  dPc # "OutData"
BY DEF OutInv, DataAwaited, Heard, Waits

LEMMA EndsOut ==
    ASSUME TypeOK, TypeOK', OutInv, UNCHANGED dOwn, UNCHANGED pullup, dPc # "OutData",
           Fail \/ Succeed, toDev' = toDev \/ toDev' = Hshk("ACK"),
           hPc \notin {"OutData", "StatusOutData"}
    PROVE  OutInv'
<1>1. Reach <= Reach' /\ hPc' = "Ready"
  BY FinishReach DEF Fail, Succeed, Finish
<1>2. toDev'.pid # "ERROR" /\ toDev'.pid # "OUT"
  BY HshkPids DEF OutInv, Heard, TokenFresh
<1> QED BY <1>1, <1>2, HostLeaves

LEMMA GoesOnOut ==
    ASSUME TypeOK, TypeOK', OutInv, UNCHANGED dOwn, UNCHANGED pullup, dPc # "OutData",
           NEW pc, At(pc), hPc # "OutAck", pc \notin {"OutAck", "StatusOutAck"},
           toDev' = toDev \/ toDev' = Hshk("ACK"), hDone' >= hDone,
           hPc \notin {"OutData", "StatusOutData"}
    PROVE  OutInv'
<1>1. Reach <= Reach' /\ hPc' = pc
  BY GoOnReach DEF At
<1>2. toDev'.pid # "ERROR" /\ toDev'.pid # "OUT"
  BY HshkPids DEF OutInv, Heard, TokenFresh
<1> QED BY <1>1, <1>2, HostLeaves

LEMMA SendTokenOut ==
    ASSUME TypeOK, TypeOK', OutInv, UNCHANGED dOwn, UNCHANGED pullup,
           NEW pc, NEW pid \in Tokens, NEW next, SendToken(pc, pid, next),
           \/ pc = "Setup" /\ pid = "SETUP" /\ next = "SetupData"
           \/ pc = "InTok" /\ pid = "IN" /\ next = "InData"
           \/ pc = "StatusOutTok" /\ pid = "OUT" /\ next = "StatusOutData"
           \/ pc = "StatusInTok" /\ pid = "IN" /\ next = "StatusInData"
           \/ pc = "OutTok" /\ pid = "OUT" /\ next = "OutData"
    PROVE  OutInv'
<1>1. /\ hPc = pc /\ hPc' = next
      /\ UNCHANGED <<hCall, hOut, hDone>>
      /\ toDev'.pid \in {pid, "BAD", "NONE"}
  BY SentPids DEF SendToken, At, Send
<1>2. Reach <= Reach'
  <2>1. hDone' >= hDone
    BY <1>1, HostFacts DEF TypeOK
  <2> QED BY <1>1, <2>1, GoOnReach
<1>3. dPc # "OutData"
  BY <1>1, NotAwaited
<1> QED BY <1>1, <1>2, <1>3, HostLeaves

LEMMA SendSetupOut ==
    ASSUME TypeOK, TypeOK', OutInv, UNCHANGED dOwn, UNCHANGED pullup,
           SendSetupData
    PROVE  OutInv'
<1>1. /\ hPc = "SetupData" /\ hPc' = "SetupAck"
      /\ UNCHANGED <<hCall, hOut, hDone>> /\ toDev'.pid = "DATA0"
  BY SentPids DEF SendSetupData, At, Send
<1>2. Reach <= Reach'
  <2>1. hDone' >= hDone
    BY <1>1, HostFacts DEF TypeOK
  <2> QED BY <1>1, <2>1, GoOnReach
<1> QED BY <1>1, <1>2, NotAwaited, HostLeaves

LEMMA WaitForAckOut ==
    ASSUME TypeOK, TypeOK', OutInv, UNCHANGED dOwn, UNCHANGED pullup,
           SetupAck \/ waitForAck("StatusOutAck", Succeed, Fail)
    PROVE  OutInv'
<1>1. /\ toHost # NoPkt /\ toHost' = NoPkt
      /\ \/ Succeed \/ Fail
         \/ At(hPc)
         \/ hPc = "SetupAck" /\ At(IF hCall.kind \in Sets THEN "StatusInTok" ELSE "InTok")
      /\ hPc \in {"SetupAck", "StatusOutAck"}
      /\ UNCHANGED <<hDone, toDev>>
  BY DEF SetupAck, waitForAck, Hear
<1>2. dPc # "OutData"
  BY <1>1, NotAwaited
<1>3. hDone' >= hDone
  BY <1>1, HostFacts DEF TypeOK
<1>4. CASE hPc = "StatusOutAck" /\ At(hPc)
  <2>1. UNCHANGED <<hPc, hCall, hOut, hDone, dPc, dOut>>
    BY <1>1, <1>4 DEF At, dOwn, dHistory
  <2>2. Reach <= Reach'
    BY <1>3, <1>4, <2>1, GoOnReach
  <2>3. WithinReach' /\ OutInOrder'
    BY <2>1, <2>2, ReachGrows, NumbersTyped, NumbersStayTyped DEF OutInv, NumbersOK
  <2>4. Heard' /\ TokenFresh' /\ PayloadFresh' /\ DataAwaited'
    BY <1>1, <1>2, <1>4, <2>1 DEF OutInv, Heard, TokenFresh, PayloadFresh, DataAwaited
  <2> QED BY <2>3, <2>4 DEF OutInv
<1> QED BY <1>1, <1>2, <1>3, <1>4, EndsOut, GoesOnOut

LEMMA DataInOut ==
    ASSUME TypeOK, TypeOK', OutInv, UNCHANGED dOwn, UNCHANGED pullup,
           DataArrives \/ DataFails \/ Disconnected
    PROVE  OutInv'
<1>1. hDone' \in Nat /\ hDone \in Nat
  BY NumbersTyped, NumbersStayTyped DEF NumbersOK
<1>2. CASE DataArrives
  <2> DEFINE done == hDone + toHost.len
  <2>1. /\ hPc = "InData" /\ hDone' = done
        /\ toDev' \in {toDev, Hshk("ACK")}
        /\ \/ Fail \/ Succeed \/ At("InTok") \/ At("StatusOutTok")
    BY Zenon, <1>2 DEF DataArrives, Hear, AfterData, EndDescriptor
  <2>2. hDone' >= hDone
    BY <1>1, <2>1, LineTyped DEF TypeOK
  <2> QED BY <2>1, <2>2, NotAwaited, EndsOut, GoesOnOut
<1>3. CASE DataFails \/ Disconnected
  <2>1. /\ hPc \in Listening /\ toDev' = toDev /\ hDone' = hDone
        /\ \/ hPc = "InData"
           \/ ~pullup
        /\ \/ Fail \/ Succeed
           \/ hPc = "InData" /\ (At("InTok") \/ At("StatusOutTok"))
    BY <1>3 DEF DataFails, DataError, EndDescriptor, Disconnected, Hear, lineVars, Listening
  <2>2. dPc # "OutData"
    BY <2>1, NotAwaited DEF Listening
  <2>3. hDone' >= hDone /\ hPc \notin {"OutData", "StatusOutData"}
    BY <1>1, <2>1 DEF Listening
  <2> QED BY <2>1, <2>2, <2>3, EndsOut, GoesOnOut
<1> QED BY <1>2, <1>3

LEMMA StatusInOut ==
    ASSUME TypeOK, TypeOK', OutInv, UNCHANGED dOwn, UNCHANGED pullup, StatusInData
    PROVE  OutInv'
<1>1. hPc = "StatusInData" /\ (Succeed \/ Fail) /\ toDev' \in {toDev, Hshk("ACK")}
  BY DEF StatusInData, Hear
<1> QED BY <1>1, NotAwaited, EndsOut

\* The packets a device that waits for OUT data may be given.
LEMMA SendPayloadOut ==
    ASSUME TypeOK, TypeOK', OutInv, UNCHANGED dOwn, UNCHANGED pullup,
           SendStatusData \/ (SendOutData /\ hCall.kind # "isoOut")
    PROVE  OutInv'
<1>1. /\ toDev'.pid \in DataPids \union {"NONE"} /\ toHost' = NoPkt
      /\ hPc \in {"OutData", "StatusOutData"}
      /\ hPc = "OutData" => /\ hPc' = "OutAck"
                            /\ toDev'.pid \in DataPids =>
                                  toDev'.off = hOut + hDone /\ toDev'.len = OutSize
      /\ hPc = "StatusOutData" => /\ hPc' = "StatusOutAck" /\ toDev'.off = 0
                                  /\ toDev'.len = 0
      /\ UNCHANGED <<hCall, hOut, hDone>>
  <2>1. CASE SendStatusData
    BY <2>1, SentPids DEF SendStatusData, Send, At, DataPids
  <2>2. CASE SendOutData /\ hCall.kind # "isoOut"
    <3>1. dataPid(hEpdata0, hCall.endp) \in DataPids
      BY Zenon DEF dataPid, DataPids
    <3>2. /\ OutPacket.pid \in DataPids \union {"NONE"}
          /\ OutPacket.pid \in DataPids =>
                OutPacket.off = hOut + hDone /\ OutPacket.len = OutSize
      BY <3>1, SentPids, HshkPids DEF OutPacket, DataPids
    <3> QED BY <2>2, <3>2 DEF SendOutData, Send, At
  <2> QED BY <2>1, <2>2
<1>2. UNCHANGED <<dPc, dOut>>
  BY DEF dOwn, dHistory
<1>3. Heard' /\ TokenFresh' /\ DataAwaited'
  BY <1>1, <1>2 DEF OutInv, Heard, TokenFresh, DataAwaited, DataPids
<1>4. PayloadFresh'
  BY <1>1 DEF PayloadFresh, OutSize
<1>5. Reach <= Reach'
  <2>1. hDone' >= hDone
    BY <1>1, HostFacts DEF TypeOK
  <2> QED BY <1>1, <2>1, GoOnReach
<1>6. WithinReach' /\ OutInOrder'
  BY <1>2, <1>5, ReachGrows, NumbersTyped, NumbersStayTyped DEF OutInv, NumbersOK
<1> QED BY <1>3, <1>4, <1>6 DEF OutInv

LEMMA OutAnswerOut ==
    ASSUME TypeOK, TypeOK', OutInv, UNCHANGED dOwn, UNCHANGED pullup, OutAnswer
    PROVE  OutInv'
<1>1. hPc = "OutAck" /\ toHost # NoPkt /\ toDev' = toDev
  BY DEF OutAnswer, Hear
<1>2. dPc # "OutData"
  BY <1>1, NotAwaited
<1>3. CASE Fail \/ Succeed
  BY <1>1, <1>2, <1>3, EndsOut
<1>4. CASE At("OutTok")
  <2>1. hOut \in Nat /\ hDone \in Nat /\ OutSize \in Nat /\ hCall.kind \in Outs
    BY <1>1, HostFacts, OutSizeTyped DEF TypeOK, HostTypeOK, StageOK
  <2>2. hPc' = "OutTok" /\ UNCHANGED <<hCall, hOut>>
    BY <1>4 DEF At
  <2>3. \/ hDone' = hDone + OutSize
        \/ hDone' = hDone /\ toHost.pid = "NAK"
    BY <1>1, <2>2 DEF OutAnswer, Fail, Finish
  <2>4. Reach <= Reach'
    BY <2>1, <2>2, <2>3 DEF Reach
  <2>5. toDev'.pid # "ERROR" /\ toDev'.pid # "OUT"
    BY <1>1 DEF OutInv, Heard, TokenFresh
  <2> QED BY <1>2, <2>2, <2>4, <2>5, HostLeaves
<1> QED BY <1>3, <1>4 DEF OutAnswer

LEMMA BusOut ==
    ASSUME TypeOK, TypeOK', OutInv, UNCHANGED dOwn, UNCHANGED pullup, Acknowledged,
           checkSof \/ HostUser
    PROVE  OutInv'
<1>1. hPc \in {"Start", "Ready", "CheckSof"}
  BY DEF checkSof, HostUser, usbHostWaitForConnection, Begin, usbHostResetDevice,
         usbHostSuspendDevice, Condition, Counted, usbHostSleepUs
<1>2. dPc # "OutData" /\ toDev.pid # "OUT" /\ toDev.pid # "ERROR"
  BY <1>1, NotAwaited DEF OutInv, TokenFresh, Heard
<1>3. hPc' \notin {"OutAck", "StatusOutAck", "OutData", "StatusOutData"}
  BY <1>1 DEF checkSof, HostUser, usbHostWaitForConnection, Begin, usbHostResetDevice,
              usbHostSuspendDevice, Condition, usbHostSleepUs
<1>4. \/ toDev' = toDev
      \/ \E frame : toDev' = Sof(frame)
      \/ \E seen \in ResetSeenAs \union {"SUSPEND"} : toDev' = Hshk(seen)
  <2>1. SendSof => \E frame : toDev' = Sof(frame)
    BY Zenon DEF SendSof, Send
  <2>2. usbHostResetDevice \/ usbHostSuspendDevice =>
          \E seen \in ResetSeenAs \union {"SUSPEND"} : toDev' = Hshk(seen)
    BY DEF usbHostResetDevice, usbHostSuspendDevice, Condition, Send, LineSuspend
  <2>3. usbHostWaitForConnection \/ (\E c \in Calls : Begin(c)) => toDev' = toDev
    BY DEF usbHostWaitForConnection, Begin, lineVars
  <2>4. checkSof \/ usbHostSleepUs => SendSof \/ toDev' = toDev
    BY DEF checkSof, usbHostSleepUs, lineVars
  <2> QED BY <2>1, <2>2, <2>3, <2>4 DEF HostUser
<1>5. toDev'.pid # "ERROR" /\ toDev'.pid # "OUT"
  BY <1>2, <1>4, HshkPids, SentPids DEF Acknowledged
<1>6. Reach <= Reach'
  <2>1. /\ UNCHANGED hOut
        /\ \/ UNCHANGED <<hCall, hDone>>
           \/ hDone' = 0 /\ hCall.kind = "none"
    <3>1. hPc \in {"Start", "Ready"} => hCall.kind = "none"
      BY NoCallTyped DEF TypeOK, HostTypeOK, StageOK
    <3> QED BY <3>1 DEF checkSof, HostUser, usbHostWaitForConnection, Begin, Counted,
              usbHostResetDevice, usbHostSuspendDevice, Condition, usbHostSleepUs, hHistory
  <2>2. hOut \in Nat /\ hDone \in Nat
    BY HostFacts DEF TypeOK
  <2> QED BY <1>1, <1>3, <2>1, <2>2 DEF Reach, Outs
<1> QED BY <1>2, <1>3, <1>5, <1>6, HostLeaves

\* The device's side: it takes what is on the line, and the data callback's packet
\* comes from the host's wait for its answer.
LEMMA DeviceOut ==
    ASSUME TypeOK, TypeOK', OutInv, DeviceNext, UNCHANGED hOwn
    PROVE  OutInv'
<1>1. UNCHANGED <<hPc, hCall, hOut, hDone>> /\ OutSize' = OutSize
  BY DEF hOwn, hHistory, OutSize
<1>2. toDev' \in {toDev, NoPkt} /\ Received = toDev
  BY DeviceTakes, ReceivedIsSent DEF OutInv, Heard
<1>3. Heard'
  <2>1. dPc' \in Waits => pullup'
    <3>1. CASE usbDeviceRun \/ DeviceUser
      BY <3>1 DEF usbDeviceRun, DeviceUser, usbDeviceDisconnect, usbDeviceReconnect,
                  usbDeviceRunAgain, Waits
    <3>2. CASE ~(usbDeviceRun \/ DeviceUser)
      BY <3>2, PullupStays DEF OutInv, Heard
    <3> QED BY <3>1, <3>2
  <2> QED BY <1>2, <2>1, HshkPids DEF OutInv, Heard
<1>4. TokenFresh' /\ PayloadFresh'
  BY <1>1, <1>2, HshkPids DEF OutInv, TokenFresh, PayloadFresh, DataPids
<1>5. CASE dPc = "OutData" /\ dPc' = "OutData"
  <2>1. waitForExpectedPacket /\ dOut' = dOut /\ toHost' = toHost
    BY <1>5, OutDataEnds
  <2>2. DataAwaited'
    BY <1>1, <1>2, <1>5, <2>1, HshkPids DEF OutInv, DataAwaited
  <2>3. Reach <= Reach'
    BY <1>1, <1>5, NumbersTyped, NumbersStayTyped DEF Reach, NumbersOK
  <2> QED BY <1>3, <1>4, <2>1, <2>2, <2>3, ReachGrows, NumbersTyped, NumbersStayTyped
          DEF OutInv, NumbersOK
<1>6. CASE dPc = "OutData" /\ dPc' # "OutData"
  <2>1. OutData
    BY <1>6, OutDataEnds
  <2>2. toDev # NoPkt /\ toDev.pid \in GoodPids /\ toDev' = NoPkt
    BY <1>2, <2>1 DEF OutData, Return, Take
  <2>3. hPc \in {"OutAck", "StatusOutAck"} /\ toDev.pid \in DataPids
    BY <1>6, <2>2 DEF OutInv, DataAwaited, GoodPids, Tokens, DataPids, Handshakes
  <2>4. DataAwaited'
    BY <1>6 DEF DataAwaited
  <2>5. /\ hPc = "OutAck" => toDev.off = hOut + hDone /\ toDev.len = OutSize
        /\ hPc = "StatusOutAck" => toDev.off = 0 /\ toDev.len = 0
    BY <2>3 DEF OutInv, PayloadFresh
  <2>6. hPc = "OutAck" => Reach = hOut + hDone /\ hCall.kind \in Outs /\ OutSize \in Nat
    BY <1>6, NumbersTyped DEF Reach, TypeOK, HostTypeOK, StageOK, NumbersOK
  <2>7. hOut \in Nat /\ hDone \in Nat /\ Reach \in Nat /\ Reach' \in Nat
    BY NumbersTyped, NumbersStayTyped DEF NumbersOK
  <2>8. Reach <= Reach'
    BY <1>1, <1>6, <2>7, NumbersTyped, NumbersStayTyped DEF Reach, NumbersOK
  <2>9. CASE dOut' = dOut
    BY <1>3, <1>4, <2>4, <2>7, <2>8, <2>9, ReachGrows DEF OutInv
  <2>10. CASE dOut' # dOut
    <3>1. /\ toHost'.pid = "ACK"
          /\ dOut' = Append(dOut, <<dCtx.endp, toDev.off, toDev.len>>)
      <4>1. OutAccept
        BY <2>1, <2>10 DEF OutData, CallbackStall, CallbackNak, dHistory
      <4> QED BY <1>2, <4>1, HshkPids DEF OutAccept, sendPktToHost
    <3>2. toDev.off + toDev.len <= Reach'
      BY <1>1, <1>6, <2>2, <2>3, <2>5, <2>6, <2>7, <3>1, HshkPids DEF Reach
    <3>3. /\ dOut \in Seq((0..255) \X Nat \X Nat)
          /\ toDev.off \in Nat /\ toDev.len \in Nat /\ dCtx.endp \in 0..255
      BY DEF TypeOK, DeviceTypeOK, HistoryOK, LineOK, Packets, ControlOK, Contexts
    <3>4. /\ Len(dOut') = Len(dOut) + 1 /\ Len(dOut) \in Nat
          /\ \A i \in 1..Len(dOut) : dOut'[i] = dOut[i]
          /\ dOut'[Len(dOut) + 1] = <<dCtx.endp, toDev.off, toDev.len>>
      BY <3>1, <3>3
    <3>5. \A i \in 1..Len(dOut) : dOut[i][2] \in Nat /\ dOut[i][3] \in Nat
      BY <3>3
    <3>6. WithinReach'
      BY <2>7, <2>8, <3>2, <3>4, <3>5 DEF OutInv, WithinReach
    <3>7. toDev.len > 0 => \A i \in 1..Len(dOut) : dOut[i][2] + dOut[i][3] <= toDev.off
      BY <2>3, <2>5, <2>6, <3>5 DEF OutInv, WithinReach
    <3>8. OutInOrder'
      <4> SUFFICES ASSUME NEW j \in 1..Len(dOut'), dOut'[j][3] > 0, NEW i \in 1..j - 1
                   PROVE  dOut'[i][2] + dOut'[i][3] <= dOut'[j][2]
        BY DEF OutInOrder
      <4>1. i \in 1..Len(dOut) /\ dOut'[i] = dOut[i]
        BY <3>4
      <4>2. CASE j \in 1..Len(dOut)
        BY <3>4, <4>1, <4>2 DEF OutInv, OutInOrder
      <4>3. CASE j = Len(dOut) + 1
        BY <3>4, <3>7, <4>1, <4>3
      <4> QED BY <3>4, <4>2, <4>3
    <3> QED BY <1>3, <1>4, <2>4, <3>6, <3>8 DEF OutInv
  <2> QED BY <2>9, <2>10
<1>7. CASE dPc # "OutData" /\ dPc' = "OutData"
  <2>1. processOut /\ dOut' = dOut
    BY <1>7, OnlyProcessOut, OnlyOutAccept, WaitKept
  <2>2. toDev.pid = "OUT" /\ toDev' = NoPkt
    BY <1>2, <1>7, <2>1 DEF processOut, Refuse, Return, Take, Stop, Goto
  <2>3. hPc \in {"OutData", "StatusOutData"}
    BY <2>2 DEF OutInv, TokenFresh
  <2>4. DataAwaited'
    BY <1>1, <2>2, <2>3 DEF DataAwaited
  <2>5. Reach <= Reach'
    BY <1>1, <2>3, NumbersTyped, NumbersStayTyped DEF Reach, NumbersOK
  <2> QED BY <1>3, <1>4, <2>1, <2>4, <2>5, ReachGrows, NumbersTyped, NumbersStayTyped
          DEF OutInv, NumbersOK
<1>8. CASE dPc # "OutData" /\ dPc' # "OutData"
  <2>1. dOut' = dOut
    BY <1>8, OnlyOutAccept
  <2>2. toDev = NoPkt => UNCHANGED <<toDev, toHost>>
    BY DeviceTakes
  <2>3. Reach <= Reach'
    BY <1>1, <1>8, <2>2, NumbersTyped, NumbersStayTyped DEF Reach, NumbersOK
  <2>4. DataAwaited'
    BY <1>8 DEF DataAwaited
  <2> QED BY <1>3, <1>4, <2>1, <2>3, <2>4, ReachGrows, NumbersTyped, NumbersStayTyped
          DEF OutInv, NumbersOK
<1> QED BY <1>5, <1>6, <1>7, <1>8

LEMMA CorruptOut ==
    ASSUME TypeOK, TypeOK', OutInv, Corrupt
    PROVE  OutInv'
<1>1. /\ UNCHANGED <<dPc, dOut, pullup>>
      /\ UNCHANGED <<hPc, hCall, hOut, hDone>> /\ OutSize' = OutSize
  BY DEF Corrupt, dHistory, hHistory, OutSize
<1>2. \/ toDev.pid \in GoodPids /\ toDev' = BadPkt /\ toHost' = toHost
      \/ toHost.pid \in GoodPids /\ toHost' = BadPkt /\ toDev' = toDev
  BY DEF Corrupt
<1>3. Heard' /\ TokenFresh' /\ PayloadFresh'
  BY <1>1, <1>2, HshkPids DEF OutInv, Heard, TokenFresh, PayloadFresh, DataPids
<1>4. NoPkt.pid \notin GoodPids
  BY HshkPids DEF GoodPids, Tokens, DataPids, Handshakes
<1>5. DataAwaited'
  BY <1>1, <1>2, <1>4, HshkPids DEF OutInv, DataAwaited
<1>6. Reach <= Reach'
  BY <1>1, <1>2, <1>4, HshkPids, NumbersTyped, NumbersStayTyped DEF Reach, NumbersOK
<1> QED BY <1>1, <1>3, <1>5, <1>6, ReachGrows, NumbersTyped, NumbersStayTyped
        DEF OutInv, NumbersOK

LEMMA OutHolds == Acknowledged => (Spec => []OutInv)
<1> SUFFICES ASSUME Acknowledged PROVE Spec => []OutInv
  OBVIOUS
<1>1. Init => OutInv
  <2> SUFFICES ASSUME Init PROVE OutInv
    OBVIOUS
  <2>1. /\ toDev = NoPkt /\ dPc = "Start" /\ dOut = <<>>
    BY DEF Init, BusInit, DeviceInit
  <2> QED BY <2>1, HshkPids DEF OutInv, Heard, TokenFresh, PayloadFresh, DataAwaited,
                  WithinReach, OutInOrder, Waits, DataPids
<1>2. TypeOK /\ TypeOK' /\ OutInv /\ [Next]_vars => OutInv'
  <2> SUFFICES ASSUME TypeOK, TypeOK', OutInv, [Next]_vars PROVE OutInv'
    OBVIOUS
  <2>1. CASE Device \/ DevUser
    BY <2>1, DeviceOut DEF Device, DevUser, DeviceNext
  <2>2. CASE Host
    <3>1. UNCHANGED dOwn /\ UNCHANGED pullup /\ HostStep
      BY <2>2 DEF Host, HostStep
    <3>2. hPc = "OutData" => hCall.kind # "isoOut"
      BY NoCallTyped DEF TypeOK, HostTypeOK, CallOK, Acknowledged
    <3>3. SendOutData => hPc = "OutData"
      BY DEF SendOutData
    <3>4. CASE sendStandardRequest
      BY <3>1, <3>4, SendTokenOut, SendSetupOut, WaitForAckOut DEF sendStandardRequest, Tokens
    <3>5. CASE getDataFromDevice
      BY <3>1, <3>5, SendTokenOut, DataInOut DEF getDataFromDevice, Tokens
    <3>6. CASE sendControlStatus
      BY <3>1, <3>6, SendTokenOut, SendPayloadOut, WaitForAckOut, StatusInOut
         DEF sendControlStatus, Tokens
    <3>7. CASE sendDataOut
      BY <3>1, <3>2, <3>3, <3>7, SendTokenOut, SendPayloadOut, OutAnswerOut
         DEF sendDataOut, Tokens
    <3>8. CASE checkSof \/ Disconnected
      BY <3>1, <3>8, BusOut, DataInOut
    <3> QED BY <3>1, <3>4, <3>5, <3>6, <3>7, <3>8 DEF HostStep
  <2>3. CASE User
    BY <2>3, BusOut DEF User, HostUser
  <2>4. CASE Corrupt
    BY <2>4, CorruptOut
  <2>5. CASE UNCHANGED vars \/ usbHostEndExecution
    <3>1. UNCHANGED <<dPc, dOut, pullup, toDev, toHost, hPc, hCall, hOut, hDone>>
      BY <2>5 DEF usbHostEndExecution, vars, dVars, hVars, dHistory, hHistory
    <3> QED BY <3>1 DEF OutInv, Heard, TokenFresh, PayloadFresh, DataAwaited, WithinReach,
                        OutInOrder, Reach, OutSize
  <2> QED BY <2>1, <2>2, <2>3, <2>4, <2>5 DEF Next
<1> QED BY <1>1, <1>2, SystemTyped, PTL DEF Spec

\* Under any noise, resets, NAKs, STALLs, restarts of the device and calls to any
\* address, the data callback is never given bytes again or out of order, if transfers
\* are acknowledged ones and no line error replays a packet.
THEOREM OutOrdered == Acknowledged => (Spec => []OutInOrder)
<1> SUFFICES ASSUME Acknowledged PROVE Spec => []OutInOrder
  OBVIOUS
<1>1. OutInv => OutInOrder
  BY DEF OutInv
<1> QED BY <1>1, OutHolds, PTL

=============================================================================
