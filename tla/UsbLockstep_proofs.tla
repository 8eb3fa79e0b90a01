-------------------------- MODULE UsbLockstep_proofs --------------------------
(***************************************************************************)
(* On a quiet line host and device never lose each other: Lockstep is an   *)
(* inductive invariant, for every set of calls, packet and descriptor      *)
(* sizes that Quiet allows.  The properties of UsbSystem that need a quiet *)
(* line follow from it.                                                    *)
(***************************************************************************)
EXTENDS UsbLockstep, UsbSystem_proofs


-----------------------------------------------------------------------------
(***************************************************************************)
(* Endpoint numbers and flags.                                             *)
(***************************************************************************)
LEMMA EndpFields ==
    /\ EpIdx(0) = 0 /\ EpDir(0) = 0 /\ EpIdx(1) = 1 /\ EpDir(1) = 0
    /\ \A x \in 0..15 : /\ EpIdx(x) = x /\ EpDir(x) = 0
                        /\ EpIdx(x + 128) = x /\ EpDir(x + 128) = 1
    /\ \A e \in 0..127 : EpDir(e) = 0
    /\ \A e \in 128..255 : EpDir(e) = 1
    /\ \A e \in 0..255 : EpIdx(e) \in 0..15 /\ EpDir(e) \in 0..1
BY DEF EpIdx, EpDir

\* Another endpoint, or the other direction of the same.
Apart(x, e) == EpIdx(x) # EpIdx(e) \/ EpDir(x) # EpDir(e)

LEMMA FlagAt ==
    ASSUME NEW f \in Flags, NEW e \in 0..255, EpIdx(e) \in EP, NEW b, NEW x, ~Apart(x, e)
    PROVE  Flag(SetFlag(f, e, b), x) = b
<1>1. EpDir(e) \in 0..1
  BY EndpFields
<1>2. f[EpIdx(e)] \in [0..1 -> BOOLEAN]
  BY DEF Flags
<1>3. [f[EpIdx(e)] EXCEPT ![EpDir(e)] = b][EpDir(e)] = b
  BY <1>1, <1>2
<1>4. SetFlag(f, e, b)[EpIdx(e)] = [f[EpIdx(e)] EXCEPT ![EpDir(e)] = b]
  BY DEF SetFlag, Flags
<1>5. EpIdx(x) = EpIdx(e) /\ EpDir(x) = EpDir(e)
  BY Zenon DEF Apart
<1> QED BY Zenon, <1>3, <1>4, <1>5 DEF Flag

LEMMA FlagElse ==
    ASSUME NEW f \in Flags, NEW e, NEW b, NEW x \in 0..255, Apart(x, e), EpIdx(x) \in EP
    PROVE  Flag(SetFlag(f, e, b), x) = Flag(f, x)
<1>1. EpDir(x) \in 0..1
  BY EndpFields
<1>2. f[EpIdx(x)] \in [0..1 -> BOOLEAN]
  BY DEF Flags
<1>3. CASE EpIdx(x) # EpIdx(e)
  <2>1. SetFlag(f, e, b)[EpIdx(x)] = f[EpIdx(x)]
    BY <1>3 DEF SetFlag, Flags
  <2> QED BY Zenon, <2>1 DEF Flag
<1>4. CASE EpIdx(x) = EpIdx(e) /\ EpDir(x) # EpDir(e)
  <2>1. SetFlag(f, e, b)[EpIdx(x)] = [f[EpIdx(x)] EXCEPT ![EpDir(e)] = b]
    BY <1>4 DEF SetFlag, Flags
  <2>2. [f[EpIdx(x)] EXCEPT ![EpDir(e)] = b][EpDir(x)] = f[EpIdx(x)][EpDir(x)]
    BY <1>1, <1>2, <1>4
  <2> QED BY Zenon, <2>1, <2>2 DEF Flag
<1> QED BY <1>3, <1>4 DEF Apart

\* The toggle of an endpoint, by the PID of its next packet.
LEMMA PidOf == \A f, e : dataPid(f, e) \in DataPids
BY Zenon DEF dataPid, DataPids

LEMMA PidSame ==
    ASSUME NEW f, NEW e, NEW x, EpIdx(x) = EpIdx(e), EpDir(x) = EpDir(e)
    PROVE  dataPid(f, x) = dataPid(f, e)
BY Zenon DEF dataPid, Flag

LEMMA PidSet ==
    ASSUME NEW f \in Flags, NEW e \in 0..255, EpIdx(e) \in EP
    PROVE  /\ dataPid(SetFlag(f, e, TRUE), e) = "DATA0"
           /\ dataPid(SetFlag(f, e, FALSE), e) = "DATA1"
<1>1. ~Apart(e, e)
  BY Zenon DEF Apart
<1>2. Flag(SetFlag(f, e, TRUE), e) = TRUE
  BY Zenon, <1>1, FlagAt
<1>3. Flag(SetFlag(f, e, FALSE), e) = FALSE
  BY Zenon, <1>1, FlagAt
<1> QED BY Zenon, <1>2, <1>3 DEF dataPid

LEMMA PidAll ==
    ASSUME NEW e \in 0..255, EpIdx(e) \in EP
    PROVE  dataPid(AllFlags(TRUE), e) = "DATA0"
<1>1. AllFlags(TRUE)[EpIdx(e)][EpDir(e)] = TRUE
  BY EndpFields DEF AllFlags
<1> QED BY Zenon, <1>1 DEF dataPid, Flag

LEMMA PidFlip ==
    ASSUME NEW f \in Flags, NEW e \in 0..255, EpIdx(e) \in EP, NEW x, ~Apart(x, e)
    PROVE  dataPid(dataPidUpdate(f, e), x) # dataPid(f, x)
<1>1. EpIdx(x) = EpIdx(e) /\ EpDir(x) = EpDir(e)
  BY Zenon DEF Apart
<1>2. Flag(dataPidUpdate(f, e), x) = ~Flag(f, e)
  BY Zenon, FlagAt DEF dataPidUpdate
<1>3. Flag(f, x) = Flag(f, e)
  BY Zenon, <1>1 DEF Flag
<1>4. "DATA0" # "DATA1"
  OBVIOUS
<1> QED BY Zenon, <1>2, <1>3, <1>4 DEF dataPid

LEMMA PidElse ==
    ASSUME NEW f \in Flags, NEW e, NEW x \in 0..255, Apart(x, e), EpIdx(x) \in EP
    PROVE  /\ dataPid(dataPidUpdate(f, e), x) = dataPid(f, x)
           /\ dataPid(SetFlag(f, e, TRUE), x) = dataPid(f, x)
           /\ dataPid(SetFlag(f, e, FALSE), x) = dataPid(f, x)
<1>1. ASSUME NEW b PROVE dataPid(SetFlag(f, e, b), x) = dataPid(f, x)
  <2>1. Flag(SetFlag(f, e, b), x) = Flag(f, x)
    BY Zenon, FlagElse
  <2> QED BY Zenon, <2>1 DEF dataPid
<1> QED BY Zenon, <1>1 DEF dataPidUpdate

\* Control and OUT transfers leave the toggles of the IN endpoints alone, and data
\* transfers that of the control endpoint.
LEMMA InUntouched ==
    ASSUME NEW f \in Flags, NEW e \in 0..255, EpDir(e) = 0
    PROVE  \A x \in InEndps : /\ dataPid(dataPidUpdate(f, e), x) = dataPid(f, x)
                              /\ dataPid(SetFlag(f, e, TRUE), x) = dataPid(f, x)
                              /\ dataPid(SetFlag(f, e, FALSE), x) = dataPid(f, x)
<1> SUFFICES ASSUME NEW x \in InEndps
             PROVE  /\ dataPid(dataPidUpdate(f, e), x) = dataPid(f, x)
                    /\ dataPid(SetFlag(f, e, TRUE), x) = dataPid(f, x)
                    /\ dataPid(SetFlag(f, e, FALSE), x) = dataPid(f, x)
  BY Zenon
<1>1. x \in 0..255
  BY DEF InEndps
<1>2. EpIdx(x) \in EP
  BY DEF InEndps
<1>3. Apart(x, e)
  BY EndpFields DEF InEndps, Apart
<1> QED BY Zenon, <1>1, <1>2, <1>3, PidElse

LEMMA ControlUntouched ==
    ASSUME NEW f \in Flags, NEW e \in 0..255, EpIdx(e) # 0 \/ EpDir(e) # 0
    PROVE  dataPid(dataPidUpdate(f, e), 0) = dataPid(f, 0)
<1>1. 0 \in 0..255 /\ EpIdx(0) = 0 /\ EpDir(0) = 0 /\ 0 \in EP
  BY EndpFields, BusAssumption
<1>2. Apart(0, e) /\ EpIdx(0) \in EP
  BY <1>1 DEF Apart
<1> QED BY Zenon, <1>1, <1>2, PidElse

LEMMA ControlSet ==
    ASSUME NEW f \in Flags
    PROVE  /\ dataPid(SetFlag(f, 0, TRUE), 0) = "DATA0"
           /\ dataPid(SetFlag(f, 0, FALSE), 0) = "DATA1"
           /\ dataPid(dataPidUpdate(f, 0), 0) # dataPid(f, 0)
           /\ \A x \in InEndps : /\ dataPid(dataPidUpdate(f, 0), x) = dataPid(f, x)
                                 /\ dataPid(SetFlag(f, 0, TRUE), x) = dataPid(f, x)
                                 /\ dataPid(SetFlag(f, 0, FALSE), x) = dataPid(f, x)
<1>1. 0 \in 0..255 /\ EpIdx(0) = 0 /\ EpDir(0) = 0 /\ EpIdx(0) \in EP
  BY EndpFields, BusAssumption
<1>2. /\ dataPid(SetFlag(f, 0, TRUE), 0) = "DATA0"
      /\ dataPid(SetFlag(f, 0, FALSE), 0) = "DATA1"
  BY Zenon, <1>1, PidSet
<1>3. dataPid(dataPidUpdate(f, 0), 0) # dataPid(f, 0)
  BY Zenon, <1>1, PidFlip DEF Apart
<1> QED BY Zenon, <1>1, <1>2, <1>3, InUntouched

\* A flag of the control endpoint is no other's.
LEMMA OthersKept ==
    ASSUME NEW f \in Flags, NEW b
    PROVE  \A e \in 0..255 : EpIdx(e) \in EP /\ (EpIdx(e) # 0 \/ EpDir(e) # 0)
              => Flag(SetFlag(f, 0, b), e) = Flag(f, e)
<1> SUFFICES ASSUME NEW e \in 0..255, EpIdx(e) \in EP, EpIdx(e) # 0 \/ EpDir(e) # 0
             PROVE  Flag(SetFlag(f, 0, b), e) = Flag(f, e)
  BY Zenon
<1>1. Apart(e, 0)
  BY EndpFields DEF Apart
<1> QED BY Zenon, <1>1, FlagElse

\* The OUT toggles are those of bulk OUT transfers alone.
Elsewhere(e) == EpIdx(e) = 0 \/ EpDir(e) = 1

LEMMA OutUntouched ==
    ASSUME NEW f \in Flags, NEW e \in 0..255, Elsewhere(e)
    PROVE  \A x \in OutEndps : /\ dataPid(dataPidUpdate(f, e), x) = dataPid(f, x)
                               /\ dataPid(SetFlag(f, e, TRUE), x) = dataPid(f, x)
                               /\ dataPid(SetFlag(f, e, FALSE), x) = dataPid(f, x)
<1> SUFFICES ASSUME NEW x \in OutEndps
             PROVE  /\ dataPid(dataPidUpdate(f, e), x) = dataPid(f, x)
                    /\ dataPid(SetFlag(f, e, TRUE), x) = dataPid(f, x)
                    /\ dataPid(SetFlag(f, e, FALSE), x) = dataPid(f, x)
  BY Zenon
<1>1. x \in 0..255 /\ EpDir(x) = 0 /\ EpIdx(x) \in EP /\ EpIdx(x) # 0
  BY EndpFields, BusAssumption DEF OutEndps
<1>2. Apart(x, e)
  BY <1>1 DEF Elsewhere, Apart
<1> QED BY Zenon, <1>1, <1>2, PidElse

\* Of which the endpoint 1 of OutOf is the only one in use.
LEMMA FlipOfOut ==
    ASSUME NEW f \in Flags, NEW x \in OutEndps
    PROVE  /\ EpIdx(x) = 1 => dataPid(dataPidUpdate(f, 1), x) # dataPid(f, x)
           /\ EpIdx(x) # 1 => dataPid(dataPidUpdate(f, 1), x) = dataPid(f, x)
<1>1. x \in 0..255 /\ EpDir(x) = 0 /\ EpIdx(x) \in EP
  BY EndpFields, BusAssumption DEF OutEndps
<1>2. 1 \in 0..255 /\ EpIdx(1) = 1 /\ EpDir(1) = 0 /\ EpIdx(1) \in EP
  BY EndpFields, DeviceAssumption
<1>3. ASSUME EpIdx(x) = 1 PROVE dataPid(dataPidUpdate(f, 1), x) # dataPid(f, x)
  <2>1. ~Apart(x, 1) /\ EpIdx(1) \in EP
    BY <1>1, <1>2, <1>3 DEF Apart
  <2> QED BY Zenon, <1>2, <2>1, PidFlip
<1>4. ASSUME EpIdx(x) # 1 PROVE dataPid(dataPidUpdate(f, 1), x) = dataPid(f, x)
  <2>1. Apart(x, 1)
    BY <1>2, <1>4 DEF Apart
  <2> QED BY Zenon, <1>1, <1>2, <2>1, PidElse
<1> QED BY <1>3, <1>4

\* Equal PIDs are equal toggles.
LEMMA PidIsToggle ==
    ASSUME NEW f \in Flags, NEW g \in Flags, NEW e \in 0..255, EpIdx(e) \in EP,
           dataPid(f, e) = dataPid(g, e)
    PROVE  f[EpIdx(e)][EpDir(e)] = g[EpIdx(e)][EpDir(e)]
<1>1. EpDir(e) \in 0..1
  BY EndpFields
<1>2. f[EpIdx(e)] \in [0..1 -> BOOLEAN] /\ g[EpIdx(e)] \in [0..1 -> BOOLEAN]
  BY DEF Flags
<1>3. /\ f[EpIdx(e)][EpDir(e)] \in BOOLEAN
      /\ g[EpIdx(e)][EpDir(e)] \in BOOLEAN
  BY <1>1, <1>2
<1>4. "DATA0" # "DATA1"
  OBVIOUS
<1>5. f[EpIdx(e)][EpDir(e)] <=> g[EpIdx(e)][EpDir(e)]
  BY Zenon, <1>4 DEF dataPid, Flag
<1> QED BY <1>3, <1>5

LEMMA SameToggles ==
    ASSUME NEW f \in Flags, NEW g \in Flags,
           \A i \in EP : dataPid(f, i) = dataPid(g, i) /\ dataPid(f, i + 128) = dataPid(g, i + 128)
    PROVE  f = g
<1>1. ASSUME NEW i \in EP PROVE f[i] = g[i]
  <2>1. /\ i \in 0..255 /\ EpIdx(i) = i /\ EpDir(i) = 0
        /\ i + 128 \in 0..255 /\ EpIdx(i + 128) = i /\ EpDir(i + 128) = 1
    BY EndpFields, BusAssumption
  <2>2. ASSUME NEW e \in {i, i + 128}
        PROVE  f[EpIdx(e)][EpDir(e)] = g[EpIdx(e)][EpDir(e)]
    <3>1. e \in 0..255
      BY <2>1
    <3>2. EpIdx(e) \in EP
      BY <2>1
    <3>3. dataPid(f, e) = dataPid(g, e)
      OBVIOUS
    <3> QED BY <3>1, <3>2, <3>3, PidIsToggle
  <2>3. f[i][0] = g[i][0] /\ f[i][1] = g[i][1]
    <3>1. /\ f[EpIdx(i)][EpDir(i)] = g[EpIdx(i)][EpDir(i)]
          /\ f[EpIdx(i + 128)][EpDir(i + 128)] = g[EpIdx(i + 128)][EpDir(i + 128)]
      BY <2>2
    <3> QED BY Zenon, <2>1, <3>1
  <2>4. f[i] \in [0..1 -> BOOLEAN] /\ g[i] \in [0..1 -> BOOLEAN]
    BY DEF Flags
  <2>5. \A d \in 0..1 : f[i][d] = g[i][d]
    BY <2>3
  <2> QED BY <2>4, <2>5
<1>2. f = [i \in EP |-> f[i]] /\ g = [i \in EP |-> g[i]]
  BY DEF Flags
<1>3. [i \in EP |-> f[i]] = [i \in EP |-> g[i]]
  BY <1>1
<1> QED BY Zenon, <1>2, <1>3

USE MAXPKTPositive, BusAssumption, DeviceAssumption, HostAssumption,
    SystemAssumption

-----------------------------------------------------------------------------
(***************************************************************************)
(* The calls of a quiet line, and the packets they make.                   *)
(***************************************************************************)
LEMMA PktFields ==
    \A pid, addr, endp, off, len, req :
       LET pkt == Pkt(pid, addr, endp, off, len, req) IN
       /\ pkt.pid = pid /\ pkt.addr = addr /\ pkt.endp = endp
       /\ pkt.off = off /\ pkt.len = len /\ pkt.req = req
BY DEF Pkt

LEMMA CallUsual ==
    ASSUME TypeOK, Quiet, hPc \notin {"Start", "Ready"}
    PROVE  Usual(hCall) /\ hCall \in Calls
BY DEF TypeOK, HostTypeOK, StageOK, CallOK, Quiet

\* Which calls are at which places.
LEMMA KindsAt ==
    ASSUME TypeOK, Quiet
    PROVE  /\ hCall.kind \notin {"isoOut", "isoIn"}
           /\ hPc \in {"Start", "Ready"} <=> hCall.kind = "none"
           /\ hPc \in {"OutTok", "OutData", "OutAck"} => hCall.kind = "out"
           /\ hCall.kind = "out" => hPc \in {"OutTok", "OutData", "OutAck"}
           /\ hPc \in {"InTok", "InData"} => hCall.kind \in {"get", "in"} \union Descs
           /\ hCall.kind = "in" => hPc \in {"InTok", "InData"}
           /\ hPc \in {"CheckSof", "Setup", "SetupData", "SetupAck"} => hCall.kind \in Controls
           /\ hPc \in {"StatusOutTok", "StatusOutData", "StatusOutAck"} =>
                 hCall.kind \in {"get"} \union Descs
           /\ hPc \in {"StatusInTok", "StatusInData"} => hCall.kind \in Sets
<1>1. hCall.kind \notin {"isoOut", "isoIn"}
  BY CallUsual, NoCallTyped DEF Usual, TypeOK, HostTypeOK, StageOK
<1>2. hPc \in {"Start", "Ready"} <=> hCall.kind = "none"
  BY CallTyped DEF TypeOK, HostTypeOK, StageOK
<1> QED
  BY <1>1, <1>2 DEF TypeOK, HostTypeOK, StageOK, Listening, Outs, Ins, Descs, Sets, Controls

LEMMA EndpointsInUse ==
    ASSUME TypeOK, Quiet, hPc \notin {"Start", "Ready"}
    PROVE  /\ hCall.addr \in 0..127 /\ hCall.endp \in 0..255 /\ EpIdx(hCall.endp) \in EP
           /\ hCall.kind \in Controls => hCall.endp = 0 /\ hCall.req # NoReq
           /\ hCall.kind = "out" => hCall.endp = 1 /\ hCall.req = NoReq
           /\ hCall.kind = "in" => /\ hCall.endp \in 128..255 /\ hCall.req = NoReq
                                   /\ EpDir(hCall.endp) = 1
                                   /\ <<EpIdx(hCall.endp), 1>> \in epvalid
<1>1. Usual(hCall)
  BY CallUsual
<1>2. hCall.kind \in Controls \union {"out", "in"}
  BY KindsAt, CallTyped DEF TypeOK, CallType, Kinds, Outs, Ins
<1>3. hCall.endp \in 0..255
  BY HostFacts DEF TypeOK
<1>4. CASE hCall.kind \in Controls
  <2>1. hCall.kind \notin {"out", "in"}
    BY <1>4 DEF Controls, Descs, Sets
  <2> QED BY <1>1, <1>4, <2>1, EndpFields DEF Usual, ControlOf
<1>5. CASE hCall.kind = "out"
  <2>1. hCall.kind \notin Controls
    BY <1>5 DEF Controls, Descs, Sets
  <2> QED BY <1>1, <1>5, <2>1, EndpFields DEF Usual, OutOf
<1>6. CASE hCall.kind = "in"
  <2>1. hCall.kind \notin Controls
    BY <1>6 DEF Controls, Descs, Sets
  <2>2. hCall.endp \in 128..255
    BY <1>1, <1>3, <1>6, EndpFields DEF Usual, InOf
  <2> QED BY <1>1, <1>6, <2>1, <2>2, EndpFields DEF Usual, InOf, epvalid
<1> QED BY <1>2, <1>4, <1>5, <1>6

\* The tokens of these calls decode.
LEMMA QuietToken ==
    ASSUME TypeOK, Quiet, hPc \notin {"Start", "Ready"}, NEW pid
    PROVE  Token(pid, hCall.addr, hCall.endp) =
             Pkt(pid, hCall.addr, EpIdx(hCall.endp), 0, 0, NoReq)
<1>1. hCall.kind \in Controls \union {"out", "in"}
  BY KindsAt, CallTyped DEF TypeOK, CallType, Kinds, Outs, Ins
<1>2. TokenIntact(hCall.addr, hCall.endp)
  BY <1>1, EndpointsInUse, EndpFields, CallUsual DEF TokenIntact, Usual, InOf
<1>3. TokenGenerable(hCall.addr, hCall.endp)
  <2>1. CASE hCall.kind = "in"
    BY <2>1, CallUsual DEF Usual, InOf
  <2>2. CASE hCall.kind # "in"
    BY <1>1, <2>2, EndpointsInUse DEF TokenGenerable
  <2> QED BY <2>1, <2>2
<1> QED BY Zenon, <1>2, <1>3 DEF Token

\* Their data packets are short enough to be generated.
LEMMA QuietPacket ==
    ASSUME TypeOK, Quiet, hCall.kind = "out"
    PROVE  OutPacket = Data(dataPid(hEpdata0, hCall.endp), hOut + hDone, OutSize)
<1>1. hCall.maxpkt \in 1..64
  BY KindsAt, CallUsual DEF Usual, OutOf, MaxData
<1>2. hCall.size \in Nat /\ hDone \in Nat
  BY HostFacts DEF TypeOK
<1>3. OutSize \in Int /\ OutSize <= 64
  BY <1>1, <1>2 DEF OutSize, MinOf
<1> QED BY <1>3 DEF OutPacket, MaxData

-----------------------------------------------------------------------------
(***************************************************************************)
(* Steps that put a packet on the line or take one off it, and change      *)
(* nothing else that the byte counts and toggles are about.                *)
(***************************************************************************)
LEMMA QuietStays == Quiet => Quiet'
BY DEF Quiet, Usual, ControlOf, GetOf, DescOf, SetOf, OutOf, InOf, EvenReads

\* No packet on the line is damaged, and none replayed.
LEMMA LineIntact ==
    ASSUME Lockstep
    PROVE  /\ toDev.pid \notin {"ERROR", "BAD"} /\ Received = toDev
           /\ toHost.pid \notin {"ERROR", "BAD"}
<1>1. toDev.pid \notin {"ERROR", "BAD"} /\ toHost.pid \notin {"ERROR", "BAD"}
  BY HshkPids DEF Lockstep, Quiet, Places, InStep, AtRest, SetupStage, InStage, StatusStage,
         OutStage, Clear, Sent, Answered
<1> QED BY <1>1, ReceivedIsSent

DeviceStays ==
    UNCHANGED <<dPc, devaddr, ephalted, dEpdata0, dServed, dIn, pullup>>

LEMMA LineOnly ==
    ASSUME Lockstep, DeviceStays, dCtx' = dCtx \/ dPc = "Run",
           UNCHANGED <<hCall, hDone, hRx, hIn, hEpdata0, mark>>,
           toDev.pid # "ACK", toDev'.pid # "ACK", dPc # "InHshk",
           \/ hPc' = hPc
           \/ hPc = "Start" /\ hPc' = "Ready"
           \/ hPc = "CheckSof" /\ hPc' = "Setup"
           \/ hPc = "Setup" /\ hPc' = "SetupData"
           \/ hPc = "InTok" /\ hPc' = "InData"
           \/ hPc = "StatusOutTok" /\ hPc' = "StatusOutData"
           \/ hPc = "StatusInTok" /\ hPc' = "StatusInData"
           \/ hPc = "OutTok" /\ hPc' = "OutData"
    PROVE  Bytes' /\ Toggles' /\ Serving'
<1>1. InTransfer'
  BY DEF Lockstep, Bytes, InTransfer, Transferring, DeviceStays
<1>2. ControlIn'
  BY DEF Lockstep, Bytes, ControlIn, Transferring, Gained, DeviceStays, AnswerSize
<1>3. BulkIn'
  BY DEF Lockstep, Bytes, BulkIn, DataIn, Transferring, Gained, DeviceStays
<1>4. RxWhole'
  BY DEF Lockstep, Bytes, RxWhole, Whole
<1>5. ControlToggles'
  BY DEF Lockstep, Toggles, ControlToggles, DataIn, Transferring, DeviceStays
<1>6. InToggles'
  BY DEF Lockstep, Toggles, InToggles, DataIn, Transferring, DeviceStays
<1>7. Serving'
  BY DEF Lockstep, Serving, Unserved, DeviceStays
<1> QED BY <1>1, <1>2, <1>3, <1>4, <1>5, <1>6, <1>7 DEF Bytes, Toggles

LEMMA HostAlone ==
    ASSUME UNCHANGED dOwn, UNCHANGED pullup
    PROVE  DeviceStays /\ UNCHANGED <<dCtx, dOut>>
BY DEF dOwn, DeviceStays, dState, dHistory

LEMMA StillOn ==
    ASSUME Lockstep, DeviceStays
    PROVE  Quiet' /\ DeviceOn' /\ OnlyControlHalted'
<1>1. Quiet' /\ DeviceOn'
  BY QuietStays DEF Lockstep, Places, DeviceOn, DeviceStays
<1>2. OnlyControlHalted /\ ephalted' = ephalted
  BY DEF Lockstep, Places, DeviceStays
<1>3. OnlyControlHalted'
  BY Zenon, <1>2 DEF OnlyControlHalted, Flag
<1> QED BY <1>1, <1>3

LEMMA Numbers ==
    ASSUME TypeOK
    PROVE  /\ dIn \in Nat /\ hIn \in Nat /\ hDone \in Nat /\ hCall.size \in Nat
           /\ dCtx.base \in Nat /\ dCtx.sent \in Nat /\ dCtx.size \in Nat
           /\ dCtx.endp \in 0..255
           /\ Chunk(dCtx) \in Nat /\ dCtx.sent + Chunk(dCtx) <= dCtx.size
           /\ Chunk(dCtx) <= MAXPKT
           /\ dCtx.sent < dCtx.size => Chunk(dCtx) > 0
           /\ Chunk(dCtx) < MAXPKT => dCtx.sent + Chunk(dCtx) = dCtx.size
           /\ Gained \in Nat
<1>1. /\ dCtx.base \in Nat /\ dCtx.sent \in Nat /\ dCtx.size \in Nat
      /\ dCtx.endp \in 0..255 /\ dCtx.sent <= dCtx.size
  BY DEF TypeOK, DeviceTypeOK, ControlOK, Contexts
<1>2. /\ Chunk(dCtx) \in Nat /\ dCtx.sent + Chunk(dCtx) <= dCtx.size
      /\ Chunk(dCtx) <= MAXPKT
      /\ dCtx.sent < dCtx.size => Chunk(dCtx) > 0
      /\ Chunk(dCtx) < MAXPKT => dCtx.sent + Chunk(dCtx) = dCtx.size
  BY <1>1 DEF Chunk, MinOf
<1>3. hIn \in Nat /\ hDone \in Nat /\ hCall.size \in Nat
  BY HostFacts DEF TypeOK
<1>4. dIn \in Nat
  BY DEF TypeOK, DeviceTypeOK, HistoryOK
<1> QED BY <1>1, <1>2, <1>3, <1>4 DEF Gained

-----------------------------------------------------------------------------
(***************************************************************************)
(* The steps of the host.                                                  *)
(***************************************************************************)
LEMMA SendTokenStep ==
    ASSUME TypeOK, Lockstep, UNCHANGED dOwn, UNCHANGED <<pullup, mark>>,
           NEW pc, NEW pid, NEW next, SendToken(pc, pid, next),
           \/ pc = "Setup" /\ pid = "SETUP" /\ next = "SetupData"
           \/ pc = "InTok" /\ pid = "IN" /\ next = "InData"
           \/ pc = "StatusOutTok" /\ pid = "OUT" /\ next = "StatusOutData"
           \/ pc = "StatusInTok" /\ pid = "IN" /\ next = "StatusInData"
           \/ pc = "OutTok" /\ pid = "OUT" /\ next = "OutData"
    PROVE  Lockstep'
<1>1. /\ hPc = pc /\ hPc' = next /\ toDev = NoPkt /\ toHost' = NoPkt
      /\ UNCHANGED <<hCall, hDone, hRx, hIn, hEpdata0, mark>>
      /\ toDev' = Token(pid, hCall.addr, hCall.endp)
  BY DEF SendToken, Send, At
<1>2. DeviceStays /\ UNCHANGED dCtx
  BY HostAlone
<1>3. hPc \notin {"Start", "Ready"}
  BY <1>1
<1>4. Quiet
  BY DEF Lockstep
<1>5. /\ toDev'.pid = pid /\ toDev'.addr = hCall.addr /\ toDev'.len = 0
      /\ toDev'.endp = EpIdx(hCall.endp)
  BY <1>1, <1>3, <1>4, QuietToken, PktFields
<1>6. toDev.pid = "NONE"
  BY <1>1, HshkPids
<1>7. InStep'
  BY <1>1, <1>2, <1>5, <1>6, KindsAt DEF DeviceStays, Lockstep, Places, InStep, AtRest, SetupStage, InStage, StatusStage,
         OutStage, Clear, Sent, Answered
<1>8. Addressed'
  BY <1>1, <1>2, <1>5 DEF DeviceStays, Lockstep, Places, Addressed
<1>9. dPc # "InHshk"
  BY <1>1, <1>6, HshkPids DEF Lockstep, Places, InStep, AtRest, SetupStage, InStage, StatusStage,
         OutStage, Clear, Sent, Answered
<1>10. Bytes' /\ Toggles' /\ Serving'
  BY <1>1, <1>2, <1>5, <1>6, <1>9, LineOnly
<1> QED BY <1>2, <1>7, <1>8, <1>10, StillOn DEF Lockstep, Places

\* What happens on the line between calls, and the SOF before a setup packet.
LEMMA BusStep ==
    ASSUME TypeOK, Lockstep, UNCHANGED dOwn, UNCHANGED <<pullup, mark>>,
           \/ checkSof \/ usbHostWaitForConnection \/ usbHostSleepUs
           \/ usbHostResetDevice \/ usbHostSuspendDevice
    PROVE  Lockstep'
<1>1. DeviceStays /\ UNCHANGED dCtx
  BY HostAlone
<1>2. UNCHANGED <<hCall, hDone, hRx, hIn, hEpdata0, mark>>
  BY DEF checkSof, usbHostWaitForConnection, usbHostSleepUs, usbHostResetDevice,
         usbHostSuspendDevice, Condition, hHistory
<1>3. /\ \/ hPc = "CheckSof" /\ hPc' = "Setup"
         \/ hPc = "Start" /\ hPc' = "Ready" /\ pullup /\ UNCHANGED <<toDev, toHost>>
         \/ hPc = "Start" /\ hPc' = "Start" /\ UNCHANGED <<toDev, toHost>>
         \/ hPc = "Ready" /\ hPc' = "Ready"
      /\ \/ UNCHANGED <<toDev, toHost>> /\ hPc # "Ready"
         \/ /\ toDev = NoPkt /\ toHost' = NoPkt
            /\ \/ toDev'.pid = "SOF"
               \/ hPc = "Ready" /\ toDev'.pid \in {"SUSPEND"} \union ResetSeenAs
  <2>1. SendSof => toDev = NoPkt /\ toHost' = NoPkt /\ toDev'.pid = "SOF"
    BY SentPids DEF SendSof, Send
  <2>2. CASE checkSof \/ usbHostSleepUs
    BY <2>1, <2>2 DEF checkSof, usbHostSleepUs, lineVars
  <2>3. CASE usbHostWaitForConnection
    BY <2>3 DEF usbHostWaitForConnection, lineVars
  <2>4. CASE usbHostResetDevice \/ usbHostSuspendDevice
    BY <2>4, HshkPids
       DEF usbHostResetDevice, usbHostSuspendDevice, Condition, Counted, Send
  <2> QED BY <2>2, <2>3, <2>4
<1>4. NoPkt.pid = "NONE" /\ ResetSeenAs \subseteq {"RESET"}
  BY HshkPids DEF Lockstep, Quiet
<1>5. dPc # "InHshk" /\ toDev.pid # "ACK" /\ toDev'.pid # "ACK"
  BY <1>3, <1>4
     DEF Lockstep, Places, InStep, AtRest, SetupStage, InStage, StatusStage, OutStage,
         Clear, Sent, Answered
<1>6. InStep'
  BY <1>1, <1>3, <1>4
     DEF DeviceStays, Lockstep, Places, DeviceOn, InStep, AtRest, SetupStage, InStage,
         StatusStage, OutStage, Clear, Sent, Answered
<1>7. Addressed'
  BY <1>1, <1>2, <1>3, <1>4 DEF DeviceStays, Lockstep, Places, Addressed, Tokens
<1>8. Bytes' /\ Toggles' /\ Serving'
  BY <1>1, <1>2, <1>3, <1>5, LineOnly
<1> QED BY <1>1, <1>6, <1>7, <1>8, StillOn DEF Lockstep, Places

\* A call begins on a line that is at rest.
LEMMA BeginStep ==
    ASSUME TypeOK, Lockstep, UNCHANGED dOwn, UNCHANGED pullup, NEW c \in Calls, Begin(c),
           toDev = NoPkt, c.addr = devaddr \/ (c.addr = 0 /\ c.kind \in Controls),
           mark' = IF c.kind \in Controls THEN Len(dServed) ELSE -1
    PROVE  Lockstep'
<1>1. DeviceStays /\ UNCHANGED dCtx
  BY HostAlone
<1>2. /\ hPc = "Ready" /\ hCall' = c /\ hDone' = 0 /\ hRx' = <<>>
      /\ c.kind \in Outs \union Ins => c.size > 0
      /\ hPc' = IF c.kind \in Controls THEN "CheckSof"
                ELSE IF c.kind \in Outs THEN "OutTok" ELSE "InTok"
      /\ UNCHANGED <<hEpdata0, hIn, toDev, toHost>>
  BY DEF Begin, Counted, lineVars
<1>3. toDev.pid = "NONE" /\ toDev'.pid = "NONE"
  BY <1>2, HshkPids
<1>4. dPc = "Run" /\ toHost = NoPkt
  BY <1>2, <1>3
     DEF Lockstep, Places, InStep, AtRest, SetupStage, InStage, StatusStage, OutStage,
         Clear, Sent, Answered
<1>5. c.kind \in Controls \union {"out", "in"} /\ Usual(c) /\ c.endp \in 0..255
      /\ c.size \in Nat
  BY CallsAssumption DEF Lockstep, Quiet, Usual, Outs, Ins
<1>6. c.kind = "none" \/ hCall.kind = "none"
  BY <1>2, KindsAt DEF Lockstep
<1>7. InStep'
  BY <1>1, <1>2, <1>4, <1>5
     DEF DeviceStays, InStep, AtRest, SetupStage, InStage, OutStage, Clear, Outs, Controls
<1>8. Addressed'
  BY <1>1, <1>2, <1>3, <1>4, <1>5
     DEF DeviceStays, Lockstep, Places, Addressed, Tokens, Outs, Controls, Descs, Sets
<1>9. InTransfer' /\ RxWhole'
  BY <1>1, <1>2, <1>4 DEF DeviceStays, InTransfer, RxWhole, Transferring, Whole
<1>10. ControlIn'
  BY <1>1, <1>2, <1>4, <1>5
     DEF DeviceStays, ControlIn, Transferring, Outs
<1>11. BulkIn'
  <2>1. hIn = dIn
    BY <1>4, Numbers DEF Lockstep, Bytes, BulkIn, DataIn, Transferring
  <2>2. \A n \in InSizes : \E k \in 0..0 : 0 = k * n + 0
    OBVIOUS
  <2>3. ~DataIn'
    BY <1>1, <1>4 DEF DeviceStays, DataIn, Transferring
  <2> QED BY <1>1, <1>2, <2>1, <2>2, <2>3, Numbers DEF DeviceStays, BulkIn, Ins
<1>12. Toggles'
  <2>1. hCall.kind = "none"
    BY <1>2, KindsAt DEF Lockstep
  <2>2. hCall.kind \notin Controls
    BY <2>1 DEF Controls, Descs, Sets
  <2>3. ControlToggles'
    BY <1>1, <1>2, <1>4, <2>2
       DEF DeviceStays, Lockstep, Toggles, ControlToggles, DataIn, Transferring
  <2>4. InToggles'
    BY <1>1, <1>2, <1>4, <2>1
       DEF DeviceStays, Lockstep, Toggles, InToggles, DataIn, Transferring
  <2> QED BY <2>3, <2>4 DEF Toggles
<1>13. Serving'
  BY <1>1, <1>2, <1>5 DEF DeviceStays, Serving, Unserved, Outs, Ins, Controls, Descs, Sets
<1> QED BY <1>1, <1>7, <1>8, <1>9, <1>10, <1>11, <1>12, <1>13, StillOn
        DEF Lockstep, Places, Bytes

\* Both sides' flags, and endpoint 0 among their endpoints.
LEMMA FlagFacts ==
    ASSUME TypeOK
    PROVE  hEpdata0 \in Flags /\ dEpdata0 \in Flags /\ ephalted \in Flags
           /\ 0 \in 0..255 /\ 1 \in 0..255 /\ EpIdx(0) = 0 /\ EpIdx(0) \in EP
BY HostFacts, EndpFields DEF TypeOK, DeviceTypeOK, StateOK

LEMMA SetupDataStep ==
    ASSUME TypeOK, Lockstep, UNCHANGED dOwn, UNCHANGED <<pullup, mark>>, SendSetupData
    PROVE  Lockstep'
<1>1. DeviceStays /\ UNCHANGED dCtx
  BY HostAlone
<1>2. /\ hPc = "SetupData" /\ hPc' = "SetupAck" /\ toDev = NoPkt /\ toHost' = NoPkt
      /\ UNCHANGED <<hCall, hDone, hRx, hIn, mark>>
      /\ toDev' = SetupData(hCall.req)
      /\ hEpdata0' = SetFlag(hEpdata0, hCall.endp, FALSE)
  BY DEF SendSetupData, Send, At
<1>3. toDev.pid = "NONE" /\ toDev'.pid = "DATA0" /\ toDev'.len = 8 /\ toDev'.req = hCall.req
  BY <1>2, HshkPids, PktFields DEF SetupData
<1>4. dPc = "SetupData" /\ toHost = NoPkt
  BY <1>2, <1>3
     DEF Lockstep, Places, InStep, AtRest, SetupStage, InStage, StatusStage, OutStage,
         Clear, Sent, Answered
<1>5. hCall.endp = 0 /\ hCall.kind \in Controls
  BY <1>2, KindsAt, EndpointsInUse DEF Lockstep
<1>6. /\ dataPid(hEpdata0', 0) = "DATA1"
      /\ \A e \in InEndps : dataPid(hEpdata0', e) = dataPid(hEpdata0, e)
  <2>1. hEpdata0 \in Flags
    BY FlagFacts
  <2>2. hEpdata0' = SetFlag(hEpdata0, 0, FALSE)
    BY Zenon, <1>2, <1>5
  <2> QED BY Zenon, <2>1, <2>2, ControlSet
<1>7. InStep'
  BY <1>1, <1>2, <1>3, <1>4 DEF DeviceStays, InStep, SetupStage, Sent
<1>8. Addressed'
  BY <1>1, <1>2, <1>3, <1>4, <1>5
     DEF DeviceStays, Lockstep, Places, Addressed, Tokens, Controls, Descs, Sets
<1>9. InTransfer' /\ ControlIn'
  BY <1>1, <1>2, <1>4
     DEF DeviceStays, Lockstep, Bytes, InTransfer, ControlIn, Transferring
<1>10. BulkIn' /\ RxWhole'
  BY <1>1, <1>2, <1>4, <1>5
     DEF DeviceStays, Lockstep, Bytes, BulkIn, RxWhole, DataIn, Transferring, Whole, Controls,
         Descs, Sets
<1>11. ControlToggles' /\ InToggles'
  BY <1>1, <1>2, <1>4, <1>5, <1>6
     DEF DeviceStays, Lockstep, Toggles, ControlToggles, InToggles, DataIn, Transferring
<1>12. Serving'
  BY <1>1, <1>2, <1>4 DEF DeviceStays, Lockstep, Serving, Unserved
<1> QED BY <1>1, <1>7, <1>8, <1>9, <1>10, <1>11, <1>12, StillOn
        DEF Lockstep, Places, Bytes, Toggles

LEMMA SetupAckStep ==
    ASSUME TypeOK, Lockstep, UNCHANGED dOwn, UNCHANGED <<pullup, mark>>, SetupAck
    PROVE  Lockstep'
<1>1. DeviceStays /\ UNCHANGED dCtx
  BY HostAlone
<1>2. hPc = "SetupAck" /\ toHost # NoPkt /\ toHost' = NoPkt
      /\ UNCHANGED <<hDone, hEpdata0, hIn, hRx, toDev>>
  BY DEF SetupAck, waitForAck, Hear
<1>3. /\ toDev = NoPkt /\ toHost.pid = "ACK"
      /\ \/ dPc = "StatusIn" /\ hCall.kind \in Sets
         \/ dPc = "InToken" /\ hCall.kind \notin Sets
  BY <1>2, HshkPids
     DEF Lockstep, Places, InStep, AtRest, SetupStage, InStage, StatusStage, OutStage,
         Clear, Sent, Answered
<1>4. /\ hPc' = IF hCall.kind \in Sets THEN "StatusInTok" ELSE "InTok"
      /\ UNCHANGED hCall
  BY <1>3 DEF SetupAck, waitForAck, At
<1>5. toDev.pid = "NONE"
  BY <1>3, HshkPids
<1>6. InStep'
  BY <1>1, <1>2, <1>3, <1>4 DEF DeviceStays, InStep, InStage, StatusStage, Clear
<1>7. Addressed'
  BY <1>1, <1>2, <1>3, <1>4, <1>5
     DEF DeviceStays, Lockstep, Places, Addressed, Tokens
<1>8. InTransfer' /\ ControlIn'
  BY <1>1, <1>2, <1>3, <1>4
     DEF DeviceStays, Lockstep, Bytes, InTransfer, ControlIn, Transferring, AnswerSize, Gained
<1>9. BulkIn' /\ RxWhole'
  BY <1>1, <1>2, <1>3, <1>4
     DEF DeviceStays, Lockstep, Bytes, BulkIn, RxWhole, DataIn, Transferring, Whole, Gained
<1>10. ControlToggles' /\ InToggles'
  BY <1>1, <1>2, <1>3, <1>4
     DEF DeviceStays, Lockstep, Toggles, ControlToggles, InToggles, DataIn, Transferring
<1>11. Serving'
  BY <1>1, <1>2, <1>3, <1>4 DEF DeviceStays, Lockstep, Serving, Unserved
<1> QED BY <1>1, <1>6, <1>7, <1>8, <1>9, <1>10, <1>11, StillOn
        DEF Lockstep, Places, Bytes, Toggles

\* The zero-length packet of the status stage, and its answer.
LEMMA StatusDataStep ==
    ASSUME TypeOK, Lockstep, UNCHANGED dOwn, UNCHANGED <<pullup, mark>>, SendStatusData
    PROVE  Lockstep'
<1>1. DeviceStays /\ UNCHANGED dCtx
  BY HostAlone
<1>2. /\ hPc = "StatusOutData" /\ hPc' = "StatusOutAck" /\ toDev = NoPkt /\ toHost' = NoPkt
      /\ UNCHANGED <<hCall, hDone, hRx, hIn, mark>>
      /\ toDev' = Data("DATA1", 0, 0)
      /\ hEpdata0' = SetFlag(hEpdata0, hCall.endp, TRUE)
  BY DEF SendStatusData, Send, At
<1>3. toDev.pid = "NONE" /\ toDev'.pid = "DATA1"
  BY <1>2, HshkPids, SentPids
<1>4. dPc = "StatusData" /\ toHost = NoPkt
  BY <1>2, <1>3
     DEF Lockstep, Places, InStep, AtRest, SetupStage, InStage, StatusStage, OutStage,
         Clear, Sent, Answered
<1>5. hCall.endp = 0 /\ hCall.kind \in {"get"} \union Descs
  BY <1>2, KindsAt, EndpointsInUse DEF Lockstep, Controls
<1>6. /\ dataPid(hEpdata0', 0) = "DATA0"
      /\ \A e \in InEndps : dataPid(hEpdata0', e) = dataPid(hEpdata0, e)
  <2>1. hEpdata0 \in Flags
    BY FlagFacts
  <2>2. hEpdata0' = SetFlag(hEpdata0, 0, TRUE)
    BY Zenon, <1>2, <1>5
  <2> QED BY Zenon, <2>1, <2>2, ControlSet
<1>7. InStep'
  BY <1>1, <1>2, <1>3, <1>4 DEF DeviceStays, InStep, StatusStage, Sent
<1>8. Addressed'
  BY <1>1, <1>2, <1>3, <1>4, <1>5
     DEF DeviceStays, Lockstep, Places, Addressed, Tokens, Descs
<1>9. InTransfer' /\ ControlIn'
  BY <1>1, <1>2, <1>4
     DEF DeviceStays, Lockstep, Bytes, InTransfer, ControlIn, Transferring, AnswerSize
<1>10. BulkIn' /\ RxWhole'
  BY <1>1, <1>2, <1>4, <1>5
     DEF DeviceStays, Lockstep, Bytes, BulkIn, RxWhole, DataIn, Transferring, Whole, Descs
<1>11. ControlToggles' /\ InToggles'
  BY <1>1, <1>2, <1>4, <1>5, <1>6
     DEF DeviceStays, Lockstep, Toggles, ControlToggles, InToggles, DataIn, Transferring
<1>12. Serving'
  BY <1>1, <1>2, <1>4 DEF DeviceStays, Lockstep, Serving, Unserved
<1> QED BY <1>1, <1>7, <1>8, <1>9, <1>10, <1>11, <1>12, StillOn
        DEF Lockstep, Places, Bytes, Toggles

LEMMA StatusAckStep ==
    ASSUME TypeOK, Lockstep, UNCHANGED dOwn, UNCHANGED <<pullup, mark>>,
           waitForAck("StatusOutAck", Succeed, Fail)
    PROVE  Lockstep'
<1>1. DeviceStays /\ UNCHANGED dCtx
  BY HostAlone
<1>2. hPc = "StatusOutAck" /\ toHost # NoPkt /\ toHost' = NoPkt
      /\ UNCHANGED <<hDone, hEpdata0, hIn, hRx, toDev>>
  BY DEF waitForAck, Hear
<1>3. toDev = NoPkt /\ toHost.pid = "ACK" /\ dPc = "Run"
  BY <1>2, HshkPids
     DEF Lockstep, Places, InStep, AtRest, SetupStage, InStage, StatusStage, OutStage,
         Clear, Sent, Answered
<1>4. hPc' = "Ready" /\ hCall' = NoCall
  BY <1>3 DEF waitForAck, Succeed, Finish
<1>5. toDev.pid = "NONE" /\ hCall'.kind = "none"
  BY <1>3, <1>4, HshkPids, NoCallTyped
<1>6. hCall.kind \in {"get"} \union Descs
  BY <1>2, KindsAt DEF Lockstep
<1>7. InStep'
  BY <1>1, <1>2, <1>3, <1>4 DEF DeviceStays, InStep, AtRest
<1>8. Addressed'
  BY <1>1, <1>2, <1>3, <1>4, <1>5
     DEF DeviceStays, Lockstep, Places, Addressed, Tokens
<1>9. InTransfer' /\ ControlIn'
  BY <1>1, <1>2, <1>3, <1>4 DEF DeviceStays, InTransfer, ControlIn, Transferring
<1>10. BulkIn' /\ RxWhole'
  BY <1>1, <1>2, <1>3, <1>5
     DEF DeviceStays, Lockstep, Bytes, BulkIn, RxWhole, DataIn, Transferring, Controls, Descs,
         Sets
<1>11. ControlToggles' /\ InToggles'
  BY <1>1, <1>2, <1>3, <1>4, <1>5, <1>6
     DEF DeviceStays, Lockstep, Toggles, ControlToggles, InToggles, DataIn, Transferring,
         Controls, Descs, Sets
<1>12. Serving'
  BY <1>5 DEF Serving, Ins, Outs, Controls, Descs, Sets
<1> QED BY <1>1, <1>7, <1>8, <1>9, <1>10, <1>11, <1>12, StillOn
        DEF Lockstep, Places, Bytes, Toggles

LEMMA StatusInStep ==
    ASSUME TypeOK, Lockstep, UNCHANGED dOwn, UNCHANGED <<pullup, mark>>, StatusInData
    PROVE  Lockstep'
<1>1. DeviceStays /\ UNCHANGED dCtx
  BY HostAlone
<1>2. hPc = "StatusInData" /\ toHost # NoPkt /\ toHost' = NoPkt
      /\ UNCHANGED <<hDone, hIn, hRx>>
  BY DEF StatusInData, Hear
<1>3. toDev = NoPkt /\ toHost.pid = "DATA1" /\ dPc = "StatusAck"
  BY <1>2, HshkPids
     DEF Lockstep, Places, InStep, AtRest, SetupStage, InStage, StatusStage, OutStage,
         Clear, Sent, Answered
<1>4. /\ hPc' = "Ready" /\ hCall' = NoCall /\ toDev' = Hshk("ACK")
      /\ hEpdata0' = dataPidUpdate(hEpdata0, hCall.endp)
  BY <1>3 DEF StatusInData, Succeed, Finish
<1>5. toDev.pid = "NONE" /\ toDev'.pid = "ACK" /\ hCall'.kind = "none"
  BY <1>3, <1>4, HshkPids, NoCallTyped
<1>6. hCall.kind \in Sets /\ hCall.endp = 0
  BY <1>2, KindsAt, EndpointsInUse DEF Lockstep, Controls
<1>7. /\ dataPid(hEpdata0', 0) = "DATA0"
      /\ \A e \in InEndps : dataPid(hEpdata0', e) = dataPid(hEpdata0, e)
  <2>1. hEpdata0 \in Flags
    BY FlagFacts
  <2>2. hEpdata0' = dataPidUpdate(hEpdata0, 0)
    BY Zenon, <1>4, <1>6
  <2>3. /\ dataPid(hEpdata0', 0) # dataPid(hEpdata0, 0)
        /\ \A e \in InEndps : dataPid(hEpdata0', e) = dataPid(hEpdata0, e)
    BY Zenon, <2>1, <2>2, ControlSet
  <2>4. dataPid(hEpdata0, 0) = "DATA1"
    BY <1>2 DEF Lockstep, Toggles, ControlToggles
  <2> QED BY <2>3, <2>4, PidOf DEF DataPids
<1>8. InStep'
  BY <1>1, <1>2, <1>3, <1>4, <1>5 DEF DeviceStays, InStep, AtRest, Sent
<1>9. Addressed'
  BY <1>1, <1>2, <1>3, <1>4, <1>5
     DEF DeviceStays, Lockstep, Places, Addressed, Tokens
<1>10. InTransfer' /\ ControlIn'
  BY <1>1, <1>2, <1>3, <1>4
     DEF DeviceStays, Lockstep, Bytes, InTransfer, ControlIn, Transferring
<1>11. BulkIn' /\ RxWhole'
  BY <1>1, <1>2, <1>3, <1>5
     DEF DeviceStays, Lockstep, Bytes, BulkIn, RxWhole, DataIn, Transferring, Controls, Descs,
         Sets
<1>12. ControlToggles' /\ InToggles'
  BY <1>1, <1>2, <1>3, <1>4, <1>5, <1>6, <1>7
     DEF DeviceStays, Lockstep, Toggles, ControlToggles, InToggles, DataIn, Transferring,
         Controls, Descs, Sets
<1>13. Serving'
  BY <1>5 DEF Serving, Ins, Outs, Controls, Descs, Sets
<1> QED BY <1>1, <1>8, <1>9, <1>10, <1>11, <1>12, <1>13, StillOn
        DEF Lockstep, Places, Bytes, Toggles

LEMMA SendOutStep ==
    ASSUME TypeOK, Lockstep, UNCHANGED dOwn, UNCHANGED <<pullup, mark>>, SendOutData
    PROVE  Lockstep'
<1>1. DeviceStays /\ UNCHANGED dCtx
  BY HostAlone
<1>2. hPc = "OutData"
  BY DEF SendOutData
<1>3. hCall.kind = "out" /\ hCall.endp = 1
  BY <1>2, KindsAt, EndpointsInUse DEF Lockstep
<1>4. /\ hPc' = "OutAck" /\ toDev = NoPkt /\ toHost' = NoPkt
      /\ UNCHANGED <<hCall, hDone, hRx, hIn, mark>>
      /\ toDev' = Data(dataPid(hEpdata0, hCall.endp), hOut + hDone, OutSize)
      /\ hEpdata0' = dataPidUpdate(hEpdata0, hCall.endp)
  BY <1>3, QuietPacket DEF SendOutData, Send, At, Lockstep
<1>5. toDev.pid = "NONE" /\ toDev'.pid \in DataPids
  BY <1>4, HshkPids, SentPids, PidOf
<1>6. dPc = "OutData" /\ toHost = NoPkt
  BY <1>2, <1>4, <1>5
     DEF Lockstep, Places, InStep, AtRest, SetupStage, InStage, StatusStage, OutStage,
         Clear, Sent, Answered
<1>7. /\ dataPid(hEpdata0', 0) = dataPid(hEpdata0, 0)
      /\ \A e \in InEndps : dataPid(hEpdata0', e) = dataPid(hEpdata0, e)
  <2>1. hEpdata0 \in Flags /\ 1 \in 0..255 /\ EpIdx(1) # 0 /\ EpDir(1) = 0
    BY FlagFacts, EndpFields
  <2>2. hEpdata0' = dataPidUpdate(hEpdata0, 1)
    BY Zenon, <1>3, <1>4
  <2> QED BY Zenon, <2>1, <2>2, InUntouched, ControlUntouched
<1>8. InStep'
  BY <1>1, <1>2, <1>4, <1>5, <1>6 DEF DeviceStays, InStep, OutStage, Sent, DataPids
<1>9. Addressed'
  BY <1>1, <1>2, <1>4, <1>5, <1>6
     DEF DeviceStays, Lockstep, Places, Addressed, Tokens, DataPids
<1>10. InTransfer' /\ ControlIn'
  BY <1>1, <1>2, <1>4, <1>6
     DEF DeviceStays, Lockstep, Bytes, InTransfer, ControlIn, Transferring
<1>11. BulkIn' /\ RxWhole'
  BY <1>1, <1>2, <1>3, <1>4, <1>6
     DEF DeviceStays, Lockstep, Bytes, BulkIn, RxWhole, DataIn, Transferring, Controls, Descs,
         Sets
<1>12. ControlToggles' /\ InToggles'
  BY <1>1, <1>2, <1>3, <1>4, <1>6, <1>7
     DEF DeviceStays, Lockstep, Toggles, ControlToggles, InToggles, DataIn, Transferring,
         Controls, Descs, Sets
<1>13. Serving'
  BY <1>1, <1>3, <1>4 DEF DeviceStays, Lockstep, Serving, Controls, Descs, Sets
<1> QED BY <1>1, <1>8, <1>9, <1>10, <1>11, <1>12, <1>13, StillOn
        DEF Lockstep, Places, Bytes, Toggles

LEMMA OutAnswerStep ==
    ASSUME TypeOK, Lockstep, UNCHANGED dOwn, UNCHANGED <<pullup, mark>>, OutAnswer
    PROVE  Lockstep'
<1>1. DeviceStays /\ UNCHANGED dCtx
  BY HostAlone
<1>2. /\ hPc = "OutAck" /\ toHost # NoPkt /\ toHost' = NoPkt
      /\ UNCHANGED <<hEpdata0, hIn, hRx, toDev>>
      /\ \/ hPc' = "OutTok" /\ hCall' = hCall
         \/ hPc' = "Ready" /\ hCall' = NoCall
  BY DEF OutAnswer, Hear, At, Fail, Succeed, Finish
<1>3. toDev = NoPkt /\ dPc = "Run"
  BY <1>2, HshkPids
     DEF Lockstep, Places, InStep, AtRest, SetupStage, InStage, StatusStage, OutStage,
         Clear, Sent, Answered
<1>4. toDev.pid = "NONE" /\ NoCall.kind = "none" /\ hCall.kind = "out"
  BY <1>2, <1>3, HshkPids, NoCallTyped, KindsAt DEF Lockstep
<1>5. InStep'
  BY <1>1, <1>2, <1>3 DEF DeviceStays, InStep, AtRest, OutStage, Clear
<1>6. Addressed'
  BY <1>1, <1>2, <1>3, <1>4
     DEF DeviceStays, Lockstep, Places, Addressed, Tokens
<1>7. InTransfer' /\ ControlIn'
  BY <1>1, <1>2, <1>3 DEF DeviceStays, InTransfer, ControlIn, Transferring
<1>8. BulkIn' /\ RxWhole'
  BY <1>1, <1>2, <1>3, <1>4
     DEF DeviceStays, Lockstep, Bytes, BulkIn, RxWhole, DataIn, Transferring, Controls, Descs,
         Sets
<1>9. ControlToggles' /\ InToggles'
  BY <1>1, <1>2, <1>3, <1>4
     DEF DeviceStays, Lockstep, Toggles, ControlToggles, InToggles, DataIn, Transferring,
         Controls, Descs, Sets
<1>10. Serving'
  BY <1>1, <1>2, <1>4 DEF DeviceStays, Lockstep, Serving, Ins, Outs, Controls, Descs, Sets
<1> QED BY <1>1, <1>5, <1>6, <1>7, <1>8, <1>9, <1>10, StillOn
        DEF Lockstep, Places, Bytes, Toggles

\* The device is there, so the host never finds it gone.
LEMMA NeverDisconnected == ASSUME TypeOK, Lockstep, Disconnected PROVE FALSE
BY DEF Disconnected, Listening, Lockstep, Places, DeviceOn, InStep, AtRest, SetupStage, InStage,
       StatusStage, OutStage

-----------------------------------------------------------------------------
(***************************************************************************)
(* The data packet of an IN transfer, as the host takes it.                *)
(***************************************************************************)
LEMMA DataPlace ==
    ASSUME TypeOK, Lockstep, hPc = "InData", toHost # NoPkt
    PROVE  /\ toDev = NoPkt /\ toDev.pid = "NONE"
           /\ \/ /\ dPc = "InHshk" /\ toHost.pid = dataPid(hEpdata0, hCall.endp)
                 /\ toHost.off = dCtx.base + dCtx.sent /\ toHost.len = Chunk(dCtx)
                 /\ dCtx.sent < dCtx.size /\ Gained = dCtx.sent
                 /\ dCtx.ctl <=> hCall.kind # "in"
              \/ /\ dPc = "Run" /\ hCall.kind = "in" /\ "NAK" \in Responses
                 /\ toHost.pid # dataPid(hEpdata0, hCall.endp)
<1>1. /\ toDev = NoPkt
      /\ \/ dPc = "InHshk"
         \/ /\ dPc = "Run" /\ hCall.kind = "in" /\ "NAK" \in Responses
            /\ toHost.pid = "NAK"
  BY HshkPids
     DEF Lockstep, Places, InStep, AtRest, SetupStage, InStage, StatusStage, OutStage,
         Clear, Sent, Answered
<1>2. toDev.pid = "NONE"
  BY <1>1, HshkPids
<1>3. CASE dPc = "InHshk"
  <2>1. /\ toHost.off = dCtx.base + dCtx.sent /\ toHost.len = Chunk(dCtx)
        /\ toHost.pid = dataPid(dEpdata0, dCtx.endp)
        /\ dCtx.sent < dCtx.size /\ (dCtx.ctl => dCtx.endp = 0)
        /\ dCtx.ctl <=> hCall.kind # "in"
    BY <1>1, <1>3 DEF Lockstep, Bytes, InTransfer, Transferring
  <2>2. Gained = dCtx.sent
    BY <1>2, Numbers DEF Gained
  <2>3. hCall.kind \in {"get", "in"} \union Descs
    BY KindsAt DEF Lockstep
  <2>4. CASE dCtx.ctl
    <3>1. hCall.endp = 0
      BY <2>1, <2>3, <2>4, EndpointsInUse DEF Lockstep, Controls
    <3>2. dataPid(hEpdata0, 0) = dataPid(dEpdata0, 0)
      BY <1>2, <1>3, <2>4 DEF Lockstep, Toggles, ControlToggles, Transferring
    <3> QED BY <1>1, <1>2, <1>3, <2>1, <2>2, <2>4, <3>1, <3>2
  <2>5. CASE ~dCtx.ctl
    <3>1. /\ hCall.endp \in 128..255 /\ EpIdx(hCall.endp) \in EP /\ EpDir(hCall.endp) = 1
      BY <2>1, <2>5, EndpointsInUse DEF Lockstep
    <3>2. EpIdx(dCtx.endp) = EpIdx(hCall.endp) /\ EpDir(dCtx.endp) = 1
      BY <1>3, <2>5 DEF Lockstep, Bytes, BulkIn, DataIn, Transferring
    <3>3. dataPid(dEpdata0, dCtx.endp) = dataPid(dEpdata0, hCall.endp)
      BY <3>1, <3>2, PidSame
    <3>4. dataPid(hEpdata0, hCall.endp) = dataPid(dEpdata0, hCall.endp)
      BY <1>2, <3>1 DEF Lockstep, Toggles, InToggles, InEndps
    <3> QED BY <1>1, <1>2, <1>3, <2>1, <2>2, <2>5, <3>3, <3>4
  <2> QED BY <2>4, <2>5
<1>4. CASE toHost.pid = "NAK" /\ dPc = "Run"
  BY <1>1, <1>2, <1>4, PidOf DEF DataPids
<1> QED BY <1>1, <1>3, <1>4

LEMMA DataFailsStep ==
    ASSUME TypeOK, Lockstep, UNCHANGED dOwn, UNCHANGED <<pullup, mark>>, DataFails
    PROVE  Lockstep'
<1>1. DeviceStays /\ UNCHANGED dCtx
  BY HostAlone
<1>2. /\ hPc = "InData" /\ toHost # NoPkt /\ toHost' = NoPkt
      /\ toHost.pid # dataPid(hEpdata0, hCall.endp)
      /\ UNCHANGED <<hDone, hEpdata0, hIn, hRx, toDev>>
  BY DEF DataFails, Hear
<1>3. /\ toDev = NoPkt /\ toDev.pid = "NONE" /\ dPc = "Run" /\ hCall.kind = "in"
      /\ "NAK" \in Responses
  BY <1>2, DataPlace
<1>4. hPc' = "Ready" /\ hCall' = NoCall /\ hCall'.kind = "none"
  BY <1>3, NoCallTyped DEF DataFails, DataError, Descs, Fail, Finish
<1>5. ResetSeenAs = {}
  BY <1>3 DEF Lockstep, Quiet, EvenReads
<1>6. InStep'
  BY <1>1, <1>2, <1>3, <1>4 DEF DeviceStays, InStep, AtRest
<1>7. Addressed'
  BY <1>1, <1>2, <1>3, <1>4
     DEF DeviceStays, Lockstep, Places, Addressed, Tokens
<1>8. InTransfer' /\ ControlIn'
  BY <1>1, <1>2, <1>3, <1>4 DEF DeviceStays, InTransfer, ControlIn, Transferring
<1>9. BulkIn' /\ RxWhole'
  BY <1>1, <1>2, <1>3, <1>4
     DEF DeviceStays, Lockstep, Bytes, BulkIn, RxWhole, DataIn, Transferring, Controls, Descs,
         Sets
<1>10. ControlToggles' /\ InToggles'
  BY <1>1, <1>2, <1>3, <1>4, <1>5
     DEF DeviceStays, Lockstep, Toggles, ControlToggles, InToggles, DataIn, Transferring,
         Controls, Descs, Sets
<1>11. Serving'
  BY <1>4 DEF Serving, Ins, Outs, Controls, Descs, Sets
<1> QED BY <1>1, <1>6, <1>7, <1>8, <1>9, <1>10, <1>11, StillOn
        DEF Lockstep, Places, Bytes, Toggles

\* A data packet of a control read: the descriptor, or the status asked for.
LEMMA ControlDataStep ==
    ASSUME TypeOK, Lockstep, UNCHANGED dOwn, UNCHANGED <<pullup, mark>>, DataArrives,
           hCall.kind # "in"
    PROVE  Lockstep'
<1> DEFINE done == hDone + toHost.len
<1>1. DeviceStays /\ UNCHANGED dCtx
  BY HostAlone
<1>2. hCall.kind \in {"get"} \union Descs /\ hCall.endp = 0 /\ hCall.kind \notin Ins
      /\ hCall.kind \in Controls /\ hCall.kind \notin Sets
  <2>1. hPc = "InData"
    BY DEF DataArrives, Hear
  <2> QED BY <2>1, KindsAt, EndpointsInUse DEF Lockstep, Controls, Descs, Ins, Sets
<1>3. /\ hPc = "InData" /\ toHost # NoPkt /\ toHost' = NoPkt
      /\ toHost.pid = dataPid(hEpdata0, hCall.endp)
      /\ hDone' = done /\ hRx' = Append(hRx, <<toHost.off, toHost.len>>) /\ hIn' = hIn
      /\ hEpdata0' = dataPidUpdate(hEpdata0, hCall.endp)
      /\ toDev' = Hshk("ACK") /\ AfterData(done)
  BY Zenon, <1>2 DEF DataArrives, Hear, Descs
<1>4. /\ toDev = NoPkt /\ toDev.pid = "NONE" /\ dPc = "InHshk" /\ dCtx.ctl
      /\ toHost.off = dCtx.base + dCtx.sent /\ toHost.len = Chunk(dCtx)
      /\ dCtx.sent < dCtx.size /\ Gained = dCtx.sent
  BY <1>3, DataPlace
<1>5. toDev'.pid = "ACK" /\ Chunk(dCtx)' = Chunk(dCtx)
  BY <1>1, <1>3, HshkPids DEF Chunk
<1>6. /\ dCtx.base = 0 /\ dCtx.endp = 0 /\ dCtx.size = AnswerSize(hCall) /\ hDone = dCtx.sent
  BY <1>4 DEF Lockstep, Bytes, ControlIn, InTransfer, Transferring
<1>7. done = dCtx.sent + Chunk(dCtx) /\ done > 0 /\ done <= dCtx.size /\ done \in Nat
  BY <1>4, <1>6, Numbers
<1>8. /\ \/ hPc' = "InTok" /\ More
         \/ hPc' = "StatusOutTok" /\ ~More
      /\ hCall' = hCall
  <2>1. CASE hCall.kind = "get"
    <3>1. dCtx.size <= MAXPKT
      BY <1>3, <1>6, <2>1, CallUsual DEF Lockstep, Usual, GetOf, AnswerSize
    <3>2. ~More
      BY <3>1, Numbers DEF More, Chunk, MinOf
    <3>3. At("StatusOutTok")
      BY <1>3, <2>1 DEF AfterData, Descs, Ins
    <3> QED BY <3>2, <3>3 DEF At
  <2>2. CASE hCall.kind \in Descs
    <3>1. /\ DescSize[hCall.req.desc] \in Nat /\ hCall.size \in Nat
          /\ hCall.chklen => hCall.size <= DescSize[hCall.req.desc]
      BY <1>3, <2>2, CallUsual, CallTyped, Numbers DEF Lockstep, Usual, DescOf, TypeOK
    <3>2. dCtx.size = MinOf(hCall.size, DescSize[hCall.req.desc])
      BY <1>6, <2>2 DEF AnswerSize, Descs
    <3>3. DescPending(done) <=> More
      BY <1>7, <3>1, <3>2 DEF DescPending, More, MinOf
    <3>4. IF DescPending(done) THEN At("InTok") ELSE EndDescriptor(done)
      BY <1>3, <2>2 DEF AfterData, Descs, Ins
    <3>5. CASE DescPending(done)
      BY <3>3, <3>4, <3>5 DEF At
    <3>6. CASE ~DescPending(done)
      <4>1. ~(hCall.chklen /\ done # hCall.size)
        BY <1>7, <3>1, <3>2, <3>3, <3>6, Numbers DEF More, MinOf
      <4> QED BY <3>3, <3>4, <3>6, <4>1 DEF EndDescriptor, At
    <3> QED BY <3>5, <3>6
  <2> QED BY <1>2, <2>1, <2>2
<1>9. /\ dataPid(hEpdata0', 0) # dataPid(hEpdata0, 0)
      /\ \A e \in InEndps : dataPid(hEpdata0', e) = dataPid(hEpdata0, e)
  <2>1. hEpdata0 \in Flags
    BY FlagFacts
  <2>2. hEpdata0' = dataPidUpdate(hEpdata0, 0)
    BY Zenon, <1>2, <1>3
  <2> QED BY Zenon, <2>1, <2>2, ControlSet
<1>10. InStep'
  BY <1>1, <1>3, <1>4, <1>5, <1>8 DEF DeviceStays, InStep, InStage, Sent, More
<1>11. Addressed'
  BY <1>1, <1>3, <1>4, <1>5, <1>8
     DEF DeviceStays, Lockstep, Places, Addressed, Tokens
<1>12. InTransfer'
  BY <1>1, <1>3, <1>4, <1>5, <1>6, <1>8, HshkPids
     DEF DeviceStays, Lockstep, Bytes, InTransfer, Transferring
<1>13. ControlIn'
  <2>1. Gained' = done
    BY <1>1, <1>4, <1>5, <1>7 DEF Gained
  <2>2. ~More => done = dCtx.size
    BY <1>7, Numbers DEF More
  <2> QED BY <1>1, <1>3, <1>4, <1>6, <1>8, <2>1, <2>2
          DEF DeviceStays, Lockstep, Bytes, ControlIn, Transferring, AnswerSize
<1>14. BulkIn'
  BY <1>1, <1>2, <1>3, <1>4, <1>8 DEF DeviceStays, Lockstep, Bytes, BulkIn, DataIn, Ins
<1>15. RxWhole'
  <2>1. /\ Whole(hRx)
        /\ hDone = IF hRx = <<>> THEN 0 ELSE hRx[Len(hRx)][1] + hRx[Len(hRx)][2]
    BY <1>2 DEF Lockstep, Bytes, RxWhole
  <2>2. hRx \in Seq(Nat \X Nat) /\ toHost.off = hDone /\ toHost.off \in Nat /\ toHost.len \in Nat
    BY <1>4, <1>6, Numbers, HostFacts DEF TypeOK
  <2>3. /\ Len(hRx') = Len(hRx) + 1 /\ Len(hRx) \in Nat
        /\ \A i \in 1..Len(hRx) : hRx'[i] = hRx[i]
        /\ hRx'[Len(hRx) + 1] = <<toHost.off, toHost.len>>
    BY <1>3, <2>2
  <2>4. hRx = <<>> <=> Len(hRx) = 0
    BY <2>2
  <2>5. Whole(hRx')
    <3> SUFFICES ASSUME NEW i \in 1..Len(hRx')
                 PROVE  hRx'[i][1] = IF i = 1 THEN 0 ELSE hRx'[i-1][1] + hRx'[i-1][2]
      BY DEF Whole
    <3>1. CASE i \in 1..Len(hRx)
      <4>1. hRx[i][1] = IF i = 1 THEN 0 ELSE hRx[i-1][1] + hRx[i-1][2]
        BY <2>1, <3>1 DEF Whole
      <4>2. hRx'[i] = hRx[i] /\ (i # 1 => hRx'[i-1] = hRx[i-1])
        BY <2>3, <3>1
      <4> QED BY <4>1, <4>2
    <3>2. CASE i = Len(hRx) + 1
      BY <2>1, <2>2, <2>3, <2>4, <3>2
    <3> QED BY <2>3, <3>1, <3>2
  <2>6. hRx'[Len(hRx')] = <<toHost.off, toHost.len>> /\ hRx' # <<>>
    BY <2>2, <2>3
  <2>7. hDone' = toHost.off + toHost.len
    BY <1>3, <1>8, <2>2
  <2> QED BY <2>5, <2>6, <2>7 DEF RxWhole
<1>16. ControlToggles'
  <2>1. dataPid(hEpdata0, 0) = dataPid(dEpdata0, 0)
    BY <1>4 DEF Lockstep, Toggles, ControlToggles, Transferring
  <2> QED BY <1>1, <1>2, <1>4, <1>5, <1>8, <1>9, <2>1
          DEF DeviceStays, ControlToggles, DataIn, Transferring
<1>17. InToggles'
  BY <1>1, <1>2, <1>4, <1>8, <1>9, <1>3
     DEF DeviceStays, Lockstep, Toggles, InToggles, DataIn, Transferring
<1>18. Serving'
  BY <1>1, <1>2, <1>3, <1>4, <1>8 DEF DeviceStays, Lockstep, Serving, Unserved
<1> QED BY <1>1, <1>10, <1>11, <1>12, <1>13, <1>14, <1>15, <1>16, <1>17, <1>18, StillOn
        DEF Lockstep, Places, Bytes, Toggles

LEMMA Multiples ==
    ASSUME NEW k \in Nat, NEW m \in Nat, NEW n \in Nat, k * n < m * n
    PROVE  k * n + n <= m * n
<1>1. k < m
  <2> SUFFICES ASSUME m <= k PROVE FALSE
    OBVIOUS
  <2>1. PICK d \in Nat : k = m + d
    <3>1. k - m \in Nat /\ k = m + (k - m)
      OBVIOUS
    <3> QED BY <3>1
  <2>2. k * n = m * n + d * n /\ d * n \in Nat /\ m * n \in Nat
    BY <2>1
  <2> QED BY <2>2
<1>2. PICK d \in Nat : m = k + 1 + d
  <2>1. m - k - 1 \in Nat /\ m = k + 1 + (m - k - 1)
    BY <1>1
  <2> QED BY <2>1
<1>3. m * n = k * n + n + d * n /\ d * n \in Nat /\ k * n \in Nat
  BY <1>2
<1> QED BY <1>3

\* A data packet of a bulk read.
LEMMA BulkDataStep ==
    ASSUME TypeOK, Lockstep, UNCHANGED dOwn, UNCHANGED <<pullup, mark>>, DataArrives,
           hCall.kind = "in"
    PROVE  Lockstep'
<1> DEFINE done == hDone + toHost.len
<1>1. DeviceStays /\ UNCHANGED dCtx
  BY HostAlone
<1>2. /\ hCall.endp \in 128..255 /\ EpIdx(hCall.endp) \in EP /\ EpDir(hCall.endp) = 1
      /\ hPc \notin {"Start", "Ready"}
  <2>1. hPc \notin {"Start", "Ready"}
    BY DEF DataArrives, Hear
  <2> QED BY <2>1, EndpointsInUse DEF Lockstep
<1>3. /\ hPc = "InData" /\ toHost # NoPkt /\ toHost' = NoPkt
      /\ toHost.pid = dataPid(hEpdata0, hCall.endp)
      /\ hDone' = done /\ hIn' = hIn + toHost.len
      /\ hEpdata0' = dataPidUpdate(hEpdata0, hCall.endp)
      /\ toDev' = Hshk("ACK") /\ AfterData(done)
  BY Zenon DEF DataArrives, Hear, Ins
<1>4. /\ toDev = NoPkt /\ toDev.pid = "NONE" /\ dPc = "InHshk" /\ ~dCtx.ctl
      /\ toHost.len = Chunk(dCtx) /\ dCtx.sent < dCtx.size /\ Gained = dCtx.sent
  BY <1>3, DataPlace
<1>5. toDev'.pid = "ACK" /\ Chunk(dCtx)' = Chunk(dCtx)
  BY <1>1, <1>3, HshkPids DEF Chunk
<1>6. Gained' = dCtx.sent + Chunk(dCtx) /\ DataIn /\ DataIn'
  BY <1>1, <1>4, <1>5 DEF Gained, DataIn, Transferring, DeviceStays
<1>7. /\ hIn = dIn + dCtx.sent /\ dCtx.base = dIn /\ dCtx.size \in InSizes
      /\ EpDir(dCtx.endp) = 1 /\ EpIdx(dCtx.endp) \in EP
      /\ EpIdx(dCtx.endp) = EpIdx(hCall.endp)
      /\ hDone < hCall.size
      /\ \A n \in InSizes : \E k \in 0..hDone : hDone = k * n + dCtx.sent
  BY <1>3, <1>4, <1>6 DEF Lockstep, Bytes, BulkIn
<1>8. \/ /\ done < hCall.size /\ hPc' = "InTok" /\ hCall' = hCall
      \/ /\ done >= hCall.size /\ hPc' = "Ready" /\ hCall' = NoCall
  <2>1. IF done < hCall.size THEN At("InTok") ELSE Succeed
    BY <1>3 DEF AfterData, Descs, Ins
  <2> QED BY <1>4, <2>1, Numbers DEF At, Succeed, Finish
<1>9. NoCall.kind = "none"
  BY NoCallTyped
<1>10. done >= hCall.size => ~More
  <2> SUFFICES ASSUME done >= hCall.size PROVE dCtx.sent + Chunk(dCtx) >= dCtx.size
    BY Numbers DEF More
  <2>1. PICK m \in 0..hCall.size : hCall.size = m * dCtx.size
    BY <1>2, <1>7, CallUsual DEF Lockstep, Usual, InOf
  <2>2. PICK k \in 0..hDone : hDone = k * dCtx.size + dCtx.sent
    BY <1>7
  <2>3. k \in Nat /\ m \in Nat
    BY Numbers
  <2>4. k * dCtx.size \in Nat /\ m * dCtx.size \in Nat
    BY <2>3, Numbers
  <2>5. k * dCtx.size < m * dCtx.size
    BY <1>7, <2>1, <2>2, <2>4, Numbers
  <2>6. k * dCtx.size + dCtx.size <= m * dCtx.size
    BY <2>3, <2>5, Numbers, Multiples
  <2> QED BY <1>4, <2>1, <2>2, <2>4, <2>6, Numbers
<1>11. /\ dataPid(hEpdata0', 0) = dataPid(hEpdata0, 0)
       /\ \A e \in InEndps : IF EpIdx(e) = EpIdx(hCall.endp)
                             THEN dataPid(hEpdata0', e) # dataPid(hEpdata0, e)
                             ELSE dataPid(hEpdata0', e) = dataPid(hEpdata0, e)
  <2>1. hEpdata0 \in Flags
    BY FlagFacts
  <2>2. hEpdata0' = dataPidUpdate(hEpdata0, hCall.endp)
    BY <1>3
  <2>3. hCall.endp \in 0..255 /\ EpDir(hCall.endp) # 0
    BY <1>2
  <2>4. dataPid(hEpdata0', 0) = dataPid(hEpdata0, 0)
    BY Zenon, <2>1, <2>2, <2>3, ControlUntouched
  <2>5. ASSUME NEW e \in InEndps
        PROVE  IF EpIdx(e) = EpIdx(hCall.endp)
               THEN dataPid(hEpdata0', e) # dataPid(hEpdata0, e)
               ELSE dataPid(hEpdata0', e) = dataPid(hEpdata0, e)
    <3>1. e \in 0..255 /\ EpDir(e) = EpDir(hCall.endp) /\ EpIdx(e) \in EP
      BY <1>2, EndpFields DEF InEndps
    <3>2. CASE EpIdx(e) = EpIdx(hCall.endp)
      <4>1. ~Apart(e, hCall.endp) /\ EpIdx(hCall.endp) \in EP
        BY <3>1, <3>2 DEF Apart
      <4> QED BY Zenon, <2>1, <2>2, <2>3, <3>2, <4>1, PidFlip
    <3>3. CASE EpIdx(e) # EpIdx(hCall.endp)
      <4>1. Apart(e, hCall.endp)
        BY <3>3 DEF Apart
      <4> QED BY Zenon, <2>1, <2>2, <3>1, <3>3, <4>1, PidElse
    <3> QED BY Zenon, <3>2, <3>3
  <2> QED BY Zenon, <2>4, <2>5
<1>12. InStep'
  BY <1>1, <1>3, <1>4, <1>5, <1>8, <1>10
     DEF DeviceStays, InStep, AtRest, InStage, Sent, More
<1>13. Addressed'
  BY <1>1, <1>3, <1>4, <1>5, <1>8, <1>9
     DEF DeviceStays, Lockstep, Places, Addressed, Tokens
<1>14. InTransfer' /\ ControlIn'
  BY <1>1, <1>3, <1>4, <1>5, <1>8, <1>9, HshkPids
     DEF DeviceStays, Lockstep, Bytes, InTransfer, ControlIn, Transferring
<1>15. BulkIn'
  <2>1. hIn' = dIn' + Gained' /\ dCtx'.base = dIn'
    BY <1>1, <1>3, <1>4, <1>6, <1>7, Numbers DEF DeviceStays
  <2>2. ASSUME NEW n \in InSizes PROVE \E k \in 0..hDone' : hDone' = k * n + Gained'
    <3>1. PICK k \in 0..hDone : hDone = k * n + dCtx.sent
      BY <1>7
    <3>2. n \in Nat /\ k \in Nat /\ k * n \in Nat /\ k \in 0..done
      BY <3>1, <1>4, Numbers
    <3>3. done = k * n + (dCtx.sent + Chunk(dCtx))
      BY <3>1, <3>2, <1>4, Numbers
    <3> QED BY <1>3, <1>6, <3>2, <3>3
  <2>3. hCall'.kind = "in" => hDone' < hCall'.size
    BY <1>3, <1>8, <1>9
  <2> QED BY <1>1, <1>6, <1>7, <1>8, <2>1, <2>2, <2>3 DEF BulkIn
<1>16. RxWhole' /\ Serving'
  BY <1>1, <1>8, <1>9
     DEF DeviceStays, Lockstep, RxWhole, Serving, Controls, Descs, Sets, Ins, Outs
<1>17. ControlToggles'
  BY <1>1, <1>4, <1>5, <1>6, <1>8, <1>9, <1>11
     DEF DeviceStays, Lockstep, Toggles, ControlToggles, Transferring, Controls, Descs, Sets
<1>18. InToggles'
  <2>1. \A e \in InEndps : dataPid(hEpdata0, e) = dataPid(dEpdata0, e)
    BY <1>4 DEF Lockstep, Toggles, InToggles
  <2>2. \A e \in InEndps :
           dataPid(hEpdata0', e) = dataPid(dEpdata0', e) <=> EpIdx(e) # EpIdx(dCtx'.endp)
    BY <1>1, <1>7, <1>11, <2>1 DEF DeviceStays
  <2>3. ASSUME ResetSeenAs # {}
        PROVE  \A e \in InEndps :
                  dataPid(hEpdata0', e) =
                    IF hCall'.kind = "in" /\ EpIdx(e) = EpIdx(hCall'.endp) /\ hDone' = MAXPKT
                    THEN "DATA1" ELSE "DATA0"
    <3>1. InSizes \subseteq {MAXPKT} /\ hCall.size = 2 * MAXPKT
      BY <1>2, <2>3, CallUsual DEF Lockstep, Quiet, EvenReads
    <3>2. dCtx.size = MAXPKT /\ dCtx.sent = 0
      BY <1>4, <1>7, <3>1, Numbers DEF Lockstep, Bytes, InTransfer, Transferring
    <3>3. Chunk(dCtx) = MAXPKT
      BY <3>2 DEF Chunk, MinOf
    <3>4. hDone = 0 \/ hDone = MAXPKT
      <4>1. PICK k \in 0..hDone : hDone = k * MAXPKT + 0
        BY <1>7, <3>1, <3>2
      <4>2. CASE k = 0 \/ k = 1
        BY <4>1, <4>2
      <4>3. CASE k >= 2
        <5>1. PICK d \in Nat : k = 2 + d
          <6>1. k - 2 \in Nat /\ k = 2 + (k - 2)
            BY <4>1, <4>3, Numbers
          <6> QED BY <6>1
        <5>2. k * MAXPKT = 2 * MAXPKT + d * MAXPKT /\ d * MAXPKT \in Nat
          BY <5>1
        <5> QED BY <1>7, <3>1, <4>1, <5>2
      <4> QED BY <4>1, <4>2, <4>3, Numbers
    <3>5. \A e \in InEndps :
             dataPid(hEpdata0, e) =
               IF EpIdx(e) = EpIdx(hCall.endp) /\ hDone = MAXPKT THEN "DATA1" ELSE "DATA0"
      BY <2>3 DEF Lockstep, Toggles, InToggles
    <3>6. CASE hDone = 0
      <4>1. hDone' = MAXPKT /\ hCall' = hCall
        BY <1>3, <1>4, <1>8, <3>1, <3>3, <3>6
      <4> QED BY <1>11, <3>5, <3>6, <4>1, PidOf DEF DataPids
    <3>7. CASE hDone = MAXPKT
      <4>1. hCall'.kind = "none"
        BY <1>4, <1>8, <1>9, <3>1, <3>3, <3>7
      <4> QED BY <1>11, <3>5, <3>7, <4>1, PidOf DEF DataPids
    <3> QED BY <3>4, <3>6, <3>7
  <2> QED BY <1>5, <1>6, <2>2, <2>3 DEF InToggles
<1> QED BY <1>1, <1>12, <1>13, <1>14, <1>15, <1>16, <1>17, <1>18, StillOn
        DEF Lockstep, Places, Bytes, Toggles

LEMMA HostStepStays ==
    ASSUME TypeOK, Lockstep, Host PROVE Lockstep'
<1>1. UNCHANGED dOwn /\ UNCHANGED <<pullup, mark>> /\ HostStep
  BY DEF Host, HostStep
<1>2. CASE checkSof
  BY <1>1, <1>2, BusStep
<1>3. CASE sendStandardRequest
  BY <1>1, <1>3, SendTokenStep, SetupDataStep, SetupAckStep DEF sendStandardRequest
<1>4. CASE getDataFromDevice
  BY <1>1, <1>4, SendTokenStep, ControlDataStep, BulkDataStep, DataFailsStep
     DEF getDataFromDevice
<1>5. CASE sendControlStatus
  BY <1>1, <1>5, SendTokenStep, StatusDataStep, StatusAckStep, StatusInStep
     DEF sendControlStatus
<1>6. CASE sendDataOut
  BY <1>1, <1>6, SendTokenStep, SendOutStep, OutAnswerStep DEF sendDataOut
<1> QED BY <1>1, <1>2, <1>3, <1>4, <1>5, <1>6, NeverDisconnected DEF HostStep

LEMMA UserStepStays ==
    ASSUME TypeOK, Lockstep, User PROVE Lockstep'
<1>1. UNCHANGED dOwn /\ UNCHANGED pullup /\ HostUser
  BY DEF User, HostUser
<1>2. ASSUME NEW c \in Calls, Begin(c) PROVE Lockstep'
  <2>1. hCall = NoCall /\ hCall' = c /\ c # NoCall
    <3>1. hPc = "Ready" /\ hCall' = c
      BY <1>2 DEF Begin, Counted
    <3>2. hCall = NoCall
      BY <3>1 DEF TypeOK, HostTypeOK, StageOK
    <3> QED BY <3>1, <3>2, CallsAssumption, NoCallTyped DEF Outs, Ins, Controls, Descs, Sets
  <2>2. Proper(c) /\ mark' = IF c.kind \in Controls THEN Len(dServed) ELSE -1
    BY <2>1 DEF User
  <2> QED BY <1>1, <1>2, <2>2, BeginStep DEF Proper, Lockstep, Quiet
<1>3. CASE usbHostWaitForConnection \/ usbHostSleepUs \/ usbHostResetDevice
           \/ usbHostSuspendDevice
  <2>1. hCall' = hCall
    BY <1>3 DEF usbHostWaitForConnection, usbHostSleepUs, usbHostResetDevice,
                usbHostSuspendDevice, Condition
  <2> QED BY <1>1, <1>3, <2>1, BusStep DEF User
<1> QED BY <1>1, <1>2, <1>3 DEF HostUser

-----------------------------------------------------------------------------
(***************************************************************************)
(* The steps of the device.                                                *)
(***************************************************************************)
HostStays == UNCHANGED <<hPc, hCall, hDone, hEpdata0, hOut, hIn, hRx, mark>>

LEMMA DeviceAlone == UNCHANGED <<hOwn, mark>> => HostStays
BY DEF hOwn, HostStays, hHistory

\* A packet the device takes is one the host sent.
LEMMA Taking ==
    ASSUME Lockstep, NEW pc, Take(pc) \/ Return(pc)
    PROVE  /\ dPc = pc /\ toDev # NoPkt /\ toDev' = NoPkt /\ toDev'.pid = "NONE"
           /\ Received = toDev /\ toDev.pid \in GoodPids /\ pullup' = pullup
<1>1. Received = toDev
  BY LineIntact
<1> QED BY <1>1, HshkPids DEF Return, Take

LEMMA DeviceGoesOn ==
    ASSUME Lockstep, pullup' = pullup, dPc # "Start", dPc' # "Start"
    PROVE  Quiet' /\ DeviceOn'
BY QuietStays DEF Lockstep, Places, DeviceOn

LEMMA HaltedStays ==
    ASSUME Lockstep, ephalted' = ephalted
    PROVE  OnlyControlHalted'
<1>1. OnlyControlHalted
  BY DEF Lockstep, Places
<1> QED BY Zenon, <1>1 DEF OnlyControlHalted, Flag

LEMMA UsbDeviceRunStep ==
    ASSUME TypeOK, Lockstep, HostStays, usbDeviceRun
    PROVE  Lockstep'
<1>1. /\ dPc = "Start" /\ dPc' = "Run" /\ pullup' = TRUE
      /\ UNCHANGED <<dCtx, devaddr, ephalted, dEpdata0, dServed, dIn, toDev, toHost>>
  BY DEF usbDeviceRun, dState, dHistory
<1>2. hPc = "Start" /\ Clear
  BY <1>1 DEF Lockstep, Places, InStep, AtRest, SetupStage, InStage, StatusStage, OutStage
<1>3. InStep' /\ DeviceOn'
  BY <1>1, <1>2 DEF HostStays, InStep, AtRest, Clear, DeviceOn
<1>4. Addressed'
  BY <1>1, <1>2 DEF HostStays, Lockstep, Places, Addressed
<1>5. InTransfer' /\ ControlIn' /\ BulkIn' /\ RxWhole'
  BY <1>1, <1>2
     DEF HostStays, Lockstep, Bytes, InTransfer, ControlIn, BulkIn, RxWhole, DataIn, Transferring,
         Whole
<1>6. ControlToggles' /\ InToggles'
  BY <1>1, <1>2
     DEF HostStays, Lockstep, Toggles, ControlToggles, InToggles, DataIn, Transferring
<1>7. Serving'
  BY <1>1, <1>2 DEF HostStays, Lockstep, Serving, Unserved
<1> QED BY <1>1, <1>3, <1>4, <1>5, <1>6, <1>7, QuietStays, HaltedStays
        DEF Lockstep, Places, Bytes, Toggles

\* A reset comes between calls, when the host's IN toggles are at DATA0.
LEMMA WaitResetStep ==
    ASSUME TypeOK, Lockstep, HostStays, WaitReset
    PROVE  Lockstep'
<1>1. /\ toDev.pid = "RESET" /\ toDev' = NoPkt /\ toDev'.pid = "NONE"
      /\ devaddr' = NoAddr /\ ephalted' = AllFlags(FALSE) /\ dEpdata0' = AllFlags(TRUE)
      /\ UNCHANGED <<dPc, dCtx, dServed, dIn, pullup, toHost>>
  BY HshkPids DEF WaitReset, LineReset, dHistory
<1>2. hPc = "Ready" /\ dPc = "Run" /\ toHost = NoPkt /\ ResetSeenAs # {}
  BY <1>1, HshkPids
     DEF Lockstep, Places, InStep, AtRest, SetupStage, InStage, StatusStage, OutStage,
         Clear, Sent, Answered
<1>3. hCall.kind = "none"
  BY <1>2, KindsAt DEF Lockstep
<1>4. dataPid(dEpdata0', 0) = "DATA0" /\ \A e \in InEndps : dataPid(dEpdata0', e) = "DATA0"
  <2>1. 0 \in 0..255 /\ EpIdx(0) \in EP
    BY FlagFacts
  <2>2. dataPid(dEpdata0', 0) = "DATA0"
    BY <1>1, <2>1, PidAll
  <2>3. \A e \in InEndps : e \in 0..255 /\ EpIdx(e) \in EP
    BY DEF InEndps
  <2> QED BY <1>1, <2>2, <2>3, PidAll
<1>5. OnlyControlHalted'
  <2>1. \A e \in 0..255 : EpIdx(e) \in EP => AllFlags(FALSE)[EpIdx(e)][EpDir(e)] = FALSE
    BY EndpFields DEF AllFlags
  <2>2. ~FALSE
    OBVIOUS
  <2> QED BY Zenon, <1>1, <2>1, <2>2 DEF OnlyControlHalted, Flag
<1>6. InStep' /\ DeviceOn'
  BY <1>1, <1>2 DEF HostStays, Lockstep, Places, InStep, AtRest, Clear, DeviceOn
<1>7. Addressed'
  BY <1>1, <1>2, <1>3 DEF HostStays, Addressed, Tokens
<1>8. InTransfer' /\ ControlIn' /\ BulkIn' /\ RxWhole'
  BY <1>1, <1>2, <1>3
     DEF HostStays, Lockstep, Bytes, InTransfer, ControlIn, BulkIn, RxWhole, DataIn, Transferring,
         Whole
<1>9. ControlToggles' /\ InToggles'
  BY <1>1, <1>2, <1>3, <1>4
     DEF HostStays, Lockstep, Toggles, ControlToggles, InToggles, DataIn, Transferring
<1>10. Serving'
  BY <1>3 DEF HostStays, Serving, Ins, Outs, Controls, Descs, Sets
<1>11. Quiet'
  BY QuietStays DEF Lockstep
<1> QED BY Zenon, <1>5, <1>6, <1>7, <1>8, <1>9, <1>10, <1>11
        DEF Lockstep, Places, Bytes, Toggles

\* What the device waits out.
LEMMA WaitOutStep ==
    ASSUME TypeOK, Lockstep, HostStays, WaitSuspend \/ processSOF
    PROVE  Lockstep'
<1>1. /\ toDev.pid \in {"SUSPEND", "SOF"} /\ toDev' = NoPkt /\ toDev'.pid = "NONE"
      /\ \/ dPc' = dPc /\ dCtx' = dCtx
         \/ dPc = "Run" /\ dPc' = "Run"
      /\ UNCHANGED <<devaddr, ephalted, dEpdata0, dServed, dIn, pullup, toHost>>
  <2>1. CASE WaitSuspend
    BY <2>1, HshkPids DEF WaitSuspend, LineSuspend, dState, dHistory
  <2>2. CASE processSOF
    <3>1. toDev.pid = "SOF" /\ toDev' = NoPkt /\ toDev'.pid = "NONE" /\ pullup' = pullup
          /\ dPc = "Run"
      BY <2>2, Taking DEF processSOF
    <3> QED BY <2>2, <3>1 DEF processSOF, Goto, Silent, dHistory
  <2> QED BY <2>1, <2>2
<1>2. dPc = "Run" /\ toHost = NoPkt /\ hPc \in {"Ready", "Setup"}
  BY <1>1, HshkPids
     DEF Lockstep, Places, InStep, AtRest, SetupStage, InStage, StatusStage, OutStage,
         Clear, Sent, Answered, Quiet
<1>3. DeviceStays
  BY <1>1, <1>2 DEF DeviceStays
<1>4. InStep'
  BY <1>1, <1>2 DEF HostStays, InStep, AtRest, SetupStage, Clear
<1>5. Addressed'
  BY <1>1, <1>2 DEF HostStays, Lockstep, Places, Addressed, Tokens
<1>6. Bytes' /\ Toggles' /\ Serving'
  BY <1>1, <1>2, <1>3, LineOnly DEF HostStays
<1> QED BY <1>3, <1>4, <1>5, <1>6, StillOn DEF Lockstep, Places

\* The device takes a SETUP token for its control endpoint.
LEMMA RunSetupStep ==
    ASSUME TypeOK, Lockstep, HostStays, RunSetup
    PROVE  Lockstep'
<1>1. /\ dPc = "Run" /\ toDev.pid = "SETUP" /\ toDev' = NoPkt /\ toDev'.pid = "NONE"
      /\ Received = toDev /\ pullup' = pullup
  BY Taking DEF RunSetup
<1>2. hPc = "SetupData" /\ toHost = NoPkt
  BY <1>1, HshkPids
     DEF Lockstep, Places, InStep, AtRest, SetupStage, InStage, StatusStage, OutStage,
         Clear, Sent, Answered, Quiet
<1>3. hCall.kind \in Controls /\ hCall.endp = 0
  BY <1>2, KindsAt, EndpointsInUse DEF Lockstep
<1>4. /\ toDev.addr \in {0, devaddr} /\ toDev.endp = 0
  BY <1>1, <1>2, <1>3, EndpFields DEF Lockstep, Places, Addressed, Tokens
<1>5. /\ dPc' = "SetupData" /\ dCtx'.endp = 0 /\ dCtx'.bad = FALSE
      /\ UNCHANGED <<devaddr, ephalted, dEpdata0, dServed, dIn, toHost>>
  BY <1>1, <1>4, EndpFields DEF RunSetup, Goto, Silent, NoCtx, dState, dHistory, epvalid
<1>6. InStep'
  BY <1>1, <1>2, <1>5 DEF HostStays, InStep, SetupStage, Clear
<1>7. Addressed'
  BY <1>1, <1>2, <1>5 DEF HostStays, Lockstep, Places, Addressed, Tokens
<1>8. InTransfer' /\ ControlIn' /\ BulkIn' /\ RxWhole'
  BY <1>1, <1>2, <1>5
     DEF HostStays, Lockstep, Bytes, InTransfer, ControlIn, BulkIn, RxWhole, DataIn, Transferring,
         Whole
<1>9. ControlToggles' /\ InToggles'
  BY <1>1, <1>2, <1>5
     DEF HostStays, Lockstep, Toggles, ControlToggles, InToggles, DataIn, Transferring
<1>10. Serving'
  BY <1>2, <1>5 DEF HostStays, Lockstep, Serving, Unserved
<1>11. Quiet' /\ DeviceOn' /\ OnlyControlHalted'
  BY <1>1, <1>5, DeviceGoesOn, HaltedStays
<1> QED BY Zenon, <1>6, <1>7, <1>8, <1>9, <1>10, <1>11 DEF Lockstep, Places, Bytes, Toggles

\* The device takes an OUT token for its OUT endpoint.
LEMMA OutToken ==
    ASSUME TypeOK, Lockstep, Take("Run") \/ Return("Run"), toDev.pid = "OUT"
    PROVE  /\ hPc = "OutData" /\ toHost = NoPkt /\ hCall.kind = "out" /\ toDev.endp = 1
           /\ ~Refused(toDev.addr, toDev.endp)
<1>1. dPc = "Run"
  BY Taking
<1>2. hPc = "OutData" /\ toHost = NoPkt
  BY <1>1, HshkPids
     DEF Lockstep, Places, InStep, AtRest, SetupStage, InStage, StatusStage, OutStage,
         Clear, Sent, Answered, Quiet
<1>3. hCall.kind = "out" /\ hCall.endp = 1
  BY <1>2, KindsAt, EndpointsInUse DEF Lockstep
<1>4. toDev.addr = devaddr /\ toDev.endp = 1
  BY <1>2, <1>3, EndpFields DEF Lockstep, Places, Addressed, Tokens
<1>5. ~Flag(ephalted, 1)
  BY EndpFields DEF Lockstep, Places, OnlyControlHalted
<1>6. <<EpIdx(1), EpDir(1)>> \in epvalid
  BY EndpFields DEF epvalid
<1>7. ~Refused(devaddr, 1)
  BY Zenon, <1>5, <1>6 DEF Refused
<1> QED BY <1>2, <1>3, <1>4, <1>7

LEMMA ProcessOutStep ==
    ASSUME TypeOK, Lockstep, HostStays, processOut
    PROVE  Lockstep'
<1>1. \/ Return("Run") /\ Received.pid = "OUT" /\ Refused(Received.addr, Received.endp)
      \/ /\ Return("Run") /\ Received.pid = "OUT"
         /\ Goto("OutData", [NoCtx EXCEPT !.endp = Received.endp]) /\ Silent
         /\ UNCHANGED <<dState, dHistory>>
  BY DEF processOut, Refuse
<1>2. /\ dPc = "Run" /\ toDev' = NoPkt /\ toDev'.pid = "NONE" /\ Received = toDev
      /\ toDev.pid = "OUT" /\ pullup' = pullup
  BY <1>1, Taking
<1>3. /\ hPc = "OutData" /\ toHost = NoPkt /\ hCall.kind = "out" /\ toDev.endp = 1
      /\ ~Refused(toDev.addr, toDev.endp)
  BY <1>1, <1>2, OutToken
<1>4. /\ dPc' = "OutData" /\ dCtx'.endp = 1
      /\ UNCHANGED <<devaddr, ephalted, dEpdata0, dServed, dIn, toHost>>
  BY <1>1, <1>2, <1>3 DEF Goto, Silent, NoCtx, dState, dHistory
<1>5. InStep'
  BY <1>2, <1>3, <1>4 DEF HostStays, InStep, OutStage, Clear
<1>6. Addressed'
  BY <1>2, <1>3, <1>4 DEF HostStays, Lockstep, Places, Addressed, Tokens
<1>7. InTransfer' /\ ControlIn' /\ BulkIn' /\ RxWhole'
  BY <1>2, <1>3, <1>4
     DEF HostStays, Lockstep, Bytes, InTransfer, ControlIn, BulkIn, RxWhole, DataIn, Transferring,
         Whole
<1>8. ControlToggles' /\ InToggles'
  BY <1>2, <1>3, <1>4
     DEF HostStays, Lockstep, Toggles, ControlToggles, InToggles, DataIn, Transferring
<1>9. Serving'
  BY <1>3, <1>4 DEF HostStays, Lockstep, Serving, Unserved, Controls, Descs, Sets
<1>10. Quiet' /\ DeviceOn' /\ OnlyControlHalted'
  BY <1>2, <1>4, DeviceGoesOn, HaltedStays
<1> QED BY Zenon, <1>5, <1>6, <1>7, <1>8, <1>9, <1>10 DEF Lockstep, Places, Bytes, Toggles

\* ... and answers the data packet that follows.
LEMMA OutDataStep ==
    ASSUME TypeOK, Lockstep, HostStays, OutData
    PROVE  Lockstep'
<1>1. /\ dPc = "OutData" /\ toDev # NoPkt /\ toDev' = NoPkt /\ toDev'.pid = "NONE"
      /\ Received = toDev /\ pullup' = pullup
  BY Taking DEF OutData
<1>2. hPc = "OutAck" /\ toHost = NoPkt /\ toDev.pid \in DataPids
  BY <1>1, HshkPids
     DEF Lockstep, Places, InStep, AtRest, SetupStage, InStage, StatusStage, OutStage,
         Clear, Sent, Answered, Quiet, DataPids
<1>3. hCall.kind = "out" /\ dCtx.endp = 1
  BY <1>1, <1>2, KindsAt DEF Lockstep, Places, Addressed
<1>4. CallbackNak \/ OutAccept
  BY DEF OutData, CallbackStall, Lockstep, Quiet
<1>5. /\ dPc' = "Run" /\ toHost'.pid \in {"ACK", "NAK"}
      /\ UNCHANGED <<devaddr, ephalted, dServed, dIn>>
      /\ dEpdata0' \in {dEpdata0, dataPidUpdate(dEpdata0, 1)}
  BY <1>3, <1>4, HshkPids
     DEF CallbackNak, OutAccept, sendPktToHost, Goto, dState, dHistory
<1>6. /\ dataPid(dEpdata0', 0) = dataPid(dEpdata0, 0)
      /\ \A e \in InEndps : dataPid(dEpdata0', e) = dataPid(dEpdata0, e)
  <2>1. dEpdata0 \in Flags /\ 1 \in 0..255 /\ EpIdx(1) # 0 /\ EpDir(1) = 0
    BY FlagFacts, EndpFields
  <2>2. CASE dEpdata0' = dEpdata0
    BY <2>2
  <2>3. CASE dEpdata0' = dataPidUpdate(dEpdata0, 1)
    BY Zenon, <2>1, <2>3, InUntouched, ControlUntouched
  <2> QED BY <1>5, <2>2, <2>3
<1>7. InStep'
  BY <1>1, <1>2, <1>5 DEF HostStays, InStep, OutStage, Answered
<1>8. Addressed'
  BY <1>1, <1>2, <1>3, <1>5 DEF HostStays, Lockstep, Places, Addressed, Tokens
<1>9. InTransfer' /\ ControlIn' /\ BulkIn' /\ RxWhole'
  BY <1>1, <1>2, <1>3, <1>5
     DEF HostStays, Lockstep, Bytes, InTransfer, ControlIn, BulkIn, RxWhole, DataIn, Transferring,
         Whole
<1>10. ControlToggles' /\ InToggles'
  BY <1>1, <1>2, <1>3, <1>5, <1>6
     DEF HostStays, Lockstep, Toggles, ControlToggles, InToggles, DataIn, Transferring
<1>11. Serving'
  BY <1>3, <1>5 DEF HostStays, Lockstep, Serving, Unserved, Controls, Descs, Sets
<1>12. Quiet' /\ DeviceOn' /\ OnlyControlHalted'
  BY <1>1, <1>5, DeviceGoesOn, HaltedStays
<1> QED BY Zenon, <1>7, <1>8, <1>9, <1>10, <1>11, <1>12 DEF Lockstep, Places, Bytes, Toggles

\* The device takes an IN token for a data endpoint.
LEMMA InToken ==
    ASSUME TypeOK, Lockstep, Take("Run") \/ Return("Run"), toDev.pid = "IN"
    PROVE  /\ hPc = "InData" /\ toHost = NoPkt /\ hCall.kind = "in"
           /\ toDev.endp + 128 \in 0..255 /\ EpDir(toDev.endp + 128) = 1
           /\ EpIdx(toDev.endp + 128) = EpIdx(hCall.endp) /\ EpIdx(hCall.endp) \in EP
           /\ ~Refused(toDev.addr, toDev.endp + 128)
<1> DEFINE e == toDev.endp + 128
<1>1. dPc = "Run"
  BY Taking
<1>2. hPc = "InData" /\ toHost = NoPkt /\ hCall.kind = "in"
  BY <1>1, HshkPids
     DEF Lockstep, Places, InStep, AtRest, SetupStage, InStage, StatusStage, OutStage,
         Clear, Sent, Answered, Quiet
<1>3. /\ hCall.endp \in 0..255 /\ EpIdx(hCall.endp) \in EP
      /\ <<EpIdx(hCall.endp), 1>> \in epvalid
  BY <1>2, EndpointsInUse DEF Lockstep
<1>4. toDev.addr = devaddr /\ toDev.endp = EpIdx(hCall.endp) /\ toDev.endp \in 0..15
  BY <1>2, <1>3, EndpFields DEF Lockstep, Places, Addressed, Tokens
<1>5. e \in 0..255 /\ EpIdx(e) = EpIdx(hCall.endp) /\ EpDir(e) = 1
  BY <1>4, EndpFields
<1>6. ~Flag(ephalted, e)
  <2>1. 1 # 0
    OBVIOUS
  <2>2. OnlyControlHalted
    BY DEF Lockstep, Places
  <2> QED BY Zenon, <1>3, <1>5, <2>1, <2>2 DEF OnlyControlHalted
<1>7. ~Refused(devaddr, e)
  BY Zenon, <1>3, <1>5, <1>6 DEF Refused
<1> QED BY <1>2, <1>3, <1>4, <1>5, <1>7

\* The data callback's answer.
LEMMA ProcessInStep ==
    ASSUME TypeOK, Lockstep, HostStays, processIn
    PROVE  Lockstep'
<1> DEFINE e == toDev.endp + 128
<1>1. \/ Return("Run") /\ Received.pid = "IN" /\ Refused(Received.addr, InEndp)
      \/ /\ Take("Run") /\ Received.pid = "IN"
         /\ CallbackNak \/ CallbackData(InEndp)
  BY DEF processIn, Refuse, CallbackStall, Lockstep, Quiet
<1>2. /\ dPc = "Run" /\ toDev' = NoPkt /\ toDev'.pid = "NONE" /\ Received = toDev
      /\ toDev.pid = "IN" /\ pullup' = pullup
  BY <1>1, Taking
<1>3. /\ hPc = "InData" /\ toHost = NoPkt /\ hCall.kind = "in"
      /\ e \in 0..255 /\ EpDir(e) = 1
      /\ EpIdx(e) = EpIdx(hCall.endp) /\ EpIdx(hCall.endp) \in EP
      /\ ~Refused(toDev.addr, e)
  BY <1>1, <1>2, InToken
<1>4. CallbackNak \/ CallbackData(e)
  BY Zenon, <1>1, <1>2, <1>3 DEF InEndp
<1>5. CASE CallbackNak
  <2>1. dPc' = "Run" /\ toHost'.pid = "NAK" /\ "NAK" \in Responses /\ DeviceStays
    BY <1>2, <1>5, HshkPids
       DEF CallbackNak, sendPktToHost, Goto, DeviceStays, dState, dHistory
  <2>2. InStep'
    BY <1>2, <1>3, <2>1 DEF HostStays, InStep, InStage, Answered
  <2>3. Addressed'
    BY <1>2, <1>3, <2>1 DEF HostStays, DeviceStays, Lockstep, Places, Addressed, Tokens
  <2>4. Bytes' /\ Toggles' /\ Serving'
    BY <1>2, <2>1, LineOnly DEF HostStays
  <2> QED BY <2>1, <2>2, <2>3, <2>4, StillOn DEF Lockstep, Places
<1>6. CASE CallbackData(e)
  <2>1. PICK n \in InSizes :
           IF n = 0 THEN Goto("Run", NoCtx) /\ Silent
           ELSE SendChunk([NoCtx EXCEPT !.endp = e, !.base = dIn, !.size = n])
    BY <1>6 DEF CallbackData
  <2>2. n # 0 /\ n \in Nat
    BY DEF Lockstep, Quiet
  <2>3. /\ dPc' = "InHshk"
        /\ dCtx' = [NoCtx EXCEPT !.endp = e, !.base = dIn, !.size = n]
        /\ toHost' = Data(dataPid(dEpdata0, e), dIn + 0, Chunk(dCtx'))
        /\ UNCHANGED <<devaddr, ephalted, dEpdata0, dServed, dIn>>
    BY <1>6, <2>1, <2>2
       DEF SendChunk, Goto, sendPktToHost, NoCtx, CallbackData, dState, dHistory
  <2>4. /\ dCtx'.endp = e /\ dCtx'.ctl = FALSE /\ dCtx'.base = dIn /\ dCtx'.size = n
        /\ dCtx'.sent = 0
    BY <2>3 DEF NoCtx
  <2>5. Chunk(dCtx)' = Chunk(dCtx')
    BY DEF Chunk
  <2>6. /\ toHost'.pid = dataPid(dEpdata0, e) /\ toHost'.pid \in DataPids
        /\ toHost'.off = dIn + 0 /\ toHost'.len = Chunk(dCtx)'
    BY <2>3, <2>5, SentPids, PidOf
  <2>7. Gained' = 0 /\ DataIn' /\ ~DataIn
    BY <1>2, <2>3, <2>4 DEF Gained, DataIn, Transferring
  <2>8. InStep'
    BY <1>2, <1>3, <2>3, <2>6 DEF HostStays, InStep, InStage, Answered, DataPids
  <2>9. Addressed'
    BY <1>2, <1>3, <2>3 DEF HostStays, Lockstep, Places, Addressed, Tokens
  <2>10. InTransfer'
    BY <1>3, <2>2, <2>3, <2>4, <2>6, Numbers DEF HostStays, InTransfer, Transferring
  <2>11. ControlIn' /\ RxWhole'
    BY <1>3, <2>3, <2>4
       DEF HostStays, ControlIn, RxWhole, Transferring, Controls, Descs, Sets
  <2>12. BulkIn'
    BY <1>3, <2>3, <2>4, <2>7 DEF HostStays, Lockstep, Bytes, BulkIn
  <2>13. ControlToggles' /\ InToggles'
    BY <1>2, <1>3, <2>3, <2>4, <2>7
       DEF HostStays, Lockstep, Toggles, ControlToggles, InToggles, Transferring
  <2>14. Serving'
    BY <1>3, <2>3 DEF HostStays, Lockstep, Serving, Controls, Descs, Sets
  <2>15. Quiet' /\ DeviceOn' /\ OnlyControlHalted'
    BY <1>2, <2>3, DeviceGoesOn, HaltedStays
  <2> QED BY Zenon, <2>8, <2>9, <2>10, <2>11, <2>12, <2>13, <2>14, <2>15
          DEF Lockstep, Places, Bytes, Toggles
<1> QED BY <1>4, <1>5, <1>6

\* The next chunk, on its IN token.
LEMMA SendOnInStep ==
    ASSUME TypeOK, Lockstep, HostStays, SendOnIn
    PROVE  Lockstep'
<1>1. /\ dPc = "InToken" /\ toDev # NoPkt /\ toDev' = NoPkt /\ toDev'.pid = "NONE"
      /\ Received = toDev /\ pullup' = pullup
  BY Taking DEF SendOnIn
<1>2. hPc = "InData" /\ toHost = NoPkt /\ toDev.pid = "IN"
  BY <1>1, HshkPids
     DEF Lockstep, Places, InStep, AtRest, SetupStage, InStage, StatusStage, OutStage,
         Clear, Sent, Answered, Quiet
<1>3. /\ dPc' = "InHshk" /\ dCtx' = dCtx
      /\ toHost' = Data(dataPid(dEpdata0, dCtx.endp), dCtx.base + dCtx.sent, Chunk(dCtx))
      /\ UNCHANGED <<devaddr, ephalted, dEpdata0, dServed, dIn>>
  BY DEF SendOnIn, SendChunk, Goto, sendPktToHost, dState, dHistory
<1>4. Chunk(dCtx)' = Chunk(dCtx)
  BY <1>3 DEF Chunk
<1>5. /\ toHost'.pid = dataPid(dEpdata0, dCtx.endp) /\ toHost'.pid \in DataPids
      /\ toHost'.off = dCtx.base + dCtx.sent /\ toHost'.len = Chunk(dCtx)'
  BY <1>3, <1>4, SentPids, PidOf
<1>6. Gained' = Gained /\ (DataIn' <=> DataIn)
  BY <1>1, <1>2, <1>3, <1>4 DEF Gained, DataIn, Transferring
<1>7. InStep'
  BY <1>1, <1>2, <1>3, <1>5 DEF HostStays, InStep, InStage, Answered, DataPids
<1>8. Addressed'
  BY <1>1, <1>2, <1>3 DEF HostStays, Lockstep, Places, Addressed, Tokens
<1>9. InTransfer'
  BY <1>1, <1>2, <1>3, <1>5 DEF HostStays, Lockstep, Bytes, InTransfer, Transferring
<1>10. ControlIn' /\ RxWhole'
  BY <1>1, <1>2, <1>3, <1>6
     DEF HostStays, Lockstep, Bytes, ControlIn, RxWhole, Transferring, AnswerSize, Whole
<1>11. BulkIn'
  BY <1>1, <1>2, <1>3, <1>6 DEF HostStays, Lockstep, Bytes, BulkIn
<1>12. ControlToggles' /\ InToggles'
  BY <1>1, <1>2, <1>3, <1>6
     DEF HostStays, Lockstep, Toggles, ControlToggles, InToggles, Transferring
<1>13. Serving'
  BY <1>1, <1>2, <1>3 DEF HostStays, Lockstep, Serving, Unserved
<1>14. Quiet' /\ DeviceOn' /\ OnlyControlHalted'
  BY <1>1, <1>3, DeviceGoesOn, HaltedStays
<1> QED BY Zenon, <1>7, <1>8, <1>9, <1>10, <1>11, <1>12, <1>13, <1>14
        DEF Lockstep, Places, Bytes, Toggles

\* The handshake of a chunk is always an ACK.
LEMMA HandshakePlace ==
    ASSUME TypeOK, Lockstep, Return("InHshk")
    PROVE  /\ dPc = "InHshk" /\ toDev' = NoPkt /\ toDev'.pid = "NONE"
           /\ Received = toDev /\ toDev.pid = "ACK" /\ toHost = NoPkt /\ pullup' = pullup
           /\ dCtx.sent < dCtx.size /\ Gained = dCtx.sent + Chunk(dCtx)
           /\ \/ hPc = "InTok" /\ (dCtx.ctl => More)
              \/ hPc = "StatusOutTok" /\ ~More /\ dCtx.ctl
              \/ hPc = "Ready" /\ ~dCtx.ctl /\ ~More
<1>1. /\ dPc = "InHshk" /\ toDev # NoPkt /\ toDev' = NoPkt /\ toDev'.pid = "NONE"
      /\ Received = toDev /\ pullup' = pullup
  BY Taking
<1>2. /\ toDev.pid = "ACK" /\ toHost = NoPkt
      /\ \/ hPc = "InTok" /\ (dCtx.ctl => More)
         \/ hPc = "StatusOutTok" /\ ~More
         \/ hPc = "Ready" /\ ~dCtx.ctl /\ ~More
  BY <1>1, HshkPids
     DEF Lockstep, Places, InStep, AtRest, SetupStage, InStage, StatusStage, OutStage,
         Clear, Sent, Answered
<1>3. /\ dCtx.sent < dCtx.size
      /\ hPc # "Ready" => (dCtx.ctl <=> hCall.kind # "in")
  BY <1>1 DEF Lockstep, Bytes, InTransfer, Transferring
<1>4. hPc = "StatusOutTok" => dCtx.ctl
  BY <1>2, <1>3, KindsAt DEF Lockstep, Descs
<1> QED BY <1>1, <1>2, <1>3, <1>4, Numbers DEF Gained

\* The acknowledged chunk of a control transfer.
LEMMA ControlAckedStep ==
    ASSUME TypeOK, Lockstep, HostStays, InAcked, dCtx.ctl
    PROVE  Lockstep'
<1> DEFINE ctx == [dCtx EXCEPT !.sent = @ + Chunk(dCtx)]
<1>1. /\ dPc = "InHshk" /\ toDev' = NoPkt /\ toDev'.pid = "NONE"
      /\ toDev.pid = "ACK" /\ toHost = NoPkt /\ pullup' = pullup
      /\ dCtx.sent < dCtx.size /\ Gained = dCtx.sent + Chunk(dCtx)
      /\ \/ hPc = "InTok" /\ More
         \/ hPc = "StatusOutTok" /\ ~More
  BY HandshakePlace DEF InAcked
<1>2. /\ ctx.endp = dCtx.endp /\ ctx.ctl = dCtx.ctl /\ ctx.base = dCtx.base
      /\ ctx.size = dCtx.size /\ ctx.sent = dCtx.sent + Chunk(dCtx)
  BY DEF TypeOK, DeviceTypeOK, ControlOK, Contexts
<1>3. /\ dCtx.endp = 0 /\ dCtx.base = 0 /\ dCtx.size = AnswerSize(hCall) /\ hDone = Gained
  BY <1>1 DEF Lockstep, Bytes, ControlIn, InTransfer, Transferring
<1>4. /\ dCtx' = ctx /\ toHost' = toHost
      /\ dPc' = IF More THEN "InToken" ELSE "StatusOut"
      /\ dEpdata0' = dataPidUpdate(dEpdata0, dCtx.endp)
      /\ UNCHANGED <<devaddr, ephalted, dServed, dIn>>
  <2>1. /\ dEpdata0' = dataPidUpdate(dEpdata0, ctx.endp)
        /\ IF ctx.sent < ctx.size THEN Goto("InToken", ctx) ELSE Goto("StatusOut", ctx)
        /\ dIn' = dIn /\ toHost' = toHost
        /\ UNCHANGED <<devaddr, ephalted, dServed>>
    BY <1>2 DEF InAcked, Silent
  <2> QED BY <1>2, <2>1, Zenon DEF Goto, More
<1>5. dCtx'.sent > 0 /\ dPc' = "InToken" => dCtx'.sent < dCtx'.size /\ dCtx'.size > MAXPKT
  BY <1>2, <1>4, Numbers DEF More
<1>6. /\ dataPid(dEpdata0', 0) # dataPid(dEpdata0, 0)
      /\ \A e \in InEndps : dataPid(dEpdata0', e) = dataPid(dEpdata0, e)
  <2>1. dEpdata0 \in Flags
    BY FlagFacts
  <2>2. dEpdata0' = dataPidUpdate(dEpdata0, 0)
    BY Zenon, <1>3, <1>4
  <2> QED BY Zenon, <2>1, <2>2, ControlSet
<1>7. InStep'
  BY <1>1, <1>4 DEF HostStays, InStep, InStage, StatusStage, Clear
<1>8. Addressed'
  BY <1>1, <1>4 DEF HostStays, Lockstep, Places, Addressed, Tokens
<1>9. InTransfer'
  BY <1>1, <1>2, <1>3, <1>4, <1>5, Numbers
     DEF HostStays, Lockstep, Bytes, InTransfer, Transferring, More
<1>10. ControlIn' /\ RxWhole'
  <2>1. Gained' = Gained
    BY <1>1, <1>2, <1>4, Numbers DEF Gained
  <2> QED BY <1>1, <1>2, <1>3, <1>4, <2>1
          DEF HostStays, Lockstep, Bytes, ControlIn, RxWhole, Transferring, AnswerSize, Whole
<1>11. BulkIn'
  BY <1>1, <1>2, <1>4, Numbers DEF HostStays, Lockstep, Bytes, BulkIn, DataIn
<1>12. ControlToggles' /\ InToggles'
  <2>1. dataPid(hEpdata0, 0) # dataPid(dEpdata0, 0)
    BY <1>1 DEF Lockstep, Toggles, ControlToggles, Transferring
  <2>2. dataPid(hEpdata0, 0) = dataPid(dEpdata0', 0)
    BY <1>6, <2>1, PidOf DEF DataPids
  <2> QED BY <1>1, <1>2, <1>4, <1>6, <2>2
          DEF HostStays, Lockstep, Toggles, ControlToggles, InToggles, DataIn, Transferring
<1>13. Serving'
  BY <1>1, <1>4 DEF HostStays, Lockstep, Serving, Unserved
<1>14. Quiet' /\ DeviceOn' /\ OnlyControlHalted'
  BY <1>1, <1>4, DeviceGoesOn, HaltedStays
<1> QED BY Zenon, <1>7, <1>8, <1>9, <1>10, <1>11, <1>12, <1>13, <1>14
        DEF Lockstep, Places, Bytes, Toggles

\* ... and of a data transfer, whose bytes the device counts when the last has gone.
LEMMA BulkAckedStep ==
    ASSUME TypeOK, Lockstep, HostStays, InAcked, ~dCtx.ctl
    PROVE  Lockstep'
<1> DEFINE ctx == [dCtx EXCEPT !.sent = @ + Chunk(dCtx)]
<1>1. /\ dPc = "InHshk" /\ toDev' = NoPkt /\ toDev'.pid = "NONE"
      /\ toDev.pid = "ACK" /\ toHost = NoPkt /\ pullup' = pullup
      /\ dCtx.sent < dCtx.size /\ Gained = dCtx.sent + Chunk(dCtx)
      /\ hPc = "InTok" \/ (hPc = "Ready" /\ ~More)
  BY HandshakePlace DEF InAcked
<1>2. /\ ctx.endp = dCtx.endp /\ ctx.ctl = dCtx.ctl /\ ctx.base = dCtx.base
      /\ ctx.size = dCtx.size /\ ctx.sent = dCtx.sent + Chunk(dCtx)
  BY DEF TypeOK, DeviceTypeOK, ControlOK, Contexts
<1>3. DataIn
  BY <1>1 DEF DataIn, Transferring
<1>4. /\ hIn = dIn + Gained /\ dCtx.base = dIn /\ dCtx.size \in InSizes
      /\ EpDir(dCtx.endp) = 1 /\ EpIdx(dCtx.endp) \in EP
      /\ hPc # "Ready" => EpIdx(dCtx.endp) = EpIdx(hCall.endp)
      /\ hCall.kind = "in" =>
            /\ hDone < hCall.size
            /\ \A n \in InSizes : \E k \in 0..hDone : hDone = k * n + Gained
  BY <1>3 DEF Lockstep, Bytes, BulkIn
<1>5. /\ IF More THEN dPc' = "InToken" /\ dCtx' = ctx ELSE dPc' = "Run"
      /\ dIn' = (IF More THEN dIn ELSE dIn + Gained) /\ toHost' = toHost
      /\ dEpdata0' = dataPidUpdate(dEpdata0, dCtx.endp)
      /\ UNCHANGED <<devaddr, ephalted, dServed>>
  <2>1. /\ dEpdata0' = dataPidUpdate(dEpdata0, ctx.endp)
        /\ IF ctx.sent < ctx.size THEN Goto("InToken", ctx) ELSE Goto("Run", NoCtx)
        /\ dIn' = IF ctx.sent = ctx.size THEN dIn + ctx.size ELSE dIn
        /\ toHost' = toHost
        /\ UNCHANGED <<devaddr, ephalted, dServed>>
    BY <1>2 DEF InAcked, Silent
  <2>2. ctx.sent < ctx.size <=> More
    BY <1>2 DEF More
  <2>3. ~More => ctx.sent = ctx.size /\ ctx.size = Gained
    BY <1>1, <1>2, Numbers DEF More
  <2>4. More => ctx.sent # ctx.size
    BY <1>2, Numbers DEF More
  <2> QED BY <1>2, <2>1, <2>2, <2>3, <2>4 DEF Goto
<1>6. /\ dataPid(dEpdata0', 0) = dataPid(dEpdata0, 0)
      /\ \A e \in InEndps : IF EpIdx(e) = EpIdx(dCtx.endp)
                            THEN dataPid(dEpdata0', e) # dataPid(dEpdata0, e)
                            ELSE dataPid(dEpdata0', e) = dataPid(dEpdata0, e)
  <2>1. dEpdata0 \in Flags
    BY FlagFacts
  <2>2. dEpdata0' = dataPidUpdate(dEpdata0, dCtx.endp)
    BY <1>5
  <2>3. dCtx.endp \in 0..255 /\ EpDir(dCtx.endp) # 0
    BY <1>4, Numbers
  <2>4. dataPid(dEpdata0', 0) = dataPid(dEpdata0, 0)
    BY Zenon, <2>1, <2>2, <2>3, ControlUntouched
  <2>5. ASSUME NEW e \in InEndps
        PROVE  IF EpIdx(e) = EpIdx(dCtx.endp)
               THEN dataPid(dEpdata0', e) # dataPid(dEpdata0, e)
               ELSE dataPid(dEpdata0', e) = dataPid(dEpdata0, e)
    <3>1. e \in 0..255 /\ EpDir(e) = EpDir(dCtx.endp) /\ EpIdx(e) \in EP
      BY <1>4, EndpFields DEF InEndps
    <3>2. CASE EpIdx(e) = EpIdx(dCtx.endp)
      <4>1. ~Apart(e, dCtx.endp) /\ EpIdx(dCtx.endp) \in EP
        BY <3>1, <3>2 DEF Apart
      <4> QED BY Zenon, <2>1, <2>2, <2>3, <3>2, <4>1, PidFlip
    <3>3. CASE EpIdx(e) # EpIdx(dCtx.endp)
      <4>1. Apart(e, dCtx.endp)
        BY <3>3 DEF Apart
      <4> QED BY Zenon, <2>1, <2>2, <3>1, <3>3, <4>1, PidElse
    <3> QED BY Zenon, <3>2, <3>3
  <2> QED BY Zenon, <2>4, <2>5
<1>7. hPc = "InTok" => hCall.kind = "in"
  BY <1>1 DEF Lockstep, Bytes, InTransfer, Transferring
<1>8. InStep'
  BY <1>1, <1>5, <1>7 DEF HostStays, InStep, InStage, AtRest, Clear
<1>9. Addressed'
  BY <1>1, <1>5 DEF HostStays, Lockstep, Places, Addressed, Tokens
<1>10. InTransfer'
  <2>1. More => ctx.sent < ctx.size /\ ctx.size > MAXPKT
    BY <1>2, Numbers DEF More
  <2>2. hPc # "Ready" => hCall.kind = "in"
    BY <1>1, <1>7
  <2> QED BY <1>1, <1>2, <1>5, <2>1, <2>2 DEF HostStays, InTransfer, Transferring
<1>11. ControlIn' /\ RxWhole'
  BY <1>1, <1>2, <1>5
     DEF HostStays, Lockstep, Bytes, ControlIn, RxWhole, Transferring, Whole
<1>12. BulkIn'
  <2>1. CASE More
    <3>1. DataIn' /\ Gained' = Gained
      <4>1. dCtx' = ctx /\ dPc' = "InToken"
        BY <1>5, <2>1
      <4>2. Gained' = dCtx'.sent + 0
        BY <1>1 DEF Gained
      <4>3. dCtx'.sent = dCtx.sent + Chunk(dCtx) /\ ~dCtx'.ctl
        BY <1>2, <4>1
      <4> QED BY <1>1, <4>1, <4>2, <4>3, Numbers DEF DataIn, Transferring
    <3> QED BY <1>1, <1>2, <1>4, <1>5, <2>1, <3>1 DEF HostStays, BulkIn
  <2>2. CASE ~More
    <3>1. ~DataIn' /\ dIn' = dIn + Gained
      BY <1>5, <2>2 DEF DataIn, Transferring
    <3>2. Gained = dCtx.size
      BY <1>1, <2>2, Numbers DEF More
    <3>3. ASSUME NEW n \in InSizes, hCall.kind = "in"
          PROVE  \E k \in 0..hDone : hDone = k * n + 0
      <4>1. n = dCtx.size /\ n \in Nat /\ n # 0
        BY <1>4 DEF Lockstep, Quiet
      <4>2. PICK k \in 0..hDone : hDone = k * n + n
        BY <1>4, <3>2, <3>3, <4>1
      <4>3. PICK d \in Nat : n = 1 + d
        <5>1. n - 1 \in Nat /\ n = 1 + (n - 1)
          BY <4>1
        <5> QED BY <5>1
      <4>4. k \in Nat /\ hDone \in Nat
        BY Numbers
      <4>5. hDone = (k + 1) * n
        BY <4>1, <4>2, <4>4
      <4>6. (k + 1) * n = (k + 1) + (k + 1) * d /\ (k + 1) * d \in Nat
        BY <4>3, <4>4
      <4>7. k + 1 \in 0..hDone
        BY <4>4, <4>5, <4>6
      <4>8. hDone = (k + 1) * n + 0
        BY <4>4, <4>5
      <4> QED BY <4>7, <4>8
    <3> QED BY <1>4, <3>1, <3>3, Numbers DEF HostStays, BulkIn
  <2> QED BY <2>1, <2>2
<1>13. ControlToggles' /\ InToggles'
  <2>1. /\ \A e \in InEndps :
              dataPid(hEpdata0, e) = dataPid(dEpdata0, e) <=> EpIdx(e) # EpIdx(dCtx.endp)
        /\ dataPid(dEpdata0, 0) = "DATA0"
    BY <1>1, <1>3 DEF Lockstep, Toggles, ControlToggles, InToggles
  <2>2. \A e \in InEndps : dataPid(hEpdata0, e) = dataPid(dEpdata0', e)
    BY <1>6, <2>1, PidOf DEF DataPids
  <2> QED BY <1>1, <1>2, <1>5, <1>6, <2>1, <2>2
          DEF HostStays, Lockstep, Toggles, ControlToggles, InToggles, DataIn, Transferring
<1>14. Serving'
  BY <1>1, <1>5 DEF HostStays, Lockstep, Serving, Unserved
<1>15. Quiet' /\ DeviceOn' /\ OnlyControlHalted'
  BY <1>1, <1>5, DeviceGoesOn, HaltedStays
<1> QED BY Zenon, <1>8, <1>9, <1>10, <1>11, <1>12, <1>13, <1>14, <1>15
        DEF Lockstep, Places, Bytes, Toggles

-----------------------------------------------------------------------------
(***************************************************************************)
(* The control endpoint: the request and the status stage.                 *)
(***************************************************************************)
\* The device acts on the request of the call, and answers as the call expects.
LEMMA RequestTaken ==
    ASSUME TypeOK, Lockstep, HostStays, processControl
    PROVE  LET r == hCall.req
           IN  /\ AckSetup(r)
               /\ devaddr' = IF hCall.kind \in Sets /\ r.breq = "SET_ADDRESS" THEN r.value
                             ELSE devaddr
               /\ devaddr' \in {devaddr} \union (0..127)
               /\ ephalted' \in {ephalted, SetFlag(ephalted, 0, TRUE),
                                 SetFlag(ephalted, 0, FALSE)}
               /\ IF hCall.kind \in Sets THEN Goto("StatusIn", CtlCtx(0))
                  ELSE AnswerSize(hCall) > 0 /\ Goto("InToken", CtlCtx(AnswerSize(hCall)))
<1> DEFINE r == hCall.req
<1>1. /\ dPc = "SetupData" /\ toDev # NoPkt /\ Received = toDev
  BY Taking DEF processControl
<1>2. hPc = "SetupAck" /\ toHost = NoPkt
  BY <1>1, HshkPids
     DEF Lockstep, Places, InStep, AtRest, SetupStage, InStage, StatusStage, OutStage,
         Clear, Sent, Answered, Quiet
<1>3. /\ hCall.kind \in Controls /\ r # NoReq /\ Usual(hCall)
  BY <1>2, KindsAt, EndpointsInUse, CallUsual DEF Lockstep
<1>4. dCtx.endp = 0 /\ ~dCtx.bad /\ toDev.len = 8 /\ toDev.req = r
  BY <1>1, <1>2 DEF Lockstep, Places, Addressed
<1>5. dRx' = r
  BY <1>1, <1>4 DEF processControl, Return
<1>6. Request = {r}
  BY <1>3, <1>5 DEF Request
<1>7. \/ r.type = "dev" /\ handleDevReq(r)
      \/ r.type = "if" /\ handleIfReq(r)
      \/ r.type = "ep" /\ handleEpReq(r)
      \/ r.type = "other" /\ StallStop(0)
  BY <1>4, <1>6 DEF processControl
<1>8. CASE hCall.kind = "get"
  <2>1. GetOf(hCall) /\ hCall.kind \notin Sets
    BY <1>3, <1>8 DEF Usual, Sets
  <2>2. r.type = "dev" => Answer(r, hCall.size)
    BY <1>7, <2>1 DEF GetOf, handleDevReq, DevReqs
  <2>3. r.type = "if" => Answer(r, hCall.size)
    BY <1>7, <2>1 DEF GetOf, handleIfReq
  <2>4. r.type = "ep" => Answer(r, hCall.size)
    BY <1>7, <2>1 DEF GetOf, handleEpReq
  <2>5. r.type \in {"dev", "if", "ep"} /\ hCall.size \in {1, 2} /\ r.dir = "get"
    BY <2>1 DEF GetOf
  <2>6. Answer(r, hCall.size)
    BY <2>2, <2>3, <2>4, <2>5
  <2> QED BY <1>8, <2>1, <2>5, <2>6 DEF Answer, AnswerSize
<1>9. CASE hCall.kind \in Descs
  <2>1. DescOf(hCall) /\ hCall.kind \notin Sets /\ hCall.kind # "get"
    BY <1>3, <1>9 DEF Usual, Sets, Descs
  <2>2. r.desc \in DOMAIN DescSize /\ DescSize[r.desc] \in Nat
    BY <1>3, <1>9, CallUsual, <1>2, CallsAssumption DEF Lockstep
  <2>3. MinOf(r.length, DescSize[r.desc]) = AnswerSize(hCall) /\ AnswerSize(hCall) > 0
    BY <2>1, <2>2, Numbers DEF DescOf, AnswerSize, MinOf
  <2>4. Answer(r, MinOf(r.length, DescSize[r.desc]))
    BY <1>7, <2>1, <2>2 DEF DescOf, handleDevReq, DevReqs
  <2> QED BY <2>1, <2>3, <2>4 DEF DescOf, Answer
<1>10. CASE hCall.kind \in Sets
  <2>1. SetOf(hCall)
    BY <1>3, <1>10 DEF Usual
  <2> QED BY <1>7, <1>10, <2>1
          DEF SetOf, handleDevReq, handleIfReq, handleEpReq, DevReqs, Obey, Ignored, SetHalt
<1> QED BY <1>3, <1>8, <1>9, <1>10 DEF Controls

LEMMA ProcessControlStep ==
    ASSUME TypeOK, Lockstep, HostStays, processControl
    PROVE  Lockstep'
<1> DEFINE r == hCall.req
<1>1. /\ dPc = "SetupData" /\ toDev # NoPkt /\ toDev' = NoPkt /\ toDev'.pid = "NONE"
      /\ Received = toDev /\ pullup' = pullup
  BY Taking DEF processControl
<1>2. hPc = "SetupAck" /\ toHost = NoPkt
  BY <1>1, HshkPids
     DEF Lockstep, Places, InStep, AtRest, SetupStage, InStage, StatusStage, OutStage,
         Clear, Sent, Answered, Quiet
<1>3. hCall.kind \in Controls /\ hCall.kind # "in" /\ hCall.kind # "out"
  BY <1>2, KindsAt DEF Lockstep
<1>4. /\ toHost'.pid = "ACK" /\ dEpdata0' = dataPidUpdate(dEpdata0, dCtx.endp)
      /\ dServed' = Append(dServed, r) /\ dIn' = dIn
  BY RequestTaken, HshkPids DEF AckSetup, sendPktToHost
<1>5. /\ devaddr' = IF hCall.kind \in Sets /\ r.breq = "SET_ADDRESS" THEN r.value ELSE devaddr
      /\ devaddr' \in {NoAddr} \union (0..127)
      /\ ephalted' \in {ephalted, SetFlag(ephalted, 0, TRUE), SetFlag(ephalted, 0, FALSE)}
  <2>1. devaddr \in {NoAddr} \union (0..127)
    BY DEF Lockstep, Places, Addressed
  <2> QED BY <2>1, RequestTaken
<1>6. dCtx.endp = 0
  BY <1>1 DEF Lockstep, Places, Addressed
<1>7. /\ dCtx'.endp = 0 /\ dCtx'.ctl = TRUE /\ dCtx'.base = 0 /\ dCtx'.sent = 0
      /\ \/ hCall.kind \in Sets /\ dPc' = "StatusIn"
         \/ /\ hCall.kind \notin Sets /\ dPc' = "InToken"
            /\ dCtx'.size = AnswerSize(hCall) /\ AnswerSize(hCall) > 0
  <2>1. \A n : /\ CtlCtx(n).endp = 0 /\ CtlCtx(n).ctl = TRUE /\ CtlCtx(n).base = 0
               /\ CtlCtx(n).sent = 0 /\ CtlCtx(n).size = n
    BY <1>6 DEF CtlCtx, NoCtx
  <2>2. \/ hCall.kind \in Sets /\ Goto("StatusIn", CtlCtx(0))
        \/ /\ hCall.kind \notin Sets /\ AnswerSize(hCall) > 0
           /\ Goto("InToken", CtlCtx(AnswerSize(hCall)))
    BY Zenon, RequestTaken
  <2> QED BY <2>1, <2>2 DEF Goto
<1>8. Gained' = 0 /\ ~DataIn' /\ ~DataIn
  BY <1>1, <1>7 DEF Gained, DataIn, Transferring
<1>9. /\ dataPid(dEpdata0', 0) = "DATA1"
      /\ \A e \in InEndps : dataPid(dEpdata0', e) = dataPid(dEpdata0, e)
  <2>1. dEpdata0 \in Flags
    BY FlagFacts
  <2>2. dEpdata0' = dataPidUpdate(dEpdata0, 0)
    BY Zenon, <1>4, <1>6
  <2>3. /\ dataPid(dEpdata0', 0) # dataPid(dEpdata0, 0)
        /\ \A e \in InEndps : dataPid(dEpdata0', e) = dataPid(dEpdata0, e)
    BY Zenon, <2>1, <2>2, ControlSet
  <2>4. dataPid(dEpdata0, 0) = "DATA0"
    BY <1>1 DEF Lockstep, Toggles, ControlToggles
  <2> QED BY <2>3, <2>4, PidOf DEF DataPids
<1>10. OnlyControlHalted'
  <2>1. OnlyControlHalted
    BY DEF Lockstep, Places
  <2>2. CASE ephalted' = ephalted
    BY <2>2, HaltedStays
  <2>3. CASE \E b \in BOOLEAN : ephalted' = SetFlag(ephalted, 0, b)
    <3>1. PICK b \in BOOLEAN : ephalted' = SetFlag(ephalted, 0, b)
      BY <2>3
    <3>2. \A e \in 0..255 : EpIdx(e) \in EP /\ (EpIdx(e) # 0 \/ EpDir(e) # 0)
             => Flag(SetFlag(ephalted, 0, b), e) = Flag(ephalted, e)
      BY Zenon, FlagFacts, OthersKept
    <3> QED BY Zenon, <2>1, <3>1, <3>2 DEF OnlyControlHalted
  <2> QED BY <1>5, <2>2, <2>3
<1>11. InStep'
  BY <1>1, <1>2, <1>4, <1>7 DEF HostStays, InStep, SetupStage, Answered
<1>12. Addressed'
  BY <1>1, <1>2, <1>3, <1>5, <1>7 DEF HostStays, Addressed, Tokens
<1>13. InTransfer'
  BY <1>1, <1>2, <1>3, <1>7, Numbers DEF HostStays, InTransfer, Transferring, Controls, Descs, Sets
<1>14. ControlIn' /\ RxWhole'
  BY <1>1, <1>2, <1>7, <1>8
     DEF HostStays, Lockstep, Bytes, ControlIn, RxWhole, Transferring, AnswerSize, Whole
<1>15. BulkIn'
  BY <1>3, <1>4, <1>8 DEF HostStays, Lockstep, Bytes, BulkIn
<1>16. ControlToggles' /\ InToggles'
  BY <1>1, <1>2, <1>3, <1>7, <1>8, <1>9
     DEF HostStays, Lockstep, Toggles, ControlToggles, InToggles, Transferring
<1>17. Serving'
  <2>1. Len(dServed') = Len(dServed) + 1 /\ Len(dServed) \in Nat
    BY <1>4 DEF TypeOK, DeviceTypeOK, HistoryOK
  <2>2. mark = Len(dServed)
    BY <1>1, <1>3 DEF Lockstep, Serving, Unserved
  <2>3. hCall.kind \notin Ins \union Outs
    BY <1>3 DEF Controls, Descs, Sets, Ins, Outs
  <2> QED BY <1>2, <1>5, <1>7, <2>1, <2>2, <2>3 DEF HostStays, Serving, Unserved
<1>18. Quiet' /\ DeviceOn'
  BY <1>1, <1>7, DeviceGoesOn
<1> QED BY Zenon, <1>10, <1>11, <1>12, <1>13, <1>14, <1>15, <1>16, <1>17, <1>18
        DEF Lockstep, Places, Bytes, Toggles

\* The status stage.
LEMMA StatusStep ==
    ASSUME TypeOK, Lockstep, HostStays, controlStatusStage
    PROVE  Lockstep'
<1> DEFINE T == <<devaddr, ephalted, dServed, dIn>>
<1>1. CASE StatusIn \/ StatusOut
  <2>1. /\ dPc \in {"StatusIn", "StatusOut"} /\ toDev # NoPkt /\ toDev' = NoPkt
        /\ toDev'.pid = "NONE" /\ Received = toDev /\ pullup' = pullup
    BY <1>1, Taking DEF StatusIn, StatusOut
  <2>2. /\ toHost = NoPkt
        /\ hPc = IF dPc = "StatusIn" THEN "StatusInData" ELSE "StatusOutData"
    BY <2>1, HshkPids
       DEF Lockstep, Places, InStep, AtRest, SetupStage, InStage, StatusStage, OutStage,
           Clear, Sent, Answered, Quiet
  <2>3. /\ dCtx' = dCtx /\ dPc' = IF dPc = "StatusIn" THEN "StatusAck" ELSE "StatusData"
        /\ UNCHANGED T /\ dEpdata0' = dEpdata0
        /\ IF dPc = "StatusIn" THEN toHost'.pid = "DATA1" ELSE toHost' = NoPkt
    BY <1>1, <2>1, <2>2, SentPids
       DEF StatusIn, StatusOut, Return, Take, Goto, sendPktToHost, Silent, dState, dHistory
  <2>4. InStep'
    BY <2>1, <2>2, <2>3 DEF HostStays, InStep, StatusStage, Clear, Answered
  <2>5. Addressed'
    BY <2>1, <2>2, <2>3 DEF HostStays, Lockstep, Places, Addressed, Tokens
  <2>6. InTransfer' /\ ControlIn' /\ BulkIn' /\ RxWhole'
    BY <2>1, <2>2, <2>3
       DEF HostStays, Lockstep, Bytes, InTransfer, ControlIn, BulkIn, RxWhole, DataIn,
           Transferring, Whole, AnswerSize
  <2>7. ControlToggles' /\ InToggles'
    BY <2>1, <2>2, <2>3
       DEF HostStays, Lockstep, Toggles, ControlToggles, InToggles, DataIn, Transferring
  <2>8. Serving'
    BY <2>1, <2>3 DEF HostStays, Lockstep, Serving, Unserved
  <2>9. Quiet' /\ DeviceOn' /\ OnlyControlHalted'
    BY <2>1, <2>3, DeviceGoesOn, HaltedStays
  <2> QED BY Zenon, <2>4, <2>5, <2>6, <2>7, <2>8, <2>9 DEF Lockstep, Places, Bytes, Toggles
<1>2. CASE StatusAck \/ StatusData
  <2>1. /\ dPc \in {"StatusAck", "StatusData"} /\ toDev # NoPkt /\ toDev' = NoPkt
        /\ toDev'.pid = "NONE" /\ Received = toDev /\ pullup' = pullup
    BY <1>2, Taking DEF StatusAck, StatusData
  <2>2. /\ toHost = NoPkt
        /\ hPc = IF dPc = "StatusAck" THEN "Ready" ELSE "StatusOutAck"
    BY <2>1, HshkPids
       DEF Lockstep, Places, InStep, AtRest, SetupStage, InStage, StatusStage, OutStage,
           Clear, Sent, Answered, Quiet
  <2>3. dCtx.endp = 0
    BY <2>1 DEF Lockstep, Bytes, ControlIn
  <2>4. /\ dPc' = "Run" /\ UNCHANGED T
        /\ \E t \in {dEpdata0, dataPidUpdate(dEpdata0, 0)} : dEpdata0' = SetFlag(t, 0, TRUE)
        /\ IF dPc = "StatusAck" THEN toHost' = NoPkt ELSE toHost'.pid = "ACK"
    BY <1>2, <2>1, <2>2, <2>3, HshkPids
       DEF StatusAck, StatusData, Return, Take, EndControl, Goto, sendPktToHost, Silent,
           dHistory
  <2>5. /\ dataPid(dEpdata0', 0) = "DATA0"
        /\ \A e \in InEndps : dataPid(dEpdata0', e) = dataPid(dEpdata0, e)
    <3>1. dEpdata0 \in Flags /\ dataPidUpdate(dEpdata0, 0) \in Flags
      BY FlagFacts, ToggleTyped
    <3>2. CASE dEpdata0' = SetFlag(dEpdata0, 0, TRUE)
      BY Zenon, <3>1, <3>2, ControlSet
    <3>3. CASE dEpdata0' = SetFlag(dataPidUpdate(dEpdata0, 0), 0, TRUE)
      <4>1. \A e \in InEndps : dataPid(dataPidUpdate(dEpdata0, 0), e) = dataPid(dEpdata0, e)
        BY Zenon, <3>1, ControlSet
      <4>2. /\ dataPid(dEpdata0', 0) = "DATA0"
            /\ \A e \in InEndps :
                  dataPid(dEpdata0', e) = dataPid(dataPidUpdate(dEpdata0, 0), e)
        <5>1. ASSUME NEW g \in Flags, dEpdata0' = SetFlag(g, 0, TRUE)
              PROVE  /\ dataPid(dEpdata0', 0) = "DATA0"
                     /\ \A e \in InEndps : dataPid(dEpdata0', e) = dataPid(g, e)
          BY Zenon, <5>1, ControlSet
        <5> QED BY Zenon, <3>1, <3>3, <5>1
      <4> QED BY Zenon, <4>1, <4>2
    <3> QED BY <2>4, <3>2, <3>3
  <2>6. InStep'
    BY <2>1, <2>2, <2>4 DEF HostStays, InStep, AtRest, StatusStage, Clear, Answered
  <2>7. Addressed'
    BY <2>1, <2>2, <2>4 DEF HostStays, Lockstep, Places, Addressed, Tokens
  <2>8. InTransfer' /\ ControlIn' /\ BulkIn' /\ RxWhole'
    BY <2>1, <2>2, <2>4
       DEF HostStays, Lockstep, Bytes, InTransfer, ControlIn, BulkIn, RxWhole, DataIn,
           Transferring, Whole, AnswerSize
  <2>9. ControlToggles' /\ InToggles'
    BY <2>1, <2>2, <2>4, <2>5
       DEF HostStays, Lockstep, Toggles, ControlToggles, InToggles, DataIn, Transferring
  <2>10. Serving'
    BY <2>1, <2>4 DEF HostStays, Lockstep, Serving, Unserved
  <2>11. Quiet' /\ DeviceOn' /\ OnlyControlHalted'
    BY <2>1, <2>4, DeviceGoesOn, HaltedStays
  <2> QED BY Zenon, <2>6, <2>7, <2>8, <2>9, <2>10, <2>11 DEF Lockstep, Places, Bytes, Toggles
<1> QED BY <1>1, <1>2 DEF controlStatusStage

\* Steps a device never takes on a quiet line.
LEMMA NeverSurprised ==
    ASSUME TypeOK, Lockstep, WaitBad \/ Deaf \/ RunUnexpected \/ InNaked \/ InNoHandshake
    PROVE  FALSE
<1>1. CASE WaitBad
  BY <1>1, LineIntact, HshkPids DEF WaitBad
<1>2. CASE Deaf
  BY <1>2
     DEF Deaf, Lockstep, Places, InStep, AtRest, SetupStage, InStage, StatusStage, OutStage
<1>3. CASE RunUnexpected
  <2>1. dPc = "Run" /\ toDev.pid \in DataPids \union Handshakes
    BY <1>3, Taking DEF RunUnexpected
  <2> QED BY <2>1, HshkPids
          DEF Lockstep, Places, InStep, AtRest, SetupStage, InStage, StatusStage, OutStage,
              Clear, Sent, Answered, Quiet, DataPids, Handshakes
<1>4. CASE InNaked \/ InNoHandshake
  BY <1>4, HandshakePlace DEF InNaked, InNoHandshake
<1> QED BY <1>1, <1>2, <1>3, <1>4

LEMMA DeviceStepStays ==
    ASSUME TypeOK, Lockstep, Device PROVE Lockstep'
<1>1. HostStays /\ DeviceStep
  BY DeviceAlone DEF Device
<1>2. CASE waitForExpectedPacket
  BY <1>1, <1>2, WaitResetStep, WaitOutStep, NeverSurprised DEF waitForExpectedPacket
<1>3. CASE sendInData
  BY <1>1, <1>3, SendOnInStep, ControlAckedStep, BulkAckedStep, NeverSurprised DEF sendInData
<1>4. CASE usbDeviceRun \/ Deaf \/ RunSetup \/ processSOF \/ RunUnexpected
  BY <1>1, <1>4, UsbDeviceRunStep, RunSetupStep, WaitOutStep, NeverSurprised
<1> QED BY <1>1, <1>2, <1>3, <1>4, ProcessInStep, ProcessOutStep, OutDataStep,
           ProcessControlStep, StatusStep
        DEF DeviceStep

-----------------------------------------------------------------------------
(***************************************************************************)
(* The invariant, and what follows from it.                                *)
(***************************************************************************)
LEMMA LockstepInit == Quiet /\ Init => Lockstep
<1> SUFFICES ASSUME Quiet, Init PROVE Lockstep
  OBVIOUS
<1>1. /\ toDev = NoPkt /\ toHost = NoPkt /\ pullup = FALSE /\ toDev.pid = "NONE"
      /\ dPc = "Start" /\ dCtx = NoCtx /\ devaddr = NoAddr /\ dServed = <<>> /\ dIn = 0
      /\ ephalted = AllFlags(FALSE) /\ dEpdata0 = AllFlags(TRUE)
      /\ hPc = "Start" /\ hCall = NoCall /\ hDone = 0 /\ hRx = <<>> /\ hIn = 0
      /\ hEpdata0 = AllFlags(TRUE) /\ mark = -1
  BY HshkPids DEF Init, BusInit, DeviceInit, HostInit
<1>2. hCall.kind = "none"
  BY <1>1, NoCallTyped
<1>3. OnlyControlHalted
  <2>1. \A e \in 0..255 : EpIdx(e) \in EP => AllFlags(FALSE)[EpIdx(e)][EpDir(e)] = FALSE
    BY EndpFields DEF AllFlags
  <2>2. ~FALSE
    OBVIOUS
  <2> QED BY Zenon, <1>1, <2>1, <2>2 DEF OnlyControlHalted, Flag
<1>4. \A e \in InEndps : dataPid(AllFlags(TRUE), e) = "DATA0"
  <2>1. \A e \in InEndps : e \in 0..255 /\ EpIdx(e) \in EP
    BY DEF InEndps
  <2> QED BY Zenon, <2>1, PidAll
<1>5. dataPid(AllFlags(TRUE), 0) = "DATA0"
  <2>1. 0 \in 0..255 /\ EpIdx(0) \in EP
    BY EndpFields
  <2> QED BY <2>1, PidAll
<1>6. DeviceOn /\ InStep /\ Addressed
  BY <1>1, <1>2 DEF DeviceOn, InStep, AtRest, Clear, Addressed, Tokens
<1>7. InTransfer /\ ControlIn /\ BulkIn /\ RxWhole
  BY <1>1, <1>2
     DEF InTransfer, ControlIn, BulkIn, RxWhole, DataIn, Transferring, Controls, Descs, Sets
<1>8. ControlToggles /\ InToggles
  BY <1>1, <1>2, <1>4, <1>5 DEF ControlToggles, InToggles, DataIn, Transferring
<1>9. Serving
  BY <1>1, <1>2 DEF Serving, Ins, Outs, Controls, Descs, Sets
<1> QED BY <1>3, <1>6, <1>7, <1>8, <1>9 DEF Lockstep, Places, Bytes, Toggles

LEMMA LockstepStutters == ASSUME Lockstep, UNCHANGED vars PROVE Lockstep'
<1>1. /\ UNCHANGED <<dPc, dCtx, devaddr, ephalted, dEpdata0, dServed, dIn, pullup, toDev, toHost>>
      /\ UNCHANGED <<hPc, hCall, hDone, hEpdata0, hIn, hRx, mark>>
  BY DEF vars, dVars, hVars, dState, dHistory, hHistory
<1>2. InStep' /\ Addressed'
  BY <1>1
     DEF Lockstep, Places, InStep, AtRest, SetupStage, InStage, StatusStage, OutStage, Clear,
         Sent, Answered, More, Chunk, Addressed
<1>3. InTransfer' /\ ControlIn'
  BY <1>1
     DEF Lockstep, Bytes, InTransfer, ControlIn, Transferring, AnswerSize, Gained, Chunk
<1>4. BulkIn' /\ RxWhole'
  BY <1>1
     DEF Lockstep, Bytes, BulkIn, RxWhole, DataIn, Transferring, Whole, Gained, Chunk
<1>5. ControlToggles' /\ InToggles'
  BY <1>1 DEF Lockstep, Toggles, ControlToggles, InToggles, DataIn, Transferring
<1>6. Serving'
  BY <1>1 DEF Lockstep, Serving, Unserved
<1>7. Quiet' /\ DeviceOn' /\ OnlyControlHalted'
  BY <1>1, StillOn DEF DeviceStays
<1> QED BY Zenon, <1>2, <1>3, <1>4, <1>5, <1>6, <1>7 DEF Lockstep, Places, Bytes, Toggles

LEMMA LockstepStays == TypeOK /\ Lockstep /\ [Next]_vars => Lockstep'
<1> SUFFICES ASSUME TypeOK, Lockstep, [Next]_vars PROVE Lockstep'
  OBVIOUS
<1>1. ~Corrupt
  BY DEF Corrupt, Lockstep, Quiet, TypeOK
<1>2. ~DevUser
  BY DEF DevUser, DeviceUser, usbDeviceDisconnect, usbDeviceReconnect, usbDeviceRunAgain,
         Lockstep, Places, InStep, AtRest, SetupStage, InStage, StatusStage, OutStage
<1> QED BY <1>1, <1>2, DeviceStepStays, HostStepStays, UserStepStays, LockstepStutters
        DEF Next, usbHostEndExecution

\* On a quiet line host and device are always at places that fit, with the packet, the
\* counts and the toggles that go with them.
THEOREM InLockstep == Quiet => (Spec => []Lockstep)
<1> SUFFICES ASSUME Quiet PROVE Spec => []Lockstep
  OBVIOUS
<1>1. Init => Lockstep
  BY LockstepInit
<1>2. TypeOK /\ Lockstep /\ [Next]_vars => Lockstep'
  BY LockstepStays
<1> QED BY <1>1, <1>2, SystemTyped, PTL DEF Spec

\* Between calls the device is in its run loop.
THEOREM BackToRest == Quiet => (Spec => []DeviceAtRest)
<1> SUFFICES ASSUME Quiet PROVE Spec => []DeviceAtRest
  OBVIOUS
<1>1. Lockstep => DeviceAtRest
  BY HshkPids
     DEF Lockstep, Places, InStep, AtRest, SetupStage, InStage, StatusStage, OutStage, Clear,
         Sent, Answered, DeviceAtRest
<1> QED BY <1>1, InLockstep, PTL

\* usbDeviceRun never returns.
THEOREM RunsOn == Quiet => (Spec => []DeviceRuns)
<1> SUFFICES ASSUME Quiet PROVE Spec => []DeviceRuns
  OBVIOUS
<1>1. Lockstep => DeviceRuns
  BY DEF Lockstep, Places, InStep, AtRest, SetupStage, InStage, StatusStage, OutStage,
         DeviceRuns
<1> QED BY <1>1, InLockstep, PTL

\* The bytes the device counts as delivered are those the host took.
THEOREM CountsAgree == Quiet => (Spec => []InAgrees)
<1> SUFFICES ASSUME Quiet PROVE Spec => []InAgrees
  OBVIOUS
<1>1. TypeOK /\ Lockstep => InAgrees
  <2> SUFFICES ASSUME TypeOK, Lockstep PROVE InAgrees
    OBVIOUS
  <2>1. hIn = dIn + (IF DataIn THEN Gained ELSE 0)
    BY DEF Lockstep, Bytes, BulkIn
  <2>2. dPc = "Run" => ~DataIn
    BY DEF DataIn, Transferring
  <2> QED BY <2>1, <2>2, Numbers DEF InAgrees
<1> QED BY <1>1, InLockstep, SystemTyped, PTL

\* Only a host that listens has a packet coming.
AwaitedByHost == toHost = NoPkt \/ hPc \in Listening

LEMMA SentToListener == Lockstep => AwaitedByHost
BY DEF Lockstep, Places, InStep, AtRest, SetupStage, InStage, StatusStage, OutStage, Clear,
       Sent, Listening, AwaitedByHost

\* A side sends when the other listens.
THEOREM LineShared == Quiet => (Spec => HalfDuplex)
<1> SUFFICES ASSUME Quiet PROVE Spec => HalfDuplex
  OBVIOUS
<1> DEFINE OneSends ==
      /\ toDev' \notin {toDev, NoPkt} => toHost = NoPkt \/ hPc \in Listening
      /\ toHost' \notin {toHost, NoPkt} => hPc \in Listening
<1>1. ASSUME TypeOK, Lockstep, Lockstep', [Next]_vars PROVE OneSends
  <2>1. toHost = NoPkt \/ hPc \in Listening
    BY <1>1, SentToListener DEF AwaitedByHost
  <2>2. toHost' = NoPkt \/ hPc' \in Listening
    <3>1. Lockstep' => AwaitedByHost'
      BY SentToListener, PTL
    <3> QED BY <1>1, <3>1 DEF AwaitedByHost
  <2>3. CASE Device
    BY <2>1, <2>2, <2>3 DEF Device, hOwn
  <2>4. CASE Host \/ User
    <3>1. toHost' \in {toHost, NoPkt}
      <4>1. CASE Host
        BY <4>1 DEF Host, HostStep, checkSof, SendSof, sendStandardRequest, getDataFromDevice,
           sendControlStatus, sendDataOut, SendToken, SendSetupData, SetupAck, waitForAck, Hear,
           DataArrives, DataFails, SendStatusData, StatusInData, SendOutData, OutAnswer,
           Disconnected, Send, lineVars
      <4>2. CASE User
        BY <4>2 DEF User, HostUser, usbHostWaitForConnection, Begin, usbHostResetDevice,
           usbHostSuspendDevice, usbHostSleepUs, Condition, SendSof, Send, lineVars
      <4> QED BY <2>4, <4>1, <4>2
    <3> QED BY <2>1, <3>1
  <2>5. ~Corrupt /\ ~DevUser
    BY <1>1 DEF Corrupt, Lockstep, Quiet, TypeOK, DevUser, DeviceUser, usbDeviceDisconnect,
         usbDeviceReconnect, usbDeviceRunAgain, Places, InStep, AtRest, SetupStage, InStage,
         StatusStage, OutStage
  <2>6. CASE UNCHANGED vars
    BY <2>6 DEF vars, dVars
  <2> QED BY <1>1, <2>3, <2>4, <2>5, <2>6 DEF Next, usbHostEndExecution
<1>2. TypeOK /\ Lockstep /\ [Next]_vars => Lockstep'
  BY LockstepStays
<1>3. TypeOK /\ Lockstep /\ [Next]_vars => OneSends
  BY <1>1, <1>2
<1>4. TypeOK /\ Lockstep /\ [Next]_vars => [OneSends]_vars
  BY <1>3
<1> QED BY <1>4, InLockstep, SystemTyped, PTL DEF Spec, HalfDuplex

-----------------------------------------------------------------------------
(***************************************************************************)
(* Action properties: what a step of a quiet line may do.                  *)
(***************************************************************************)

\* Only a step of the host ends a call, and a control call succeeds only with the last
\* packet of its status stage.
LEMMA CallEnds ==
    ASSUME TypeOK, Lockstep, [Next]_vars, hCall' # hCall, hPc \notin {"Start", "Ready"}
    PROVE  /\ hCall' = NoCall /\ hRet' \in {"OK", "ERROR"}
           /\ UNCHANGED <<dOwn, mark>>
           /\ hCall.kind \in Controls /\ hRet' = "OK" =>
                 hPc \in {"StatusOutAck", "StatusInData"} /\ toHost # NoPkt
<1>1. Host
  <2>1. ~Device /\ ~DevUser /\ ~Corrupt /\ ~UNCHANGED vars
    BY DEF Device, DevUser, Corrupt, vars, hVars, hOwn
  <2>2. ~User
    BY DEF User, HostUser, usbHostWaitForConnection, Begin, Counted, usbHostResetDevice,
       usbHostSuspendDevice, usbHostSleepUs, Condition
  <2> QED BY <2>1, <2>2 DEF Next, usbHostEndExecution
<1>2. UNCHANGED <<dOwn, mark>> /\ HostStep
  BY <1>1 DEF Host
<1> DEFINE Goal == /\ hCall' = NoCall /\ hRet' \in {"OK", "ERROR"}
                   /\ hCall.kind \in Controls /\ hRet' = "OK" =>
                        hPc \in {"StatusOutAck", "StatusInData"} /\ toHost # NoPkt
<1> SUFFICES Goal
  BY <1>2
<1>3. \A s : Finish(s) => hCall' = NoCall /\ hRet' = s
  BY DEF Finish
<1>4. \A pc : At(pc) => hCall' = hCall
  BY DEF At
<1>5. "OK" # "ERROR"
  OBVIOUS
<1>6. CASE checkSof \/ (\E pc, pid, next : SendToken(pc, pid, next)) \/ SendSetupData
           \/ SendStatusData \/ SendOutData
  BY <1>4, <1>6 DEF checkSof, SendToken, SendSetupData, SendStatusData, SendOutData
<1>7. CASE SetupAck
  <2>1. hPc = "SetupAck" /\ toHost # NoPkt
    BY <1>7 DEF SetupAck, waitForAck, Hear
  <2>2. toHost.pid = "ACK"
    BY <2>1, HshkPids
       DEF Lockstep, Places, InStep, AtRest, SetupStage, InStage, StatusStage, OutStage, Clear,
           Sent, Answered
  <2> QED BY <1>4, <1>7, <2>2 DEF SetupAck, waitForAck
<1>8. CASE DataArrives
  <2>1. hPc = "InData" /\ AfterData(hDone + toHost.len)
    BY <1>8 DEF DataArrives, Hear
  <2>2. CASE hCall.kind = "in"
    <3>1. hCall.kind \notin Controls
      BY <2>2 DEF Controls, Descs, Sets
    <3>2. Finish("OK")
      BY <1>4, <2>1, <2>2 DEF AfterData, Descs, Succeed
    <3> QED BY <1>3, <3>1, <3>2
  <2>3. CASE hCall.kind # "in"
    <3>1. Finish("ERROR")
      BY <1>4, <2>1, <2>3, KindsAt DEF Lockstep, AfterData, Ins, EndDescriptor, Fail
    <3> QED BY <1>3, <1>5, <3>1
  <2> QED BY <2>2, <2>3
<1>9. CASE DataFails
  <2>1. hPc = "InData" /\ toHost # NoPkt /\ toHost.pid # dataPid(hEpdata0, hCall.endp)
        /\ DataError
    BY <1>9 DEF DataFails, Hear
  <2>2. hCall.kind = "in"
    BY <2>1, DataPlace
  <2>3. Finish("ERROR")
    BY <2>1, <2>2 DEF DataError, Descs, Fail
  <2> QED BY <1>3, <1>5, <2>3
<1>10. CASE waitForAck("StatusOutAck", Succeed, Fail)
  <2>1. hPc = "StatusOutAck" /\ toHost # NoPkt /\ (Finish("OK") \/ Finish("ERROR"))
    BY <1>4, <1>10 DEF waitForAck, Hear, Succeed, Fail
  <2> QED BY <1>3, <2>1
<1>11. CASE StatusInData
  <2>1. hPc = "StatusInData" /\ toHost # NoPkt /\ (Finish("OK") \/ Finish("ERROR"))
    BY <1>11 DEF StatusInData, Hear, Succeed, Fail
  <2> QED BY <1>3, <2>1
<1>12. CASE OutAnswer
  <2>1. hPc = "OutAck" /\ (Finish("OK") \/ Finish("ERROR"))
    BY <1>4, <1>12 DEF OutAnswer, Hear, Succeed, Fail
  <2>2. hCall.kind \notin Controls
    BY <2>1, KindsAt DEF Lockstep, Controls, Descs, Sets
  <2> QED BY <1>3, <2>1, <2>2
<1>13. ~Disconnected
  BY NeverDisconnected
<1> QED BY <1>2, <1>6, <1>7, <1>8, <1>9, <1>10, <1>11, <1>12, <1>13
        DEF HostStep, sendStandardRequest, getDataFromDevice, sendControlStatus, sendDataOut

\* The places where it has it.
LEMMA StatusPlaces ==
    ASSUME TypeOK, Lockstep, hPc \in {"StatusOutAck", "StatusInData"}, toHost # NoPkt
    PROVE  \/ hPc = "StatusOutAck" /\ dPc = "Run"
           \/ hPc = "StatusInData" /\ dPc = "StatusAck"
BY HshkPids
   DEF Lockstep, Places, InStep, AtRest, SetupStage, InStage, StatusStage, OutStage, Clear,
       Sent, Answered

\* A descriptor or status read that reports success has taken the whole of it, in order.
THEOREM ReadsWhole == Quiet => (Spec => ReadWhole)
<1> SUFFICES ASSUME Quiet PROVE Spec => ReadWhole
  OBVIOUS
<1> DEFINE Told == Returns({"get"} \union Descs, "OK") =>
                      /\ Whole(hRx)
                      /\ hDone = IF hCall.kind = "get" THEN hCall.size
                                 ELSE MinOf(hCall.size, DescSize[hCall.req.desc])
<1>1. ASSUME TypeOK, Lockstep, [Next]_vars, Returns({"get"} \union Descs, "OK")
      PROVE  /\ Whole(hRx)
             /\ hDone = IF hCall.kind = "get" THEN hCall.size
                        ELSE MinOf(hCall.size, DescSize[hCall.req.desc])
  <2>1. /\ hCall.kind \in {"get"} \union Descs /\ hCall'.kind = "none" /\ hRet' = "OK"
        /\ hCall.kind \in Controls
    BY <1>1 DEF Returns, Controls
  <2>2. hCall' # hCall /\ hPc \notin {"Start", "Ready"}
    BY <1>1, <2>1, KindsAt DEF Lockstep, Descs
  <2>3. hPc \in {"StatusOutAck", "StatusInData"} /\ toHost # NoPkt
    BY <1>1, <2>1, <2>2, CallEnds
  <2>4. hPc = "StatusOutAck"
    BY <1>1, <2>1, <2>3, KindsAt DEF Lockstep, Sets, Descs
  <2>5. hDone = AnswerSize(hCall) /\ Whole(hRx)
    BY <1>1, <2>1, <2>4 DEF Lockstep, Bytes, ControlIn, RxWhole
  <2> QED BY <2>5 DEF AnswerSize
<1>2. TypeOK /\ Lockstep /\ [Next]_vars => [Told]_vars
  BY <1>1
<1> QED BY <1>2, InLockstep, SystemTyped, PTL DEF Spec, ReadWhole

\* SET_ADDRESS that reports success has moved the device to that address.
THEOREM AddressTaken == Quiet => (Spec => AddressSet)
<1> SUFFICES ASSUME Quiet PROVE Spec => AddressSet
  OBVIOUS
<1> DEFINE Told == Returns({"set"}, "OK") /\ hCall.req.breq = "SET_ADDRESS" =>
                      devaddr = hCall.req.value
<1>1. ASSUME TypeOK, Lockstep, [Next]_vars, Returns({"set"}, "OK"),
             hCall.req.breq = "SET_ADDRESS"
      PROVE  devaddr = hCall.req.value
  <2>1. /\ hCall.kind \in Sets /\ hCall'.kind = "none" /\ hRet' = "OK"
        /\ hCall.kind \in Controls
    BY <1>1 DEF Returns, Controls, Sets
  <2>2. hCall' # hCall /\ hPc \notin {"Start", "Ready"}
    BY <1>1, <2>1, KindsAt DEF Lockstep, Sets
  <2>3. hPc \in {"StatusOutAck", "StatusInData"} /\ toHost # NoPkt
    BY <1>1, <2>1, <2>2, CallEnds
  <2>4. ~Unserved
    BY <1>1, <2>3, StatusPlaces DEF Unserved
  <2> QED BY <1>1, <2>1, <2>4 DEF Lockstep, Serving
<1>2. TypeOK /\ Lockstep /\ [Next]_vars => [Told]_vars
  BY <1>1
<1> QED BY <1>2, InLockstep, SystemTyped, PTL DEF Spec, AddressSet

\* Only a data packet that comes in for a read is written to the user's buffer.
LEMMA OnlyDataReceived ==
    ASSUME TypeOK, Lockstep, [Next]_vars, hIn' # hIn \/ (hRx' # hRx /\ hRx' # <<>>)
    PROVE  DataArrives
<1>1. ~Device /\ ~DevUser /\ ~Corrupt /\ ~UNCHANGED vars
  BY DEF Device, DevUser, Corrupt, vars, hVars, hOwn, hHistory
<1>2. ~User
  BY DEF User, HostUser, usbHostWaitForConnection, Begin, usbHostResetDevice,
     usbHostSuspendDevice, usbHostSleepUs, Condition, hHistory
<1>3. Host
  BY <1>1, <1>2 DEF Next, usbHostEndExecution
<1>4. ~Disconnected
  BY NeverDisconnected
<1> QED BY <1>3, <1>4
        DEF Host, HostStep, checkSof, sendStandardRequest, getDataFromDevice, hHistory,
            sendControlStatus, sendDataOut, SendToken, SendSetupData, SetupAck, waitForAck,
            DataFails, SendStatusData, StatusInData, SendOutData, OutAnswer

\* The packet a control read takes ends within the answer, and the answer within what
\* was asked for.
LEMMA ControlReadFits ==
    ASSUME TypeOK, Lockstep, DataArrives, hCall.kind # "in"
    PROVE  hDone + toHost.len <= hCall.size
<1>1. /\ hPc = "InData" /\ toHost # NoPkt
      /\ toHost.pid = dataPid(hEpdata0, hCall.endp)
  BY DEF DataArrives, Hear
<1>2. /\ dPc = "InHshk" /\ dCtx.ctl /\ toHost.len = Chunk(dCtx) /\ Gained = dCtx.sent
  BY <1>1, DataPlace
<1>3. dCtx.size = AnswerSize(hCall) /\ hDone = dCtx.sent
  BY <1>2 DEF Lockstep, Bytes, ControlIn, Transferring
<1>4. hCall.kind \in {"get"} \union Descs
  BY <1>1, KindsAt DEF Lockstep
<1>5. AnswerSize(hCall) <= hCall.size
  <2>1. CASE hCall.kind = "get"
    BY <2>1, Numbers DEF AnswerSize
  <2>2. CASE hCall.kind \in Descs
    <3>1. DescSize[hCall.req.desc] \in Nat /\ hCall.size \in Nat
      BY <1>1, <2>2, CallUsual, CallTyped, Numbers DEF Lockstep, Usual, DescOf, TypeOK
    <3> QED BY <2>2, <3>1 DEF AnswerSize, MinOf, Descs
  <2> QED BY <1>4, <2>1, <2>2
<1> QED BY <1>2, <1>3, <1>5, Numbers

\* A bulk read asks for a whole number of the device's answers, so its last packet ends
\* where the buffer does.
LEMMA BulkReadFits ==
    ASSUME TypeOK, Lockstep, DataArrives, hCall.kind = "in"
    PROVE  hDone + toHost.len <= hCall.size
<1>1. /\ hPc = "InData" /\ toHost # NoPkt
      /\ toHost.pid = dataPid(hEpdata0, hCall.endp)
  BY DEF DataArrives, Hear
<1>2. /\ dPc = "InHshk" /\ ~dCtx.ctl /\ toHost.len = Chunk(dCtx)
      /\ dCtx.sent < dCtx.size /\ Gained = dCtx.sent
  BY <1>1, DataPlace
<1>3. /\ dCtx.size \in InSizes /\ hDone < hCall.size
      /\ \A n \in InSizes : \E k \in 0..hDone : hDone = k * n + dCtx.sent
  BY <1>2 DEF Lockstep, Bytes, BulkIn, DataIn, Transferring
<1>4. PICK m \in 0..hCall.size : hCall.size = m * dCtx.size
  BY <1>1, <1>3, CallUsual DEF Lockstep, Usual, InOf
<1>5. PICK k \in 0..hDone : hDone = k * dCtx.size + dCtx.sent
  BY <1>3
<1>6. k \in Nat /\ m \in Nat
  BY Numbers
<1>7. k * dCtx.size \in Nat /\ m * dCtx.size \in Nat
  BY <1>6, Numbers
<1>8. k * dCtx.size < m * dCtx.size
  BY <1>3, <1>4, <1>5, <1>7, Numbers
<1>9. k * dCtx.size + dCtx.size <= m * dCtx.size
  BY <1>6, <1>8, Numbers, Multiples
<1> QED BY <1>2, <1>4, <1>5, <1>7, <1>9, Numbers

\* No packet of a read is written beyond the bytes that were asked for.
THEOREM WithinRequest == Quiet => (Spec => ReadFits)
<1> SUFFICES ASSUME Quiet PROVE Spec => ReadFits
  OBVIOUS
<1>1. ASSUME TypeOK, Lockstep, [Next]_vars, Len(hRx') > Len(hRx)
      PROVE  hDone' <= hCall.size
  <2>1. hRx' # hRx /\ hRx' # <<>>
    <3>1. Len(hRx) \in Nat
      BY <1>1 DEF TypeOK, HostTypeOK
    <3> QED BY <1>1, <3>1
  <2>2. DataArrives
    BY <1>1, <2>1, OnlyDataReceived
  <2>3. hDone' = hDone + toHost.len
    BY <2>2 DEF DataArrives
  <2> QED BY <1>1, <2>2, <2>3, ControlReadFits, BulkReadFits
<1>2. TypeOK /\ Lockstep /\ [Next]_vars =>
        [Len(hRx') > Len(hRx) => hDone' <= hCall.size]_vars
  BY <1>1
<1> QED BY <1>2, InLockstep, SystemTyped, PTL DEF Spec, ReadFits

\* The bytes of the device's data stream reach user code in order.
THEOREM InOrder == Quiet => (Spec => InInOrder)
<1> SUFFICES ASSUME Quiet PROVE Spec => InInOrder
  OBVIOUS
<1>1. ASSUME TypeOK, Lockstep, [Next]_vars, hIn' # hIn
      PROVE  hRx'[Len(hRx')][1] = hIn
  <2>1. DataArrives
    BY <1>1, OnlyDataReceived
  <2>2. /\ hPc = "InData" /\ toHost # NoPkt /\ hCall.kind \in Ins
        /\ toHost.pid = dataPid(hEpdata0, hCall.endp)
        /\ hRx' = Append(hRx, <<toHost.off, toHost.len>>)
    BY <1>1, <2>1 DEF DataArrives, Hear
  <2>3. hCall.kind = "in"
    BY <1>1, <2>2, KindsAt DEF Lockstep, Ins
  <2>4. /\ toDev.pid = "NONE" /\ dPc = "InHshk" /\ ~dCtx.ctl
        /\ toHost.off = dCtx.base + dCtx.sent /\ Gained = dCtx.sent
    BY <1>1, <2>2, <2>3, DataPlace
  <2>5. dCtx.base = dIn /\ hIn = dIn + Gained
    BY <1>1, <2>4 DEF Lockstep, Bytes, BulkIn, DataIn, Transferring
  <2>6. hRx \in Seq(Nat \X Nat)
    BY <1>1 DEF TypeOK, HostTypeOK
  <2>7. Len(hRx') = Len(hRx) + 1 /\ hRx'[Len(hRx) + 1] = <<toHost.off, toHost.len>>
    BY <2>2, <2>6
  <2> QED BY <2>4, <2>5, <2>7
<1>2. TypeOK /\ Lockstep /\ [Next]_vars =>
        [hIn' # hIn /\ restarts = 0 => hRx'[Len(hRx')][1] = hIn]_vars
  BY <1>1
<1> QED BY <1>2, InLockstep, SystemTyped, PTL DEF Spec, InInOrder

-----------------------------------------------------------------------------
(***************************************************************************)
(* Control calls implement the abstract service of UsbService.             *)
(***************************************************************************)
\* Only processControl acts on requests.
LEMMA OnlyControlServes ==
    ASSUME DeviceStep, dServed' # dServed PROVE processControl
<1>1. ~(usbDeviceRun \/ Deaf \/ waitForExpectedPacket)
  BY DEF usbDeviceRun, Deaf, waitForExpectedPacket, WaitReset, WaitSuspend, WaitBad, dHistory
<1>2. ~(RunSetup \/ processSOF \/ RunUnexpected)
  BY DEF RunSetup, processSOF, RunUnexpected, dHistory
<1>3. ~sendInData
  BY DEF sendInData, SendOnIn, InAcked, InNaked, InNoHandshake, dHistory
<1>4. ~(processIn \/ processOut \/ OutData)
  <2>1. \A pid, endp : ~Refuse(pid, endp)
    BY DEF Refuse, dHistory
  <2>2. /\ \A endp : ~CallbackStall(endp) /\ ~CallbackData(endp)
        /\ ~CallbackNak /\ ~OutAccept
    BY DEF CallbackStall, CallbackNak, CallbackData, OutAccept, dHistory
  <2> QED BY <2>1, <2>2 DEF processIn, processOut, OutData, dHistory
<1>5. ~controlStatusStage
  BY DEF controlStatusStage, StatusIn, StatusAck, StatusOut, StatusData, EndControl, dHistory
<1> QED BY <1>1, <1>2, <1>3, <1>4, <1>5 DEF DeviceStep

\* Only control calls carry a request.
LEMMA RequestOf ==
    ASSUME TypeOK, Quiet
    PROVE  /\ NoCall.req = NoReq
           /\ hCall.req # NoReq <=> hCall.kind \in Controls
           /\ hPc \in {"Start", "Ready"} => hCall.req = NoReq
<1>1. NoCall.req = NoReq /\ NoCall.kind \notin Controls
  BY DEF NoCall, Call, Controls, Descs, Sets
<1>2. hPc \in {"Start", "Ready"} => hCall = NoCall
  BY DEF TypeOK, HostTypeOK, StageOK
<1>3. hPc \notin {"Start", "Ready"} => hCall.kind \in Controls \union {"out", "in"}
  BY KindsAt, CallTyped DEF TypeOK, CallType, Kinds, Outs, Ins
<1>4. "out" \notin Controls /\ "in" \notin Controls
  BY DEF Controls, Descs, Sets
<1> QED BY <1>1, <1>2, <1>3, <1>4, EndpointsInUse

LEMMA BeginServes ==
    ASSUME TypeOK, Lockstep, User, NEW c \in Calls, Begin(c)
    PROVE  Service!Next
<1>1. /\ hPc = "Ready" /\ hCall' = c /\ hRet' = "none" /\ UNCHANGED dServed
  BY DEF Begin, Counted, User, dOwn, dHistory
<1>2. hCall = NoCall /\ hCall.req = NoReq /\ c # NoCall
  BY <1>1, RequestOf, CallsAssumption, NoCallTyped
     DEF Lockstep, TypeOK, HostTypeOK, StageOK, Outs, Ins, Controls, Descs, Sets
<1>3. mark' = IF c.kind \in Controls THEN Len(dServed) ELSE -1
  BY <1>1, <1>2 DEF User
<1>4. Len(dServed) \in Nat
  BY DEF TypeOK, DeviceTypeOK, HistoryOK
<1>5. c.kind \in Controls \union {"out", "in"} /\ Usual(c)
  BY CallsAssumption DEF Lockstep, Quiet, Usual, Outs, Ins
<1>6. CASE c.kind \in Controls
  <2>1. c.req # NoReq /\ c.req \in {x.req : x \in Calls} \ {NoReq}
    BY <1>5, <1>6 DEF Usual, ControlOf
  <2>2. ~(Len(dServed') > mark') /\ ~(hRet' = "OK")
    BY <1>1, <1>3, <1>4, <1>6
  <2> QED BY <1>1, <1>2, <2>1, <2>2 DEF Service!Next, Service!Ask
<1>7. CASE c.kind \in {"out", "in"}
  <2>1. c.req = NoReq
    BY <1>5, <1>7 DEF Usual, OutOf, InOf
  <2> QED BY <1>1, <1>2, <2>1 DEF Service!Next, Service!Other
<1> QED BY <1>5, <1>6, <1>7

LEMMA ControlServes ==
    ASSUME TypeOK, Lockstep, Device, processControl
    PROVE  Service!Next
<1>1. HostStays /\ hRet' = hRet
  BY DeviceAlone DEF Device, hOwn
<1>2. dServed' = Append(dServed, hCall.req)
  BY <1>1, RequestTaken DEF AckSetup
<1>3. dPc = "SetupData" /\ toDev # NoPkt
  BY Taking DEF processControl
<1>4. hPc = "SetupAck"
  BY <1>3, HshkPids
     DEF Lockstep, Places, InStep, AtRest, SetupStage, InStage, StatusStage, OutStage, Clear,
         Sent, Answered, Quiet
<1>5. hCall.kind \in Controls /\ hCall.req # NoReq /\ hCall # NoCall
  BY <1>4, KindsAt, RequestOf DEF Lockstep
<1>6. mark = Len(dServed)
  BY <1>3, <1>5 DEF Lockstep, Serving, Unserved
<1>7. Len(dServed) \in Nat /\ Len(dServed') = Len(dServed) + 1
  BY <1>2 DEF TypeOK, DeviceTypeOK, HistoryOK
<1> QED BY <1>1, <1>2, <1>5, <1>6, <1>7 DEF HostStays, Service!Next, Service!Serve

LEMMA EndServes ==
    ASSUME TypeOK, Lockstep, [Next]_vars, hCall' # hCall, hPc \notin {"Start", "Ready"}
    PROVE  Service!Next
<1>1. /\ hCall' = NoCall /\ hRet' \in {"OK", "ERROR"}
      /\ UNCHANGED <<dServed, mark>>
      /\ hCall.kind \in Controls /\ hRet' = "OK" =>
            hPc \in {"StatusOutAck", "StatusInData"} /\ toHost # NoPkt
  BY CallEnds DEF dOwn, dHistory
<1>2. NoCall.req = NoReq /\ (hCall.req # NoReq <=> hCall.kind \in Controls)
  BY RequestOf DEF Lockstep
<1>3. Len(dServed) \in Nat
  BY DEF TypeOK, DeviceTypeOK, HistoryOK
<1>4. CASE hCall.kind \in Controls
  <2>2. hRet' = "OK" => Len(dServed) > mark
    <3>1. SUFFICES ASSUME hRet' = "OK" PROVE Len(dServed) > mark
      OBVIOUS
    <3>2. ~Unserved
      BY <1>1, <1>4, <3>1, StatusPlaces DEF Unserved
    <3> QED BY <1>3, <1>4, <3>2 DEF Lockstep, Serving
  <2> QED BY <1>1, <1>2, <1>4, <2>2 DEF Service!Next, Service!Answer
<1>5. CASE hCall.kind \notin Controls
  <2>1. hCall.kind \in Ins \union Outs
    BY <1>5, KindsAt, CallTyped DEF Lockstep, TypeOK, CallType, Kinds
  <2>2. mark = -1
    BY <2>1 DEF Lockstep, Serving
  <2> QED BY <1>1, <1>2, <1>5, <2>2 DEF Service!Next, Service!Other
<1> QED BY <1>4, <1>5

\* Until the host has found the device, it has begun no call.
Unmarked == hPc = "Start" => mark = -1

LEMMA StaysUnmarked == Unmarked /\ [Next]_vars => Unmarked'
<1> SUFFICES ASSUME Unmarked, [Next]_vars, hPc' = "Start" PROVE mark' = -1
  BY DEF Unmarked
<1>1. hPc = "Start" /\ mark' = mark
  <2>1. CASE Device \/ DevUser \/ Corrupt \/ usbHostEndExecution \/ UNCHANGED vars
    BY <2>1 DEF Device, DevUser, Corrupt, usbHostEndExecution, hOwn, vars, hVars
  <2>2. ~Host
    BY DEF Host, HostStep, checkSof, sendStandardRequest, getDataFromDevice,
       sendControlStatus, sendDataOut, SendToken, SendSetupData, SetupAck, waitForAck,
       DataArrives, DataFails, SendStatusData, StatusInData, SendOutData, OutAnswer, At,
       Succeed, Fail, Finish, AfterData, EndDescriptor, DataError, Disconnected, Listening,
       Hear
  <2>3. CASE User
    <3>1. usbHostWaitForConnection
      BY <2>3 DEF User, HostUser, Begin, usbHostResetDevice, usbHostSuspendDevice, Condition,
         Counted, usbHostSleepUs
    <3> QED BY <2>3, <3>1 DEF User, usbHostWaitForConnection
  <2> QED BY <2>1, <2>2, <2>3 DEF Next
<1> QED BY <1>1 DEF Unmarked

\* A step that neither begins nor ends a call, and acts on no request.
LEMMA NothingServed ==
    ASSUME TypeOK, Lockstep, [Next]_vars, hCall' = hCall, dServed' = dServed, Unmarked
    PROVE  UNCHANGED Service!vars
<1>1. mark' = mark /\ (hRet' = hRet \/ mark = -1)
  <2>1. CASE Device \/ UNCHANGED vars
    BY <2>1 DEF Device, hOwn, vars, hVars
  <2>2. CASE Host
    <3>1. \A s : ~Finish(s)
      <4>1. hCall # NoCall
        BY <2>2 DEF Host, HostStep, TypeOK, HostTypeOK, StageOK, checkSof, sendStandardRequest,
           getDataFromDevice, sendControlStatus, sendDataOut, Disconnected, SendToken,
           SendSetupData, SetupAck, waitForAck, Hear, DataArrives, DataFails, SendStatusData,
           StatusInData, SendOutData, OutAnswer, Listening
      <4> QED BY <4>1 DEF Finish
    <3>2. ~Disconnected
      BY NeverDisconnected
    <3> QED BY <2>2, <3>1, <3>2
            DEF Host, HostStep, checkSof, sendStandardRequest, getDataFromDevice,
                sendControlStatus, sendDataOut, SendToken, SendSetupData, SetupAck, waitForAck,
                DataArrives, DataFails, SendStatusData, StatusInData, SendOutData, OutAnswer,
                At, Succeed, Fail, AfterData, EndDescriptor, DataError
  <2>3. CASE User
    <3>1. ASSUME NEW c \in Calls PROVE ~Begin(c)
      <4>1. Begin(c) => hCall = NoCall /\ hCall' = c
        BY DEF Begin, Counted, TypeOK, HostTypeOK, StageOK
      <4>2. c # NoCall
        BY CallsAssumption, NoCallTyped DEF Outs, Ins, Controls, Descs, Sets
      <4> QED BY <4>1, <4>2
    <3> QED BY <2>3, <3>1 DEF User, HostUser, usbHostWaitForConnection, usbHostResetDevice,
               usbHostSuspendDevice, usbHostSleepUs, Condition, Unmarked
  <2>4. ~Corrupt /\ ~DevUser
    BY DEF Corrupt, Lockstep, Quiet, TypeOK, DevUser, DeviceUser, usbDeviceDisconnect,
       usbDeviceReconnect, usbDeviceRunAgain, Places, InStep, AtRest, SetupStage, InStage,
       StatusStage, OutStage
  <2> QED BY <2>1, <2>2, <2>3, <2>4 DEF Next, usbHostEndExecution
<1> QED BY <1>1 DEF Service!vars

\* Every behaviour of host and device on a quiet line is one of UsbService.
THEOREM ServesCalls == Quiet => (Spec => ServiceSpec)
<1> SUFFICES ASSUME Quiet PROVE Spec => ServiceSpec
  OBVIOUS
<1>1. Init => Service!Init
  BY DEF Init, HostInit, DeviceInit, Service!Init, NoCall, Call
<1>2. ASSUME TypeOK, Lockstep, Unmarked, [Next]_vars PROVE [Service!Next]_(Service!vars)
  <2>1. CASE hCall' # hCall /\ hPc \notin {"Start", "Ready"}
    BY <1>2, <2>1, EndServes
  <2>2. CASE hCall' # hCall /\ hPc \in {"Start", "Ready"}
    <3>1. User /\ \E c \in Calls : Begin(c)
      <4>1. ~Device /\ ~DevUser /\ ~Corrupt /\ ~UNCHANGED vars
        BY <2>2 DEF Device, DevUser, Corrupt, vars, hVars, hOwn
      <4>2. ~Host
        BY <2>2 DEF Host, HostStep, checkSof, sendStandardRequest, getDataFromDevice,
           sendControlStatus, sendDataOut, Disconnected, SendToken, SendSetupData, SetupAck,
           waitForAck, Hear, DataArrives, DataFails, SendStatusData, StatusInData, SendOutData,
           OutAnswer, Listening
      <4> QED BY <1>2, <2>2, <4>1, <4>2
              DEF Next, usbHostEndExecution, User, HostUser, usbHostWaitForConnection,
                  usbHostResetDevice, usbHostSuspendDevice, usbHostSleepUs, Condition
    <3> QED BY <1>2, <3>1, BeginServes
  <2>3. CASE hCall' = hCall /\ dServed' # dServed
    <3>1. Device
      BY <1>2, <2>3 DEF Next, Host, User, DevUser, DeviceUser, Corrupt, usbHostEndExecution,
         usbDeviceDisconnect, usbDeviceReconnect, usbDeviceRunAgain, dOwn, dHistory, vars, dVars
    <3>2. processControl
      BY <2>3, <3>1, OnlyControlServes DEF Device
    <3> QED BY <1>2, <3>1, <3>2, ControlServes
  <2>4. CASE hCall' = hCall /\ dServed' = dServed
    BY <1>2, <2>4, NothingServed
  <2> QED BY <2>1, <2>2, <2>3, <2>4
<1>3. TypeOK /\ Lockstep /\ Unmarked /\ [Next]_vars => [Service!Next]_(Service!vars)
  BY <1>2
<1>4. Init => Unmarked
  BY DEF Init, Unmarked
<1> QED BY <1>1, <1>3, <1>4, StaysUnmarked, InLockstep, SystemTyped, PTL
        DEF Spec, ServiceSpec, Service!Spec

-----------------------------------------------------------------------------
(***************************************************************************)
(* Bulk OUT: what the callback has taken of the call in progress.          *)
(***************************************************************************)
LEMMA QuietAcknowledges == Quiet => Acknowledged
BY DEF Quiet, Usual, Acknowledged

LEMMA InTaken ==
    \A from, x : x \in Taken(from) <=>
       \E i \in 1..Len(dOut) : dOut[i][2] >= from /\ x \in dOut[i][2]..(dOut[i][2] + dOut[i][3] - 1)
BY Zenon DEF Taken

\* Nothing of a call that has not begun.
LEMMA NothingTaken ==
    ASSUME TypeOK, OutInv, hCall.kind \notin Outs
    PROVE  Taken(hOut) = {}
<1>1. hPc # "OutAck"
  BY DEF TypeOK, HostTypeOK, StageOK
<1>2. \A i \in 1..Len(dOut) : dOut[i][2] \in Nat /\ dOut[i][3] \in Nat
  BY DEF TypeOK, DeviceTypeOK, HistoryOK
<1>3. hOut \in Nat /\ Reach = hOut
  BY <1>1, NumbersTyped DEF NumbersOK, Reach
<1>4. \A i \in 1..Len(dOut) : dOut[i][2] + dOut[i][3] <= hOut
  BY <1>3 DEF OutInv, WithinReach
<1>5. ASSUME NEW x \in Taken(hOut) PROVE FALSE
  <2>1. PICK i \in 1..Len(dOut) :
          dOut[i][2] >= hOut /\ x \in dOut[i][2]..(dOut[i][2] + dOut[i][3] - 1)
    BY <1>5, InTaken
  <2> QED BY <1>2, <1>3, <1>4, <2>1
<1> QED BY <1>5

\* Where an OUT call stands when its packet is out.
LEMMA OutPlace ==
    ASSUME TypeOK, Lockstep, hCall.kind = "out"
    PROVE  /\ hPc \in {"OutTok", "OutData", "OutAck"}
           /\ dPc = "OutData" /\ toDev # NoPkt => hPc = "OutAck"
           /\ hPc = "OutAck" =>
                \/ dPc = "Run" /\ toDev = NoPkt /\ toHost.pid \in {"ACK", "NAK"}
                \/ dPc = "OutData" /\ toHost = NoPkt /\ toDev.pid \in DataPids
<1>1. hPc \in {"OutTok", "OutData", "OutAck"}
  BY KindsAt DEF Lockstep
<1> QED BY <1>1, HshkPids
        DEF Lockstep, Places, InStep, AtRest, SetupStage, InStage, StatusStage, OutStage, Clear,
            Sent, Answered, DataPids, Quiet

\* Only OutData gives the callback data, and it is the device's only step while it
\* waits for them.
LEMMA OnlyOutDataTakes ==
    ASSUME DeviceStep, dOut' # dOut PROVE OutData
<1>1. ~(usbDeviceRun \/ Deaf \/ waitForExpectedPacket)
  BY DEF usbDeviceRun, Deaf, waitForExpectedPacket, WaitReset, WaitSuspend, WaitBad, dHistory
<1>2. ~(RunSetup \/ processSOF \/ RunUnexpected)
  BY DEF RunSetup, processSOF, RunUnexpected, dHistory
<1>3. ~sendInData
  BY DEF sendInData, SendOnIn, InAcked, InNaked, InNoHandshake, dHistory
<1>4. ~(processIn \/ processOut)
  BY DEF processIn, processOut, Refuse, CallbackStall, CallbackNak, CallbackData, dHistory
<1>5. ~controlStatusStage
  BY DEF controlStatusStage, StatusIn, StatusAck, StatusOut, StatusData, EndControl, dHistory
<1>6. ~processControl
  <2>1. /\ \A r : ~AckSetup(r)
        /\ \A endp : ~StallStop(endp)
        /\ ~StallStatus
    BY DEF StallStop, AckSetup, StallStatus, dHistory
  <2>2. \A r : ~handleDevReq(r) /\ ~handleIfReq(r) /\ ~handleEpReq(r)
    BY <2>1 DEF handleDevReq, handleIfReq, handleEpReq, Answer, Obey, StallStatus, dHistory
  <2> QED BY <2>1, <2>2 DEF processControl
<1> QED BY <1>1, <1>2, <1>3, <1>4, <1>5, <1>6 DEF DeviceStep

LEMMA OutDataNext ==
    ASSUME TypeOK, Lockstep, DeviceStep, hCall.kind = "out", hPc = "OutAck"
    PROVE  OutData
<1>1. toDev # NoPkt \/ dPc = "Start"
  <2>1. \A pc : Take(pc) \/ Return(pc) => toDev # NoPkt
    BY DEF Return, Take
  <2>2. waitForExpectedPacket => toDev # NoPkt
    BY HshkPids DEF waitForExpectedPacket, WaitReset, WaitSuspend, WaitBad
  <2>3. sendInData \/ controlStatusStage => toDev # NoPkt
    BY <2>1 DEF sendInData, SendOnIn, InAcked, InNaked, InNoHandshake, controlStatusStage,
       StatusIn, StatusAck, StatusOut, StatusData
  <2>4. processIn \/ processOut \/ OutData \/ processControl => toDev # NoPkt
    BY <2>1 DEF processIn, processOut, Refuse, OutData, processControl
  <2> QED BY <2>1, <2>2, <2>3, <2>4
          DEF DeviceStep, usbDeviceRun, Deaf, RunSetup, processSOF, RunUnexpected
<1>2. dPc = "OutData" /\ toDev.pid \in DataPids /\ Received = toDev
  BY <1>1, OutPlace, LineIntact
<1>3. ~waitForExpectedPacket
  BY <1>2, LineIntact, HshkPids
     DEF waitForExpectedPacket, WaitReset, WaitSuspend, WaitBad, DataPids
<1> QED BY <1>2, <1>3
        DEF DeviceStep, usbDeviceRun, Deaf, RunSetup, processSOF, RunUnexpected, processIn,
            processOut, Refuse, sendInData, SendOnIn, InAcked, InNaked, InNoHandshake,
            processControl, controlStatusStage, StatusIn, StatusAck, StatusOut, StatusData,
            Return, Take

LEMMA TakenStays ==
    ASSUME UNCHANGED <<dOut, hOut, hCall>>, hCall.kind = "out" => OutGained' = OutGained, OutTaken
    PROVE  OutTaken'
BY DEF OutTaken, Taken

\* The device takes the packet: those are the next bytes of the call.
LEMMA OutDataTaken ==
    ASSUME TypeOK, TypeOK', Lockstep, OutInv, OutTaken, HostStays, OutData
    PROVE  OutTaken'
<1>1. /\ dPc = "OutData" /\ toDev # NoPkt /\ toDev' = NoPkt /\ toDev'.pid = "NONE"
      /\ Received = toDev
  BY Taking DEF OutData
<1>2. hPc = "OutAck" /\ toHost = NoPkt /\ toDev.pid \in DataPids
  BY <1>1, HshkPids
     DEF Lockstep, Places, InStep, AtRest, SetupStage, InStage, StatusStage, OutStage,
         Clear, Sent, Answered, Quiet, DataPids
<1>3. toDev.off = hOut + hDone /\ toDev.len = OutSize
  BY <1>2 DEF OutInv, PayloadFresh
<1>4. hOut \in Nat /\ hDone \in Nat /\ OutSize \in Nat
  BY <1>2, NumbersTyped DEF NumbersOK
<1>5. hCall.kind = "out" /\ OutGained = hDone /\ OutSize' = OutSize
  BY <1>2, <1>4, KindsAt, HshkPids DEF Lockstep, OutGained, Answered, OutSize, HostStays
<1>6. UNCHANGED <<hPc, hCall, hDone, hOut>>
  BY DEF HostStays
<1>7. CASE CallbackNak
  <2>1. dOut' = dOut /\ toHost'.pid = "NAK"
    BY <1>7, HshkPids DEF CallbackNak, sendPktToHost, dHistory
  <2>2. OutGained' = OutGained
    BY <1>2, <1>4, <1>5, <1>6, <2>1 DEF OutGained, Answered
  <2> QED BY <1>6, <2>1, <2>2, TakenStays
<1>8. CASE OutAccept
  <2>1. dOut' = Append(dOut, <<dCtx.endp, hOut + hDone, OutSize>>) /\ toHost'.pid = "ACK"
    BY <1>1, <1>3, <1>8, HshkPids DEF OutAccept, sendPktToHost
  <2>2. OutGained' = hDone + OutSize
    BY <1>1, <1>2, <1>4, <1>5, <1>6, <2>1 DEF OutGained, Answered
  <2>3. dOut \in Seq((0..255) \X Nat \X Nat)
    BY DEF TypeOK, DeviceTypeOK, HistoryOK
  <2>4. /\ Len(dOut) \in Nat /\ Len(dOut') = Len(dOut) + 1
        /\ \A i \in 1..Len(dOut) : dOut'[i] = dOut[i]
        /\ dOut'[Len(dOut) + 1][2] = hOut + hDone /\ dOut'[Len(dOut) + 1][3] = OutSize
    BY <2>1, <2>3
  <2>5. Taken(hOut) = hOut..(hOut + hDone - 1)
    BY <1>5 DEF OutTaken
  <2> DEFINE Entry(d, i) == d[i][2]..(d[i][2] + d[i][3] - 1)
             Now == hOut..(hOut + hDone + OutSize - 1)
  <2>6. \A x : x \in Taken(hOut)' <=>
          \E i \in 1..Len(dOut') : dOut'[i][2] >= hOut /\ x \in Entry(dOut', i)
    BY <1>6 DEF Taken
  <2>7. ASSUME NEW x PROVE x \in Taken(hOut)' <=> x \in Taken(hOut) \/ x \in Entry(dOut', Len(dOut) + 1)
    <3>1. hOut + hDone >= hOut
      BY <1>4
    <3>2. \A i : i \in 1..(Len(dOut) + 1) <=> i \in 1..Len(dOut) \/ i = Len(dOut) + 1
      BY <2>4
    <3>3. x \in Taken(hOut)' <=>
            \/ \E i \in 1..Len(dOut) : dOut[i][2] >= hOut /\ x \in Entry(dOut, i)
            \/ x \in Entry(dOut', Len(dOut) + 1)
      BY <2>4, <2>6, <3>1, <3>2
    <3> QED BY <3>3, InTaken
  <2>8. \A x : x \in Now <=> x \in hOut..(hOut + hDone - 1)
                          \/ x \in (hOut + hDone)..(hOut + hDone + OutSize - 1)
    BY <1>4
  <2>9. Taken(hOut)' = Now
    BY <2>4, <2>5, <2>7, <2>8
  <2> QED BY <1>4, <1>6, <2>2, <2>9 DEF OutTaken
<1> QED BY <1>7, <1>8 DEF OutData, CallbackStall, Lockstep, Quiet

LEMMA DeviceTakesOut ==
    ASSUME TypeOK, TypeOK', Lockstep, Lockstep', OutInv, OutTaken, Device
    PROVE  OutTaken'
<1>1. HostStays /\ DeviceStep
  BY DeviceAlone DEF Device
<1>2. ASSUME ~OutData PROVE OutTaken'
  <2>1. dOut' = dOut
    BY <1>1, <1>2, OnlyOutDataTakes
  <2>2. hCall.kind = "out" => hPc # "OutAck"
    BY <1>1, <1>2, OutDataNext
  <2>3. UNCHANGED <<hOut, hCall, hPc, hDone>>
    BY <1>1 DEF HostStays
  <2>4. hCall.kind = "out" => OutGained' = OutGained
    BY <2>2, <2>3 DEF OutGained
  <2> QED BY <2>1, <2>3, <2>4, TakenStays
<1>3. ASSUME OutData PROVE OutTaken'
  BY <1>1, <1>3, OutDataTaken
<1> QED BY <1>2, <1>3

LEMMA HostTakesOut ==
    ASSUME TypeOK, TypeOK', Lockstep, Lockstep', OutInv, OutTaken, Host
    PROVE  OutTaken'
<1>1. UNCHANGED dOut /\ HostStep
  BY DEF Host, dOwn, dHistory
<1>2. SUFFICES ASSUME hCall'.kind = "out", hCall.kind = "out" \/ hCall' # hCall PROVE OutTaken'
  BY DEF OutTaken
<1>3. hPc \notin {"Start", "Ready"}
  BY <1>1, NeverDisconnected
     DEF HostStep, checkSof, sendStandardRequest, getDataFromDevice, sendControlStatus,
         sendDataOut, SendToken, SendSetupData, SetupAck, waitForAck, Hear, DataArrives,
         DataFails, SendStatusData, StatusInData, SendOutData, OutAnswer
<1>4. hCall' = hCall
  <2>1. [Next]_vars
    BY DEF Next
  <2>2. hCall' # hCall => hCall' = NoCall
    BY <1>3, <2>1, CallEnds
  <2> QED BY <1>2, <2>2, NoCallTyped
<1>5. hCall.kind = "out" /\ hPc \in {"OutTok", "OutData", "OutAck"}
  BY <1>2, <1>4, OutPlace
<1>6. SendToken("OutTok", "OUT", "OutData") \/ SendOutData \/ OutAnswer
  BY <1>1, <1>5, NeverDisconnected
     DEF HostStep, checkSof, sendStandardRequest, getDataFromDevice, sendControlStatus,
         sendDataOut, SendToken, SendSetupData, SetupAck, waitForAck, Hear, DataArrives,
         DataFails, SendStatusData, StatusInData
<1>7. CASE SendToken("OutTok", "OUT", "OutData") \/ SendOutData
  <2>1. hPc # "OutAck" /\ UNCHANGED <<hOut, hDone>> /\ toHost'.pid = "NONE"
    BY <1>7, HshkPids DEF SendToken, SendOutData, At, Send
  <2>2. OutGained' = OutGained
    BY <2>1 DEF OutGained, Answered
  <2> QED BY <1>1, <1>4, <2>1, <2>2, TakenStays
<1>8. CASE OutAnswer
  <2>1. hPc = "OutAck" /\ toHost # NoPkt
    BY <1>8 DEF OutAnswer, Hear
  <2>2. toDev = NoPkt /\ toHost.pid \in {"ACK", "NAK"}
    BY <1>5, <2>1, OutPlace
  <2>3. \A s : ~Finish(s)
    BY <1>4, <1>5, NoCallTyped DEF Finish
  <2>4. At("OutTok") /\ hDone' = hDone + (IF toHost.pid = "ACK" THEN OutSize ELSE 0)
    BY <1>8, <2>2, <2>3, Numbers DEF OutAnswer, Succeed, Fail
  <2>5. OutGained' = OutGained
    BY <2>1, <2>2, <2>4, Numbers DEF OutGained, Answered, At
  <2> QED BY <1>1, <1>4, <2>4, <2>5, TakenStays DEF At
<1> QED BY <1>6, <1>7, <1>8

LEMMA UserTakesOut ==
    ASSUME TypeOK, TypeOK', Lockstep, OutInv, OutTaken, User
    PROVE  OutTaken'
<1>1. UNCHANGED dOut
  BY DEF User, dOwn, dHistory
<1>2. CASE \E c \in Calls : Begin(c)
  <2>1. /\ UNCHANGED hOut /\ hDone' = 0 /\ hPc = "Ready" /\ hPc' # "OutAck"
    BY <1>2 DEF Begin, Counted
  <2>2. hCall.kind \notin Outs
    BY <2>1, KindsAt DEF Lockstep, Outs
  <2>3. Taken(hOut)' = {} /\ hOut \in Nat
    BY <1>1, <2>1, <2>2, NothingTaken, NumbersTyped DEF Taken, NumbersOK
  <2>4. OutGained' = 0
    BY <2>1 DEF OutGained
  <2> QED BY <2>1, <2>3, <2>4 DEF OutTaken
<1>3. CASE ~\E c \in Calls : Begin(c)
  <2>1. UNCHANGED <<hOut, hCall, hDone>> /\ hPc \in {"Start", "Ready"}
    BY <1>3 DEF User, HostUser, usbHostWaitForConnection, Counted, usbHostResetDevice,
       usbHostSuspendDevice, usbHostSleepUs, Condition, hHistory
  <2>2. hCall.kind # "out"
    BY <2>1, KindsAt DEF Lockstep
  <2> QED BY <1>1, <2>1, <2>2, TakenStays
<1> QED BY <1>2, <1>3

LEMMA OutTakenStays ==
    TypeOK /\ TypeOK' /\ Lockstep /\ Lockstep' /\ OutInv /\ OutTaken /\ [Next]_vars => OutTaken'
<1> SUFFICES ASSUME TypeOK, TypeOK', Lockstep, Lockstep', OutInv, OutTaken, [Next]_vars
             PROVE  OutTaken'
  OBVIOUS
<1>1. ~Corrupt
  BY DEF Corrupt, Lockstep, Quiet, TypeOK
<1>2. ~DevUser
  BY DEF DevUser, DeviceUser, usbDeviceDisconnect, usbDeviceReconnect, usbDeviceRunAgain,
         Lockstep, Places, InStep, AtRest, SetupStage, InStage, StatusStage, OutStage
<1>3. CASE UNCHANGED vars
  BY <1>3 DEF vars, dVars, hVars, dHistory, hHistory, OutTaken, Taken, OutGained, Answered, OutSize
<1>4. Device \/ Host \/ User \/ UNCHANGED vars
  BY <1>1, <1>2 DEF Next, usbHostEndExecution
<1> QED BY <1>3, <1>4, DeviceTakesOut, HostTakesOut, UserTakesOut

\* On a quiet line the callback has taken the bytes the host counts as acknowledged, and
\* those of a packet whose ACK is on its way.
LEMMA OutTakes == Quiet => (Spec => []OutTaken)
<1> SUFFICES ASSUME Quiet PROVE Spec => []OutTaken
  OBVIOUS
<1>1. Init => OutTaken
  BY NoCallTyped DEF Init, HostInit, OutTaken
<1>2. TypeOK /\ TypeOK' /\ Lockstep /\ Lockstep' /\ OutInv /\ OutTaken /\ [Next]_vars => OutTaken'
  BY OutTakenStays
<1> QED BY <1>1, <1>2, QuietAcknowledges, OutHolds, InLockstep, SystemTyped, PTL DEF Spec

\* While a bulk OUT call is in progress its count of acknowledged bytes lags the bytes
\* the callback took by at most the packet that has not been answered.
THEOREM OutLag == Quiet => (Spec => []OutWithinOnePacket)
<1> SUFFICES ASSUME Quiet PROVE Spec => []OutWithinOnePacket
  OBVIOUS
<1>1. TypeOK /\ OutTaken => OutWithinOnePacket
  <2> SUFFICES ASSUME TypeOK, OutTaken, hCall.kind = "out"
               PROVE  \/ Taken(hOut) = hOut..(hOut + hDone - 1)
                      \/ Taken(hOut) = hOut..(hOut + hDone + OutSize - 1)
    BY DEF OutWithinOnePacket
  <2>1. Taken(hOut) = hOut..(hOut + OutGained - 1) /\ hOut \in Nat /\ hDone \in Nat
    BY NumbersTyped DEF OutTaken, NumbersOK
  <2>2. hPc = "OutAck" => OutSize \in Nat
    BY NumbersTyped DEF NumbersOK
  <2> QED BY <2>1, <2>2 DEF OutGained
<1> QED BY <1>1, OutTakes, SystemTyped, PTL

\* A bulk OUT call that reports success has had each of its bytes taken by the data
\* callback, and none of them twice.
THEOREM OutOnce == Quiet => (Spec => OutExactlyOnce)
<1> SUFFICES ASSUME Quiet PROVE Spec => OutExactlyOnce
  OBVIOUS
<1> DEFINE Told == Returns({"out"}, "OK") =>
                      Taken(hOut) = hOut..(hOut + hCall.size - 1) /\ OutInOrder
<1>1. ASSUME TypeOK, Lockstep, OutInv, OutTaken, [Next]_vars, Returns({"out"}, "OK")
      PROVE  Taken(hOut) = hOut..(hOut + hCall.size - 1) /\ OutInOrder
  <2>1. hCall.kind = "out" /\ hCall'.kind = "none" /\ hRet' = "OK"
    BY <1>1 DEF Returns
  <2>2. hPc \in {"OutTok", "OutData", "OutAck"}
    BY <1>1, <2>1, OutPlace
  <2>3. OutAnswer
    <3>1. ~Device /\ ~DevUser /\ ~Corrupt /\ ~UNCHANGED vars
      BY <2>1 DEF Device, DevUser, Corrupt, vars, hVars, hOwn
    <3>2. ~User
      BY <2>1, <2>2 DEF User, HostUser, usbHostWaitForConnection, Begin, Counted,
         usbHostResetDevice, usbHostSuspendDevice, usbHostSleepUs, Condition
    <3>3. HostStep
      BY <1>1, <3>1, <3>2 DEF Next, usbHostEndExecution, Host
    <3>4. ~Disconnected
      BY <1>1, NeverDisconnected
    <3> QED BY <2>1, <2>2, <3>3, <3>4
            DEF HostStep, checkSof, sendStandardRequest, getDataFromDevice, sendControlStatus,
                sendDataOut, SendToken, SendSetupData, SetupAck, waitForAck, Hear, DataArrives,
                DataFails, SendStatusData, StatusInData, SendOutData, At
  <2>4. hPc = "OutAck" /\ toHost # NoPkt
    BY <2>3 DEF OutAnswer, Hear
  <2>5. toDev = NoPkt
    BY <1>1, <2>1, <2>4, OutPlace
  <2>6. ~Fail /\ ~At("OutTok")
    BY <2>1 DEF Fail, Finish, At
  <2>7. toHost.pid = "ACK" /\ ~(hDone + OutSize < hCall.size)
    BY <2>3, <2>6 DEF OutAnswer
  <2>8. hDone + OutSize <= hCall.size /\ OutSize \in Nat /\ hDone \in Nat /\ hCall.size \in Nat
    BY <1>1, <2>4, NumbersTyped DEF NumbersOK
  <2>9. OutGained = hCall.size
    BY <2>4, <2>5, <2>7, <2>8 DEF OutGained, Answered
  <2> QED BY <1>1, <2>1, <2>9 DEF OutTaken, OutInv
<1>2. TypeOK /\ Lockstep /\ OutInv /\ OutTaken /\ [Next]_vars => [Told]_vars
  BY <1>1
<1> QED BY <1>2, QuietAcknowledges, OutHolds, OutTakes, InLockstep, SystemTyped, PTL
        DEF Spec, OutExactlyOnce

-----------------------------------------------------------------------------
(***************************************************************************)
(* The toggles between calls, where nothing is refused and nothing reset.  *)
(***************************************************************************)
OutPidsStay ==
    \A x \in OutEndps : /\ dataPid(hEpdata0', x) = dataPid(hEpdata0, x)
                        /\ dataPid(dEpdata0', x) = dataPid(dEpdata0, x)

LEMMA OutUnchanged == UNCHANGED <<hEpdata0, dEpdata0>> => OutPidsStay
BY Zenon DEF OutPidsStay, dataPid, Flag

LEMMA ApartFromOut ==
    ASSUME OutToggles, OutPidsStay, ~(hPc = "OutAck" /\ toDev # NoPkt), hPc' # "OutAck"
    PROVE  OutToggles'
BY DEF OutToggles, OutPidsStay, NothingLost

\* The transfers that flip other toggles.
LEMMA HostFlipsElsewhere ==
    ASSUME TypeOK, Quiet, hPc \notin {"Start", "Ready"}, hCall.kind # "out"
    PROVE  hCall.endp \in 0..255 /\ Elsewhere(hCall.endp)
<1>1. hCall.kind \in Controls \union {"out", "in"}
  BY KindsAt, CallTyped DEF TypeOK, CallType, Kinds, Outs, Ins
<1> QED BY <1>1, EndpointsInUse, EndpFields DEF Elsewhere

LEMMA HostTogglesOut ==
    ASSUME TypeOK, Lockstep, OutToggles, Host
    PROVE  OutToggles'
<1>1. UNCHANGED dEpdata0 /\ HostStep
  BY DEF Host, dOwn, dState
<1>2. hPc \notin {"Start", "Ready"} /\ ~Disconnected
  BY <1>1, NeverDisconnected
     DEF HostStep, checkSof, sendStandardRequest, getDataFromDevice, sendControlStatus,
         sendDataOut, SendToken, SendSetupData, SetupAck, waitForAck, Hear, DataArrives,
         DataFails, SendStatusData, StatusInData, SendOutData, OutAnswer
<1>3. hEpdata0 \in Flags /\ dEpdata0 \in Flags
  BY FlagFacts
<1>4. hPc' # "OutAck" \/ SendOutData
  BY <1>1, <1>2
     DEF HostStep, checkSof, sendStandardRequest, getDataFromDevice, sendControlStatus,
         sendDataOut, SendToken, SendSetupData, SetupAck, waitForAck, Hear, DataArrives,
         DataFails, SendStatusData, StatusInData, OutAnswer, At, Fail, Succeed, Finish,
         AfterData, EndDescriptor, DataError
<1>5. CASE hCall.kind # "out"
  <2>1. hCall.endp \in 0..255 /\ Elsewhere(hCall.endp) /\ hPc # "OutAck" /\ ~SendOutData
    BY <1>2, <1>5, HostFlipsElsewhere, KindsAt DEF Lockstep, SendOutData
  <2>2. hEpdata0' \in {hEpdata0, dataPidUpdate(hEpdata0, hCall.endp),
                       SetFlag(hEpdata0, hCall.endp, TRUE), SetFlag(hEpdata0, hCall.endp, FALSE)}
    BY <1>1, <1>2, <2>1
       DEF HostStep, checkSof, sendStandardRequest, getDataFromDevice, sendControlStatus,
           sendDataOut, SendToken, SendSetupData, SetupAck, waitForAck, DataArrives,
           DataFails, SendStatusData, StatusInData, OutAnswer
  <2>3. OutPidsStay
    <3>1. \A x \in OutEndps :
             /\ dataPid(dataPidUpdate(hEpdata0, hCall.endp), x) = dataPid(hEpdata0, x)
             /\ dataPid(SetFlag(hEpdata0, hCall.endp, TRUE), x) = dataPid(hEpdata0, x)
             /\ dataPid(SetFlag(hEpdata0, hCall.endp, FALSE), x) = dataPid(hEpdata0, x)
      BY Zenon, <1>3, <2>1, OutUntouched
    <3>2. \A x \in OutEndps : dataPid(hEpdata0', x) = dataPid(hEpdata0, x)
      BY <2>2, <3>1
    <3>3. \A x \in OutEndps : dataPid(dEpdata0', x) = dataPid(dEpdata0, x)
      BY Zenon, <1>1
    <3> QED BY Zenon, <3>2, <3>3 DEF OutPidsStay
  <2> QED BY <1>4, <2>1, <2>3, ApartFromOut
<1>6. CASE hCall.kind = "out" /\ ~SendOutData
  <2>1. SendToken("OutTok", "OUT", "OutData") \/ OutAnswer
    BY <1>1, <1>2, <1>6, OutPlace
       DEF HostStep, checkSof, sendStandardRequest, getDataFromDevice, sendControlStatus,
           sendDataOut, SendToken, SendSetupData, SetupAck, waitForAck, Hear, DataArrives,
           DataFails, SendStatusData, StatusInData
  <2>2. UNCHANGED hEpdata0
    BY <2>1 DEF SendToken, OutAnswer
  <2>3. ~(hPc = "OutAck" /\ toDev # NoPkt)
    BY <1>6, <2>1, OutPlace DEF SendToken, OutAnswer, Hear
  <2> QED BY <1>1, <1>4, <1>6, <2>2, <2>3, OutUnchanged, ApartFromOut
<1>7. CASE hCall.kind = "out" /\ SendOutData
  <2>1. /\ hPc = "OutData" /\ hPc' = "OutAck" /\ hCall' = hCall
        /\ toDev'.pid \in DataPids /\ hEpdata0' = dataPidUpdate(hEpdata0, hCall.endp)
    BY <1>7, QuietPacket, SentPids, PidOf DEF SendOutData, Send, At, Lockstep
  <2>2. toDev' # NoPkt
    BY <2>1, HshkPids DEF DataPids
  <2>3. hCall.endp = 1 /\ 1 \in 0..255 /\ EpIdx(1) = 1 /\ EpDir(1) = 0 /\ 1 \in EP
    BY <1>2, <1>7, EndpointsInUse, EndpFields DEF Lockstep
  <2>4. ASSUME NEW e \in OutEndps, NothingLost
        PROVE  dataPid(hEpdata0', e) = dataPid(dEpdata0', e) <=> EpIdx(e) # 1
    <3>1. dataPid(hEpdata0, e) = dataPid(dEpdata0, e)
      BY <2>1, <2>4 DEF OutToggles
    <3>3. /\ EpIdx(e) = 1 => dataPid(hEpdata0', e) # dataPid(hEpdata0, e)
          /\ EpIdx(e) # 1 => dataPid(hEpdata0', e) = dataPid(hEpdata0, e)
      BY Zenon, <1>3, <2>1, <2>3, <2>4, FlipOfOut
    <3> QED BY Zenon, <1>1, <3>1, <3>3
  <2> QED BY <2>1, <2>2, <2>3, <2>4 DEF OutToggles, NothingLost
<1> QED BY <1>5, <1>6, <1>7

\* The device's flips outside OutData.
LEMMA DeviceFlipsElsewhere ==
    ASSUME TypeOK, Lockstep, NothingLost, DeviceStep, ~OutData
    PROVE  \/ dEpdata0' = dEpdata0
           \/ \E f \in {dEpdata0, dataPidUpdate(dEpdata0, dCtx.endp)} :
                 /\ Elsewhere(dCtx.endp)
                 /\ dEpdata0' \in {f, SetFlag(f, dCtx.endp, TRUE)}
<1> DEFINE Goal == \/ dEpdata0' = dEpdata0
                   \/ \E f \in {dEpdata0, dataPidUpdate(dEpdata0, dCtx.endp)} :
                         /\ Elsewhere(dCtx.endp)
                         /\ dEpdata0' \in {f, SetFlag(f, dCtx.endp, TRUE)}
<1> SUFFICES Goal
  OBVIOUS
<1>1. CASE usbDeviceRun \/ Deaf \/ RunSetup \/ processSOF \/ RunUnexpected \/ processIn
           \/ processOut
  <2>1. /\ \A pid, endp : Refuse(pid, endp) => dEpdata0' = dEpdata0
        /\ \A endp : CallbackStall(endp) => dEpdata0' = dEpdata0
        /\ CallbackNak => dEpdata0' = dEpdata0
        /\ \A endp : CallbackData(endp) => dEpdata0' = dEpdata0
    BY DEF Refuse, CallbackStall, CallbackNak, CallbackData, dState
  <2>2. processIn \/ processOut => dEpdata0' = dEpdata0
    BY <2>1 DEF processIn, processOut, dState
  <2>3. RunSetup \/ processSOF \/ RunUnexpected => dEpdata0' = dEpdata0
    BY DEF RunSetup, processSOF, RunUnexpected, dState
  <2>4. usbDeviceRun \/ Deaf => dEpdata0' = dEpdata0
    BY DEF usbDeviceRun, Deaf, dState
  <2> QED BY Zenon, <1>1, <2>2, <2>3, <2>4
<1>2. CASE waitForExpectedPacket
  <2>1. toDev # LineReset
    BY HshkPids DEF Lockstep, Places, InStep, AtRest, SetupStage, InStage, StatusStage, OutStage,
       Clear, Sent, Answered, NothingLost
  <2> QED BY <1>2, <2>1 DEF waitForExpectedPacket, WaitReset, WaitSuspend, WaitBad, dState
<1>3. CASE sendInData
  <2>1. dPc \in {"InToken", "InHshk"} => Elsewhere(dCtx.endp)
    BY EndpFields DEF Lockstep, Bytes, InTransfer, BulkIn, DataIn, Transferring, Elsewhere
  <2>2. CASE InAcked
    <3>1. dPc = "InHshk"
      BY <2>2 DEF InAcked, Return, Take
    <3>2. [dCtx EXCEPT !.sent = @ + Chunk(dCtx)].endp = dCtx.endp
      BY DEF TypeOK, DeviceTypeOK, ControlOK, Contexts
    <3>3. dEpdata0' = dataPidUpdate(dEpdata0, dCtx.endp)
      BY <2>2, <3>2 DEF InAcked
    <3> QED BY Zenon, <2>1, <3>1, <3>3
  <2>3. SendOnIn \/ InNaked \/ InNoHandshake => dEpdata0' = dEpdata0
    BY DEF SendOnIn, InNaked, InNoHandshake, dState
  <2> QED BY <1>3, <2>2, <2>3 DEF sendInData
<1>4. CASE controlStatusStage
  <2>1. dPc \in {"StatusIn", "StatusAck", "StatusOut", "StatusData"} => Elsewhere(dCtx.endp)
    BY EndpFields DEF Lockstep, Bytes, ControlIn, Elsewhere
  <2> QED BY <1>4, <2>1 DEF controlStatusStage, StatusIn, StatusAck, StatusOut, StatusData,
             EndControl, dState, Return, Take
<1>5. CASE processControl
  <2>1. Elsewhere(dCtx.endp)
    BY <1>5, EndpFields DEF processControl, Return, Take, Lockstep, Places, Addressed, Elsewhere
  <2>2. /\ \A r : AckSetup(r) => dEpdata0' = dataPidUpdate(dEpdata0, dCtx.endp)
        /\ \A endp : StallStop(endp) => dEpdata0' = dEpdata0
        /\ StallStatus => dEpdata0' = dEpdata0
    BY DEF AckSetup, StallStop, StallStatus
  <2>3. \A r : handleDevReq(r) \/ handleIfReq(r) \/ handleEpReq(r) =>
                 dEpdata0' \in {dEpdata0, dataPidUpdate(dEpdata0, dCtx.endp)}
    BY <2>2 DEF handleDevReq, handleIfReq, handleEpReq, Answer, Obey, dState
  <2>4. dEpdata0' \in {dEpdata0, dataPidUpdate(dEpdata0, dCtx.endp)}
    BY <1>5, <2>2, <2>3 DEF processControl
  <2> QED BY Zenon, <2>1, <2>4
<1> QED BY <1>1, <1>2, <1>3, <1>4, <1>5 DEF DeviceStep

LEMMA DeviceTogglesOut ==
    ASSUME TypeOK, Lockstep, OutToggles, Device
    PROVE  OutToggles'
<1>1. HostStays /\ DeviceStep
  BY DeviceAlone DEF Device
<1>2. UNCHANGED <<hPc, hCall, hEpdata0>>
  BY <1>1 DEF HostStays
<1>3. SUFFICES ASSUME NothingLost PROVE OutToggles'
  BY DEF OutToggles, NothingLost
<1>4. dEpdata0 \in Flags /\ dCtx.endp \in 0..255
  BY FlagFacts, Numbers
<1>5. ASSUME ~OutData PROVE OutToggles'
  <2>1. dataPidUpdate(dEpdata0, dCtx.endp) \in Flags
    BY Zenon, <1>4, ToggleTyped
  <2>2. OutPidsStay
    <3>1. \/ dEpdata0' = dEpdata0
          \/ \E f \in {dEpdata0, dataPidUpdate(dEpdata0, dCtx.endp)} :
                /\ Elsewhere(dCtx.endp)
                /\ dEpdata0' \in {f, SetFlag(f, dCtx.endp, TRUE)}
      BY <1>1, <1>3, <1>5, DeviceFlipsElsewhere
    <3>2. \A f \in Flags : Elsewhere(dCtx.endp) =>
            \A x \in OutEndps : /\ dataPid(dataPidUpdate(f, dCtx.endp), x) = dataPid(f, x)
                                /\ dataPid(SetFlag(f, dCtx.endp, TRUE), x) = dataPid(f, x)
      BY Zenon, <1>4, OutUntouched
    <3>3. CASE dEpdata0' = dEpdata0
      BY Zenon, <1>2, <3>3, OutUnchanged
    <3>4. ASSUME NEW f \in {dEpdata0, dataPidUpdate(dEpdata0, dCtx.endp)},
                 Elsewhere(dCtx.endp), dEpdata0' \in {f, SetFlag(f, dCtx.endp, TRUE)}
          PROVE  OutPidsStay
      <4>1. f \in Flags
        BY Zenon, <1>4, <2>1
      <4>2. \A x \in OutEndps : dataPid(f, x) = dataPid(dEpdata0, x)
        BY Zenon, <1>4, <3>2, <3>4
      <4>3. \A x \in OutEndps : dataPid(dEpdata0', x) = dataPid(f, x)
        BY Zenon, <3>2, <3>4, <4>1
      <4> QED BY Zenon, <1>2, <4>2, <4>3 DEF OutPidsStay
    <3> QED BY <3>1, <3>3, <3>4
  <2>3. hPc # "OutAck"
    <3>1. hPc = "OutAck" => hCall.kind = "out"
      BY KindsAt DEF Lockstep
    <3> QED BY <1>1, <1>5, <3>1, OutDataNext
  <2> QED BY <1>2, <2>2, <2>3, ApartFromOut
<1>6. ASSUME OutData PROVE OutToggles'
  <2>1. /\ dPc = "OutData" /\ toDev # NoPkt /\ toDev' = NoPkt
    BY <1>6, Taking DEF OutData
  <2>2. hPc = "OutAck"
    BY <2>1, HshkPids
       DEF Lockstep, Places, InStep, AtRest, SetupStage, InStage, StatusStage, OutStage,
           Clear, Sent, Answered, Quiet
  <2>3. hCall.endp = 1 /\ dCtx.endp = 1 /\ 1 \in 0..255 /\ EpIdx(1) = 1 /\ EpDir(1) = 0 /\ 1 \in EP
    BY <2>1, <2>2, KindsAt, EndpointsInUse, EndpFields DEF Lockstep, Places, Addressed
  <2>4. dEpdata0' = dataPidUpdate(dEpdata0, 1)
    BY <1>3, <1>6, <2>3 DEF OutData, CallbackStall, CallbackNak, OutAccept, NothingLost
  <2>5. ASSUME NEW e \in OutEndps
        PROVE  dataPid(hEpdata0', e) = dataPid(dEpdata0', e)
    <3>1. dataPid(hEpdata0, e) = dataPid(dEpdata0, e) <=> EpIdx(e) # 1
      BY <1>3, <2>1, <2>2, <2>3 DEF OutToggles
    <3>3. /\ EpIdx(e) = 1 => dataPid(dEpdata0', e) # dataPid(dEpdata0, e)
          /\ EpIdx(e) # 1 => dataPid(dEpdata0', e) = dataPid(dEpdata0, e)
      BY Zenon, <1>4, <2>4, <2>5, FlipOfOut
    <3>5. /\ dataPid(hEpdata0, e) \in {"DATA0", "DATA1"}
          /\ dataPid(dEpdata0, e) \in {"DATA0", "DATA1"}
          /\ dataPid(dEpdata0', e) \in {"DATA0", "DATA1"}
      BY PidOf DEF DataPids
    <3>6. dataPid(hEpdata0', e) = dataPid(hEpdata0, e)
      BY Zenon, <1>2
    <3> QED BY <3>1, <3>3, <3>5, <3>6
  <2> QED BY <1>2, <2>1, <2>5 DEF OutToggles
<1> QED BY <1>5, <1>6

LEMMA OutTogglesStay ==
    TypeOK /\ Lockstep /\ OutToggles /\ [Next]_vars => OutToggles'
<1> SUFFICES ASSUME TypeOK, Lockstep, OutToggles, [Next]_vars PROVE OutToggles'
  OBVIOUS
<1>1. ~Corrupt
  BY DEF Corrupt, Lockstep, Quiet, TypeOK
<1>2. ~DevUser
  BY DEF DevUser, DeviceUser, usbDeviceDisconnect, usbDeviceReconnect, usbDeviceRunAgain,
         Lockstep, Places, InStep, AtRest, SetupStage, InStage, StatusStage, OutStage
<1>3. CASE UNCHANGED vars
  BY Zenon, <1>3 DEF vars, dVars, hVars, dState, OutToggles, dataPid, Flag
<1>4. CASE User
  <2>1. hPc # "OutAck" /\ hPc' # "OutAck" /\ UNCHANGED <<hEpdata0, dEpdata0>>
    BY <1>4 DEF User, HostUser, usbHostWaitForConnection, Begin, Counted, usbHostResetDevice,
       usbHostSuspendDevice, usbHostSleepUs, Condition, dOwn, dState
  <2> QED BY <2>1, OutUnchanged, ApartFromOut
<1>5. Device \/ Host \/ User \/ UNCHANGED vars
  BY <1>1, <1>2 DEF Next, usbHostEndExecution
<1> QED BY <1>3, <1>4, <1>5, DeviceTogglesOut, HostTogglesOut

\* Between calls both sides hold the same toggle for every endpoint and direction, if the
\* callback refuses no packet and the device is not reset in between.
THEOREM TogglesAgree == Quiet /\ NothingLost => (Spec => []ToggleSync)
<1> SUFFICES ASSUME Quiet, NothingLost PROVE Spec => []ToggleSync
  OBVIOUS
<1>1. Init => OutToggles
  <2> SUFFICES ASSUME Init PROVE OutToggles
    OBVIOUS
  <2>1. hEpdata0 = dEpdata0 /\ hPc = "Start"
    BY DEF Init, DeviceInit, HostInit
  <2> QED BY <2>1 DEF OutToggles
<1>2. TypeOK /\ Lockstep /\ OutToggles /\ [Next]_vars => OutToggles'
  BY OutTogglesStay
<1>3. TypeOK /\ Lockstep /\ OutToggles => ToggleSync
  <2> SUFFICES ASSUME TypeOK, Lockstep, OutToggles, hPc = "Ready", dPc = "Run", toDev = NoPkt
               PROVE  hEpdata0 = dEpdata0
    BY DEF ToggleSync
  <2>1. hEpdata0 \in Flags /\ dEpdata0 \in Flags
    BY FlagFacts
  <2>2. ASSUME NEW i \in EP PROVE dataPid(hEpdata0, i + 128) = dataPid(dEpdata0, i + 128)
    <3>1. i + 128 \in InEndps
      BY EndpFields DEF InEndps
    <3>2. ~DataIn
      BY DEF DataIn, Transferring
    <3> QED BY <3>1, <3>2 DEF Lockstep, Toggles, InToggles
  <2>3. ASSUME NEW i \in EP PROVE dataPid(hEpdata0, i) = dataPid(dEpdata0, i)
    <3>1. CASE i # 0
      <4>1. i \in OutEndps
        BY <3>1, EndpFields DEF OutEndps
      <4> QED BY <4>1 DEF OutToggles
    <3>2. CASE i = 0
      <4>1. hCall.kind = "none" /\ "none" \notin Controls
        BY KindsAt DEF Lockstep, Controls, Descs, Sets
      <4> QED BY <3>2, <4>1 DEF Lockstep, Toggles, ControlToggles
    <3> QED BY <3>1, <3>2
  <2> QED BY <2>1, <2>2, <2>3, SameToggles
<1> QED BY <1>1, <1>2, <1>3, InLockstep, SystemTyped, PTL DEF Spec

=============================================================================
