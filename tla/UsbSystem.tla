------------------------------ MODULE UsbSystem ------------------------------
(***************************************************************************)
(* A host and a device on one pair of wires, as in the test benches of     *)
(* model/verilog/test and model/vhdl/test.                                 *)
(***************************************************************************)
EXTENDS UsbDevice, UsbHost

CONSTANTS
    MaxFaults,      \* bound: packets that arrive damaged
    MaxRestarts,    \* bound: usbDeviceRun called again after it returned
    Wild            \* user code may address what is not there

ASSUME SystemAssumption == MaxFaults \in Nat /\ MaxRestarts \in Nat /\ Wild \in BOOLEAN

VARIABLES
    faults, restarts,
    mark        \* length of dServed when the last control call began, or -1 after
                \* a data transfer has begun (history)

vars == <<dVars, hVars, faults, restarts, mark>>

Init == BusInit /\ DeviceInit /\ HostInit /\ faults = 0 /\ restarts = 0 /\ mark = -1

\* Noise on the line makes a packet one that does not decode.
Corrupt ==
    /\ faults < MaxFaults /\ faults' = faults + 1
    /\ \/ toDev.pid \in GoodPids /\ toDev' = BadPkt /\ UNCHANGED toHost
       \/ toHost.pid \in GoodPids /\ toHost' = BadPkt /\ UNCHANGED toDev
    /\ UNCHANGED <<dPc, dCtx, dState, dSuspended, dNrzi, dRx, pullup, dHistory,
                   hPc, hCall, hDone, hNaks, hEpdata0, hConnected, hFramenum, hRet, hCalls,
                   hHistory, restarts, mark>>

dOwn == <<dPc, dCtx, dState, dSuspended, dNrzi, dRx, dHistory>>
hOwn == <<hPc, hCall, hDone, hNaks, hEpdata0, hConnected, hFramenum, hRet, hCalls,
          hHistory>>

Device == DeviceStep /\ UNCHANGED <<hOwn, faults, restarts, mark>>

DevUser ==
    /\ DeviceUser
    /\ restarts' = IF dPc' = dPc THEN restarts ELSE restarts + 1
    /\ restarts' <= MaxRestarts
    /\ UNCHANGED <<hOwn, faults, mark>>

Host == HostStep /\ UNCHANGED <<dOwn, faults, restarts, mark>>

\* User code that knows the bus: the default address before SET_ADDRESS, and the
\* address it set from then on.  A reset is over before the next call begins.
Proper(c) ==
    /\ toDev = NoPkt
    /\ Wild \/ c.addr = devaddr \/ (c.addr = 0 /\ c.kind \in Controls)

User ==
    /\ HostUser
    /\ IF hCall' = hCall THEN UNCHANGED mark
       ELSE /\ Proper(hCall')
            /\ mark' = IF hCall'.kind \in Controls THEN Len(dServed) ELSE -1
    /\ UNCHANGED <<dOwn, faults, restarts>>

\* The test program ends the simulation when its calls have returned.
usbHostEndExecution == hPc = "Ready" /\ hCalls = MaxCalls /\ UNCHANGED vars

Next == Device \/ DevUser \/ Host \/ User \/ Corrupt \/ usbHostEndExecution

Spec == Init /\ [][Next]_vars

\* The simulator runs each virtual processor on until it blocks, so neither
\* thread stays at a step it can take.  Nothing is assumed of user code.
FairSpec == Spec /\ WF_vars(Device) /\ WF_vars(Host)

-----------------------------------------------------------------------------
(***************************************************************************)
(* Properties.                                                             *)
(***************************************************************************)
\* Every variable holds values of its kind.
TypeOK ==
    /\ DeviceTypeOK /\ HostTypeOK
    /\ faults \in 0..MaxFaults /\ restarts \in 0..MaxRestarts
    /\ mark \in Nat \union {-1}

Returns(kinds, status) ==
    hCall.kind \in kinds /\ hCall'.kind = "none" /\ hRet' = status

\* The bytes from stream position "from" on that the data callback has taken.
Taken(from) ==
    UNION {dOut[i][2]..(dOut[i][2] + dOut[i][3] - 1) :
              i \in {i \in 1..Len(dOut) : dOut[i][2] >= from}}

\* The callback is never given bytes again, or out of the order they were sent in.
OutInOrder ==
    \A j \in 1..Len(dOut) : dOut[j][3] > 0 =>
        \A i \in 1..j - 1 : dOut[i][2] + dOut[i][3] <= dOut[j][2]

\* A bulk OUT call that reports success has had each of its bytes taken by the
\* data callback, and none of them twice.
OutExactlyOnce ==
    [][Returns({"out"}, "OK") =>
          Taken(hOut) = hOut..(hOut + hCall.size - 1) /\ OutInOrder]_vars

\* While a bulk OUT call is in progress its count of acknowledged bytes lags the
\* bytes the callback took by at most the packet that has not been answered.
OutWithinOnePacket ==
    hCall.kind = "out" =>
        \/ Taken(hOut) = hOut..(hOut + hDone - 1)
        \/ Taken(hOut) = hOut..(hOut + hDone + OutSize - 1)

\* The bytes of the device's data stream reach user code in order, without a gap
\* and without repetition.  (A device that is run again begins a new transfer.)
InInOrder ==
    [][hIn' # hIn /\ restarts = 0 => hRx'[Len(hRx')][1] = hIn]_vars

\* The bytes the device counts as delivered are those the host took, except for
\* the transfer in progress, and one that was in progress when the device stopped.
InAgrees ==
    restarts = 0 =>
    /\ dIn <= hIn
    /\ (dPc = "Run" /\ toDev = NoPkt /\ toHost = NoPkt /\ hPc = "Ready") => dIn = hIn

\* A descriptor or status read that reports success has taken the whole of it, as
\* far as it was asked for, in order from its first byte.
Whole(rx) == \A i \in 1..Len(rx) : rx[i][1] = IF i = 1 THEN 0 ELSE rx[i-1][1] + rx[i-1][2]
ReadWhole ==
    [][Returns({"get"} \union Descs, "OK") =>
          /\ Whole(hRx)
          /\ hDone = IF hCall.kind = "get" THEN hCall.size
                     ELSE MinOf(hCall.size, DescSize[hCall.req.desc])]_vars

\* The code writes what it receives at receivedbytes and knows no end of the user's
\* buffer; still no packet of a read reaches beyond the bytes that were asked for.
ReadFits ==
    [][Len(hRx') > Len(hRx) => hDone' <= hCall.size]_vars

\* Between calls both sides hold the same DATA0/DATA1 toggle for every endpoint
\* and direction.
ToggleSync ==
    hPc = "Ready" /\ dPc = "Run" /\ toDev = NoPkt => hEpdata0 = dEpdata0

\* Neither side sends while the other does: the host starts a packet only on a
\* line the device has left, the device only when the host waits for it.
HalfDuplex ==
    [][/\ toDev' \notin {toDev, NoPkt} => toHost = NoPkt \/ hPc \in Listening
       /\ toHost' \notin {toHost, NoPkt} => hPc \in Listening]_vars

\* A device that is used properly never gives up its run loop.
DeviceRuns == dPc # "Stopped"

\* Between calls the device is back in its run loop: no call leaves it in the
\* middle of a transfer.
DeviceAtRest == hPc = "Ready" /\ toDev = NoPkt => dPc \in {"Start", "Run", "Stopped"}

\* SET_ADDRESS that reports success has moved the device to that address.
AddressSet ==
    [][Returns({"set"}, "OK") /\ hCall.req.breq = "SET_ADDRESS" => devaddr = hCall.req.value]_vars

\* The device acts on a request at most once per call, and a call that reports
\* success had its request acted on.
Service == INSTANCE UsbService WITH
    Request <- {c.req : c \in Calls} \ {NoReq},
    None    <- NoReq,
    pending <- hCall.req,
    served  <- dServed,
    done    <- hCall.req # NoReq /\ Len(dServed) > mark,
    ok      <- hRet = "OK" /\ hCall = NoCall /\ mark # -1
ServiceSpec == Service!Spec

\* What the host generates, the device can decode.
TokensDecode == toDev # BadPkt

\* Every call returns.
CallsReturn == (hPc \notin {"Start", "Ready"}) ~> (hPc = "Ready")

=============================================================================
