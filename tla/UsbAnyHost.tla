------------------------------ MODULE UsbAnyHost ------------------------------
(***************************************************************************)
(* The device on a bus whose host may send anything at any time: packets   *)
(* in any order, tokens for endpoints the device has or has not, requests  *)
(* no method of usbHost makes, damaged packets, resets in the middle of a  *)
(* transfer.  What holds here the device owes to nobody's good behaviour.  *)
(***************************************************************************)
EXTENDS UsbDevice

CONSTANTS
    HostPackets,    \* what the host sends
    Frequent,       \* those of them that count once, the others count twice
    MaxSent         \* bound: packets sent, counted so

ASSUME AnyHostAssumption == HostPackets \subseteq Packets /\ MaxSent \in Nat

VARIABLES
    sent,
    skew    \* the toggle of the control endpoint may have been left by something
            \* that is no control transfer (history)

vars == <<dVars, sent, skew>>

Init == BusInit /\ DeviceInit /\ sent = 0 /\ skew = FALSE

Weight(pkt) == IF pkt \in Frequent THEN 1 ELSE 2

\* The packet before it has been dealt with, and what the device sent is gone.
AnyHost ==
    /\ pullup /\ toDev = NoPkt
    /\ toDev' \in HostPackets /\ toHost' = NoPkt
    /\ sent' = sent + Weight(toDev') /\ sent' <= MaxSent
    /\ UNCHANGED <<dPc, dCtx, dState, dSuspended, dNrzi, dRx, pullup, dHistory, skew>>

OnControl == EpIdx(dCtx.endp) = 0 /\ EpDir(dCtx.endp) = 0

\* usbDeviceRun entered again after an error, and data that processOut takes on
\* endpoint 0, which the table of valid endpoints lets through.
Skews ==
    \/ dPc = "Stopped" /\ dPc' = "Run"
    \/ dOut' # dOut /\ OnControl

\* A bus reset, and the end of a control transfer.
Settles ==
    \/ dPc \in Waits /\ toDev = LineReset
    \/ dPc \in {"StatusAck", "StatusData"} /\ dPc' = "Run" /\ OnControl

Device ==
    /\ DeviceNext
    /\ skew' = (Skews \/ (skew /\ ~Settles))
    /\ UNCHANGED sent

Next == AnyHost \/ Device

Spec == Init /\ [][Next]_vars

-----------------------------------------------------------------------------
\* No data pass through an endpoint while it is halted: the callback is given none
\* and none are sent, whatever the halt was set by and whenever.
HaltedIsSilent ==
    [][/\ dOut' # dOut => ~Flag(ephalted, dCtx.endp)
       /\ dPc = "Run" /\ dPc' = "InHshk" => ~Flag(ephalted, dCtx'.endp)]_vars

\* Whichever way a control transfer or a reset leaves it, the control endpoint
\* expects DATA0 when the run loop waits for the next SETUP.
ControlAtData0 == dPc = "Run" /\ ~skew => Flag(dEpdata0, 0)

\* The data callback's bytes lie in rxdata, where a packet that comes in place of the
\* next IN token puts its own from the start.  "Overwritten" are the places in rxdata
\* where it does so to bytes that are still to be sent.
Overwritten == (0..Received.len - 1) \cap (dCtx.sent..dCtx.size - 1)

TakenForIn == dPc = "InToken" /\ ~dCtx.ctl /\ dPc' = "InHshk"

\* Whatever the packet's size, what it overwrites of them lies behind the first MAXPKT
\* bytes: nothing if it is one a device of this packet size may be sent, and of a longer
\* one no more than the bytes by which it is too long.
CallbackDataIntact == [][TakenForIn => Overwritten \subseteq MAXPKT..Received.len - 1]_vars

\* A request is acted on only when it came as the data packet of a SETUP stage.
PidChecked == [][dServed' # dServed => Received.pid = "DATA0"]_vars

=============================================================================
