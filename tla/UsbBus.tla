-------------------------------- MODULE UsbBus --------------------------------
(***************************************************************************)
(* What host and device share: the wire pair, the pull-up by which a       *)
(* device shows that it is there, and constants both classes were built    *)
(* with.                                                                   *)
(***************************************************************************)
EXTENDS UsbPacket

CONSTANTS
    EP,         \* endpoint numbers looked at, a part of 0..15
    DescSize,   \* bytes in each descriptor the device returns
    MAXNAKS     \* NAKs a transfer takes before it is an error

\* An interface or endpoint descriptor is part of the configuration, never returned
\* by itself.
ASSUME BusAssumption ==
    /\ EP \subseteq 0..15 /\ 0 \in EP
    /\ "IFEP" \notin DOMAIN DescSize
    /\ \A d \in DOMAIN DescSize : DescSize[d] \in Nat
    /\ MAXNAKS \in Nat

VARIABLES
    toDev,      \* the packet or line condition on its way to the device
    toHost,     \* the packet on its way to the host
    pullup      \* the device's pull-up is enabled

BusInit == toDev = NoPkt /\ toHost = NoPkt /\ pullup = FALSE

Flags == [EP -> [0..1 -> BOOLEAN]]

AllFlags(b) == [e \in EP |-> [d \in 0..1 |-> b]]

=============================================================================
