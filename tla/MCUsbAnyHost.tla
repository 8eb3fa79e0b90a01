---------------------------- MODULE MCUsbAnyHost ----------------------------
(***************************************************************************)
(* Instances of UsbAnyHost for TLC.                                        *)
(***************************************************************************)
EXTENDS UsbAnyHost

MCEP == {0, 1, 8}

MCDescSize == [DEVICE |-> 18]

Tok(pid, addr, endp) == Pkt(pid, addr, endp, 0, 0, NoReq)

DevReq(dir, breq, desc, value) == Req("dev", dir, breq, desc, value, 0, 64)

Halt(endp) == Req("ep", "set", "SET_FEATURE", "none", 0, endp, 0)

\* Requests of each kind that handleDevReq, handleIfReq and handleEpReq tell apart.
MCRequests ==
    {DevReq("set", "SET_ADDRESS", "none", 1),
     DevReq("get", "GET_DESCRIPTOR", "DEVICE", 0),
     DevReq("get", "GET_DESCRIPTOR", "IFEP", 0),
     DevReq("get", "GET_DESCRIPTOR", "QUALIFIER", 0),
     DevReq("set", "GET_CONFIG", "none", 0),
     DevReq("set", "SET_CONFIG", "none", 1),
     DevReq("set", "PRIVATE", "none", 0),
     Req("if", "get", "GET_INTERFACE", "none", 0, 0, 1),
     Req("if", "get", "PRIVATE", "none", 0, 0, 1),
     Req("ep", "get", "PRIVATE", "none", 0, 1, 2),
     Halt(1), Halt(129),
     Req("ep", "set", "CLEAR_FEATURE", "none", 0, 1, 0)}

\* SET_ADDRESS, then halts of endpoint 1 set and cleared, then transfers on it.
MCFrequent ==
    {SetupData(r) : r \in {DevReq("set", "SET_ADDRESS", "none", 1), Halt(1), Halt(129)}}
    \union {Tok("SETUP", 0, 0), Tok("IN", 1, 1), Tok("OUT", 1, 1),
            Data("DATA0", 0, 32), Hshk("ACK"), LineReset}

\* A data packet may be longer than the device's packets: usbPktGen and usbPktDecode
\* let 64 bytes through.  A transfer on endpoint 1 is answered once the device is at address 1.
MCHostPackets ==
    {SetupData(r) : r \in MCRequests}
    \union {Tok("SETUP", 0, 0), Tok("SETUP", 2, 0), Tok("IN", 1, 1), Tok("OUT", 1, 1),
            Tok("OUT", 1, 0),
            Data("DATA0", 0, 32), Data("DATA1", 0, 0), Data("DATA1", 0, 64),
            Hshk("ACK"), Hshk("NAK"), Hshk("NYET"), Sof(5),
            BadPkt, LineReset, LineSuspend, LineError}

=============================================================================
