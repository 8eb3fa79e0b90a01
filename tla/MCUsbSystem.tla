----------------------------- MODULE MCUsbSystem -----------------------------
(***************************************************************************)
(* Instances of UsbSystem for TLC.  Sizes are those of the code: packets   *)
(* of 32 bytes, descriptors of 18, 67, 6, 44 and 18 bytes.                 *)
(***************************************************************************)
EXTENDS UsbLockstep

MCEP  == {0, 1, 8}

MCDescSize == [DEVICE |-> 18, CONFIG |-> 67, STRING0 |-> 6, STRING1 |-> 44, STRING2 |-> 18]

MCRequests == {}

\* Every control method, with the arguments of the test program.
ControlsAt(a) ==
    {usbHostGetDeviceDescriptor(a, 0, 255, FALSE),
     usbHostGetConfigDescriptor(a, 0, 9, TRUE),
     usbHostGetConfigDescriptor(a, 0, 67, TRUE),
     usbHostGetStrDescriptor(a, 0, "STRING0", 255, FALSE),
     usbHostGetStrDescriptor(a, 0, "STRING1", 255, FALSE),
     usbHostGetDeviceStatus(a, 0),
     usbHostGetDeviceConfig(a, 0, 1),
     usbHostSetDeviceConfig(a, 0, 1),
     usbHostClearDeviceFeature(a, 0, 0),
     usbHostSetDeviceFeature(a, 0, 1),
     usbHostGetInterfaceStatus(a, 0, 0),
     usbHostClearInterfaceFeature(a, 0, 0, 0),
     usbHostSetInterfaceFeature(a, 0, 0, 0),
     usbHostGetInterface(a, 0, 0),
     usbHostSetInterface(a, 0, 0, 1),
     usbHostGetEndpointStatus(a, 0),
     usbHostSetEndpointFeature(a, 0, 0),
     usbHostClearEndpointFeature(a, 0, 0),
     usbHostGetEndpointSynchFrame(a, 0)}

\* All of them at the device's own address, two at the default address, and bulk
\* transfers of three packets on endpoint 1, of which one sends packets longer than
\* the device's.
Everything ==
    {usbHostSetDeviceAddress(0, 0, 1), usbHostGetConfigDescriptor(0, 0, 67, FALSE),
     usbHostBulkDataOut(1, 1, 72, 32), usbHostBulkDataOut(1, 1, 136, 64),
     usbHostBulkDataIn(1, 129, 96)}
    \union ControlsAt(1)

\* One call of each shape, for the runs with noise and with resets.
Mixed ==
    {usbHostSetDeviceAddress(0, 0, 1),
     usbHostGetConfigDescriptor(0, 0, 67, FALSE),
     usbHostGetStrDescriptor(0, 0, "STRING1", 255, FALSE),
     usbHostGetDeviceStatus(1, 0),
     usbHostSetEndpointFeature(1, 0, 0),
     usbHostBulkDataOut(1, 1, 56, 32),
     usbHostBulkDataIn(1, 129, 64)}

\* The same, isochronous reads, and two writes with packets that are not generated: the
\* data of the one are too long, the endpoint of the other is out of range.  User code
\* that is Wild makes each of them also before the device has its address and after a
\* reset has taken it away.
Noisy ==
    Mixed \union {usbHostIsoDataIn(1, 129, 40), usbHostBulkDataOut(1, 1, 72, 65),
                  usbHostBulkDataOut(1, 17, 32, 32)}

\* A device at address 2, whose bulk IN tokens have a direction bit in the CRC.
Address2 == {usbHostSetDeviceAddress(0, 0, 2), usbHostBulkDataIn(2, 129, 64)}

\* An isochronous transfer of two packets.
IsoOut == {usbHostSetDeviceAddress(0, 0, 1), usbHostIsoDataOut(1, 1, 40, 32)}

=============================================================================
