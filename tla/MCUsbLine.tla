------------------------------ MODULE MCUsbLine ------------------------------
(***************************************************************************)
(* Instances of UsbLine for TLC.  The counts of the code (300 and 1200 in  *)
(* USBTESTMODE, 120000 and 36000 without) are scaled down; their order and *)
(* the room for one count to run out within the other are kept.            *)
(***************************************************************************)
EXTENDS UsbLine

=============================================================================
