-------------------------- MODULE MCUsbFindDescriptor --------------------------
(***************************************************************************)
(* Instances of UsbFindDescriptor for TLC: the 67 bytes that the device    *)
(* model returns, any part of them, and searches for every kind of         *)
(* descriptor.                                                             *)
(***************************************************************************)
EXTENDS UsbFindDescriptor, SequencesExt

Desc(length, type, third) == [bLength |-> length, type |-> type, third |-> third]

\* configAllDesc of usbDevice.h.
ConfigAll ==
    <<Desc(9, 2, 67), Desc(5, 36, 0), Desc(4, 36, 2), Desc(5, 36, 6), Desc(5, 36, 1),
      Desc(9, 4, 0), Desc(7, 5, 130), Desc(9, 4, 1), Desc(7, 5, 129), Desc(7, 5, 1)>>

\* Two alternatives of one interface: the same descriptor twice.
Twice == <<Desc(9, 2, 25), Desc(9, 4, 0), Desc(7, 5, 1), Desc(9, 4, 0), Desc(7, 5, 1)>>

\* The descriptors with their places, and the bytes with "behind" behind them.
Pack(list, behind) ==
    LET Place(acc, d) ==
            [descs |-> Append(acc.descs, [at |-> acc.end, bLength |-> d.bLength,
                                          type |-> d.type, third |-> d.third]),
             end   |-> acc.end + d.bLength]
        placed == FoldLeft(Place, [descs |-> <<>>, end |-> 0], list)
        Byte(o) ==
            IF o >= placed.end THEN behind[o - placed.end + 1]
            ELSE LET d == CHOOSE p \in ToSet(placed.descs) :
                              p.at <= o /\ o < p.at + p.bLength
                 IN  CASE o = d.at     -> d.bLength
                       [] o = d.at + 1 -> d.type
                       [] o = d.at + 2 -> d.third
                       [] OTHER        -> 0
    IN  [raw |-> [o \in 0..placed.end + 2 |-> Byte(o)],
         descs |-> placed.descs, end |-> placed.end]

\* Behind the data: a buffer that was never written to, an endpoint descriptor left
\* by a longer read, the bytes of two data transfers, of which the second reads as a
\* string descriptor of no bytes.
MCBuffers == {Pack(list, behind) : list \in {ConfigAll, Twice},
                                   behind \in {<<0, 0, 0>>, <<7, 5, 1>>, <<3, 4, 5>>, <<0, 3, 1>>}}

MCWanted == {1, 2, 3, 4, 5, 36} \X {NOT_VALID, 0, 1, 2, 6, 129, 130}

=============================================================================
