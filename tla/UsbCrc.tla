-------------------------------- MODULE UsbCrc --------------------------------
(***************************************************************************)
(* The two cyclic redundancy codes of usbPkt.cpp, over sequences of bits   *)
(* in the order they are sent.                                             *)
(***************************************************************************)
EXTENDS Integers, Sequences

Complement(bits) == [i \in DOMAIN bits |-> 1 - bits[i]]

Invert(bits, at) == [i \in DOMAIN bits |-> IF i \in at THEN 1 - bits[i] ELSE bits[i]]

\* A register of "width" bits, the highest first, shifted left once for each bit; the
\* taps are inverted when the bit shifted out differs from the data bit.  The register
\* is complemented and reversed, then sent from its lowest bit.
Crc(bits, width, taps) ==
    LET Shift(reg, b) ==
            LET left == Append(Tail(reg), 0)
            IN  IF reg[1] = b THEN left ELSE Invert(left, taps)
        reg[n \in 0..Len(bits)] ==
            IF n = 0 THEN [i \in 1..width |-> 1] ELSE Shift(reg[n - 1], bits[n])
    IN  Complement(reg[Len(bits)])

\* x^5 + x^2 + 1: the low bits of POLY16, which usbcrc5 uses as well.
usbcrc5(bits) == Crc(bits, 5, {3, 5})

\* x^16 + x^15 + x^2 + 1
usbcrc16(bits) == Crc(bits, 16, {1, 14, 16})

=============================================================================
