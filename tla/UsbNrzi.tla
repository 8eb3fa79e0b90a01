------------------------------- MODULE UsbNrzi -------------------------------
(***************************************************************************)
(* The line code of usbPkt.cpp: a zero bit changes the level, a one keeps  *)
(* it, and after six ones a zero is stuffed.  Both methods are one pass,   *)
(* so each is given by what it does with one bit or with one sample.       *)
(***************************************************************************)
EXTENDS Integers, Sequences

MAXONESLENGTH == 6

EOP == <<"SE0", "SE0", "J">>

Flip(level) == IF level = "J" THEN "K" ELSE "J"

-----------------------------------------------------------------------------
\* state, onescnt and the samples written so far.
EncStart == [level |-> "J", ones |-> 0, line |-> <<>>]

\* One bit: its sample, and a stuffed one after the sixth 1.
EncodeBit(e, b) ==
    LET level == IF b = 0 THEN Flip(e.level) ELSE e.level
        ones  == IF b = 0 THEN 0 ELSE e.ones + 1
        line  == Append(e.line, level)
    IN  IF ones = MAXONESLENGTH
        THEN [level |-> Flip(level), ones |-> 0, line |-> Append(line, Flip(level))]
        ELSE [level |-> level, ones |-> ones, line |-> line]

nrziEnc(bits) ==
    LET enc[n \in 0..Len(bits)] ==
            IF n = 0 THEN EncStart ELSE EncodeBit(enc[n - 1], bits[n])
    IN  enc[Len(bits)].line \o EOP

-----------------------------------------------------------------------------
\* lastbit, onecnt, the bits decoded so far, eofactive; "status" tells whether the
\* method goes on with the next sample or has returned.
DecStart == [last |-> "J", ones |-> 0, bits |-> <<>>, se0 |-> 0, status |-> "more"]

\* Mutant of Wrong: whatever follows two SE0 ends the packet.
WrongBeforeSe0(d, l) == l = "SE1" \/ (d.se0 = 1 /\ l # "SE0")

\* SE1, an SE0 on its own, and two that no J follows.
Wrong(d, l) ==
    \/ l = "SE1"
    \/ d.se0 = 1 /\ l # "SE0"
    \/ d.se0 = 2 /\ l # "J"

\* A level within a packet.  The bit after six ones is dropped, whatever it is.
DecodeLevel(d, l) ==
    LET bit == IF l = d.last THEN 1 ELSE 0 IN
    [last |-> l,
     ones |-> IF bit = 1 THEN d.ones + 1 ELSE 0,
     bits |-> IF d.ones < MAXONESLENGTH THEN Append(d.bits, bit) ELSE d.bits,
     se0 |-> 0, status |-> "more"]

\* The end of packet, in progress or over, yields no bits.
DecodeEnd(d, se0, status) ==
    [last |-> d.last, ones |-> d.ones, bits |-> d.bits, se0 |-> se0, status |-> status]

DecodeSample(d, l) ==
    IF d.status # "more" THEN d
    ELSE IF Wrong(d, l)  THEN DecodeEnd(d, d.se0, "error")
    ELSE IF d.se0 = 2    THEN DecodeEnd(d, 2, "done")
    ELSE IF l = "SE0"    THEN DecodeEnd(d, d.se0 + 1, "more")
    ELSE DecodeLevel(d, l)

nrziDec(line) ==
    LET dec[n \in 0..Len(line)] ==
            IF n = 0 THEN DecStart ELSE DecodeSample(dec[n - 1], line[n])
    IN  dec[Len(line)]

=============================================================================
