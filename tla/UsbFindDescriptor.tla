--------------------------- MODULE UsbFindDescriptor ---------------------------
(***************************************************************************)
(* usbHostFindDescriptor: the search of the bytes that                     *)
(* usbHostGetConfigDescriptor has read for one descriptor among those      *)
(* packed in them.  A step is one pass of its loop.                        *)
(*                                                                         *)
(* A buffer is its bytes, raw, and what a device has packed into them:     *)
(* descs, the descriptors by the place, length, type and third byte of     *)
(* each, up to the byte end.  The call may be given a shorter length.      *)
(***************************************************************************)
EXTENDS Integers, Sequences

CONSTANTS
    Buffers,
    Wanted      \* <<desctype, descidx>> of the searches, descidx < 0 for any

NOT_VALID == -1

\* The bytes are those of the descriptors, one behind the other.  The three bytes
\* behind them are any: never written, or the first of whatever was there before.
Packed(b) ==
    LET n == Len(b.descs)
        Ends(i) == IF i = n THEN b.end ELSE b.descs[i + 1].at
    IN  /\ n > 0 /\ b.descs[1].at = 0
        /\ b.raw \in [0..b.end + 2 -> 0..255]
        /\ \A i \in 1..n :
              LET d == b.descs[i] IN
              /\ d.bLength > 2 /\ d.at + d.bLength = Ends(i)
              /\ b.raw[d.at] = d.bLength
              /\ b.raw[d.at + 1] = d.type /\ b.raw[d.at + 2] = d.third

Places == [at : Nat, bLength : Nat, type : 0..255, third : 0..255]

ASSUME FindAssumption ==
    /\ \A b \in Buffers : b.descs \in Seq(Places) /\ b.end \in Nat /\ Packed(b)
    /\ Wanted \subseteq Int \X Int

VARIABLES
    buf, len, want,     \* the arguments
    idx, error,
    descdata,           \* <<place, length>> of the bytes copied, or NoCopy
    pc                  \* "search" or "done"

vars == <<buf, len, want, idx, error, descdata, pc>>

NoCopy == <<0, 0>>

Init ==
    /\ buf \in Buffers /\ len \in 0..buf.end /\ want \in Wanted
    /\ idx = 0 /\ error = "OK" /\ descdata = NoCopy /\ pc = "search"

-----------------------------------------------------------------------------
bLength         == buf.raw[idx]
bDescriptorType == buf.raw[idx + 1]
descIndex       == buf.raw[idx + 2]

\* Mutant of Matches: the index is not looked at.
MatchesAnyIndex == bDescriptorType = want[1]

Matches == bDescriptorType = want[1] /\ (want[2] < 0 \/ want[2] = descIndex)

Args == <<buf, len, want>>

\* Mutant of Found: the descriptor must end before the last byte.
FoundShort ==
    /\ pc = "search" /\ Matches /\ pc' = "done"
    /\ \/ idx + bLength < len /\ descdata' = <<idx, bLength>> /\ UNCHANGED error
       \/ idx + bLength >= len /\ error' = "ERROR" /\ UNCHANGED descdata
    /\ UNCHANGED <<Args, idx>>

Found ==
    /\ pc = "search" /\ Matches /\ pc' = "done"
    /\ \/ idx + bLength <= len /\ descdata' = <<idx, bLength>> /\ UNCHANGED error
       \/ idx + bLength > len /\ error' = "ERROR" /\ UNCHANGED descdata
    /\ UNCHANGED <<Args, idx>>

\* With nothing behind the descriptors the length read there is 0, and idx stays.
Skip ==
    /\ pc = "search" /\ ~Matches /\ idx + bLength <= len
    /\ idx' = idx + bLength
    /\ UNCHANGED <<Args, error, descdata, pc>>

\* The loop goes on, at the same descriptor.
Overrun ==
    /\ pc = "search" /\ ~Matches /\ idx + bLength > len
    /\ error' = "ERROR"
    /\ UNCHANGED <<Args, idx, descdata, pc>>

Next == Found \/ Skip \/ Overrun

\* The loop runs in the caller's thread without a wait.
Spec == Init /\ [][Next]_vars /\ WF_vars(Next)

-----------------------------------------------------------------------------
(***************************************************************************)
(* Properties.                                                             *)
(***************************************************************************)

\* The first descriptor of the kind that is wanted, in the order of the descriptors.
Fits(d) == d.type = want[1] /\ (want[2] < 0 \/ d.third = want[2])

First(i) ==
    /\ i \in 1..Len(buf.descs) /\ Fits(buf.descs[i])
    /\ \A j \in 1..i - 1 : ~Fits(buf.descs[j])

Ending(i) == buf.descs[i].at + buf.descs[i].bLength

\* None of them is wanted, but the byte behind them is 0 and the one behind that
\* reads as the wanted type: a descriptor of no bytes, all of which are copied.
EmptyMatch ==
    /\ \A i \in 1..Len(buf.descs) : ~Fits(buf.descs[i])
    /\ len = buf.end /\ buf.raw[buf.end] = 0 /\ buf.raw[buf.end + 1] = want[1]
    /\ descdata = <<buf.end, 0>>

\* A search that reports success has copied the first descriptor of that kind, all
\* of it, and it was within len: nothing else, and not a piece of another one.  If
\* there is none, it has copied nothing, and that only where the bytes behind the
\* descriptors read as an empty one of that kind.
FindsFirst ==
    pc = "done" /\ error = "OK" =>
        \/ \E i \in 1..Len(buf.descs) :
              /\ First(i) /\ Ending(i) <= len
              /\ descdata = <<buf.descs[i].at, buf.descs[i].bLength>>
        \/ EmptyMatch

\* A descriptor that is there is found; one that len cuts off is refused.
There == \E i \in 1..Len(buf.descs) : First(i) /\ Ending(i) <= len
Cut   == \E i \in 1..Len(buf.descs) : First(i) /\ buf.descs[i].at <= len /\ len < Ending(i)

FoundIfThere ==
    /\ There ~> (pc = "done" /\ error = "OK")
    /\ Cut ~> (pc = "done" /\ error = "ERROR")

\* What the comment of the method says: it returns USBERROR or else USBOK.
SearchReturns == <>(pc = "done")

\* The search stands at the start of a descriptor, or behind the last one, and has
\* left none behind that is wanted.
AtDescriptor ==
    LET n == Len(buf.descs) IN
    /\ buf \in Buffers /\ want \in Wanted /\ len \in Nat /\ len <= buf.end
    /\ pc = "search" =>
          \/ \E i \in 1..n : idx = buf.descs[i].at /\ \A j \in 1..i - 1 : ~Fits(buf.descs[j])
          \/ idx = buf.end /\ \A j \in 1..n : ~Fits(buf.descs[j])

=============================================================================
