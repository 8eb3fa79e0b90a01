------------------------------- MODULE UsbLine -------------------------------
(***************************************************************************)
(* apiWaitForPkt, called again each time it returns, as the run loop of    *)
(* the device calls it.  A step is one tick of the bit clock: the line is  *)
(* sampled, and the call goes on or returns a status.  Nothing is assumed  *)
(* of the line.                                                            *)
(***************************************************************************)
EXTENDS Integers

CONSTANTS
    MINRSTCOUNT,        \* SE0 samples that make a reset
    MINSUSPENDCOUNT,    \* samples without a packet that make a suspension
    TIMEOUT,            \* the timeout argument, 0 for NOTIMEOUT
    MaxRun, MaxBits, MaxIdle    \* bounds: SE0 samples in a row, bits of a packet
                                \* before its first SE0, idle samples of one wait

ASSUME LineAssumption ==
    /\ MINRSTCOUNT \in Nat /\ MINRSTCOUNT > 2
    /\ MINSUSPENDCOUNT \in Nat \ {0}
    /\ TIMEOUT \in Nat
    /\ MaxRun \in Nat /\ MaxBits \in Nat /\ MaxIdle \in Nat

VARIABLES
    isDevice,   \* the argument: the caller is a device, or else a host
    idle, lookforreset, rstcount, idlecount, eop_count, bitcount,
    suspended,
    ret,    \* what the call returned at this sample, or "none"
    run,    \* SE0 samples in a row, up to this one (history)
    cut     \* a call has returned since that row began (history)

locals == <<idle, lookforreset, rstcount, idlecount, eop_count, bitcount>>
vars   == <<isDevice, locals, suspended, ret, run, cut>>

Lines    == {"J", "K", "SE0", "SE1"}
Statuses == {"PACKET", "RESET", "ERROR", "SUSPEND", "NORESPONSE", "DISCONNECTED"}

Init ==
    /\ isDevice \in BOOLEAN
    /\ idle = TRUE /\ lookforreset = FALSE
    /\ rstcount = 0 /\ idlecount = 0 /\ eop_count = 0 /\ bitcount = 0
    /\ suspended = FALSE
    /\ ret = "none" /\ run = 0 /\ cut = FALSE

-----------------------------------------------------------------------------
\* Mutant of Returns: the SE0 count is kept for the next call.
ReturnsKeepCount(status) ==
    /\ ret' = status
    /\ idle' = TRUE /\ lookforreset' = FALSE
    /\ idlecount' = 0 /\ eop_count' = 0 /\ bitcount' = 0
    /\ UNCHANGED rstcount

\* The call returns, and the next one begins with fresh locals.
Returns(status) ==
    /\ ret' = status
    /\ idle' = TRUE /\ lookforreset' = FALSE
    /\ rstcount' = 0 /\ idlecount' = 0 /\ eop_count' = 0 /\ bitcount' = 0

\* Anything but the idle level ends a suspension.
Awake(l) == IF l = "K" \/ (isDevice /\ l = "SE0") THEN FALSE ELSE suspended

Disconnected(l) ==
    /\ ~isDevice /\ idle /\ l = "SE0"
    /\ Returns("DISCONNECTED")
    /\ UNCHANGED suspended

\* The line leaves SE0: the count decides between a reset and an error.
EndOfSe0(l) ==
    /\ lookforreset /\ l # "SE0"
    /\ Returns(IF rstcount >= MINRSTCOUNT THEN "RESET" ELSE "ERROR")
    /\ suspended' = Awake(l)

\* A sample that belongs to no packet: the suspension and timeout counts.
SuspendDue == isDevice /\ idlecount + 1 >= MINSUSPENDCOUNT
TimeoutDue == TIMEOUT # 0 /\ idlecount + 1 >= TIMEOUT

Quiet(l, looking, count) ==
    \/ /\ SuspendDue
       /\ Returns("SUSPEND") /\ suspended' = TRUE
    \/ /\ ~SuspendDue /\ TimeoutDue
       /\ Returns("NORESPONSE") /\ suspended' = Awake(l)
    \/ /\ ~SuspendDue /\ ~TimeoutDue /\ idlecount < MaxIdle
       /\ ret' = "none" /\ suspended' = Awake(l)
       /\ idle' = IF looking THEN FALSE ELSE idle
       /\ lookforreset' = looking /\ rstcount' = count
       /\ idlecount' = idlecount + 1
       /\ UNCHANGED <<eop_count, bitcount>>

\* Mutant of Se0: the first sample of an SE0 is not counted.
Se0Late(l) ==
    /\ l = "SE0"
    /\ \/ ~lookforreset /\ isDevice /\ idle /\ Quiet(l, TRUE, rstcount)
       \/ lookforreset /\ Quiet(l, TRUE, rstcount + 1)

\* SE0 on an idle line may be a reset; its first sample is counted twice.
Se0(l) ==
    /\ l = "SE0"
    /\ \/ ~lookforreset /\ isDevice /\ idle /\ Quiet(l, TRUE, rstcount + 2)
       \/ lookforreset /\ Quiet(l, TRUE, rstcount + 1)

Idle(l) ==
    /\ ~lookforreset /\ idle /\ l \notin {"K", "SE0"}
    /\ Quiet(l, FALSE, rstcount)

\* Mutant of Bit: the end of a packet takes one sample more.
BitLate(l) ==
    /\ ~lookforreset /\ (~idle \/ l = "K")
    /\ bitcount < MaxBits \/ eop_count > 0 \/ l = "SE0"
    /\ suspended' = Awake(l)
    /\ \/ eop_count = 3 /\ Returns("PACKET")
       \/ /\ eop_count # 3
          /\ eop_count' = IF eop_count > 0 \/ l = "SE0" THEN eop_count + 1 ELSE 0
          /\ ret' = "none" /\ idle' = FALSE
          /\ idlecount' = 0 /\ bitcount' = bitcount + 1
          /\ UNCHANGED <<lookforreset, rstcount>>

\* Mutant of Bit: the end of a packet takes one sample less.
BitEarly(l) ==
    /\ ~lookforreset /\ (~idle \/ l = "K")
    /\ bitcount < MaxBits \/ eop_count > 0 \/ l = "SE0"
    /\ suspended' = Awake(l)
    /\ \/ eop_count = 1 /\ Returns("PACKET")
       \/ /\ eop_count # 1
          /\ eop_count' = IF eop_count > 0 \/ l = "SE0" THEN eop_count + 1 ELSE 0
          /\ ret' = "none" /\ idle' = FALSE
          /\ idlecount' = 0 /\ bitcount' = bitcount + 1
          /\ UNCHANGED <<lookforreset, rstcount>>

\* A bit of a packet.  The first SE0 of a packet and the two samples after it,
\* whatever they are, end it.
Bit(l) ==
    /\ ~lookforreset /\ (~idle \/ l = "K")
    /\ bitcount < MaxBits \/ eop_count > 0 \/ l = "SE0"
    /\ suspended' = Awake(l)
    /\ \/ eop_count = 2 /\ Returns("PACKET")
       \/ /\ eop_count # 2
          /\ eop_count' = IF eop_count > 0 \/ l = "SE0" THEN eop_count + 1 ELSE 0
          /\ ret' = "none" /\ idle' = FALSE
          /\ idlecount' = 0 /\ bitcount' = bitcount + 1
          /\ UNCHANGED <<lookforreset, rstcount>>

apiWaitForPkt(l) == Disconnected(l) \/ EndOfSe0(l) \/ Se0(l) \/ Idle(l) \/ Bit(l)

Observe(l) ==
    /\ l = "SE0" => run < MaxRun
    /\ run' = IF l = "SE0" THEN run + 1 ELSE 0
    /\ cut' = IF l # "SE0" THEN FALSE ELSE IF ret' # "none" THEN TRUE ELSE cut
    /\ UNCHANGED isDevice

Sample(l) == apiWaitForPkt(l) /\ Observe(l)

Next == \E l \in Lines : Sample(l)

Spec == Init /\ [][Next]_vars

-----------------------------------------------------------------------------
(***************************************************************************)
(* Properties.                                                             *)
(***************************************************************************)

\* Every variable holds values of its kind.
Booleans ==
    /\ isDevice \in BOOLEAN /\ idle \in BOOLEAN /\ lookforreset \in BOOLEAN
    /\ suspended \in BOOLEAN /\ cut \in BOOLEAN

Numbers ==
    /\ rstcount \in Nat /\ idlecount \in Nat /\ bitcount \in Nat /\ run \in Nat
    /\ eop_count \in 0..2
    /\ ret \in Statuses \union {"none"}

TypeOK == Booleans /\ Numbers

\* A reset is reported only when the line has been at SE0, without a break, for
\* the reset time less the one sample that is counted twice.
ResetIsLong == [][ret' = "RESET" => run >= MINRSTCOUNT - 1]_vars

\* An SE0 long enough for a reset, which no other status has cut in two, is
\* reported as a reset to the device as soon as it ends.
UncutResetReported ==
    [][isDevice /\ run >= MINRSTCOUNT /\ ~cut /\ run' = 0 => ret' = "RESET"]_vars

\* When the suspension time is the shorter one, as outside USBTESTMODE, no reset
\* is ever reported: the count of quiet samples runs through a reset as well.
ShortSuspendHidesReset == MINSUSPENDCOUNT < MINRSTCOUNT => ret # "RESET"

\* What the comment of apiWaitForPkt promises: SE0 for the reset time is flagged
\* as a reset.
ResetDetected ==
    [][isDevice /\ run >= MINRSTCOUNT /\ run' = 0 => ret' = "RESET"]_vars

\* A host whose device has left the line, so that it stays at SE0, is told so by
\* each call from the fourth sample on, whatever packet was cut short.
LossNoticed == ~isDevice /\ run >= 4 => ret = "DISCONNECTED"

\* The parts of the inductive invariant that relate the counts.
Counts ==
    /\ idle => ~lookforreset /\ eop_count = 0
    /\ eop_count = 1 => run > 0
    /\ ~lookforreset => rstcount = 0
    /\ lookforreset => /\ eop_count = 0 /\ run > 0
                       /\ rstcount <= run + 1
                       /\ rstcount <= idlecount + 1
    /\ isDevice => idlecount < MINSUSPENDCOUNT
    /\ ~isDevice => ~lookforreset /\ (~idle => run <= eop_count)

\* An uncut row of SE0 is counted whole: for a reset, or for the end of a packet.
Uncut ==
    isDevice /\ run > 0 /\ ~cut =>
       \/ lookforreset /\ rstcount = run + 1
       \/ ~lookforreset /\ ~idle /\ eop_count = run

Inv == TypeOK /\ Counts /\ Uncut

=============================================================================
