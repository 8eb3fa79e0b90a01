---------------------------- MODULE UsbLine_proofs ----------------------------
(***************************************************************************)
(* What UsbLine says of apiWaitForPkt, proved for every choice of the      *)
(* counts: the inductive invariant Inv, and the properties it gives.       *)
(***************************************************************************)
EXTENDS UsbLine, TLAPS

\* The branches of one sample: where each leads when the invariant holds before.
LEMMA ReturnKeeps ==
    ASSUME Inv, NEW status \in Statuses, Returns(status), suspended' \in BOOLEAN,
           NEW l \in Lines, Observe(l)
    PROVE  Inv'
<1> USE LineAssumption DEF Inv, TypeOK
<1>1. Booleans'
  BY Zenon DEF Booleans, Returns, Observe
<1>2. Numbers'
  BY DEF Numbers, Returns, Observe
<1>3. Counts'
  BY DEF Counts, Returns, Observe, Numbers
<1>4. Uncut'
  BY DEF Uncut, Returns, Observe, Numbers, Statuses
<1> QED BY <1>1, <1>2, <1>3, <1>4

LEMMA QuietKeeps ==
    ASSUME Inv, NEW l \in Lines, Observe(l),
           NEW looking \in BOOLEAN, NEW count \in Nat, Quiet(l, looking, count),
           ~looking => ~lookforreset /\ count = 0 /\ l # "SE0" /\ idle,
           looking => /\ isDevice /\ l = "SE0"
                      /\ \/ lookforreset /\ count = rstcount + 1
                         \/ ~lookforreset /\ idle /\ count = 2
    PROVE  Inv'
<1> USE LineAssumption DEF Inv, TypeOK
<1>1. Awake(l) \in BOOLEAN
  BY Zenon DEF Awake, Booleans
<1>2. CASE SuspendDue
  BY <1>2, ReturnKeeps DEF Quiet, Statuses
<1>3. CASE ~SuspendDue /\ TimeoutDue
  BY <1>1, <1>3, ReturnKeeps DEF Quiet, Statuses
<1>4. CASE ~SuspendDue /\ ~TimeoutDue
  <2>1. /\ ret' = "none" /\ lookforreset' = looking
        /\ idle' = IF looking THEN FALSE ELSE idle
        /\ rstcount' = count /\ idlecount' = idlecount + 1
        /\ UNCHANGED <<eop_count, bitcount>>
    BY Zenon, <1>4 DEF Quiet
  <2>2. Booleans'
    BY Zenon, <1>1, <1>4 DEF Quiet, Observe, Booleans
  <2>3. Numbers'
    BY <2>1 DEF Observe, Numbers
  <2>4. Counts'
    <3>1. CASE looking
      BY <1>4, <2>1, <3>1 DEF Observe, Counts, SuspendDue, Numbers
    <3>2. CASE ~looking
      BY <1>4, <2>1, <3>2 DEF Observe, Counts, SuspendDue, Numbers
    <3> QED BY <3>1, <3>2
  <2>5. Uncut'
    <3>1. CASE looking
      BY <2>1, <3>1 DEF Observe, Counts, Uncut, Numbers
    <3>2. CASE ~looking
      BY <2>1, <3>2 DEF Observe, Uncut
    <3> QED BY <3>1, <3>2
  <2> QED BY <2>2, <2>3, <2>4, <2>5
<1> QED BY <1>2, <1>3, <1>4

LEMMA BitKeeps ==
    ASSUME Inv, NEW l \in Lines, Bit(l), Observe(l)
    PROVE  Inv'
<1> USE LineAssumption DEF Inv, TypeOK
<1>1. Awake(l) \in BOOLEAN
  BY Zenon DEF Awake, Booleans
<1>2. CASE eop_count = 2
  BY <1>1, <1>2, ReturnKeeps DEF Bit, Statuses
<1>3. CASE eop_count # 2
  <2>1. Booleans'
    BY Zenon, <1>1, <1>3 DEF Bit, Observe, Booleans
  <2>2. Numbers'
    BY <1>3 DEF Bit, Observe, Numbers
  <2>3. Counts'
    BY <1>3 DEF Bit, Observe, Counts, Numbers
  <2>4. Uncut'
    BY <1>3 DEF Bit, Observe, Counts, Uncut, Numbers
  <2> QED BY <2>1, <2>2, <2>3, <2>4
<1> QED BY <1>2, <1>3

LEMMA SampleKeeps ==
    ASSUME Inv, NEW l \in Lines, Sample(l)
    PROVE  Inv'
<1> USE LineAssumption DEF Inv, TypeOK, Sample
<1>0. Awake(l) \in BOOLEAN /\ suspended \in BOOLEAN
  BY Zenon DEF Awake, Booleans
<1>1. CASE Disconnected(l)
  BY <1>0, <1>1, ReturnKeeps DEF Disconnected, Statuses
<1>2. CASE EndOfSe0(l)
  BY <1>0, <1>2, ReturnKeeps DEF EndOfSe0, Statuses
<1>3. CASE Se0(l)
  <2>1. l = "SE0" /\ rstcount \in Nat
    BY <1>3 DEF Se0, Numbers
  <2>2. CASE ~lookforreset /\ isDevice /\ idle /\ Quiet(l, TRUE, rstcount + 2)
    <3>1. rstcount + 2 = 2
      BY <2>2 DEF Counts
    <3> QED BY <2>1, <2>2, <3>1, QuietKeeps
  <2>3. CASE lookforreset /\ Quiet(l, TRUE, rstcount + 1)
    <3>1. isDevice /\ rstcount + 1 \in Nat
      BY <2>1, <2>3 DEF Counts
    <3> QED BY <2>1, <2>3, <3>1, QuietKeeps
  <2> QED BY Zenon, <1>3, <2>2, <2>3 DEF Se0
<1>4. CASE Idle(l)
  BY <1>4, QuietKeeps DEF Idle, Counts
<1>5. CASE Bit(l)
  BY <1>5, BitKeeps
<1> QED BY <1>1, <1>2, <1>3, <1>4, <1>5 DEF apiWaitForPkt

\* The counts that apiWaitForPkt keeps are those of the line, whatever the line does.
THEOREM Invariance == Spec => []Inv
<1>1. Init => Inv
  <2> SUFFICES ASSUME Init PROVE Inv
    OBVIOUS
  <2>1. Booleans
    BY Zenon DEF Init, Booleans
  <2>2. Numbers
    BY DEF Init, Numbers
  <2>3. Counts /\ Uncut
    BY LineAssumption DEF Init, Counts, Uncut
  <2> QED BY <2>1, <2>2, <2>3 DEF Inv, TypeOK
<1>2. Inv /\ [Next]_vars => Inv'
  <2> SUFFICES ASSUME Inv, [Next]_vars PROVE Inv'
    OBVIOUS
  <2>1. CASE Next
    BY <2>1, SampleKeeps DEF Next
  <2>2. CASE UNCHANGED vars
    BY <2>2 DEF Inv, TypeOK, Booleans, Numbers, Counts, Uncut, vars, locals
  <2> QED BY <2>1, <2>2
<1> QED BY <1>1, <1>2, PTL DEF Spec

-----------------------------------------------------------------------------
\* A sample that returns RESET is the end of an SE0 with a full count.
LEMMA ResetReturn ==
    ASSUME Inv, NEW l \in Lines, Sample(l), ret' = "RESET"
    PROVE  lookforreset /\ l # "SE0" /\ rstcount >= MINRSTCOUNT
<1> USE DEF Inv, TypeOK
<1>1. ~Disconnected(l)
  BY DEF Disconnected, Returns
<1>2. ~Se0(l) /\ ~Idle(l)
  BY DEF Se0, Idle, Quiet, Returns
<1>3. ~Bit(l)
  BY DEF Bit, Returns
<1>4. EndOfSe0(l)
  BY <1>1, <1>2, <1>3 DEF Sample, apiWaitForPkt
<1> QED BY <1>4 DEF EndOfSe0, Returns

\* No short SE0 is taken for a reset, for any reset time.
THEOREM ResetNeedsSe0 == Spec => ResetIsLong
<1>1. Inv /\ [Next]_vars => [ret' = "RESET" => run >= MINRSTCOUNT - 1]_vars
  <2> SUFFICES ASSUME Inv, Next, ret' = "RESET" PROVE run >= MINRSTCOUNT - 1
    BY DEF Next
  <2>1. PICK l \in Lines : Sample(l)
    BY DEF Next
  <2>2. lookforreset /\ rstcount >= MINRSTCOUNT
    BY <2>1, ResetReturn
  <2> QED BY <2>2, LineAssumption DEF Inv, TypeOK, Numbers, Counts
<1> QED BY <1>1, Invariance, PTL DEF Spec, ResetIsLong

\* An SE0 of the reset time is reported unless another status cut it in two.
THEOREM UncutReset == Spec => UncutResetReported
<1> DEFINE A == isDevice /\ run >= MINRSTCOUNT /\ ~cut /\ run' = 0 => ret' = "RESET"
<1>1. Inv /\ [Next]_vars => [A]_vars
  <2> SUFFICES ASSUME Inv, Next, isDevice, run >= MINRSTCOUNT, ~cut, run' = 0
               PROVE  ret' = "RESET"
    OBVIOUS
  <2>1. PICK l \in Lines : Sample(l)
    BY DEF Next
  <2>2. l # "SE0"
    BY <2>1 DEF Sample, Observe, Inv, TypeOK, Numbers
  <2>3. lookforreset /\ rstcount = run + 1
    BY LineAssumption DEF Inv, TypeOK, Numbers, Uncut
  <2>4. EndOfSe0(l)
    BY <2>1, <2>2, <2>3 DEF Sample, apiWaitForPkt, Disconnected, Se0, Idle, Bit
  <2> QED BY <2>3, <2>4, LineAssumption DEF EndOfSe0, Returns, Inv, TypeOK, Numbers
<1> QED BY <1>1, Invariance, PTL DEF Spec, UncutResetReported

\* With a suspension time below the reset time, as in the build without
\* USBTESTMODE, no reset is ever reported, however long the SE0 lasts.
THEOREM NoResetBehindSuspend == Spec => []ShortSuspendHidesReset
<1>1. Init => ShortSuspendHidesReset
  BY DEF Init, ShortSuspendHidesReset
<1>2. Inv /\ ShortSuspendHidesReset /\ [Next]_vars => ShortSuspendHidesReset'
  <2> SUFFICES ASSUME Inv, ShortSuspendHidesReset, [Next]_vars,
                      MINSUSPENDCOUNT < MINRSTCOUNT, ret' = "RESET"
               PROVE  FALSE
    BY DEF ShortSuspendHidesReset
  <2>1. CASE Next
    <3>1. PICK l \in Lines : Sample(l)
      BY <2>1 DEF Next
    <3>2. lookforreset /\ rstcount >= MINRSTCOUNT
      BY <3>1, ResetReturn
    <3> QED BY <3>2, LineAssumption DEF Inv, TypeOK, Numbers, Counts
  <2>2. CASE UNCHANGED vars
    BY <2>2 DEF vars, ShortSuspendHidesReset
  <2> QED BY <2>1, <2>2
<1> QED BY <1>1, <1>2, Invariance, PTL DEF Spec

\* A host that has seen three samples of SE0 is not inside a packet any more.
THEOREM HostNoticesLoss == Spec => []LossNoticed
<1>1. Inv /\ LossNoticed /\ [Next]_vars => LossNoticed'
  <2> SUFFICES ASSUME Inv, LossNoticed, [Next]_vars, ~isDevice', run' >= 4
               PROVE  ret' = "DISCONNECTED"
    BY DEF LossNoticed
  <2>1. CASE UNCHANGED vars
    BY <2>1 DEF vars, LossNoticed
  <2>2. CASE Next
    <3>1. PICK l \in Lines : Sample(l)
      BY <2>2 DEF Next
    <3>2. l = "SE0" /\ run >= 3 /\ ~isDevice
      BY <3>1 DEF Sample, Observe, Inv, TypeOK, Numbers
    <3>3. idle /\ ~lookforreset
      BY <3>2 DEF Inv, TypeOK, Numbers, Counts
    <3> QED BY <3>1, <3>2, <3>3
            DEF Sample, apiWaitForPkt, Disconnected, EndOfSe0, Se0, Idle, Bit, Returns
  <2> QED BY <2>1, <2>2
<1>2. Init => LossNoticed
  BY DEF Init, LossNoticed
<1> QED BY Invariance, <1>1, <1>2, PTL DEF Spec

=============================================================================
