------------------------------ MODULE UsbService ------------------------------
(***************************************************************************)
(* What a control transfer promises to user code: a request is acted on at *)
(* most once, only while the call that asked for it is in progress, and    *)
(* the call reports success only if it was.                                *)
(***************************************************************************)
EXTENDS Sequences

CONSTANTS Request, None

VARIABLES
    pending,    \* the request of the call in progress, or None
    served,     \* the requests acted on, in order
    done,       \* the pending request is among them
    ok          \* the last control call reported success

vars == <<pending, served, done, ok>>

Init == pending = None /\ served = <<>> /\ done = FALSE /\ ok = FALSE

Ask == /\ pending = None
       /\ pending' \in Request
       /\ done' = FALSE /\ ok' = FALSE
       /\ UNCHANGED served

Serve == /\ pending # None /\ ~done
         /\ served' = Append(served, pending) /\ done' = TRUE
         /\ UNCHANGED <<pending, ok>>

Answer == /\ pending # None
          /\ pending' = None /\ done' = FALSE
          /\ ok' \in {FALSE, done}
          /\ UNCHANGED served

\* A call of another kind makes the status of the last one history.
Other == pending = None /\ ok' = FALSE /\ UNCHANGED <<pending, served, done>>

Next == Ask \/ Serve \/ Answer \/ Other

Spec == Init /\ [][Next]_vars

=============================================================================
