------------------------------ MODULE Delivery ------------------------------
(***************************************************************************)
(* What the outbox promises the services that listen to the stream, with   *)
(* neither leases nor retries: an event is committed with the change it    *)
(* reports, put in the stream some time later, and settled only when it is *)
(* there.  Deleting an account withdraws its events; a worker that already *)
(* holds a withdrawn event may still put it in the stream.  Module Outbox  *)
(* implements this one.                                                    *)
(***************************************************************************)
CONSTANT Events

VARIABLES
    phase,   \* what the service owes for an event
    stream   \* the events the stream has ever stored

vars == <<phase, stream>>

Phases == {"absent", "pending", "settled", "withdrawn"}

Init ==
    /\ phase = [e \in Events |-> "absent"]
    /\ stream = {}

Commit(e) ==
    /\ phase[e] = "absent"
    /\ e \notin stream
    /\ phase' = [phase EXCEPT ![e] = "pending"]
    /\ UNCHANGED stream

\* At least once: a second time changes nothing here.
Deliver(e) ==
    /\ phase[e] # "absent"
    /\ stream' = stream \cup {e}
    /\ UNCHANGED phase

Settle(e) ==
    /\ phase[e] = "pending"
    /\ e \in stream
    /\ phase' = [phase EXCEPT ![e] = "settled"]
    /\ UNCHANGED stream

\* The account is deleted; the event is forgotten at once unless it is held.
Withdraw(e) ==
    /\ phase[e] \in {"pending", "settled"}
    /\ \E p \in {"withdrawn", "absent"} : phase' = [phase EXCEPT ![e] = p]
    /\ UNCHANGED stream

Forget(e) ==
    /\ phase[e] = "withdrawn"
    /\ phase' = [phase EXCEPT ![e] = "absent"]
    /\ UNCHANGED stream

Next ==
    \E e \in Events : Commit(e) \/ Deliver(e) \/ Settle(e) \/ Withdraw(e) \/ Forget(e)

Spec == Init /\ [][Next]_vars
=============================================================================
