--------------------------- MODULE ScheduleFires ---------------------------
(***************************************************************************)
(* What the scheduler promises about its fires, with no leases, wakes,     *)
(* retries or crashes: a logical fire (schedule, version, window) is       *)
(* admitted at most once, as a canonical task no other fire has, and is    *)
(* bound at most once, to that task.                                       *)
(***************************************************************************)
EXTENDS Naturals

CONSTANT Keys        \* the logical fires: (version, fire window)

VARIABLES
  admitted,          \* the canonical task admitted for a fire, 0 for none
  bound              \* the task the fire's row records, 0 for none

vars == <<admitted, bound>>

Init == admitted = [k \in Keys |-> 0] /\ bound = [k \in Keys |-> 0]

\* The id is any task id no fire has yet.
Admit(k) ==
  /\ admitted[k] = 0
  /\ admitted'[k] \in Nat \ {0}
  /\ \A j \in Keys : admitted[j] # admitted'[k]
  /\ admitted' = [admitted EXCEPT ![k] = admitted'[k]]
  /\ UNCHANGED bound

Bind(k) ==
  /\ admitted[k] # 0 /\ bound[k] = 0
  /\ bound' = [bound EXCEPT ![k] = admitted[k]]
  /\ UNCHANGED admitted

Next == \E k \in Keys : Admit(k) \/ Bind(k)

Spec == Init /\ [][Next]_vars
=============================================================================
