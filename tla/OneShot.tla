------------------------------ MODULE OneShot ------------------------------
(***************************************************************************)
(* What a conversion of leads and a rotation of tokens promise, whatever   *)
(* runs beside them: a source is bound to a target at most once, no two    *)
(* sources share a target, and a binding is never changed or taken back.   *)
(***************************************************************************)
CONSTANTS Sources, Targets, Unbound

VARIABLE bound

Init == bound = [s \in Sources |-> Unbound]

Bind(s, t) ==
  /\ bound[s] = Unbound
  /\ \A other \in Sources : bound[other] # t
  /\ bound' = [bound EXCEPT ![s] = t]

Next == \E s \in Sources, t \in Targets : Bind(s, t)

Spec == Init /\ [][Next]_bound
=============================================================================
