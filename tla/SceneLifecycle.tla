----------------------------- MODULE SceneLifecycle -----------------------------
(***************************************************************************)
(* What scene processing promises to its readers: a product is registered, *)
(* then served with the outputs it is served with for good.                *)
(***************************************************************************)
CONSTANTS Products, Unserved

VARIABLES registered, served   \* served: the outputs of each product, or Unserved

Init ==
    /\ registered = {}
    /\ served = [p \in Products |-> Unserved]

Register(p) ==
    /\ registered' = registered \cup {p}
    /\ UNCHANGED served

\* The outputs may be anything, but there is only one time to choose them.
Serve(p) ==
    /\ p \in registered
    /\ served[p] = Unserved
    /\ served' = [served EXCEPT ![p] = served'[p]]
    /\ UNCHANGED registered

Next == \E p \in Products : Register(p) \/ Serve(p)

Spec == Init /\ [][Next]_<<registered, served>>
=============================================================================
