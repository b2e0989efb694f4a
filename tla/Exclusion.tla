------------------------------ MODULE Exclusion ------------------------------
(***************************************************************************)
(* What every lock of gfetch promises its callers, whatever it is made of: *)
(* an actor is inside at most one resource at a time and a resource has at *)
(* most one actor inside.  KeyedLock, DirLock and the daemon's sync guard  *)
(* are shown to implement this module.                                     *)
(***************************************************************************)

CONSTANTS Actors,     \* goroutines, or whole processes
          Resources,  \* lock keys, directories or repository names
          Nowhere     \* the value of inside for an actor outside every resource

VARIABLE inside       \* inside[a]: the resource a is working on

Init == inside = [a \in Actors |-> Nowhere]

Enter(a, r) ==
    /\ inside[a] = Nowhere
    /\ \A b \in Actors : inside[b] # r
    /\ inside' = [inside EXCEPT ![a] = r]

Leave(a) ==
    /\ inside[a] # Nowhere
    /\ inside' = [inside EXCEPT ![a] = Nowhere]

Next == \E a \in Actors : Leave(a) \/ \E r \in Resources : Enter(a, r)

Spec == Init /\ [][Next]_inside
=============================================================================
