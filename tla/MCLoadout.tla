----------------------------- MODULE MCLoadout -----------------------------
(* Loadout on a small instance: the items and the slots they fit. *)
EXTENDS Loadout

NoSlots == [i \in {} |-> {}]
Armed == {g \in Gear : g["weapon"] \in OneHanded /\ g["offhand"] \in Shields}
=============================================================================
