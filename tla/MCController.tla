---------------------------- MODULE MCController ----------------------------
(* A root controller with an application and a segment controller that has *)
(* an application of its own, and a machine of two states.                 *)
EXTENDS Controller, TLC

CONSTANTS root, seg, a1, a2, u1, u2

MCState == {"initial", "configured"}

MCTransition == {"conf", "scrap"}

MCSource == [t \in MCTransition |-> IF t = "conf" THEN {"initial"} ELSE {"configured"}]

MCDestination == [t \in MCTransition |-> IF t = "conf" THEN "configured" ELSE "initial"]

MCparent == (seg :> root) @@ (a1 :> root) @@ (a2 :> seg)

MCparentOne == (seg :> root) @@ (a2 :> seg)

(* Every shell is connected to the root, or one of the shells to the segment*)
MCEntryRoot == [u \in User |-> {root}]

MCEntryOpen == [u \in User |-> IF u = u1 THEN {root} ELSE {seg}]

MCIssuedAll == [u \in User |-> Command]

(* For the liveness run: both take over and drive. *)
MCIssuedFew == [u \in User |-> {"take_control", "execute_fsm_command"}]

MCSymmetry == Permutations(User)
=============================================================================
