---------------------------- MODULE MCRestChild ----------------------------
(* A controller with two applications and a machine of two states. *)
EXTENDS RestChild, TLC

CONSTANTS s0, s1, conf, start, scrap

MCSource == conf :> {s0} @@ start :> {s1} @@ scrap :> {s1}

MCDestination == conf :> s1 @@ start :> Stay @@ scrap :> s0
=============================================================================
