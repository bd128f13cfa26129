----------------------------- MODULE MCShells -----------------------------
(* A unified shell with a process manager of its own and a controller      *)
(* shell, over two root controllers.                                       *)
EXTENDS Shells

CONSTANTS own, direct
=============================================================================
