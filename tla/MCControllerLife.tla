------------------------- MODULE MCControllerLife -------------------------
(* Three controllers in a line, an application beside the lowest, and one  *)
(* that is disabled under the root.  Units of 12 s: 60 s are 5 units, a    *)
(* last call to resolve 3, the 20 calls to describe 8.                     *)
EXTENDS ControllerLife

CONSTANTS root, mid, low, app, off

MCParent == [c \in {mid, low, app, off} |->
              CASE c \in {mid, off} -> root [] c \in {low, app} -> mid]
=============================================================================
