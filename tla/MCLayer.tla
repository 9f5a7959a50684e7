------------------------------ MODULE MCLayer ------------------------------
(* Three nested layers: the smallest stack with a layer that is neither    *)
(* the outermost nor the innermost one.                                    *)
EXTENDS Layer
=============================================================================
