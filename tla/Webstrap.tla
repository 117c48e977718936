------------------------------ MODULE Webstrap ------------------------------
(* What the modules of the web server (src/runtime/webstrap) share.            *)
EXTENDS Naturals, FiniteSets, Sequences, FiniteSetsExt, Functions

CONSTANT Windows     \* the browser windows: one WebSocket each

Without(f, x) == Restrict(f, DOMAIN f \ {x})
With(f, x, v) == [y \in DOMAIN f \cup {x} |-> IF y = x THEN v ELSE f[y]]
=============================================================================
