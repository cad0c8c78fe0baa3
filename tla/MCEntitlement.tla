--------------------------- MODULE MCEntitlement ---------------------------
(* Entitlement with hellos of clocks that are right or off.                *)
EXTENDS Entitlement

\* Right now and then; so far ahead that Sub saturates, or that Unix wraps;
\* and the smallest int64.
MCStamps == {2, 4, 30, 100, -128}
=============================================================================
