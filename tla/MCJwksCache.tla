----------------------------- MODULE MCJwksCache -----------------------------
(***************************************************************************)
(* A small instance of JwksCache for TLC: the issuer adds key k2 to k1,    *)
(* publishes a document that cannot be parsed, and then k2 alone.          *)
(***************************************************************************)
EXTENDS JwksCache

CONSTANTS k1, k2

Rotation == <<{k1}, {k1, k2}, {}, {k2}>>
=============================================================================
