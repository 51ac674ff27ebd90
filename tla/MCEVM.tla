------------------------------- MODULE MCEVM -------------------------------
(***************************************************************************)
(* Small instances of EVM: one client account, two contract addresses that *)
(* CREATE keeps colliding on, and one precompile.                          *)
(***************************************************************************)
EXTENDS EVM

MCAddr == {"owner", "c0", "c1", "pre"}
MCEOAs == {"owner"}
MCPrecompiles == {"pre"}

\* Even nonces yield c0, odd ones c1: the owner's third creation collides with
\* the first, and a contract can collide with one of the owner's.
MCCreateAddress ==
  [p \in MCAddr \X (0..MaxNonce) |-> IF p[2] % 2 = 0 THEN "c0" ELSE "c1"]
=============================================================================
