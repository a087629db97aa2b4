---------------------------- MODULE MCManifestWalk ----------------------------
(* ManifestWalk on small instances: the stamps the writes may carry. *)
EXTENDS ManifestWalk

\* A tombstone that names no generation and two that name one, and a write whose
\* generation a peer's had raised above its wall clock.
MCStamps == {<<1, 1, 0>>, <<3, 2, 1>>, <<3, 3, 2>>}
================================================================================
