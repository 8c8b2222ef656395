----------------------------- MODULE MCPresence -----------------------------
(***************************************************************************)
(* Two networks: one with a friend alone, for direct contact and the locks, *)
(* and one with more strangers than the table holds, for its cap.          *)
(***************************************************************************)
EXTENDS Presence, TLC

CONSTANTS f, s1, s2, s3

Networks == {{f}, {s1, s2, s3}}

Strangers == Permutations({s2, s3})
=============================================================================
