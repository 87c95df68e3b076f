------------------------------ MODULE MCHashes -----------------------------
(***************************************************************************)
(* Hash functions for TLC: they mix their input into the group.            *)
(***************************************************************************)
EXTENDS Group

(***************************************************************************)
(* A hash: never zero, as the true ones are but for negligible inputs.     *)
(***************************************************************************)
Mix(tag, s) ==
    LET h[n \in 0 .. Len(s)] ==
            IF n = 0 THEN tag ELSE (7 * h[n - 1] + s[n] * s[n] + 3 * s[n] + 1) % Order
    IN  IF h[Len(s)] = 0 THEN tag ELSE h[Len(s)]

MCNonceHash(seed) == Mix(2, <<seed[1], seed[2], seed[3][1]>> \o seed[3][2])

MCCoeffHash(seed, k) == Mix(3, <<k, seed[1], seed[2], seed[3][1]>> \o seed[3][2])

MCPadHash(e, R, P, ctx) == Mix(4, <<e, R, P, ctx[1], ctx[2][1]>> \o ctx[2][2])

MCSelfPadHash(s, R, ctx) == Mix(5, <<s, R, ctx[1], ctx[2][1]>> \o ctx[2][2])
=============================================================================
