------------------------------ MODULE Lagrange -----------------------------
(***************************************************************************)
(* Lagrange interpolation at zero, src/crypto/lagrange.rs.  Identifiers    *)
(* are evaluation points, the code's id + 1.                               *)
(***************************************************************************)
EXTENDS Group

(***************************************************************************)
(* The order of secp256k1 is a prime.                                      *)
(***************************************************************************)
ASSUME OrderPrime == \A d \in 2 .. (Order - 1) : Order % d # 0

(***************************************************************************)
(* The product of the values of f, over a set of naturals.                 *)
(***************************************************************************)
ProdMod(f) ==
    MapThenFoldSet(LAMBDA x, acc : (acc * x) % Order, 1, LAMBDA j : f[j], Max, DOMAIN f)

(***************************************************************************)
(* The inverse of x, which is not zero.  With Order = q * x + r it is -q   *)
(* times the inverse of r.                                                 *)
(***************************************************************************)
ModInverse(x) ==
    LET inverse[r \in 1 .. (Order - 1)] ==
            IF r = 1 THEN 1 ELSE Times(Order - Order \div r, inverse[Order % r])
    IN  inverse[x]

LagrangeInternal(ids, i) ==
    LET others == Range(ids) \ {i}
        num    == ProdMod([j \in others |-> j])
        deno   == ProdMod([j \in others |-> (j - i) % Order])
    IN  (num * ModInverse(deno)) % Order

(***************************************************************************)
(* The coefficient of i among the distinct ids of a signing subset.        *)
(***************************************************************************)
LagrangeCoefficient(ids, i) ==
    IF i \notin Range(ids) \/ ~IsInjective(ids)
    THEN Err(Error("Value"))
    ELSE Ok(LagrangeInternal(ids, i))

InterpolatePubkey(ids, pubshares) ==
    LET Q == SumMod([k \in DOMAIN ids |->
                        (pubshares[k] * LagrangeInternal(ids, ids[k])) % Order])
    IN  IF \/ Len(ids) # Len(pubshares)
           \/ ~IsInjective(ids)
           \/ Q = Identity
        THEN Err(Error("Value"))
        ELSE Ok(Q)
=============================================================================
