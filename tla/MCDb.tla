------------------------------- MODULE MCDb --------------------------------
EXTENDS DbProps, TLC

CONSTANTS p1, p2, k1, k2, k3, d1, d2, e1

MCHash == k1 :> 1 @@ k2 :> 1 @@ k3 :> 2
MCKeyLen == k1 :> 1 @@ k2 :> 1 @@ k3 :> 1
MCDatLen == d1 :> 1 @@ d2 :> 1 @@ e1 :> 2

MCStore(k, d, f) == [fn |-> "store", key |-> k, data |-> d, flag |-> f]
MCFetch(k) == [fn |-> "fetch", key |-> k, data |-> NULL, flag |-> {}]
MCDelete(k) == [fn |-> "delete", key |-> k, data |-> NULL, flag |-> {}]

MCRequests ==
    {MCFetch(k1), MCFetch(k2), MCDelete(k1), MCDelete(k2),
     MCStore(k1, d1, {1}), MCStore(k1, e1, {}), MCStore(k1, d2, {2}),
     MCStore(k2, d2, {}), MCStore(k3, d1, {1})}
=============================================================================
