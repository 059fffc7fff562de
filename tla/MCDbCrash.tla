----------------------------- MODULE MCDbCrash -----------------------------
EXTENDS MCDb, DbCrash

MCCrashRequests ==
    {MCDelete(k1), MCDelete(k2), MCStore(k1, d1, {}), MCStore(k1, e1, {}),
     MCStore(k2, d2, {}), MCStore(k3, d1, {})}
=============================================================================
