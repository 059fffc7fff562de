----------------------------- MODULE MCDbOpen ------------------------------
EXTENDS MCDb, DbOpen

MCOpenRequests ==
    {MCFetch(k1), MCDelete(k1), MCStore(k1, e1, {}), MCStore(k2, d2, {})}

MCOpenFlags == {{}, {"O_CREAT"}, {"O_CREAT", "O_TRUNC"}}
=============================================================================
