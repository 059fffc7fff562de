------------------------------ MODULE MCDbScan ------------------------------
EXTENDS MCDb, DbScan

\* Requests that delete, reuse and replace around a scan.
MCScanRequests ==
    {MCFetch(k1), MCDelete(k1), MCStore(k1, d1, {1}), MCStore(k1, e1, {2}),
     MCStore(k1, d2, {2}), MCStore(k2, d2, {}), MCStore(k3, d1, {1})}
=============================================================================
