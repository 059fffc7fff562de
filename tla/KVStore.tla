------------------------------ MODULE KVStore ------------------------------
(***************************************************************************)
(* What the database library of apue/db.lock.fine promises the processes   *)
(* that share one database: a map from keys to data on which db_fetch(),   *)
(* db_store() and db_delete() act atomically, with the return values that  *)
(* their header comments give.  A process calls one function at a time.    *)
(* A call ends with its effect and its result in one step, or, when a      *)
(* pointer no longer fits its field, with the exit of the process.         *)
(***************************************************************************)
EXTENDS Integers

CONSTANTS
    Procs,      \* the processes that have the database open
    Keys,       \* keys
    Data,       \* data
    Requests,   \* the calls the processes may make
    NULL,       \* no data, no call, no result
    EXITED      \* in place of a call: the process is gone

VARIABLES
    kv,         \* kv[k]: the data stored under key k, NULL if there is none
    call,       \* call[p]: the function p is in, NULL if it is in none
    ret         \* ret[p]: the result of the last call of p that returned

kvVars == <<kv, call, ret>>

\* The two bits of db_store()'s flag argument.
DB_INSERT == 1
DB_REPLACE == 2

\* Every call that can be made.
Request ==
    [fn : {"fetch", "delete"}, key : Keys, data : {NULL}, flag : {{}}]
        \cup
    [fn : {"store"}, key : Keys, data : Data, flag : SUBSET {DB_INSERT, DB_REPLACE}]

\* A store is refused on a missing key with DB_REPLACE and on a present one
\* with DB_INSERT.
Refused(m, r) ==
    IF m[r.key] = NULL THEN DB_REPLACE \in r.flag ELSE DB_INSERT \in r.flag

\* The map after call r.
Effect(m, r) ==
    IF r.fn = "fetch" THEN m
    ELSE IF r.fn = "delete" THEN [m EXCEPT ![r.key] = NULL]
    ELSE IF Refused(m, r) THEN m
    ELSE [m EXCEPT ![r.key] = r.data]

\* The result of call r: the data or NULL for a fetch, an int for the others.
Reply(m, r) ==
    IF r.fn = "fetch" THEN m[r.key]
    ELSE IF r.fn = "delete" THEN IF m[r.key] = NULL THEN -1 ELSE 0
    ELSE IF ~Refused(m, r) THEN 0
    ELSE IF m[r.key] = NULL THEN -1 ELSE 1

Init ==
    /\ kv = [k \in Keys |-> NULL]
    /\ call = [p \in Procs |-> NULL]
    /\ ret = [p \in Procs |-> NULL]

Call(p) ==
    /\ call[p] = NULL
    /\ \E r \in Requests : call' = [call EXCEPT ![p] = r]
    /\ ret' = [ret EXCEPT ![p] = NULL]
    /\ UNCHANGED kv

Return(p) ==
    /\ call[p] \in Requests
    /\ kv' = Effect(kv, call[p])
    /\ ret' = [ret EXCEPT ![p] = Reply(kv, call[p])]
    /\ call' = [call EXCEPT ![p] = NULL]

\* err_quit() in a db_store(): the process is gone, the new data is not in the
\* map, and of the key it was storing the old data may be lost; no other key is
\* touched.
Quit(p) ==
    /\ call[p] \in Requests
    /\ call[p].fn = "store"
    /\ \/ UNCHANGED kv
       \/ kv' = [kv EXCEPT ![call[p].key] = NULL]
    /\ call' = [call EXCEPT ![p] = EXITED]
    /\ UNCHANGED ret

Next == \E p \in Procs : Call(p) \/ Return(p) \/ Quit(p)

Spec == Init /\ [][Next]_kvVars
=============================================================================
