------------------------------ MODULE MCCalld ------------------------------
\* Model values for Calld: three clients and two devices.  One client calls "ab", a
\* system with a line on each device, one calls "b", which has a line on the second
\* device and one that names no device, and one a system that has no line.
EXTENDS Calld, TLC

CONSTANTS da, db, none

MCSystems == ("" :> <<>>) @@ ("ab" :> <<da, db>>) @@ ("b" :> <<db, none>>)
MCWanted == <<"ab", "b", "">>

\* What malloc() gives: zeros, or an entry that looks as if a child had failed, with a
\* pid that a child will have.
MCClear == {[pid |-> 0, childdone |-> 0, sysftell |-> 0, sysname |-> ""]}
MCGarbage == {[pid |-> 3, childdone |-> 2, sysftell |-> 1, sysname |-> ""]}
=============================================================================
