-------------------------------- MODULE MCShm --------------------------------
\* Model values for Shm: four clients, two runs of a server that receives two
\* messages, one client killed.
EXTENDS Shm
=============================================================================
