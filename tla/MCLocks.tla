------------------------------ MODULE MCLocks ------------------------------
EXTENDS Locks
=============================================================================
