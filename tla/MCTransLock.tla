---------------------------- MODULE MCTransLock ----------------------------
EXTENDS TransLock
=============================================================================
