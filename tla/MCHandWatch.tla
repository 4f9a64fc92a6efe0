------------------------------ MODULE MCHandWatch ------------------------------
EXTENDS HandWatch
=============================================================================
