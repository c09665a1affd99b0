-------------------------- MODULE MCSessionConnect --------------------------
EXTENDS SessionConnect, TLC
CONSTANTS t1, t2, th1, th2
=============================================================================
