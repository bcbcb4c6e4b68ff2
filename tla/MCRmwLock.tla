------------------------------ MODULE MCRmwLock ------------------------------
(* Instances of RmwLock for TLC.                                            *)
EXTENDS RmwLock, TLC
=============================================================================
