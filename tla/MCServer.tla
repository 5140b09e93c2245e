------------------------------ MODULE MCServer ------------------------------
(* Server on a small instance: one user, who creates meetings and takes    *)
(* part in them, two creations at a time and two codes.                    *)
EXTENDS Server, TLC
=============================================================================
