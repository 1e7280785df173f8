------------------------------- MODULE MCCred -------------------------------
(* Constants of Cred for model checking: root and three users.             *)
EXTENDS Cred
MCUids == 0..3
=============================================================================
