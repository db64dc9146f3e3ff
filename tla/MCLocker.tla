------------------------------ MODULE MCLocker ------------------------------
(* Locker with four calls on two names. *)
EXTENDS Locker
=============================================================================
