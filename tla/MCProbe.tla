------------------------------ MODULE MCProbe ------------------------------
(***************************************************************************)
(* A small instance of Probe; MCWorker has another one.                    *)
(***************************************************************************)
EXTENDS Probe

=============================================================================
