----------------------------- MODULE MCMemoria ------------------------------
(* Small instances of Memoria for TLC.                                      *)
EXTENDS Memoria

\* What a stray write leaves in an entry: the state bit, and pid 0.
BasuraBinaria == {[estado |-> 0, pid |-> 0], [estado |-> 1, pid |-> 0]}
=============================================================================
