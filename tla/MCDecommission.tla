--------------------------- MODULE MCDecommission ---------------------------
(* The two erasable domains of the code, and the two that are not. *)
EXTENDS Decommission
CONSTANTS data, spool, audit, volatile
AllDomains == {data, spool, audit, volatile}
ErasableDomains == {data, spool}
=============================================================================
