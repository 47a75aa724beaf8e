---------------------------- MODULE MCAuditChain ----------------------------
(* A small instance of AuditChain: two units that hold the audit:append scope. *)
EXTENDS AuditChain
CONSTANTS p1, p2, b1, b2
Two == {p1, p2}
MCBody == {b1, b2}
=============================================================================
