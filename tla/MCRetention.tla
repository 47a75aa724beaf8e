---------------------------- MODULE MCRetention -----------------------------
(* Small instances of Retention: two records, each with a clip or without.     *)
EXTENDS Retention
CONSTANTS clip1, clip2
MCId == {"r1", "r2"}
MCBlob == {clip1, clip2}
=============================================================================
