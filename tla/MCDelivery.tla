----------------------------- MODULE MCDelivery -----------------------------
(* Small instances of Delivery: windows of one metric, of a busy and of a      *)
(* quiet hour; a bundle whose floor lets out the busy ones, its successor that *)
(* lets out both, and one with a bad signature.                                *)
EXTENDS Delivery
CONSTANTS busy, quiet

First1  == [version |-> 1, allows |-> {busy}, valid |-> TRUE]
Second2 == [version |-> 2, allows |-> {busy, quiet}, valid |-> TRUE]
Forged2 == [version |-> 2, allows |-> {}, valid |-> FALSE]

MCBundles  == {First1, Second2, Forged2}
OneBundle  == {First1, Forged2}
TwoKinds   == {busy, quiet}
OneKind    == {busy}
Footfall   == [k \in Kinds |-> "footfall"]
=============================================================================
