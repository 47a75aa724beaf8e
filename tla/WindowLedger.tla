---------------------------- MODULE WindowLedger ----------------------------
(***************************************************************************)
(* What the spool promises about counts, without bytes, priorities, rows   *)
(* or commits: a window is admitted once, is counted in one live record,   *)
(* may be folded into an older record, and leaves once.  The one weakness  *)
(* of the code the promise has to admit is Vanish: windows folded into a   *)
(* record whose second commit never happened are counted nowhere.          *)
(***************************************************************************)
EXTENDS Naturals

VARIABLES
  live,     \* live[r]: the windows record r counts
  issued,   \* windows admitted so far
  left      \* windows delivered, shed or given up

vars == <<live, issued, left>>

Records == DOMAIN live
In(S) == UNION {live[r] : r \in S}

Init == /\ live = [r \in {} |-> {}]
        /\ issued = 0
        /\ left = {}

Admit ==
  /\ issued' = issued + 1
  /\ live' = [r \in Records \cup {issued + 1} |-> IF r = issued + 1 THEN {r} ELSE live[r]]
  /\ UNCHANGED left

Fold(S, head) ==
  /\ head \in S /\ \A r \in S : head <= r
  /\ live' = [r \in (Records \ S) \cup {head} |-> IF r = head THEN In(S) ELSE live[r]]
  /\ UNCHANGED <<issued, left>>

Leave(S) ==
  /\ live' = [r \in Records \ S |-> live[r]]
  /\ left' = left \cup In(S)
  /\ UNCHANGED issued

Vanish(head, W) ==
  /\ head \notin W
  /\ live' = [live EXCEPT ![head] = @ \ W]
  /\ UNCHANGED <<issued, left>>

Next ==
  \/ Admit
  \/ \E S \in SUBSET Records : Leave(S) \/ \E head \in Records : Fold(S, head)
  \/ \E head \in Records : \E W \in SUBSET live[head] : Vanish(head, W)

Spec == Init /\ [][Next]_vars

=============================================================================
