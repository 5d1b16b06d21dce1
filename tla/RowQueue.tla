------------------------------- MODULE RowQueue -------------------------------
(***************************************************************************)
(* What the log table promises as a work queue: the life of a row as       *)
(* `logs.enrich_status` shows it to every other reader of the table        *)
(* (docs/superpowers/specs/2026-09-14-phase2-enrichment-design.md, section *)
(* 1, and migrations/0011).  A row is taken once, settled together with    *)
(* the rest of its batch, and comes back only because the process was      *)
(* restarted or because a new quota window reopened all deferred rows.     *)
(***************************************************************************)
CONSTANT Rows
VARIABLE status

Status == {"absent", "pending", "claimed", "done", "deferred"}

RowsIn(s) == {r \in Rows : status[r] = s}
Move(S, to) == [r \in Rows |-> IF r \in S THEN to ELSE status[r]]

Init == status = [r \in Rows |-> "absent"]

Add(S) ==
  /\ S \subseteq RowsIn("absent")
  /\ status' = Move(S, "pending")

Take(S) ==
  /\ S \subseteq RowsIn("pending")
  /\ status' = Move(S, "claimed")

Settle(S, later) ==
  /\ S \subseteq RowsIn("claimed")
  /\ later \subseteq S
  /\ status' = [r \in Rows |-> IF r \in later THEN "deferred"
                               ELSE IF r \in S THEN "done" ELSE status[r]]

Release == status' = Move(RowsIn("claimed"), "pending")

Reopen == status' = Move(RowsIn("deferred"), "pending")

Next ==
  \/ \E S \in SUBSET Rows : Add(S) \/ Take(S)
  \/ \E S \in SUBSET Rows : \E later \in SUBSET S : Settle(S, later)
  \/ Release
  \/ Reopen

Spec == Init /\ [][Next]_status
=============================================================================
