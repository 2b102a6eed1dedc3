----------------------------- MODULE SnapshotSets -----------------------------
(***************************************************************************)
(* The exact set of a holdings snapshot slice (SnapshotExactSetPlan in     *)
(* domain/snapshot_contracts.py): what remains to be done so that the      *)
(* slice of one account and date, which was `before` when the plan was     *)
(* made, becomes `desired`, given what it is now.  A slice maps business   *)
(* keys to the content of their row, None where there is no row; the       *)
(* record id of a row is a part of its content.                            *)
(***************************************************************************)
CONSTANTS Keys, Contents, None

ASSUME NoneIsNoContent == None \notin Contents

Slice == [Keys -> Contents \cup {None}]

(* A slice that the plan did not lead to: a row that is neither as it was   *)
(* nor as it shall be, one that has gone though it shall stay, one that     *)
(* has come though the plan does not know its key, or an obsolete row that  *)
(* was changed.                                                             *)
Conflict(before, desired, current) ==
    \E k \in Keys :
        \/ current[k] \notin {before[k], desired[k]}
        \/ current[k] = None /\ before[k] # None /\ desired[k] # None

Creates(desired, current) == {k \in Keys : current[k] = None /\ desired[k] # None}

Updates(desired, current) ==
    {k \in Keys : current[k] # None /\ desired[k] # None /\ current[k] # desired[k]}

Deletes(desired, current) == {k \in Keys : current[k] # None /\ desired[k] = None}

(* apply_holding_snapshot_actions: the rows of one batch take their target. *)
Written(current, desired, keys) == [k \in Keys |-> IF k \in keys THEN desired[k] ELSE current[k]]

Exact(desired, current) == current = desired
=============================================================================
