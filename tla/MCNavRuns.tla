------------------------------- MODULE MCNavRuns -------------------------------
(***************************************************************************)
(* Two scenarios of the rows that a NAV run leaves half done.              *)
(*                                                                         *)
(* Runs: two runs of two processes for one date, over two assets, of which *)
(* both are held, or one in another quantity, or none (from one valuation  *)
(* to the next the plan creates, updates and deletes).                     *)
(*                                                                         *)
(* Repair: two rows of an older version, the second computed on a first    *)
(* that was since replaced, or on the first as it is, and one run of the   *)
(* same process beside their repair.                                       *)
(***************************************************************************)
EXTENDS NavRepair

MCTarget(v) ==
    CASE v = "both"   -> [k \in Keys |-> 1]
      [] v = "one"    -> [k \in Keys |-> IF k = "a" THEN 2 ELSE None]
      [] v = "other"  -> [k \in Keys |-> IF k = "a" THEN 1 ELSE None]
      [] v = "closed" -> [k \in Keys |-> None]

Legacy(id, value, base) ==
    [id |-> id, task |-> None, status |-> "legacy", value |-> value, base |-> base, repaired |-> FALSE]

MCHistories ==
    {<<None, None>>,
     <<Legacy(1, "one", None), Legacy(2, "one", [value |-> "other", base |-> None])>>,
     <<Legacy(1, "one", None), Legacy(2, "other", [value |-> "one", base |-> None])>>}

TwoRuns ==
    [runs |-> 2, procs |-> {"p", "q"}, dates |-> {1}, values |-> {"both", "one", "closed"},
     overwrites |-> {TRUE, FALSE}, faults |-> 2, deletes |-> 1, repairs |-> 0]

OneRepair ==
    [runs |-> 1, procs |-> {"p"}, dates |-> {1, 2}, values |-> {"one", "other"},
     overwrites |-> {TRUE}, faults |-> 2, deletes |-> 1, repairs |-> 1]

MCBudgets == {TwoRuns, OneRepair}

\* The repair has rows to work on, and only the repair.
MCInit == RepairInit /\ (left.repairs > 0 <=> nav # <<None, None>>)

MCSpec == MCInit /\ [][RepairNext]_allVars /\ RepairFairness

=============================================================================
