--------------------------- MODULE MCCheckRecord ---------------------------
(***************************************************************************)
(* Instances of CheckRecord for TLC: one issue, three people, and the      *)
(* operations that can get in one another's way.                           *)
(***************************************************************************)
EXTENDS CheckRecord

CONSTANTS c1, c2, c3, d1, d2, ann, bob, eve, id1

MCOperations ==
  { [kind |-> "assign", role |-> "assigned codechecker", who |-> ann],
    [kind |-> "assign", role |-> "author", who |-> ann],
    [kind |-> "assign", role |-> "handling editor", who |-> bob],
    [kind |-> "remove", role |-> "assigned codechecker", who |-> bob],
    [kind |-> "certificate", id |-> id1],
    [kind |-> "accept", who |-> eve] }

\* Two editors naming two codecheckers.
MCAssignments ==
  { [kind |-> "assign", role |-> "assigned codechecker", who |-> ann],
    [kind |-> "assign", role |-> "assigned codechecker", who |-> bob],
    [kind |-> "remove", role |-> "assigned codechecker", who |-> bob],
    [kind |-> "certificate", id |-> id1] }

MCBobChecks == [EmptyRecord EXCEPT !.assignedCodechecker = bob]

MCStartRecords == {EmptyRecord, MCBobChecks}

\* Somebody names ann the author as well as the codechecker.
MCHandEdits == { [EmptyRecord EXCEPT !.assignedCodechecker = ann, !.authors = {ann}] }

MCOneDeployment == [c \in Commands |-> d1]

MCTwoDeployments == [c \in Commands |-> IF c = c1 THEN d1 ELSE d2]
=============================================================================
