--------------------------- MODULE MCReservation ---------------------------
(***************************************************************************)
(* Instances of Reservation for TLC: four issues (one a pull request, one  *)
(* with an edited record), two commands, a year and the next.              *)
(***************************************************************************)
EXTENDS Reservation

CONSTANTS i1, i2, i3, i4, c1, c2

MCId(y, n) == [year |-> y, number |-> n]

\* A number already taken in the register, a free one, a far jump, and the
\* first number of a year that has not started.
MCArguments == {MCId(1, 1), MCId(1, 3), MCId(1, 6), MCId(2, 1)}

MCOldRows == {MCId(1, 1)}

MCTitle(own, others) == [own |-> own, others |-> others]
MCUntouched == [record |-> None, title |-> MCTitle(None, {}), labelled |-> FALSE]

\* Nothing given out yet; a number given by hand before the bot kept records,
\* with a range in the title; a number the bot reserved, and a title whose
\* label was never set.
MCStartChecks ==
  { [i \in Issues |-> MCUntouched],
    [i \in Issues |->
       IF i = i2 THEN [MCUntouched EXCEPT !.title = MCTitle(MCId(1, 3), {MCId(1, 4)}),
                                          !.labelled = TRUE]
       ELSE MCUntouched],
    [i \in Issues |->
       CASE i = i1 -> [record |-> MCId(1, 2), title |-> MCTitle(MCId(1, 2), {}), labelled |-> TRUE]
         [] i = i2 -> [MCUntouched EXCEPT !.title = MCTitle(MCId(1, 5), {})]
         [] OTHER -> MCUntouched] }

\* The starts are what the theorems about Reservation ask of them.
ASSUME MCReservationAssumption == StartsWhole
=============================================================================
