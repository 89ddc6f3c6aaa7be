---------------------------- MODULE MCRegisterRow ----------------------------
(***************************************************************************)
(* Instances of RegisterRow for TLC: two commands that may propose         *)
(* different rows, and one or two rows of other certificates.              *)
(***************************************************************************)
EXTENDS RegisterRow

CONSTANTS c1, c2, r1, r2, o1, o2

MCProposed(n, r, log) ==
  [base |-> n, file |-> log[n] \cup {r}, head |-> "bot", by |-> None,
   edited |-> FALSE, merged |-> FALSE]

MCNothing == [main |-> <<{}>>, branch |-> None, pulls |-> << >>]

\* A pull request opened before the default branch moved on.
MCOutdated ==
  [main |-> <<{}, {o1}>>, branch |-> MCProposed(1, r1, <<{}>>),
   pulls |-> <<[open |-> TRUE, text |-> r1]>>]

MCStartStates == {MCNothing, MCOutdated}

\* The starts are what the theorems about RegisterRow ask of them.
ASSUME MCRegisterRowAssumption == StartsInOrder
=============================================================================
