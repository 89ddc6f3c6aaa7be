--------------------------- MODULE MCCheckWorkflow ---------------------------
(***************************************************************************)
(* Instances of CheckWorkflow for TLC: two commands of any kind, on a      *)
(* thread where the bot may have said its note, and pointed at it, before. *)
(***************************************************************************)
EXTENDS CheckWorkflow, TLC

CONSTANTS c1, c2, inst

MCStartLabels == {{"needs codechecker", "institution"}, {"work in progress", "metadata pending"}}

MCStartThreads(note) ==
  {<< >>} \cup (IF note = {} THEN {}
    ELSE {<<Entry("bot", "answered", note, FALSE), Entry("bot", "answered", note, TRUE)>>})

MCSymmetry == Permutations({c1, c2})
=============================================================================
