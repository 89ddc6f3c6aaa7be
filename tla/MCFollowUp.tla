----------------------------- MODULE MCFollowUp -----------------------------
(***************************************************************************)
(* Instances of FollowUp for TLC: a check with one or two kinds of         *)
(* follow-up, and the intervals scaled down to a few days.                 *)
(***************************************************************************)
EXTENDS FollowUp

CONSTANTS newcomer, other

MCScenes == {{"organisation"}, {"archive"}, {"reminder", newcomer, other}}

MCOrganisation == {{"organisation"}}
=============================================================================
