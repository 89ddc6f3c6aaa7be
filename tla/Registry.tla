------------------------------ MODULE Registry ------------------------------
(***************************************************************************)
(* The registry of commands (internal/command/registry.go): who may run    *)
(* which, which commands a word begins, and what answering that costs.     *)
(* A command is its name; aliases and words are the parser's.              *)
(***************************************************************************)

StandingRoles == {"editor", "codechecker"}

EditorsCommands ==
  {"teams refresh", "assign", "remove", "record accept", "codecheckers suggest",
   "nudge", "check finish", "certificate next", "certificate set",
   "repository set", "venue set", "register", "announce", "follow"}

AnyonesCommands ==
  {"commands", "hello", "thanks", "goodbye", "version", "roles", "codecheckers",
   "include check", "check", "check ready", "check zenodo", "remind", "status",
   "rules", "certificate", "check register"}

Commands == EditorsCommands \cup AnyonesCommands \cup {"check start"}

\* Any one of the roles a command names is enough.
MayRun(command) ==
  CASE command \in EditorsCommands -> {"editor"}
    [] command = "check start"     -> {"editor", "assigned codechecker"}
    [] OTHER                       -> {"anyone"}

Permits(command, roles) == MayRun(command) \cap (roles \cup {"anyone"}) # {}

\* Deciding costs a read of the check's record.
NeedsCheckRoles(command) ==
  \E role \in MayRun(command) : role # "anyone" /\ role \notin StandingRoles

\* The commands a command's name begins; those of the lists are left out.
Family(command) ==
  CASE command = "check" ->
         {"check ready", "check zenodo", "check start", "check finish", "check register"}
    [] command = "certificate"  -> {"certificate next", "certificate set"}
    [] command = "codecheckers" -> {"codecheckers suggest"}
    [] OTHER                    -> {}

Children(command, roles) == {c \in Family(command) : Permits(c, roles)}

ChildrenNeedCheckRoles(command) == \E c \in Family(command) : NeedsCheckRoles(c)

\* The commands of one word, which a mistyped second word is compared with too;
\* those of the lists are left out here as well.
OneWordCommands ==
  {"commands", "hello", "thanks", "goodbye", "version", "assign", "remove", "roles",
   "codecheckers", "nudge", "remind", "check", "status", "rules", "announce", "follow",
   "certificate", "register"}

\* The commands whose subject is the state of the check: a label that no
\* longer describes it is noted under their answer.
AboutTheCheck ==
  {"assign", "remove", "roles", "codecheckers suggest", "check start", "status",
   "check finish", "check register", "register"}
=============================================================================
