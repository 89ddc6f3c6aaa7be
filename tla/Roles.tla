------------------------------- MODULE Roles -------------------------------
(***************************************************************************)
(* The record of one check (internal/people/record.go) and the rules of    *)
(* its per-check roles (internal/command/roles.go), as plain operators.    *)
(*                                                                         *)
(* A record names one handling editor, one assigned codechecker and any    *)
(* number of authors, and carries the certificate identifier reserved for  *)
(* the check.  Its Repository, Type and Venue fields are set exactly as    *)
(* the identifier is, one field by one command, and are left out.          *)
(***************************************************************************)
CONSTANTS
  People,       \* GitHub handles, already normalised
  Nobody,       \* a role nobody holds: the empty handle
  Identifiers,  \* certificate identifiers
  NoIdentifier  \* no identifier reserved yet

ASSUME RolesAssumption ==
  /\ Nobody \notin People
  /\ NoIdentifier \notin Identifiers

\* The roles a check gives out, of the table of grantable roles.
CheckRoles == {"handling editor", "assigned codechecker", "author"}

Record == [handlingEditor      : People \cup {Nobody},
           assignedCodechecker : People \cup {Nobody},
           authors             : SUBSET People,
           certificate         : Identifiers \cup {NoIdentifier}]

\* A check with no record yet: nobody has been assigned to it.
EmptyRecord == [handlingEditor |-> Nobody, assignedCodechecker |-> Nobody,
                authors |-> {}, certificate |-> NoIdentifier]

RolesOf(record, who) ==
     (IF record.handlingEditor = who THEN {"handling editor"} ELSE {})
  \cup (IF record.assignedCodechecker = who THEN {"assigned codechecker"} ELSE {})
  \cup (IF who \in record.authors THEN {"author"} ELSE {})

\* Pairs of roles one person may not hold on one check.  Handling editor with
\* assigned codechecker is allowed on purpose.
Conflicts == {{"assigned codechecker", "author"}, {"handling editor", "author"}}

Conflict(held, role) == \E other \in held : {other, role} \in Conflicts

ConflictFree(record) ==
  \A who \in People : \A role \in RolesOf(record, who) :
     ~ Conflict(RolesOf(record, who), role)

\* Giving a role: the two single roles replace their holder.
Grant(record, role, who) ==
  CASE role = "handling editor"      -> [record EXCEPT !.handlingEditor = who]
    [] role = "assigned codechecker" -> [record EXCEPT !.assignedCodechecker = who]
    [] role = "author"               -> [record EXCEPT !.authors = @ \cup {who}]

\* Taking a role away from somebody who holds it; anything else is no change.
Revoke(record, role, who) ==
  CASE role = "handling editor" /\ record.handlingEditor = who
         -> [record EXCEPT !.handlingEditor = Nobody]
    [] role = "assigned codechecker" /\ record.assignedCodechecker = who
         -> [record EXCEPT !.assignedCodechecker = Nobody]
    [] role = "author" -> [record EXCEPT !.authors = @ \ {who}]
    [] OTHER -> record

-----------------------------------------------------------------------------
(* What the commands that write the record ask for.                         *)

Operation ==
       [kind : {"assign", "remove"}, role : CheckRoles, who : People]
  \cup [kind : {"certificate"}, id : Identifiers]
  \cup [kind : {"accept"}, who : People]

\* The record with the operation done.  `record accept` changes no role: it
\* signs what is there.
Applied(operation, record) ==
  CASE operation.kind = "assign"      -> Grant(record, operation.role, operation.who)
    [] operation.kind = "remove"      -> Revoke(record, operation.role, operation.who)
    [] operation.kind = "certificate" -> [record EXCEPT !.certificate = operation.id]
    [] OTHER                          -> record

\* A conflict of interest refuses an assignment, before anything is written.
Conflicting(operation, record) ==
  /\ operation.kind = "assign"
  /\ Conflict(RolesOf(record, operation.who), operation.role)

\* The role whose holder GitHub shows as the issue's assignee.
IsAboutAssignee(operation) ==
  /\ operation.kind \in {"assign", "remove"}
  /\ operation.role = "assigned codechecker"
=============================================================================
