----------------------------- MODULE Membership -----------------------------
(***************************************************************************)
(* Who may hold a role on a check, and which team they belong in           *)
(* (internal/bot/team.go, bot.go assign, organisation.go finish, over      *)
(* internal/github/team.go).  Somebody outside the organisation is not     *)
(* given a role: the owners are asked to invite them, and the ask carries  *)
(* the team promised, which the nightly sweep reads when it finishes the   *)
(* job.  Somebody inside is put in the team by a PUT of a plain            *)
(* membership - which GitHub turns into an invitation for whoever is not   *)
(* in the organisation, and into a demotion for a team's maintainer.       *)
(*                                                                         *)
(* One person, one check.  What `assign` writes in the check's record and  *)
(* its assignee is CheckRecord's; here it succeeds or does not.            *)
(***************************************************************************)
EXTENDS Naturals, FiniteSets

CONSTANTS
  Joiner,         \* the goroutines answering an `assign`
  Sweep,          \* the nightly sweep, about the ask it finds
  Ordinary,       \* the codecheckers' team
  Institutional,  \* the team of checks under an institution's arrangement
  Unmanaged,      \* a team the bot may not add to
  NoTeam,         \* no team named, or none promised
  MaxMoves,       \* bound on what the organisation and its owners do
  MaxAway         \* bound on requests that fail

ManagedTeams == {Ordinary, Institutional}

\* What the constants are.
ASSUME MembershipAssumption ==
  /\ Sweep \notin Joiner
  /\ Cardinality({Ordinary, Institutional, Unmanaged, NoTeam}) = 4
  /\ MaxMoves \in Nat /\ MaxAway \in Nat

VARIABLES
  inside,    \* the person is in the organisation
  owner,     \* and owns it
  place,     \* where they stand in each team
  labelled,  \* the check carries the institution's label
  promised,  \* the team the ask to the owners names
  mem,       \* where each command stands
  moves,     \* what the organisation has done
  away       \* how many requests have failed

memVars == <<inside, owner, place, labelled, promised, mem, moves, away>>

Places == {"none", "pending", "member", "maintainer"}

\* asked is the team of the ask the sweep follows up, told what the
\* organisation answered and saw what the team's membership did; left and
\* risen, that the person left the organisation or was made a maintainer
\* since, are kept to be compared with what the command writes.
Joining == [at : {"idle", "looking", "asking", "granting", "destining", "placing",
                  "adding", "told"},
            team : ManagedTeams \cup {NoTeam}, asked : ManagedTeams \cup {NoTeam},
            told : {"unread", "unknown", "inside", "outside"},
            saw : Places \cup {"unread"}, left : BOOLEAN, risen : BOOLEAN]

AtRest == [at |-> "idle", team |-> NoTeam, asked |-> NoTeam, told |-> "unread",
            saw |-> "unread", left |-> FALSE, risen |-> FALSE]

MembershipTypeOK ==
  /\ {inside, owner, labelled} \subseteq BOOLEAN
  /\ owner => inside
  /\ place \in [ManagedTeams -> Places]
  /\ promised \in ManagedTeams \cup {NoTeam}
  /\ mem \in [Joiner \cup {Sweep} -> Joining]
  /\ moves \in 0..MaxMoves /\ away \in 0..MaxAway

MembershipInit ==
  /\ inside \in BOOLEAN /\ owner \in BOOLEAN /\ (owner => inside)
  /\ labelled \in BOOLEAN
  /\ place \in [ManagedTeams -> IF inside THEN {"none", "maintainer"} ELSE {"none"}]
  /\ promised = NoTeam
  /\ mem = [d \in Joiner \cup {Sweep} |-> AtRest]
  /\ moves = 0 /\ away = 0

(* The organisation and its owners. *)

Moved == moves < MaxMoves /\ moves' = moves + 1
LeftSince == mem' = [d \in DOMAIN mem |-> [mem[d] EXCEPT !.left = @ \/ mem[d].at # "idle"]]
RisenSince == mem' = [d \in DOMAIN mem |-> [mem[d] EXCEPT !.risen = @ \/ mem[d].at # "idle"]]

\* An owner invites the person through a team, and they accept.
OwnerInvites ==
  /\ ~ inside /\ Moved
  /\ \E t \in ManagedTeams : place[t] = "none" /\ place' = [place EXCEPT ![t] = "pending"]
  /\ UNCHANGED <<inside, owner, labelled, promised, mem, away>>

Joins ==
  /\ ~ inside /\ \E t \in ManagedTeams : place[t] = "pending"
  /\ Moved
  /\ inside' = TRUE
  /\ place' = [t \in ManagedTeams |-> IF place[t] = "pending" THEN "member" ELSE place[t]]
  /\ UNCHANGED <<owner, labelled, promised, mem, away>>

Leaves ==
  /\ inside /\ ~ owner /\ Moved
  /\ inside' = FALSE
  /\ place' = [t \in ManagedTeams |-> "none"]
  /\ LeftSince
  /\ UNCHANGED <<owner, labelled, promised, away>>

Promoted ==
  /\ inside /\ Moved
  /\ \E t \in ManagedTeams : place[t] # "maintainer" /\ place' = [place EXCEPT ![t] = "maintainer"]
  /\ RisenSince
  /\ UNCHANGED <<inside, owner, labelled, promised, away>>

Relabelled ==
  /\ Moved
  /\ labelled' = ~ labelled
  /\ UNCHANGED <<inside, owner, place, promised, mem, away>>

(* The command. *)

Put(d, stands) == mem' = [mem EXCEPT ![d] = stands]
At(d, where) == Put(d, [mem[d] EXCEPT !.at = where])
Fails == away < MaxAway /\ away' = away + 1
Organisation == <<inside, owner, place, labelled, moves>>

\* A team the settings do not let the bot add to is refused before anything.
Assign(d) ==
  /\ mem[d].at = "idle"
  /\ \E chosen \in {NoTeam, Institutional, Unmanaged} :
       Put(d, IF chosen = Unmanaged THEN [AtRest EXCEPT !.at = "told"]
              ELSE [AtRest EXCEPT !.at = "looking", !.team = chosen])
  /\ UNCHANGED <<Organisation, promised, away>>

\* The sweep comes to the ask a command left on the check.
SweepAsks ==
  /\ promised # NoTeam
  /\ mem[Sweep].at \in {"idle", "told"}
  /\ Put(Sweep, [AtRest EXCEPT !.at = "looking", !.team = promised, !.asked = promised])
  /\ UNCHANGED <<Organisation, promised, away>>

\* Outside the owners are asked; a command that could not tell records the
\* role, and the sweep, which could not, waits for the next night.
InOrganisation(d) ==
  LET asks == [mem[d] EXCEPT !.at = "asking", !.told = "outside"]
      unknown == [mem[d] EXCEPT !.at = IF d = Sweep THEN "told" ELSE "granting", !.told = "unknown"]
  IN
  /\ mem[d].at = "looking"
  /\ \/ inside /\ Put(d, [mem[d] EXCEPT !.at = "granting", !.told = "inside", !.left = FALSE])
               /\ UNCHANGED away
     \/ ~ inside /\ Put(d, asks) /\ UNCHANGED away
     \/ Put(d, unknown) /\ Fails
  /\ UNCHANGED <<Organisation, promised>>

\* The team a codechecker of this check belongs in: the one an editor named,
\* or the one the labels imply; labels that cannot be read imply none.
Destination(d) ==
  IF mem[d].team # NoTeam THEN {mem[d].team}
  ELSE IF labelled THEN ManagedTeams ELSE {Ordinary}

\* The answer asks the owners, and leaves the ask and its team behind.
AskOwners(d) ==
  /\ mem[d].at = "asking"
  /\ promised' \in Destination(d)
  /\ At(d, "told")
  /\ UNCHANGED <<Organisation, away>>

\* Deviation: whoever could not be looked up is put in the team as well.
GrantOnAGuess(d) ==
  /\ mem[d].at = "granting"
  /\ \/ At(d, "destining") /\ UNCHANGED away
     \/ At(d, "told") /\ Fails
  /\ UNCHANGED <<Organisation, promised>>

\* The role is recorded, was recorded already, or could not be, which ends
\* the command.  Only somebody known to be inside is put in a team.
Grant(d) ==
  /\ mem[d].at = "granting"
  /\ \/ At(d, IF mem[d].told = "inside" THEN "destining" ELSE "told") /\ UNCHANGED away
     \/ At(d, "told") /\ Fails
  /\ UNCHANGED <<Organisation, promised>>

Destine(d) ==
  /\ mem[d].at = "destining"
  /\ \E t \in Destination(d) : Put(d, [mem[d] EXCEPT !.at = "placing", !.team = t])
  /\ UNCHANGED <<Organisation, promised, away>>

\* What GitHub answers of a place.  An owner's answers 404.
Stands(t) == IF owner THEN "none" ELSE place[t]

\* Somebody in the team, or invited to it, is left alone.  A read that failed
\* falls through to the write.
TeamMembership(d) ==
  LET saw == Stands(mem[d].team) IN
  /\ mem[d].at = "placing"
  /\ \/ /\ Put(d, [mem[d] EXCEPT !.at = IF saw = "none" THEN "adding" ELSE "told",
                                 !.saw = saw, !.risen = FALSE])
        /\ UNCHANGED away
     \/ At(d, "adding") /\ Fails
  /\ UNCHANGED <<Organisation, promised>>

\* What the PUT of a plain membership does on GitHub.
Added(t) ==
  CASE owner                    -> [place EXCEPT ![t] = "maintainer"]
    [] inside /\ ~ owner        -> [place EXCEPT ![t] = "member"]
    [] ~ inside                 -> [place EXCEPT ![t] = "pending"]

\* The account resolves and the membership is put; sent again when the answer
\* is lost, which changes nothing more.
AddToTeam(d) ==
  /\ mem[d].at = "adding"
  /\ place' = Added(mem[d].team)
  /\ At(d, "told")
  /\ UNCHANGED <<inside, owner, labelled, promised, moves, away>>

\* No such account, no permission, refused, or no answer at all.
AddFails(d) ==
  /\ mem[d].at = "adding"
  /\ Fails
  /\ place' \in {place, Added(mem[d].team)}
  /\ At(d, "told")
  /\ UNCHANGED <<inside, owner, labelled, promised, moves>>

OrganisationMoves == OwnerInvites \/ Joins \/ Leaves \/ Promoted \/ Relabelled

MemberStep(d) ==
  \/ InOrganisation(d) \/ AskOwners(d) \/ Grant(d) \/ Destine(d)
  \/ TeamMembership(d) \/ AddToTeam(d)

MembershipNext ==
  \/ OrganisationMoves \/ SweepAsks
  \/ \E d \in Joiner : Assign(d)
  \/ \E d \in Joiner \cup {Sweep} : MemberStep(d) \/ AddFails(d)

MembershipSpec == MembershipInit /\ [][MembershipNext]_memVars

\* What a step writes in a team, and what its command knew.
NoGuess ==
  \A d \in DOMAIN mem, t \in ManagedTeams :
    mem[d].at = "adding" /\ mem'[d].at = "told" /\ place'[t] # place[t] =>
      /\ place'[t] = "pending" => mem[d].told = "inside" /\ mem[d].left
      /\ place[t] = "maintainer" => mem[d].saw = "unread" \/ mem[d].risen
      /\ d = Sweep => t = mem[d].asked

\* What the bot writes in a team is no guess: it invites only somebody who
\* has left the organisation since it was told they were in it, it makes a
\* plain member of a maintainer only when it could not read that they were
\* one or they have been made one since, and the sweep writes in the team the
\* ask promised.  (Server.membership: "Acting on a guess there would be the
\* one thing this bot must not do"; intoTheTeam: "a PUT asking for `member`
\* would take the role away"; destination: "the three must not be able to
\* disagree".)
WritesAreNoGuess == [][NoGuess]_memVars
=============================================================================
