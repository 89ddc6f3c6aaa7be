------------------------------- MODULE Teams -------------------------------
(***************************************************************************)
(* The standing roles: GitHub teams, held in a cache that is read through  *)
(* (internal/people/teams.go over internal/github/teams.go).               *)
(*                                                                         *)
(* A lookup answers from the cache while the copy is younger than TTL, or  *)
(* while the last attempt failed less than RetryAfterFailure ago; else it  *)
(* takes the team's fetching lock, looks at the age once more, and reads   *)
(* the team.  A forced lookup, `teams refresh` and the load at startup,    *)
(* reads whatever the age.  A read that fails keeps the members in hand,   *)
(* and a team never read has none: nobody is an editor, never everybody.   *)
(*                                                                         *)
(* Looking a handle up in the members in hand is the statement after the   *)
(* fetch, and is part of the step that ends it.                            *)
(***************************************************************************)
EXTENDS Naturals

CONSTANTS
  Team,               \* the teams a standing role comes from
  People,             \* GitHub handles, normalised
  Asker,              \* the goroutines that look somebody up
  Nobody,             \* no goroutine: the lock is free
  Never,              \* no time: not read yet
  TTL,                \* how long a copy is trusted
  RetryAfterFailure,  \* how long an unreadable team is left alone
  ReadTime,           \* a request is cut off after this long
  MaxTime,            \* bound on the clock
  MaxChanges          \* bound on the changes GitHub sees to its teams

ASSUME TeamsAssumption ==
  /\ Nobody \notin Asker
  /\ Never \notin Nat
  /\ {TTL, RetryAfterFailure, ReadTime} \subseteq Nat \ {0}
  /\ {MaxTime, MaxChanges} \subseteq Nat

VARIABLES
  now,      \* the clock
  member,   \* who is in each team on GitHub
  changes,  \* how many changes GitHub has seen
  cache,    \* the copy of each team
  holder,   \* who holds each team's fetching lock
  look      \* what each goroutine is looking up

teamVars == <<now, member, changes, cache, holder, look>>

\* A copy: members, fetched, attempted and failed are the code's.  seen and
\* seenAt, which change and which time of GitHub's the members are from, are
\* there to be compared with what the code promises.
Copy == [members : SUBSET People, fetched : 0..MaxTime \cup {Never},
         attempted : 0..MaxTime \cup {Never}, failed : BOOLEAN,
         seen : 0..MaxChanges, seenAt : 0..MaxTime \cup {Never}]

EmptyCopy == [members |-> {}, fetched |-> Never, attempted |-> Never,
              failed |-> FALSE, seen |-> 0, seenAt |-> Never]

\* A lookup: at is where it stands, since the change it was asked after,
\* found the members GitHub answered with and saw when that was.
Idle == [at |-> "idle", team |-> Nobody, force |-> FALSE, since |-> 0,
         found |-> {}, seen |-> 0, seenAt |-> 0]

Look == [at : {"idle", "waiting", "asking", "reading", "answered"},
         team : Team \cup {Nobody}, force : BOOLEAN, since : 0..MaxChanges,
         found : SUBSET People, seen : 0..MaxChanges, seenAt : 0..MaxTime]

TeamsTypeOK ==
  /\ now \in 0..MaxTime
  /\ member \in [Team -> SUBSET People]
  /\ changes \in 0..MaxChanges
  /\ cache \in [Team -> Copy]
  /\ holder \in [Team -> Asker \cup {Nobody}]
  /\ look \in [Asker -> Look]

TeamsInit ==
  /\ now = 0
  /\ member \in [Team -> SUBSET People]
  /\ changes = 0
  /\ cache = [t \in Team |-> EmptyCopy]
  /\ holder = [t \in Team |-> Nobody]
  /\ look = [a \in Asker |-> Idle]

\* Whether a team need not be read again yet.
Current(t) ==
  LET copy == cache[t] IN
  \/ copy.fetched # Never /\ now - copy.fetched < TTL
  \/ copy.failed /\ now - copy.attempted < RetryAfterFailure

\* What a lookup that has answered found.
Has(a, who) == look[a].at = "answered" /\ who \in cache[look[a].team].members

(* The environment: time passes, and the organisation changes its teams. *)

Tick ==
  /\ now < MaxTime
  /\ \A a \in Asker : /\ look[a].at # "answered"
                      /\ look[a].at = "reading" => now - look[a].seenAt < ReadTime
  /\ now' = now + 1
  /\ UNCHANGED <<member, changes, cache, holder, look>>

ChangeTeam ==
  /\ changes < MaxChanges
  /\ \E t \in Team, who \in People :
       member' = [member EXCEPT ![t] = IF who \in @ THEN @ \ {who} ELSE @ \cup {who}]
  /\ changes' = changes + 1
  /\ UNCHANGED <<now, cache, holder, look>>

(* One lookup. *)

Begin(a, t, force) ==
  /\ look[a].at = "idle"
  /\ look' = [look EXCEPT ![a] =
       [Idle EXCEPT !.team = t, !.force = force, !.since = changes,
                    !.at = IF ~ force /\ Current(t) THEN "answered" ELSE "waiting"]]
  /\ UNCHANGED <<now, member, changes, cache, holder>>

\* Deviation: a forced lookup is content with a copy read while it waited.
LockShared(a) ==
  LET t == look[a].team IN
  /\ look[a].at = "waiting"
  /\ holder[t] = Nobody
  /\ IF Current(t)
     THEN look' = [look EXCEPT ![a].at = "answered"] /\ UNCHANGED holder
     ELSE look' = [look EXCEPT ![a].at = "asking"] /\ holder' = [holder EXCEPT ![t] = a]
  /\ UNCHANGED <<now, member, changes, cache>>

\* Another goroutine may have read the team while this one waited.
Lock(a) ==
  LET t == look[a].team IN
  /\ look[a].at = "waiting"
  /\ holder[t] = Nobody
  /\ IF ~ look[a].force /\ Current(t)
     THEN look' = [look EXCEPT ![a].at = "answered"] /\ UNCHANGED holder
     ELSE look' = [look EXCEPT ![a].at = "asking"] /\ holder' = [holder EXCEPT ![t] = a]
  /\ UNCHANGED <<now, member, changes, cache>>

\* GitHub answers the request, every page of it, with the members it has now.
TeamMembers(a) ==
  LET t == look[a].team IN
  /\ look[a].at = "asking"
  /\ look' = [look EXCEPT ![a] = [@ EXCEPT !.at = "reading", !.found = member[t],
                                           !.seen = changes, !.seenAt = now]]
  /\ UNCHANGED <<now, member, changes, cache, holder>>

\* The answer is stored, as old as its arrival.
RecordRead(a) ==
  LET t == look[a].team IN
  /\ look[a].at = "reading"
  /\ cache' = [cache EXCEPT ![t] =
       [members |-> look[a].found, fetched |-> now, attempted |-> now,
        failed |-> FALSE, seen |-> look[a].seen, seenAt |-> look[a].seenAt]]
  /\ holder' = [holder EXCEPT ![t] = Nobody]
  /\ look' = [look EXCEPT ![a].at = "answered"]
  /\ UNCHANGED <<now, member, changes>>

\* Deviation: a failed read makes the copy in hand look new.
RecordFailureAsRead(a) ==
  LET t == look[a].team IN
  /\ look[a].at \in {"asking", "reading"}
  /\ cache' = [cache EXCEPT ![t].attempted = now, ![t].fetched = now]
  /\ holder' = [holder EXCEPT ![t] = Nobody]
  /\ look' = [look EXCEPT ![a].at = "answered"]
  /\ UNCHANGED <<now, member, changes>>

\* Deviation: a read that fails leaves the lock with whoever held it.
RecordFailureUnderLock(a) ==
  LET t == look[a].team IN
  /\ look[a].at \in {"asking", "reading"}
  /\ cache' = [cache EXCEPT ![t].attempted = now, ![t].failed = TRUE]
  /\ look' = [look EXCEPT ![a].at = "answered"]
  /\ UNCHANGED <<now, member, changes, holder>>

\* No answer, or no permission to read the team: what is held stands.
RecordFailure(a) ==
  LET t == look[a].team IN
  /\ look[a].at \in {"asking", "reading"}
  /\ cache' = [cache EXCEPT ![t].attempted = now, ![t].failed = TRUE]
  /\ holder' = [holder EXCEPT ![t] = Nobody]
  /\ look' = [look EXCEPT ![a].at = "answered"]
  /\ UNCHANGED <<now, member, changes>>

\* The goroutine takes the answer and goes on.
Take(a) ==
  /\ look[a].at = "answered"
  /\ look' = [look EXCEPT ![a] = Idle]
  /\ UNCHANGED <<now, member, changes, cache, holder>>

\* A new process holds no copies, and nobody in it is looking anybody up.
Forget ==
  /\ cache' = [t \in Team |-> EmptyCopy]
  /\ holder' = [t \in Team |-> Nobody]
  /\ look' = [a \in Asker |-> Idle]
  /\ UNCHANGED <<now, member, changes>>

LookStep(a) == Lock(a) \/ TeamMembers(a) \/ RecordRead(a)

TeamsNext ==
  \/ Tick \/ ChangeTeam \/ Forget
  \/ \E a \in Asker :
       \/ \E t \in Team, force \in BOOLEAN : Begin(a, t, force)
       \/ LookStep(a) \/ RecordFailure(a) \/ Take(a)

TeamsSpec == TeamsInit /\ [][TeamsNext]_teamVars

-----------------------------------------------------------------------------
(***************************************************************************)
(* Properties.                                                             *)
(***************************************************************************)

\* Whoever a lookup finds in a team was in it when GitHub last answered, and
\* that is at most a copy's time to live and a request ago - or every attempt
\* since has failed, the last of them no longer ago than the retry allows.
\* A read in flight for long, a failure, a lookup that waited for another's
\* read and a refresh may come in any order (Teams.fetch, current, record).
GrantIsRecent ==
  \A a \in Asker :
    LET copy == cache[look[a].team] IN
    look[a].at = "answered" /\ copy.members # {} =>
      /\ copy.seenAt # Never
      /\ \/ now - copy.seenAt < TTL + ReadTime
         \/ copy.failed /\ now - copy.attempted < RetryAfterFailure

\* What `teams refresh` answers with was read after it was asked: a copy that
\* another goroutine was reading meanwhile, begun before the organisation
\* changed the team, does not do (Teams.Refresh).
RefreshSeesTheChange ==
  \A a \in Asker :
    look[a].at = "answered" /\ look[a].force /\ ~ cache[look[a].team].failed =>
      cache[look[a].team].seen >= look[a].since
=============================================================================
