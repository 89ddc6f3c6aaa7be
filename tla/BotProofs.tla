------------------------------ MODULE BotProofs ------------------------------
(***************************************************************************)
(* Proofs about the bot around the record: the teams' cache on its own and *)
(* inside the dispatch that uses it; four commands whose work is requests  *)
(* to other services, `check links`, `announce`, the team memberships of   *)
(* the roles, and `follow`, each for any number of them and any answers;   *)
(* and that what is proved of each component holds of the bot that plays   *)
(* them all.                                                               *)
(***************************************************************************)
EXTENDS MCBot, CheckRunProofs, SequenceTheorems

-----------------------------------------------------------------------------
(***************************************************************************)
(* What the teams' cache promises whoever looks somebody up, for any       *)
(* teams, goroutines and times to live.  Two arguments: a copy is as old   *)
(* as its fetch and the request before it, and a request ends within its   *)
(* own time; and the fetching lock puts the reads of a team in order, so   *)
(* a copy is never replaced by one that was read earlier.                  *)
(***************************************************************************)

\* How old a copy may look, and be.
Dated(copy) ==
  /\ copy.members # {} => copy.fetched # Never
  /\ copy.fetched # Never => copy.seenAt # Never /\ copy.fetched - copy.seenAt <= ReadTime

Recent(t) ==
  LET copy == cache[t] IN
  copy.members # {} =>
    /\ copy.seenAt # Never
    /\ \/ now - copy.seenAt < TTL + ReadTime
       \/ copy.failed /\ now - copy.attempted < RetryAfterFailure

Lookups ==
  \A a \in Asker :
    /\ look[a].at # "idle" => look[a].team \in Team
    /\ look[a].at \in {"asking", "reading"} => holder[look[a].team] = a

Ages ==
  /\ \A t \in Team : Dated(cache[t])
  /\ \A a \in Asker :
       /\ look[a].at = "reading" => now - look[a].seenAt <= ReadTime
       /\ look[a].at = "answered" => Recent(look[a].team)

\* GitHub's changes, in the order the copies and the reads have seen them.
Order ==
  /\ \A t \in Team : cache[t].seen <= changes
  /\ \A a \in Asker :
       /\ look[a].since <= changes
       /\ look[a].at = "reading" =>
            /\ look[a].since <= look[a].seen /\ look[a].seen <= changes
            /\ cache[look[a].team].seen <= look[a].seen
       /\ look[a].at = "answered" /\ look[a].force /\ ~ cache[look[a].team].failed =>
            look[a].since <= cache[look[a].team].seen
  /\ \A a, b \in Asker :
       look[a].at = "answered" /\ look[a].force /\ look[b].at = "reading"
         /\ look[a].team = look[b].team => look[a].since <= look[b].seen

TeamsInv == TeamsTypeOK /\ Lookups /\ Ages /\ Order

LEMMA EmptyCopyIsACopy == EmptyCopy \in Copy /\ Dated(EmptyCopy)
BY TeamsAssumption DEF EmptyCopy, Copy, Dated

LEMMA IdleIsALook == Idle \in Look
BY TeamsAssumption DEF Idle, Look

LEMMA TeamsBegin == TeamsInit => TeamsInv
<1> SUFFICES ASSUME TeamsInit PROVE TeamsInv
  OBVIOUS
<1>1. TeamsTypeOK
  BY EmptyCopyIsACopy, IdleIsALook, TeamsAssumption DEF TeamsInit, TeamsTypeOK
<1>2. \A a \in Asker : look[a].at = "idle" /\ look[a].since = 0
  BY DEF TeamsInit, Idle
<1>3. \A t \in Team : Dated(cache[t]) /\ cache[t].seen = 0
  BY EmptyCopyIsACopy DEF TeamsInit, EmptyCopy
<1>4. Lookups /\ Ages
  BY <1>2, <1>3 DEF Lookups, Ages
<1>5. Order
  BY <1>2, <1>3 DEF Order, TeamsInit
<1> QED BY <1>1, <1>4, <1>5 DEF TeamsInv

\* What the type invariant says of one team, and of one lookup.
LEMMA TeamsAreTyped ==
  ASSUME TeamsTypeOK
  PROVE  /\ now \in Nat /\ changes \in Nat /\ now \in 0..MaxTime /\ changes \in 0..MaxChanges
         /\ \A t \in Team :
              /\ cache[t].fetched \in Nat \cup {Never} /\ cache[t].seenAt \in Nat \cup {Never}
              /\ cache[t].attempted \in Nat \cup {Never} /\ cache[t].seen \in Nat
         /\ \A a \in Asker :
              look[a].since \in Nat /\ look[a].seen \in Nat /\ look[a].seenAt \in Nat
         /\ {TTL, RetryAfterFailure, ReadTime} \subseteq Nat \ {0} /\ Never \notin Nat
<1>1. now \in Nat /\ changes \in Nat /\ now \in 0..MaxTime /\ changes \in 0..MaxChanges
  BY TeamsAssumption DEF TeamsTypeOK
<1>2. ASSUME NEW t \in Team
      PROVE  /\ cache[t].fetched \in Nat \cup {Never} /\ cache[t].seenAt \in Nat \cup {Never}
             /\ cache[t].attempted \in Nat \cup {Never} /\ cache[t].seen \in Nat
  <2>1. cache[t] \in Copy
    BY DEF TeamsTypeOK
  <2> QED BY <2>1, TeamsAssumption DEF Copy
<1>3. ASSUME NEW a \in Asker
      PROVE  look[a].since \in Nat /\ look[a].seen \in Nat /\ look[a].seenAt \in Nat
  <2>1. look[a] \in Look
    BY DEF TeamsTypeOK
  <2> QED BY <2>1, TeamsAssumption DEF Look
<1> QED BY <1>1, <1>2, <1>3, TeamsAssumption

LEMMA CurrentIsRecent ==
  ASSUME TeamsTypeOK, NEW t \in Team, Dated(cache[t]), Current(t)
  PROVE  Recent(t)
<1>1. CASE cache[t].fetched # Never /\ now - cache[t].fetched < TTL
  BY <1>1, TeamsAreTyped DEF Dated, Recent
<1>2. CASE cache[t].failed /\ now - cache[t].attempted < RetryAfterFailure
  BY <1>2, TeamsAreTyped DEF Dated, Recent
<1> QED BY <1>1, <1>2 DEF Current

LEMMA TickKeeps == TeamsInv /\ Tick => TeamsInv'
<1> SUFFICES ASSUME TeamsInv, Tick PROVE TeamsInv'
  OBVIOUS
<1>1. /\ now' = now + 1 /\ now < MaxTime /\ UNCHANGED <<member, changes, cache, holder, look>>
      /\ \A a \in Asker : /\ look[a].at # "answered"
                          /\ look[a].at = "reading" => now - look[a].seenAt < ReadTime
  BY DEF Tick
<1>t. TeamsTypeOK
  BY DEF TeamsInv
<1>2. TeamsTypeOK'
  BY <1>1, <1>t, TeamsAreTyped, TeamsAssumption DEF TeamsTypeOK
<1>3. Lookups' /\ Order'
  BY <1>1 DEF TeamsInv, Lookups, Order
<1>4. Ages'
  <2>1. \A t \in Team : Dated(cache[t])'
    BY <1>1 DEF TeamsInv, Ages, Dated
  <2>2. \A a \in Asker : look[a].at = "reading" => now' - look[a].seenAt <= ReadTime
    BY <1>1, <1>t, TeamsAreTyped
  <2> QED BY <1>1, <2>1, <2>2 DEF Ages
<1> QED BY <1>2, <1>3, <1>4 DEF TeamsInv

LEMMA ChangeKeeps == TeamsInv /\ ChangeTeam => TeamsInv'
<1> SUFFICES ASSUME TeamsInv, ChangeTeam PROVE TeamsInv'
  OBVIOUS
<1>1. changes' = changes + 1 /\ changes < MaxChanges /\ UNCHANGED <<now, cache, holder, look>>
  BY DEF ChangeTeam
<1>t. TeamsTypeOK
  BY DEF TeamsInv
<1>2. TeamsTypeOK'
  <2>1. PICK t \in Team, who \in People :
          member' = [member EXCEPT ![t] = IF who \in @ THEN @ \ {who} ELSE @ \cup {who}]
    BY DEF ChangeTeam
  <2>2. member' \in [Team -> SUBSET People]
    BY <1>t, <2>1 DEF TeamsTypeOK
  <2>3. changes' \in 0..MaxChanges
    BY <1>1, <1>t, TeamsAreTyped, TeamsAssumption
  <2> QED BY <1>1, <1>t, <2>2, <2>3 DEF TeamsTypeOK
<1>3. Lookups' /\ Ages'
  BY <1>1 DEF TeamsInv, Lookups, Ages, Dated, Recent
<1>4. Order'
  <2>1. \A t \in Team : cache[t].seen <= changes'
    BY <1>1, <1>t, TeamsAreTyped DEF TeamsInv, Order
  <2>2. \A a \in Asker : look[a].since <= changes' /\ (look[a].at = "reading" => look[a].seen <= changes')
    BY <1>1, <1>t, TeamsAreTyped DEF TeamsInv, Order
  <2> QED BY <1>1, <2>1, <2>2 DEF TeamsInv, Order
<1> QED BY <1>2, <1>3, <1>4 DEF TeamsInv

LEMMA ForgetKeeps == TeamsInv /\ Forget => TeamsInv'
<1> SUFFICES ASSUME TeamsInv, Forget PROVE TeamsInv'
  OBVIOUS
<1>1. /\ cache' = [t \in Team |-> EmptyCopy] /\ holder' = [t \in Team |-> Nobody]
      /\ look' = [a \in Asker |-> Idle] /\ UNCHANGED <<now, member, changes>>
  BY DEF Forget
<1>t. TeamsTypeOK
  BY DEF TeamsInv
<1>2. TeamsTypeOK'
  BY <1>1, <1>t, EmptyCopyIsACopy, IdleIsALook DEF TeamsTypeOK
<1>3. \A a \in Asker : look'[a].at = "idle" /\ look'[a].since = 0
  BY <1>1 DEF Idle
<1>4. \A t \in Team : Dated(cache'[t]) /\ cache'[t].seen = 0
  BY <1>1, EmptyCopyIsACopy DEF EmptyCopy
<1>5. Lookups' /\ Ages'
  BY <1>3, <1>4 DEF Lookups, Ages, Dated
<1>6. Order'
  BY <1>1, <1>3, <1>4, <1>t, TeamsAreTyped DEF Order
<1> QED BY <1>2, <1>5, <1>6 DEF TeamsInv

\* A step of one lookup that stores nothing: it keeps the invariant as long
\* as the lookup keeps its own part of it.
LEMMA NothingStored ==
  ASSUME TeamsInv, NEW a \in Asker,
         UNCHANGED <<now, member, changes, cache>>,
         holder' \in [Team -> Asker \cup {Nobody}],
         NEW stands \in Look, look' = [look EXCEPT ![a] = stands],
         \A b \in Asker \ {a} : look[b].at \in {"asking", "reading"} =>
           holder'[look[b].team] = holder[look[b].team],
         stands.at # "idle" => stands.team \in Team,
         stands.at \in {"asking", "reading"} => holder'[stands.team] = a,
         stands.since <= changes,
         stands.at = "reading" =>
           /\ now - stands.seenAt <= ReadTime /\ stands.since <= stands.seen
           /\ stands.seen = changes,
         stands.at = "answered" => Recent(stands.team) /\ ~ stands.force
  PROVE  TeamsInv'
<1>t. TeamsTypeOK /\ Lookups /\ Ages /\ Order
  BY DEF TeamsInv
<1>1. look'[a] = stands /\ \A b \in Asker \ {a} : look'[b] = look[b]
  BY <1>t DEF TeamsTypeOK
<1>2. TeamsTypeOK'
  BY <1>t DEF TeamsTypeOK
<1>3. Lookups'
  BY <1>t, <1>1 DEF Lookups
<1>4. Ages'
  <2>1. \A t \in Team : Dated(cache[t])'
    BY <1>t DEF Ages, Dated
  <2>2. \A t : Recent(t) => Recent(t)'
    BY DEF Recent
  <2> QED BY <1>t, <1>1, <2>1, <2>2 DEF Ages
<1>5. Order'
  <2>1. \A t \in Team : cache'[t].seen <= changes'
    BY <1>t DEF Order
  <2>2. ASSUME NEW b \in Asker
        PROVE  /\ look'[b].since <= changes'
               /\ look'[b].at = "reading" =>
                    /\ look'[b].since <= look'[b].seen /\ look'[b].seen <= changes'
                    /\ cache'[look'[b].team].seen <= look'[b].seen
               /\ look'[b].at = "answered" /\ look'[b].force /\ ~ cache'[look'[b].team].failed =>
                    look'[b].since <= cache'[look'[b].team].seen
    <3>1. CASE b # a
      BY <1>t, <1>1, <3>1 DEF Order
    <3>2. CASE b = a
      BY <1>t, <1>1, <2>1, <3>2, TeamsAreTyped
    <3> QED BY <3>1, <3>2
  <2>3. ASSUME NEW b \in Asker, NEW c \in Asker,
               look'[b].at = "answered", look'[b].force, look'[c].at = "reading",
               look'[b].team = look'[c].team
        PROVE  look'[b].since <= look'[c].seen
    <3>1. b # a
      BY <1>1, <2>3
    <3>2. CASE c = a
      BY <1>t, <1>1, <3>1, <3>2, <2>3 DEF Order
    <3>3. CASE c # a
      BY <1>t, <1>1, <3>1, <3>3, <2>3 DEF Order
    <3> QED BY <3>2, <3>3
  <2> QED BY <2>1, <2>2, <2>3 DEF Order
<1> QED BY <1>2, <1>3, <1>4, <1>5 DEF TeamsInv

\* A lookup that ends by storing a copy: nobody else reads the team.
LEMMA Stored ==
  ASSUME TeamsInv, NEW a \in Asker, look[a].at \in {"asking", "reading"},
         UNCHANGED <<now, member, changes>>,
         NEW copy \in Copy, cache' = [cache EXCEPT ![look[a].team] = copy],
         holder' = [holder EXCEPT ![look[a].team] = Nobody],
         look' = [look EXCEPT ![a].at = "answered"],
         Dated(copy), copy.seen <= changes,
         copy.members # {} =>
           /\ copy.seenAt # Never
           /\ \/ now - copy.seenAt < TTL + ReadTime
              \/ copy.failed /\ now - copy.attempted < RetryAfterFailure,
         ~ copy.failed =>
           /\ look[a].since <= copy.seen
           /\ \A b \in Asker : look[b].at = "answered" /\ look[b].force
                /\ look[b].team = look[a].team => look[b].since <= copy.seen
  PROVE  TeamsInv'
<1> DEFINE t == look[a].team
<1>t. TeamsTypeOK /\ Lookups /\ Ages /\ Order
  BY DEF TeamsInv
<1>1. t \in Team /\ holder[t] = a
  BY <1>t DEF Lookups
<1>2. \A b \in Asker \ {a} : look[b].at \in {"asking", "reading"} => look[b].team # t
  BY <1>t, <1>1 DEF Lookups
<1>3. /\ cache' = [cache EXCEPT ![t] = copy] /\ cache'[t] = copy
      /\ \A u \in Team \ {t} : cache'[u] = cache[u]
  BY <1>t, <1>1 DEF TeamsTypeOK
<1>4. /\ \A b \in Asker \ {a} : look'[b] = look[b]
      /\ look'[a].at = "answered" /\ look'[a].team = t
      /\ look'[a].since = look[a].since /\ look'[a].force = look[a].force
  BY <1>t DEF TeamsTypeOK, Look
<1>5. TeamsTypeOK'
  <2>1. [look[a] EXCEPT !.at = "answered"] \in Look
    BY <1>t DEF TeamsTypeOK, Look
  <2> QED BY <1>t, <1>1, <1>3, <2>1 DEF TeamsTypeOK
<1>6. Lookups'
  <2>1. \A b \in Asker \ {a} : look[b].at \in {"asking", "reading"} => holder'[look[b].team] = holder[look[b].team]
    BY <1>t, <1>1, <1>2 DEF TeamsTypeOK, Lookups
  <2> QED BY <1>t, <1>1, <1>4, <2>1 DEF Lookups
<1>7. Ages'
  <2>1. \A u \in Team : Dated(cache[u])'
    BY <1>t, <1>1, <1>3 DEF Ages, Dated
  <2>2. Recent(t)'
    BY <1>1, <1>3 DEF Recent
  <2>3. \A u \in Team : Recent(u) => Recent(u)'
    BY <1>3, <2>2 DEF Recent
  <2>4. ASSUME NEW b \in Asker
        PROVE  /\ look'[b].at = "reading" => now' - look'[b].seenAt <= ReadTime
               /\ look'[b].at = "answered" => Recent(look[b].team)'
    <3>1. CASE b = a
      BY <1>4, <2>2, <3>1
    <3>2. CASE b # a
      BY <1>t, <1>4, <2>3, <3>2 DEF Ages, Lookups
    <3> QED BY <3>1, <3>2
  <2> QED BY <2>1, <2>4 DEF Ages
<1>8. Order'
  <2>1. \A u \in Team : cache'[u].seen <= changes'
    BY <1>t, <1>1, <1>3 DEF Order
  <2>2. ASSUME NEW b \in Asker
        PROVE  /\ look'[b].since <= changes'
               /\ look'[b].at = "reading" =>
                    /\ look'[b].since <= look'[b].seen /\ look'[b].seen <= changes'
                    /\ cache'[look'[b].team].seen <= look'[b].seen
               /\ look'[b].at = "answered" /\ look'[b].force /\ ~ cache'[look'[b].team].failed =>
                    look'[b].since <= cache'[look'[b].team].seen
    <3>1. CASE b = a
      BY <1>t, <1>1, <1>3, <1>4, <3>1 DEF Order
    <3>2. CASE b # a /\ look[b].team = t
      BY <1>t, <1>2, <1>3, <1>4, <3>2 DEF Order
    <3>3. CASE b # a /\ look[b].team # t /\ look[b].at # "idle"
      BY <1>t, <1>3, <1>4, <3>3 DEF Order, Lookups
    <3>4. CASE b # a /\ look[b].at = "idle"
      BY <1>t, <1>4, <3>4 DEF Order
    <3> QED BY <3>1, <3>2, <3>3, <3>4
  <2>3. ASSUME NEW b \in Asker, NEW c \in Asker,
               look'[b].at = "answered", look'[b].force, look'[c].at = "reading",
               look'[b].team = look'[c].team
        PROVE  look'[b].since <= look'[c].seen
    <3>1. c # a /\ look'[c] = look[c] /\ look[c].team # t
      BY <1>2, <1>4, <2>3
    <3>2. b # a
      BY <1>4, <2>3, <3>1
    <3> QED BY <1>t, <1>4, <2>3, <3>1, <3>2 DEF Order
  <2> QED BY <2>1, <2>2, <2>3 DEF Order
<1> QED BY <1>5, <1>6, <1>7, <1>8 DEF TeamsInv

LEMMA BeginKeeps ==
  ASSUME TeamsInv, NEW a \in Asker, NEW t \in Team, NEW force \in BOOLEAN, Begin(a, t, force)
  PROVE  TeamsInv'
<1> DEFINE stands == [Idle EXCEPT !.team = t, !.force = force, !.since = changes,
                        !.at = IF ~ force /\ Current(t) THEN "answered" ELSE "waiting"]
<1>t. TeamsTypeOK
  BY DEF TeamsInv
<1>1. look' = [look EXCEPT ![a] = stands] /\ UNCHANGED <<now, member, changes, cache, holder>>
  BY DEF Begin
<1>2. stands \in Look
  BY <1>t, TeamsAreTyped, IdleIsALook DEF Idle, Look
<1>3. /\ stands.team = t /\ stands.since = changes /\ stands.force = force
      /\ stands.at = IF ~ force /\ Current(t) THEN "answered" ELSE "waiting"
  BY DEF Idle
<1>4. stands.at = "answered" => Recent(stands.team) /\ ~ stands.force
  BY <1>t, <1>3, CurrentIsRecent DEF TeamsInv, Ages
<1> HIDE DEF stands
<1>5. holder' \in [Team -> Asker \cup {Nobody}] /\ stands.since <= changes
  BY <1>t, <1>1, <1>3, TeamsAreTyped DEF TeamsTypeOK
<1> QED BY <1>1, <1>2, <1>3, <1>4, <1>5, NothingStored

LEMMA LockKeeps == ASSUME TeamsInv, NEW a \in Asker, Lock(a) PROVE TeamsInv'
<1> DEFINE t == look[a].team
<1>t. TeamsTypeOK /\ Lookups /\ Order
  BY DEF TeamsInv
<1>1. /\ t \in Team /\ look[a] \in Look /\ look[a].at = "waiting" /\ holder[t] = Nobody
      /\ look[a].since <= changes /\ UNCHANGED <<now, member, changes, cache>>
  BY <1>t DEF Lock, Lookups, Order, TeamsTypeOK
<1>2. CASE ~ look[a].force /\ Current(t)
  <2> DEFINE stands == [look[a] EXCEPT !.at = "answered"]
  <2>1. look' = [look EXCEPT ![a] = stands] /\ holder' = holder
    BY <1>t, <1>1, <1>2 DEF Lock, TeamsTypeOK
  <2>2. /\ stands \in Look /\ stands.at = "answered" /\ stands.team = t /\ ~ stands.force
        /\ stands.since <= changes
    BY <1>1, <1>2 DEF Look
  <2>3. Recent(t) /\ holder' \in [Team -> Asker \cup {Nobody}]
    BY <1>t, <1>1, <1>2, <2>1, CurrentIsRecent DEF TeamsInv, Ages, TeamsTypeOK
  <2> HIDE DEF stands
  <2> QED BY <1>1, <2>1, <2>2, <2>3, NothingStored
<1>3. CASE ~ (~ look[a].force /\ Current(t))
  <2> DEFINE stands == [look[a] EXCEPT !.at = "asking"]
  <2>1. look' = [look EXCEPT ![a] = stands] /\ holder' = [holder EXCEPT ![t] = a]
    BY <1>t, <1>1, <1>3 DEF Lock, TeamsTypeOK
  <2>2. stands \in Look /\ stands.at = "asking" /\ stands.team = t /\ stands.since <= changes
    BY <1>1 DEF Look
  <2>3. \A b \in Asker \ {a} : look[b].at \in {"asking", "reading"} => look[b].team # t
    BY <1>t, <1>1, TeamsAssumption DEF Lookups
  <2>4. /\ holder' \in [Team -> Asker \cup {Nobody}] /\ holder'[t] = a
        /\ \A b \in Asker \ {a} : look[b].at \in {"asking", "reading"} =>
             holder'[look[b].team] = holder[look[b].team]
    BY <1>t, <1>1, <2>1, <2>3 DEF TeamsTypeOK, Lookups
  <2> HIDE DEF stands
  <2> QED BY <1>1, <2>1, <2>2, <2>4, NothingStored
<1> QED BY <1>2, <1>3

LEMMA TeamMembersKeeps == ASSUME TeamsInv, NEW a \in Asker, TeamMembers(a) PROVE TeamsInv'
<1> DEFINE t == look[a].team
           stands == [look[a] EXCEPT !.at = "reading", !.found = member[t],
                                     !.seen = changes, !.seenAt = now]
<1>t. TeamsTypeOK /\ Lookups /\ Order
  BY DEF TeamsInv
<1>1. /\ t \in Team /\ look[a] \in Look /\ holder[t] = a /\ look[a].since <= changes
      /\ UNCHANGED <<now, member, changes, cache, holder>>
  BY <1>t DEF TeamMembers, Lookups, Order, TeamsTypeOK
<1>2. look' = [look EXCEPT ![a] = stands]
  BY <1>t DEF TeamMembers, TeamsTypeOK
<1>3. member[t] \subseteq People /\ now \in 0..MaxTime /\ changes \in 0..MaxChanges
  BY <1>t, <1>1, TeamsAreTyped DEF TeamsTypeOK
<1>4. /\ stands \in Look /\ stands.at = "reading" /\ stands.team = t
      /\ stands.since = look[a].since /\ stands.seen = changes /\ stands.seenAt = now
  BY <1>1, <1>3 DEF Look
<1> HIDE DEF stands
<1>5. /\ holder' \in [Team -> Asker \cup {Nobody}] /\ now - stands.seenAt <= ReadTime
      /\ stands.since <= stands.seen /\ stands.since <= changes
  BY <1>t, <1>1, <1>4, TeamsAreTyped DEF TeamsTypeOK
<1> QED BY <1>1, <1>2, <1>4, <1>5, NothingStored

LEMMA TakeKeeps == ASSUME TeamsInv, NEW a \in Asker, Take(a) PROVE TeamsInv'
<1>t. TeamsTypeOK
  BY DEF TeamsInv
<1>1. look' = [look EXCEPT ![a] = Idle] /\ UNCHANGED <<now, member, changes, cache, holder>>
  BY DEF Take
<1>2. Idle.at = "idle" /\ Idle.since <= changes /\ holder' \in [Team -> Asker \cup {Nobody}]
  BY <1>t, <1>1, TeamsAreTyped DEF Idle, TeamsTypeOK
<1> QED BY <1>1, <1>2, IdleIsALook, NothingStored

\* The answer was in flight no longer than a request may be.
LEMMA RecordReadKeeps == ASSUME TeamsInv, NEW a \in Asker, RecordRead(a) PROVE TeamsInv'
<1> DEFINE copy == [members |-> look[a].found, fetched |-> now, attempted |-> now,
                    failed |-> FALSE, seen |-> look[a].seen, seenAt |-> look[a].seenAt]
<1>t. TeamsTypeOK /\ Lookups /\ Ages /\ Order
  BY DEF TeamsInv
<1>1. /\ look[a].at = "reading" /\ look[a] \in Look /\ now - look[a].seenAt <= ReadTime
      /\ look[a].since <= look[a].seen /\ look[a].seen <= changes
      /\ \A b \in Asker : look[b].at = "answered" /\ look[b].force
           /\ look[b].team = look[a].team => look[b].since <= look[a].seen
  BY <1>t DEF RecordRead, Ages, Order, TeamsTypeOK
<1>2. /\ cache' = [cache EXCEPT ![look[a].team] = copy] /\ UNCHANGED <<now, member, changes>>
      /\ holder' = [holder EXCEPT ![look[a].team] = Nobody]
      /\ look' = [look EXCEPT ![a].at = "answered"]
  BY DEF RecordRead
<1>3. copy \in Copy
  BY <1>t, <1>1, TeamsAreTyped DEF Copy, Look
<1>4. copy.fetched = now /\ copy.seenAt = look[a].seenAt /\ copy.seen = look[a].seen
  OBVIOUS
<1> HIDE DEF copy
<1>5. Dated(copy) /\ copy.seenAt # Never /\ now - copy.seenAt < TTL + ReadTime
  BY <1>t, <1>1, <1>4, TeamsAreTyped DEF Dated
<1> QED BY <1>1, <1>2, <1>3, <1>4, <1>5, Stored

LEMMA RecordFailureKeeps == ASSUME TeamsInv, NEW a \in Asker, RecordFailure(a) PROVE TeamsInv'
<1> DEFINE t == look[a].team
           copy == [cache[t] EXCEPT !.attempted = now, !.failed = TRUE]
<1>t. TeamsTypeOK /\ Lookups /\ Ages /\ Order
  BY DEF TeamsInv
<1>1. /\ look[a].at \in {"asking", "reading"} /\ t \in Team /\ cache[t] \in Copy
      /\ Dated(cache[t]) /\ cache[t].seen <= changes
  BY <1>t DEF RecordFailure, Lookups, Ages, Order, TeamsTypeOK
<1>2. /\ cache' = [cache EXCEPT ![t] = copy] /\ UNCHANGED <<now, member, changes>>
      /\ holder' = [holder EXCEPT ![t] = Nobody] /\ look' = [look EXCEPT ![a].at = "answered"]
  BY <1>t, <1>1 DEF RecordFailure, TeamsTypeOK
<1>3. copy \in Copy
  BY <1>t, <1>1, TeamsAreTyped DEF Copy
<1>4. /\ copy.fetched = cache[t].fetched /\ copy.members = cache[t].members
      /\ copy.seenAt = cache[t].seenAt /\ copy.seen = cache[t].seen
      /\ copy.failed /\ copy.attempted = now
  BY <1>1 DEF Copy
<1> HIDE DEF copy
<1>5. Dated(copy) /\ now - copy.attempted < RetryAfterFailure /\ (copy.members # {} => copy.seenAt # Never)
  BY <1>t, <1>1, <1>4, TeamsAreTyped DEF Dated
<1> QED BY <1>1, <1>2, <1>3, <1>4, <1>5, Stored

LEMMA TeamsKeep == TeamsInv /\ [TeamsNext]_teamVars => TeamsInv'
<1> SUFFICES ASSUME TeamsInv, [TeamsNext]_teamVars PROVE TeamsInv'
  OBVIOUS
<1>1. CASE UNCHANGED teamVars
  BY <1>1 DEF teamVars, TeamsInv, TeamsTypeOK, Lookups, Ages, Order, Dated, Recent
<1>2. CASE TeamsNext
  BY <1>2, TickKeeps, ChangeKeeps, ForgetKeeps, BeginKeeps, LockKeeps, TeamMembersKeeps,
     RecordReadKeeps, RecordFailureKeeps, TakeKeeps
  DEF TeamsNext, LookStep
<1> QED BY <1>1, <1>2

LEMMA TeamsInvariant == TeamsSpec => []TeamsInv
BY TeamsBegin, TeamsKeep, PTL DEF TeamsSpec

\* The cache keeps its types (internal/people/teams.go).
THEOREM TeamsTypes == TeamsSpec => []TeamsTypeOK
<1>1. TeamsInv => TeamsTypeOK
  BY DEF TeamsInv
<1> QED BY <1>1, TeamsInvariant, PTL

\* Whoever is found in a team was in it a time to live and a request ago at
\* most, or every attempt to read it since has failed (Teams.fetch, current).
THEOREM GrantsAreRecent == TeamsSpec => []GrantIsRecent
<1>1. TeamsInv => GrantIsRecent
  BY DEF TeamsInv, Ages, Recent, GrantIsRecent
<1> QED BY <1>1, TeamsInvariant, PTL

\* A refresh answers with what was read after it was asked for, whatever was
\* being read meanwhile (Teams.Refresh).
THEOREM RefreshesSeeTheChange == TeamsSpec => []RefreshSeesTheChange
<1>1. TeamsInv => RefreshSeesTheChange
  BY TeamsAreTyped DEF TeamsInv, Order, Lookups, RefreshSeesTheChange
<1> QED BY <1>1, TeamsInvariant, PTL

-----------------------------------------------------------------------------
(***************************************************************************)
(* The dispatch uses the teams' cache as it is meant to be used: whatever  *)
(* the deliveries, the load at startup, a restart and the clock do, the    *)
(* cache, its locks and its lookups behave as Teams says.  What is proved  *)
(* of the cache on its own is then true of it inside the bot.              *)
(***************************************************************************)

LEMMA FirstIsATeam == ASSUME NEW teams PROVE FirstOf(teams) \in Team
BY DispatchAssumption DEF FirstOf, StandingRoles

LEMMA WhoLooksUp == Startup \in Asker /\ Delivery \subseteq Asker
BY DispatchAssumption

LEMMA DeliveryStep ==
  ASSUME NEW d \in Delivery, Deliver(d) \/ Step(d) \/ Fault(d)
  PROVE  [TeamsNext]_teamVars
<1>1. CASE AskTeam(d)
  BY <1>1, FirstIsATeam, WhoLooksUp DEF AskTeam, TeamsNext
<1>2. CASE HearTeam(d)
  BY <1>2, WhoLooksUp DEF HearTeam, TeamsNext
<1>3. CASE RefreshTeams(d)
  BY <1>3, FirstIsATeam, WhoLooksUp DEF RefreshTeams, TeamsNext
<1>4. CASE Refreshed(d)
  BY <1>4, WhoLooksUp DEF Refreshed, TeamsNext
<1>5. CASE Deliver(d) \/ Known(d) \/ ReadRecord(d) \/ Judge(d)
  BY <1>5 DEF Deliver, Known, ReadRecord, Judge
<1>6. CASE Answer(d) \/ Post(d) \/ ReportPanic(d) \/ Apologise(d)
  BY <1>6 DEF Answer, Post, ReportPanic, Apologise
<1>7. CASE Fault(d)
  BY <1>7 DEF Fault, RecordUnread, PostFails, Panic
<1> QED BY <1>1, <1>2, <1>3, <1>4, <1>5, <1>6, <1>7 DEF Step

LEMMA ProcessStep ==
  ASSUME \/ \E a \in Asker : TeamStep(a) \/ TeamUnread(a)
         \/ Load \/ Loaded \/ Restart \/ Environment
  PROVE  [TeamsNext]_teamVars
<1>1. CASE \E a \in Asker : TeamStep(a) \/ TeamUnread(a)
  BY <1>1 DEF TeamStep, TeamUnread, TeamsNext
<1>2. CASE Load
  BY <1>2, FirstIsATeam, WhoLooksUp DEF Load, TeamsNext
<1>3. CASE Loaded
  BY <1>3, WhoLooksUp DEF Loaded, TeamsNext
<1>4. CASE Restart \/ Environment
  BY <1>4 DEF Restart, Environment, TeamsNext
<1> QED BY <1>1, <1>2, <1>3, <1>4

LEMMA DispatchStep == [DispatchNext]_<<teamVars, dispatchVars>> => [TeamsNext]_teamVars
<1> SUFFICES ASSUME [DispatchNext]_<<teamVars, dispatchVars>> PROVE [TeamsNext]_teamVars
  OBVIOUS
<1>1. CASE DispatchNext
  BY <1>1, DeliveryStep, ProcessStep DEF DispatchNext
<1>2. CASE UNCHANGED <<teamVars, dispatchVars>>
  BY <1>2
<1> QED BY <1>1, <1>2

\* The dispatch implements the cache: every step of it is one of Teams, or
\* leaves the cache alone (bot.go standingRoles and refresh, serve.go).
THEOREM DispatchUsesTheCache == DispatchSpec => TeamsSpec
<1>1. DispatchInit => TeamsInit
  BY DEF DispatchInit
<1> QED BY <1>1, DispatchStep, PTL DEF DispatchSpec, TeamsSpec

\* Inside the bot as well, nobody is found in a team they were not in a time
\* to live and a request ago, unless it could not be read since.
THEOREM DispatchGrantsAreRecent == DispatchSpec => []GrantIsRecent
BY DispatchUsesTheCache, GrantsAreRecent, PTL

\* And `teams refresh` sees what the organisation changed before it.
THEOREM DispatchRefreshesSeeTheChange == DispatchSpec => []RefreshSeesTheChange
BY DispatchUsesTheCache, RefreshesSeeTheChange, PTL

-----------------------------------------------------------------------------
(***************************************************************************)
(* What a delivery comes to, whatever events the bot may read.             *)
(***************************************************************************)

EventsRead ==
  /\ script \in [Delivery -> Event \cup {NoEvent}]
  /\ \A d \in Delivery : script[d] # NoEvent => Readable(script[d])

\* A goroutine that has not ended has said nothing, it acts on an event, and
\* one that panicked or was lost has met with trouble.
Unsaid ==
  \A d \in Delivery :
    /\ act[d].at \in {"none", "roles", "record", "judging", "running"} => act[d].reply = "none"
    /\ act[d].at # "none" => script[d] # NoEvent
    /\ act[d].at \in {"panicked", "apologising", "lost"} => trouble > 0

\* The record has been read by the time a command is judged whose answer may
\* turn on it.
ReadBeforeJudged ==
  \A d \in Delivery :
    /\ act[d].at = "judging" /\ trouble = 0
    /\ script[d].author = Recorded /\ script[d].name # "unknown" /\ WantsRecord(script[d])
    => "assigned codechecker" \in act[d].roles

DispatchInv ==
  /\ TeamsInv /\ EventsRead
  /\ act \in [Delivery -> Goroutine] /\ loading \subseteq Team /\ trouble \in 0..MaxTrouble
  /\ Unsaid /\ ReadBeforeJudged /\ OwnCommandIsOffered

\* What one delivery's goroutine is held to, with the trouble there has been.
Held(d, g, e, faulty) ==
  /\ g.at \in {"none", "roles", "record", "judging", "running"} => g.reply = "none"
  /\ g.at # "none" => e # NoEvent
  /\ g.at \in {"panicked", "apologising", "lost"} => faulty > 0
  /\ g.at = "judging" /\ faulty = 0 /\ e.author = Recorded /\ e.name # "unknown" /\ WantsRecord(e)
       => "assigned codechecker" \in g.roles
  /\ /\ g.at \in {"running", "posting", "done"} /\ g.reply # "on the lists"
     /\ e.author = Recorded /\ faulty = 0
     => /\ e.name = "check start" => g.reply # "refused"
        /\ e.name = "check" /\ e.bare => "check start" \in g.offered
        /\ e.meant = "check start" => g.reply = "hint"

LEMMA HeldIs ==
  Unsaid /\ ReadBeforeJudged /\ OwnCommandIsOffered <=>
    \A d \in Delivery : Held(d, act[d], script[d], trouble)
BY DEF Held, Unsaid, ReadBeforeJudged, OwnCommandIsOffered

\* The role of the check is asked for by `check start`, by the answer to a bare
\* `check`, and by that to a word near to it; and it is enough for it.
LEMMA OwnCommand ==
  /\ NeedsCheckRoles("check start") /\ ChildrenNeedCheckRoles("check")
  /\ \A name : "check start" \in Family(name) \cup OneWordCommands => name = "check"
  /\ \A roles : /\ Permits("check", roles)
                /\ "assigned codechecker" \in roles => /\ Permits("check start", roles)
                                                       /\ "check start" \in Children("check", roles)
<1>1. MayRun("check start") = {"editor", "assigned codechecker"} /\ MayRun("check") = {"anyone"}
  BY DEF MayRun, EditorsCommands
<1>2. "check start" \in Family("check")
  BY DEF Family
<1>3. NeedsCheckRoles("check start")
  BY <1>1 DEF NeedsCheckRoles, StandingRoles
<1>4. ASSUME NEW name, "check start" \in Family(name) \cup OneWordCommands PROVE name = "check"
  BY <1>4 DEF Family, OneWordCommands
<1> QED BY <1>1, <1>2, <1>3, <1>4 DEF ChildrenNeedCheckRoles, Permits, Children

\* A step of one delivery that keeps what its goroutine is held to.
LEMMA OneDelivery ==
  ASSUME DispatchInv, TeamsInv', NEW d \in Delivery, NEW g \in Goroutine,
         act' = [act EXCEPT ![d] = g], script' = script, loading' \subseteq Team,
         trouble' \in {trouble, trouble + 1}, trouble' \in 0..MaxTrouble,
         Held(d, g, script[d], trouble')
  PROVE  DispatchInv'
<1>1. act' \in [Delivery -> Goroutine]
  BY DEF DispatchInv
<1>2. trouble \in Nat /\ trouble' \in Nat
  BY DispatchAssumption DEF DispatchInv
<1>3. ASSUME NEW e \in Delivery PROVE Held(e, act'[e], script'[e], trouble')
  <2>1. CASE e = d
    <3>1. act'[e] = g /\ script'[e] = script[d]
      BY <2>1 DEF DispatchInv
    <3> QED BY <2>1, <3>1 DEF Held
  <2>2. CASE e # d
    <3>1. act'[e] = act[e] /\ Held(e, act[e], script[e], trouble)
      BY <2>2, HeldIs DEF DispatchInv
    <3>2. (trouble' = 0 => trouble = 0) /\ (trouble > 0 => trouble' > 0)
      BY <1>2
    <3>3. Held(e, act[e], script[e], trouble')
      BY <3>1, <3>2 DEF Held
    <3>4. script'[e] = script[e]
      OBVIOUS
    <3> QED BY <3>1, <3>3, <3>4
  <2> QED BY <2>1, <2>2
<1>4. Unsaid' /\ ReadBeforeJudged' /\ OwnCommandIsOffered'
  BY <1>3 DEF Held, Unsaid, ReadBeforeJudged, OwnCommandIsOffered
<1>5. EventsRead'
  BY DEF DispatchInv, EventsRead
<1> QED BY <1>1, <1>4, <1>5 DEF DispatchInv

LEMMA DispatchBegins == EventsRead /\ DispatchInit => DispatchInv
<1> SUFFICES ASSUME EventsRead, DispatchInit PROVE DispatchInv
  OBVIOUS
<1>1. Unmade \in Goroutine
  BY DEF Unmade, Goroutine
<1>2. act \in [Delivery -> Goroutine] /\ loading \subseteq Team /\ trouble \in 0..MaxTrouble
  BY <1>1, DispatchAssumption DEF DispatchInit
<1>3. TeamsInv
  BY TeamsBegin DEF DispatchInit
<1>4. \A d \in Delivery : act[d] = Unmade
  BY DEF DispatchInit
<1>5. \A d \in Delivery : act[d].at = "none" /\ act[d].reply = "none"
  BY <1>4 DEF Unmade
<1>6. Unsaid /\ ReadBeforeJudged /\ OwnCommandIsOffered
  BY <1>4, <1>5 DEF Unsaid, ReadBeforeJudged, OwnCommandIsOffered
<1> QED BY <1>2, <1>3, <1>6 DEF DispatchInv

\* What the goroutine of a delivery does by itself keeps all of it.
LEMMA GoroutineKeeps ==
  ASSUME DispatchInv, TeamsInv', NEW d \in Delivery, Deliver(d) \/ Step(d) \/ Fault(d)
  PROVE  DispatchInv'
<1> DEFINE e == script[d]
           g == act[d]
<1>1. /\ g \in Goroutine /\ Held(d, g, e, trouble)
      /\ trouble \in 0..MaxTrouble /\ trouble \in Nat /\ MaxTrouble \in Nat /\ loading \subseteq Team
      /\ d \in Asker /\ Team = StandingRoles
  BY HeldIs, DispatchAssumption DEF DispatchInv
<1>2. /\ e.meant # "none" /\ e # NoEvent => e.meant \in Family(e.name) \cup OneWordCommands
      /\ e.bare /\ e # NoEvent => e.meant = "none"
  BY DEF DispatchInv, EventsRead, Readable
<1>3. look[d].at # "idle" => look[d].team \in StandingRoles
  BY <1>1 DEF DispatchInv, TeamsInv, Lookups
<1>4. act \in [Delivery -> Goroutine]
  BY DEF DispatchInv
<1>5. CASE Deliver(d)
  <2> DEFINE new == CASE ~ Accepts(e) -> [g EXCEPT !.at = "dropped"]
                      [] Accepts(e) /\ OnLists(e) ->
                           [g EXCEPT !.at = "posting", !.reply = "on the lists"]
                      [] OTHER -> [g EXCEPT !.at = "roles", !.teams = StandingRoles]
  <2>1. act' = [act EXCEPT ![d] = new] /\ UNCHANGED <<script, loading, trouble>> /\ g.at = "none"
        /\ e # NoEvent
    BY <1>5 DEF Deliver
  <2>2. new \in Goroutine
    BY <1>1 DEF Goroutine, StandingRoles
  <2>3. Held(d, new, e, trouble)
    BY <1>1, <2>1 DEF Held, Goroutine
  <2> HIDE DEF new
  <2> QED BY <1>1, <2>1, <2>2, <2>3, OneDelivery
<1>6. CASE AskTeam(d) \/ RefreshTeams(d)
  <2>1. UNCHANGED <<act, script, loading, trouble>>
    BY <1>6 DEF AskTeam, RefreshTeams, dispatchVars
  <2>2. act' = [act EXCEPT ![d] = g]
    BY <1>4, <2>1
  <2> QED BY <1>1, <2>1, <2>2, OneDelivery
<1>7. CASE HearTeam(d)
  <2> DEFINE new == [g EXCEPT !.teams = g.teams \ {look[d].team},
                       !.roles = IF Has(d, e.author) THEN g.roles \cup {look[d].team} ELSE g.roles]
  <2>1. act' = [act EXCEPT ![d] = new] /\ UNCHANGED <<script, loading, trouble>> /\ g.at = "roles"
    BY <1>1, <1>4, <1>7 DEF HearTeam, Goroutine
  <2>2. look[d].team \in StandingRoles
    BY <1>3, <1>7 DEF HearTeam, Take
  <2>3. new \in Goroutine
    BY <1>1, <2>2 DEF Goroutine, StandingRoles
  <2>4. Held(d, new, e, trouble)
    BY <1>1, <2>1 DEF Held, Goroutine
  <2> HIDE DEF new
  <2> QED BY <1>1, <2>1, <2>3, <2>4, OneDelivery
<1>8. CASE Known(d)
  <2> DEFINE new == [g EXCEPT !.at = IF e.name # "unknown" /\ WantsRecord(e)
                                     THEN "record" ELSE "judging"]
  <2>1. act' = [act EXCEPT ![d] = new] /\ UNCHANGED <<script, loading, trouble>> /\ g.at = "roles"
    BY <1>8 DEF Known
  <2>2. new \in Goroutine
    BY <1>1 DEF Goroutine
  <2>3. Held(d, new, e, trouble)
    BY <1>1, <2>1 DEF Held, Goroutine
  <2> HIDE DEF new
  <2> QED BY <1>1, <2>1, <2>2, <2>3, OneDelivery
<1>9. CASE ReadRecord(d)
  <2> DEFINE new == [g EXCEPT !.at = "judging",
                       !.roles = IF e.author = Recorded THEN g.roles \cup {"assigned codechecker"}
                                 ELSE g.roles]
  <2>1. act' = [act EXCEPT ![d] = new] /\ UNCHANGED <<script, loading, trouble>> /\ g.at = "record"
    BY <1>1, <1>4, <1>9 DEF ReadRecord, Goroutine
  <2>2. new \in Goroutine
    BY <1>1 DEF Goroutine
  <2>3. Held(d, new, e, trouble)
    BY <1>1, <2>1 DEF Held, Goroutine
  <2> HIDE DEF new
  <2> QED BY <1>1, <2>1, <2>2, <2>3, OneDelivery
<1>10. CASE Judge(d)
  <2> DEFINE offers == IF e.name = "unknown" THEN {} ELSE
                       IF e.meant # "none" THEN {c \in {e.meant} : Permits(c, g.roles)}
                       ELSE IF e.bare THEN Children(e.name, g.roles) ELSE {}
             new == IF e.name # "unknown" /\ ~ Permits(e.name, g.roles)
                    THEN [g EXCEPT !.at = "posting", !.reply = "refused"]
                    ELSE IF e.meant # "none"
                    THEN [g EXCEPT !.at = "posting", !.offered = offers,
                                   !.reply = IF offers # {} THEN "hint" ELSE "typo"]
                    ELSE [g EXCEPT !.at = "running", !.offered = offers]
  <2>1. act' = [act EXCEPT ![d] = new] /\ UNCHANGED <<script, loading, trouble>> /\ g.at = "judging"
    BY <1>10 DEF Judge
  <2>2. offers \subseteq Commands
    <3>1. \A name : Family(name) \subseteq Commands
      BY DEF Family, Commands, EditorsCommands, AnyonesCommands
    <3>2. e # NoEvent => e \in Event
      BY DEF DispatchInv, EventsRead
    <3>3. e # NoEvent /\ e.meant # "none" => e.meant \in Commands
      BY <3>2 DEF Event
    <3>4. e # NoEvent
      BY ZenonT(40), <1>1, <2>1 DEF Held
    <3> QED BY <3>1, <3>3, <3>4 DEF Children
  <2>3. new \in Goroutine
    BY <1>1, <2>2 DEF Goroutine
  <2>4. Held(d, new, e, trouble)
    <3> SUFFICES ASSUME e.author = Recorded, trouble = 0
                 PROVE  /\ e.name = "check start" => new.reply # "refused"
                        /\ e.name = "check" /\ e.bare => "check start" \in new.offered
                        /\ e.meant = "check start" => new.reply = "hint"
      <4>1. /\ new.at \in {"posting", "running"}
            /\ new.at = "running" => new.reply = "none"
        BY <1>1, <2>1 DEF Held, Goroutine
      <4>2. e # NoEvent
        BY <1>1, <2>1 DEF Held
      <4> HIDE DEF new
      <4> QED BY <4>1, <4>2 DEF Held
    <3>1. e # NoEvent
      BY <1>1, <2>1 DEF Held
    <3>2. e.name # "unknown" /\ WantsRecord(e) => "assigned codechecker" \in g.roles
      BY <1>1, <2>1 DEF Held
    <3>3. CASE e.name = "check start"
      <4>1. "assigned codechecker" \in g.roles
        BY <3>2, <3>3, OwnCommand DEF WantsRecord
      <4>2. Permits(e.name, g.roles)
        BY <3>3, <4>1, OwnCommand
      <4>3. e.meant # "check start"
        BY <1>2, <3>1, <3>3, OwnCommand
      <4>4. new.reply # "refused"
        BY <1>1, <2>1, <4>2 DEF Held, Goroutine
      <4> QED BY <3>3, <4>3, <4>4
    <3>4. CASE e.name = "check" /\ (e.bare \/ e.meant = "check start")
      <4>1. "assigned codechecker" \in g.roles
        BY <3>2, <3>4, OwnCommand DEF WantsRecord
      <4>2. Permits(e.name, g.roles) /\ Permits("check start", g.roles)
            /\ "check start" \in Children("check", g.roles)
        BY <3>4, <4>1, OwnCommand
      <4>3. CASE e.bare
        <5>1. e.meant = "none"
          BY <1>2, <3>1, <4>3
        <5>2. new.offered = Children("check", g.roles)
          BY <1>1, <3>4, <4>2, <4>3, <5>1 DEF Goroutine
        <5> QED BY <3>4, <4>2, <5>1, <5>2
      <4>4. CASE e.meant = "check start" /\ ~ e.bare
        <5>1. "check start" \in offers
          BY <3>4, <4>2, <4>4
        <5>2. new.reply = "hint"
          BY <1>1, <3>4, <4>2, <4>4, <5>1 DEF Goroutine
        <5> QED BY <3>4, <4>4, <5>2
      <4> QED BY <3>4, <4>3, <4>4
    <3>5. e.meant = "check start" => e.name = "check"
      BY <1>2, <3>1, OwnCommand
    <3> QED BY <3>3, <3>4, <3>5
  <2> HIDE DEF new
  <2> QED BY <1>1, <2>1, <2>3, <2>4, OneDelivery
<1>11. CASE Refreshed(d)
  <2> DEFINE new == [g EXCEPT !.teams = g.teams \cup {look[d].team}]
  <2>1. act' = [act EXCEPT ![d] = new] /\ UNCHANGED <<script, loading, trouble>>
        /\ g.at = "running"
    BY <1>1, <1>4, <1>11 DEF Refreshed, Goroutine
  <2>2. look[d].team \in StandingRoles
    BY <1>3, <1>11 DEF Refreshed, Take
  <2>3. new \in Goroutine
    BY <1>1, <2>2 DEF Goroutine
  <2>4. Held(d, new, e, trouble)
    BY <1>1, <2>1 DEF Held, Goroutine
  <2> HIDE DEF new
  <2> QED BY <1>1, <2>1, <2>3, <2>4, OneDelivery
<1>12. CASE Answer(d)
  <2> DEFINE new == [g EXCEPT !.at = "posting", !.reply = "answered"]
  <2>1. act' = [act EXCEPT ![d] = new] /\ UNCHANGED <<script, loading, trouble>>
        /\ g.at = "running"
    BY <1>12 DEF Answer
  <2>2. new \in Goroutine
    BY <1>1 DEF Goroutine
  <2>3. Held(d, new, e, trouble)
    BY <1>1, <2>1 DEF Held, Goroutine
  <2> HIDE DEF new
  <2> QED BY <1>1, <2>1, <2>2, <2>3, OneDelivery
<1>13. CASE Post(d)
  <2> DEFINE new == [g EXCEPT !.at = "done"]
  <2>1. act' = [act EXCEPT ![d] = new] /\ UNCHANGED <<script, loading, trouble>>
        /\ g.at = "posting"
    BY <1>1, <1>4, <1>13 DEF Post
  <2>2. new \in Goroutine
    BY <1>1 DEF Goroutine
  <2>3. Held(d, new, e, trouble)
    BY <1>1, <2>1 DEF Held, Goroutine
  <2> HIDE DEF new
  <2> QED BY <1>1, <2>1, <2>2, <2>3, OneDelivery
<1>14. CASE ReportPanic(d) \/ Apologise(d)
  <2> DEFINE new(at) == [g EXCEPT !.at = at]
  <2>1. PICK at \in {"done", "apologising"} :
          /\ act' = [act EXCEPT ![d] = new(at)] /\ UNCHANGED <<script, loading, trouble>>
          /\ g.at \in {"panicked", "apologising"}
    BY <1>1, <1>4, <1>14 DEF ReportPanic, Apologise
  <2>2. new(at) \in Goroutine
    BY <1>1 DEF Goroutine
  <2>3. trouble > 0 /\ trouble # 0 /\ e # NoEvent
    <3>1. trouble > 0 /\ e # NoEvent
      BY <1>1, <2>1 DEF Held
    <3> QED BY <1>1, <3>1
  <2>4. new(at).at = at
    BY <1>1 DEF Goroutine
  <2>5. Held(d, new(at), e, trouble)
    BY <2>1, <2>3, <2>4 DEF Held
  <2> HIDE DEF new
  <2> QED BY <1>1, <2>1, <2>2, <2>5, OneDelivery
<1>15. CASE Fault(d)
  <2> DEFINE new(at) == [g EXCEPT !.at = at]
  <2>1. PICK at \in {"judging", "lost", "panicked"} :
          /\ act' = [act EXCEPT ![d] = new(at)] /\ UNCHANGED <<script, loading>>
          /\ trouble < MaxTrouble /\ trouble' = trouble + 1
          /\ g.at \in {"record", "posting", "running"}
          /\ at = "judging" => g.at = "record"
    BY <1>1, <1>4, <1>15 DEF Fault, RecordUnread, PostFails, Panic
  <2>2. new(at) \in Goroutine
    BY <1>1 DEF Goroutine
  <2>3. trouble' > 0 /\ trouble' # 0 /\ trouble' \in 0..MaxTrouble
    BY <1>1, <2>1
  <2>4. new(at).at = at /\ new(at).reply = g.reply
    BY <1>1 DEF Goroutine
  <2>5. e # NoEvent /\ (g.at = "record" => g.reply = "none")
    BY <1>1, <2>1 DEF Held
  <2>6. Held(d, new(at), e, trouble')
    BY <2>1, <2>3, <2>4, <2>5 DEF Held
  <2> HIDE DEF new
  <2> QED BY <1>1, <2>1, <2>2, <2>3, <2>6, OneDelivery
<1> QED BY <1>5, <1>6, <1>7, <1>8, <1>9, <1>10, <1>11, <1>12, <1>13, <1>14, <1>15 DEF Step

\* So does what a lookup, the load at startup, a restart and the clock do.
LEMMA ProcessKeeps ==
  ASSUME DispatchInv, TeamsInv',
         \/ \E a \in Asker : TeamStep(a) \/ TeamUnread(a)
         \/ Load \/ Loaded \/ Restart \/ Environment
         \/ UNCHANGED <<teamVars, dispatchVars>>
  PROVE  DispatchInv'
<1>1. trouble \in Nat /\ MaxTrouble \in Nat /\ trouble \in 0..MaxTrouble
  BY DispatchAssumption DEF DispatchInv
<1>2. CASE /\ UNCHANGED <<script, act>> /\ loading' \subseteq Team
           /\ \/ trouble' = trouble
              \/ trouble < MaxTrouble /\ trouble' = trouble + 1
  <2>1. trouble' \in 0..MaxTrouble /\ (trouble' = 0 => trouble = 0) /\ (trouble > 0 => trouble' > 0)
    BY <1>1, <1>2
  <2>2. ASSUME NEW d \in Delivery PROVE Held(d, act[d], script[d], trouble')
    <3>1. Held(d, act[d], script[d], trouble)
      BY HeldIs DEF DispatchInv
    <3> QED BY <2>1, <3>1 DEF Held
  <2>3. Unsaid' /\ ReadBeforeJudged' /\ OwnCommandIsOffered'
    BY <1>2, <2>2 DEF Held, Unsaid, ReadBeforeJudged, OwnCommandIsOffered
  <2> QED BY <1>2, <2>1, <2>3 DEF DispatchInv, EventsRead
<1>3. CASE Restart
  <2>1. /\ act' = [d \in Delivery |-> IF InFlight(d) THEN [act[d] EXCEPT !.at = "lost"] ELSE act[d]]
        /\ loading' = Team /\ script' = script /\ trouble < MaxTrouble /\ trouble' = trouble + 1
    BY <1>3 DEF Restart
  <2>2. trouble' \in 0..MaxTrouble /\ trouble' # 0 /\ trouble' > 0
    BY <1>1, <2>1
  <2>3. ASSUME NEW d \in Delivery
        PROVE  act'[d] \in Goroutine /\ Held(d, act'[d], script'[d], trouble')
    <3>1. act[d] \in Goroutine /\ Held(d, act[d], script[d], trouble)
      BY HeldIs DEF DispatchInv
    <3>2. CASE InFlight(d)
      <4>1. act'[d] = [act[d] EXCEPT !.at = "lost"]
        BY <2>1, <3>2
      <4>2. act'[d] \in Goroutine /\ act'[d].at = "lost"
        BY <3>1, <4>1 DEF Goroutine
      <4>3. script[d] # NoEvent
        BY <3>1, <3>2 DEF Held, InFlight
      <4> QED BY <2>1, <2>2, <4>2, <4>3 DEF Held
    <3>3. CASE ~ InFlight(d)
      <4>1. act'[d] = act[d] /\ script'[d] = script[d]
        BY <2>1, <3>3
      <4>2. Held(d, act[d], script[d], trouble')
        BY <2>2, <3>1 DEF Held
      <4> QED BY <3>1, <4>1, <4>2
    <3> QED BY <3>2, <3>3
  <2>4. act' \in [Delivery -> Goroutine]
    BY <2>1, <2>3
  <2>5. Unsaid' /\ ReadBeforeJudged' /\ OwnCommandIsOffered'
    BY <2>3 DEF Held, Unsaid, ReadBeforeJudged, OwnCommandIsOffered
  <2> QED BY <2>1, <2>2, <2>4, <2>5 DEF DispatchInv, EventsRead
<1>4. (\E a \in Asker : TeamStep(a) \/ TeamUnread(a)) \/ Load \/ Loaded \/ Environment
      \/ UNCHANGED <<teamVars, dispatchVars>>
      => /\ UNCHANGED <<script, act>> /\ loading' \subseteq Team
         /\ \/ trouble' = trouble
            \/ trouble < MaxTrouble /\ trouble' = trouble + 1
  BY DEF TeamStep, TeamUnread, Load, Loaded, Environment, dispatchVars, DispatchInv
<1> QED BY <1>2, <1>3, <1>4

\* The inductive invariant of the dispatch: its types, and that a command whose
\* answer may turn on the record is judged with it.
LEMMA DispatchInvariance == EventsRead /\ DispatchSpec => []DispatchInv
<1>1. DispatchInv /\ [DispatchNext]_<<teamVars, dispatchVars>> => DispatchInv'
  <2> SUFFICES ASSUME DispatchInv, [DispatchNext]_<<teamVars, dispatchVars>> PROVE DispatchInv'
    OBVIOUS
  <2>1. TeamsInv'
    BY DispatchStep, TeamsKeep DEF DispatchInv
  <2> QED BY <2>1, GoroutineKeeps, ProcessKeeps DEF DispatchNext
<1> QED BY <1>1, DispatchBegins, PTL DEF DispatchSpec

\* Deliveries, lookups and the load at startup keep their types.
THEOREM DispatchTypes == EventsRead /\ DispatchSpec => []DispatchTypeOK
<1>1. DispatchInv => DispatchTypeOK
  BY DEF DispatchInv, EventsRead, TeamsInv, DispatchTypeOK
<1> QED BY <1>1, DispatchInvariance, PTL

\* The codechecker of a check is not kept from their own command by anything
\* but a fault, whatever events arrive and however their lookups interleave
\* (Server.checkRoles, misspelt, run).
THEOREM OwnCommandsAreOffered == EventsRead /\ DispatchSpec => []OwnCommandIsOffered
<1>1. DispatchInv => OwnCommandIsOffered
  BY DEF DispatchInv
<1> QED BY <1>1, DispatchInvariance, PTL

-----------------------------------------------------------------------------
(***************************************************************************)
(* What `check links` says of a link is what its site says, for any links, *)
(* sites, places and deadlines.  The argument is one goroutine's: a link   *)
(* is asked only if it may be, the DOI system is asked with a GET, and     *)
(* whoever is done has a sound verdict; the command waits for them all.    *)
(***************************************************************************)

Before == {"idle", "collecting", "collected"}
Underway == {"queued", "has site", "head", "get"}

\* No goroutine runs before the links are all collected, and a deposit to be
\* read is in neither list yet.
NoneBefore ==
  /\ stage \in Before => \A l \in Link : worker[l] = "none"
  /\ stage # "idle" \/ toRead = {}
  /\ toRead \cap (read \cup unread) = {}

\* Every link found has its goroutine, which runs only for a link that may be
\* asked, and asks the DOI system with a GET.
OneForEach ==
  /\ stage \notin Before => \A l \in found : worker[l] # "none"
  /\ \A l \in Link :
       /\ worker[l] \in Underway => world.online /\ ~ Skipped(l)
       /\ worker[l] = "head" => l \notin IsDOI
  /\ stage = "told" => \A l \in Link : worker[l] \in {"none", "done"}

\* What may be said of a link.
Sound(l) ==
  LET final == LinkOutcome(world.get[l])
      first == IF l \in IsDOI \/ world.head[l] = "gone" THEN final
               ELSE LinkOutcome(world.head[l])
  IN \/ verdict[l] \in {first, final} /\ world.online /\ ~ Skipped(l)
     \/ verdict[l] = "out of time" /\ timeIsUp
     \/ verdict[l] = "offline" /\ ~ world.online
     \/ verdict[l] = "skipped host" /\ Skipped(l)

WhoIsDoneIsSound == \A l \in Link : worker[l] = "done" => Sound(l)

LinksInv == LinksTypeOK /\ NoneBefore /\ OneForEach /\ WhoIsDoneIsSound

LEMMA AnOutcome ==
  ASSUME NEW answer
  PROVE  LinkOutcome(answer) \in {"answers", "gone", "could not say"}
BY DEF LinkOutcome

LEMMA LinksBegin == LinksInit => LinksInv
<1> SUFFICES ASSUME LinksInit PROVE LinksInv
  OBVIOUS
<1>1. LinksTypeOK
  BY LinksAssumption DEF LinksInit, LinksTypeOK
<1>2. NoneBefore
  BY DEF LinksInit, NoneBefore
<1>3. OneForEach /\ WhoIsDoneIsSound
  BY DEF LinksInit, OneForEach, WhoIsDoneIsSound, Before, Underway
<1> QED BY <1>1, <1>2, <1>3 DEF LinksInv

\* A step of the goroutine of one link, as the others see it: it ends in one
\* of its own places, and nobody else's verdict changes.
OneLink(l) ==
  /\ worker' \in [Link -> {"none", "queued", "has site", "head", "get", "done"}]
  /\ verdict' \in [Link -> Outcomes \cup {"none"}]
  /\ \A k \in Link \ {l} : worker'[k] = worker[k] /\ verdict'[k] = verdict[k]
  /\ UNCHANGED <<world, stage, found, read, unread, toRead, notice, timeIsUp>>

LEMMA OneLinkMoves ==
  ASSUME LinksInv, NEW l \in Link, OneLink(l), worker[l] \in Underway,
         worker'[l] \in Underway \cup {"done"},
         worker'[l] = "head" => l \notin IsDOI,
         worker'[l] = "done" => Sound(l)'
  PROVE  LinksInv'
<1>s. stage \notin Before /\ stage # "told"
  BY DEF LinksInv, NoneBefore, OneForEach, Underway
<1>1. LinksTypeOK'
  BY DEF LinksInv, LinksTypeOK, OneLink
<1>2. NoneBefore'
  BY <1>s DEF LinksInv, NoneBefore, OneLink
<1>3. OneForEach'
  <2>1. \A k \in found : worker'[k] # "none"
    <3>1. found \subseteq Link /\ \A k \in found : worker[k] # "none"
      BY <1>s DEF LinksInv, LinksTypeOK, OneForEach
    <3> QED BY <3>1 DEF OneLink, Underway
  <2>2. ASSUME NEW k \in Link
        PROVE  /\ worker'[k] \in Underway => world.online /\ ~ Skipped(k)
               /\ worker'[k] = "head" => k \notin IsDOI
    BY DEF LinksInv, OneForEach, OneLink
  <2> QED BY <1>s, <2>1, <2>2 DEF OneForEach, OneLink, Skipped
<1>4. WhoIsDoneIsSound'
  <2> SUFFICES ASSUME NEW k \in Link, worker'[k] = "done" PROVE Sound(k)'
    BY DEF WhoIsDoneIsSound
  <2>1. CASE k # l
    <3>1. Sound(k)
      BY <2>1 DEF LinksInv, WhoIsDoneIsSound, OneLink
    <3> QED BY <2>1, <3>1 DEF OneLink, Sound, Skipped, LinkOutcome
  <2> QED BY <2>1
<1> QED BY <1>1, <1>2, <1>3, <1>4 DEF LinksInv

\* A goroutine ends with the site's answer, or with the run.
LEMMA AnswerIsHeard ==
  ASSUME LinksInv, NEW l \in Link, worker[l] \in {"head", "get"},
         NEW answer \in Answers, Heard(l, answer),
         UNCHANGED <<world, stage, found, read, unread, toRead, notice, timeIsUp>>,
         \/ worker[l] = "get" /\ answer = world.get[l]
         \/ worker[l] = "head" /\ answer = world.head[l] /\ answer \notin AskAgain
         \/ answer \in NoAnswer /\ timeIsUp
  PROVE  LinksInv'
<1> DEFINE outcome == IF answer \in NoAnswer /\ timeIsUp THEN "out of time"
                      ELSE LinkOutcome(answer)
<1>1. outcome \in Outcomes
  BY AnOutcome DEF Outcomes
<1>2. /\ worker \in [Link -> {"none", "queued", "has site", "head", "get", "done"}]
      /\ verdict \in [Link -> Outcomes \cup {"none"}]
  BY DEF LinksInv, LinksTypeOK
<1>3. worker' = [worker EXCEPT ![l] = "done"] /\ verdict' = [verdict EXCEPT ![l] = outcome]
  BY DEF Heard, Stop
<1> HIDE DEF outcome
<1>4. OneLink(l) /\ worker'[l] = "done" /\ verdict'[l] = outcome
  BY <1>1, <1>2, <1>3 DEF OneLink
<1>5. world.online /\ ~ Skipped(l) /\ (worker[l] = "head" => l \notin IsDOI)
  BY DEF LinksInv, OneForEach, Underway
<1>6. Sound(l)'
  <2>1. CASE answer \in NoAnswer /\ timeIsUp
    BY <1>4, <2>1 DEF Sound, outcome
  <2>2. CASE worker[l] = "get" /\ answer = world.get[l] /\ ~ (answer \in NoAnswer /\ timeIsUp)
    BY <1>4, <1>5, <2>2 DEF Sound, outcome, Skipped, LinkOutcome
  <2>3. CASE /\ worker[l] = "head" /\ answer = world.head[l] /\ answer \notin AskAgain
             /\ ~ (answer \in NoAnswer /\ timeIsUp)
    BY <1>4, <1>5, <2>3 DEF Sound, outcome, Skipped, LinkOutcome, AskAgain
  <2> QED BY <2>1, <2>2, <2>3
<1> QED BY <1>4, <1>6, OneLinkMoves DEF Underway

LEMMA LinkStepKeeps ==
  ASSUME LinksInv, NEW l \in Link, LinkStep(l)
  PROVE  LinksInv'
<1>t. /\ worker \in [Link -> {"none", "queued", "has site", "head", "get", "done"}]
      /\ verdict \in [Link -> Outcomes \cup {"none"}]
      /\ world.head[l] \in Answers /\ world.get[l] \in Answers
  BY DEF LinksInv, LinksTypeOK, World
<1>1. CASE TakeSite(l)
  <2>1. OneLink(l) /\ worker[l] = "queued" /\ worker'[l] = "has site"
    BY <1>t, <1>1 DEF TakeSite, OneLink
  <2> QED BY <2>1, OneLinkMoves DEF Underway
<1>2. CASE TakePlace(l)
  <2>1. OneLink(l) /\ worker[l] = "has site" /\ worker'[l] = IF l \in IsDOI THEN "get" ELSE "head"
    BY <1>t, <1>2 DEF TakePlace, OneLink
  <2> QED BY <2>1, OneLinkMoves DEF Underway
<1>3. CASE GiveUpWaiting(l)
  <2>1. /\ OneLink(l) /\ worker[l] \in {"queued", "has site"} /\ worker'[l] = "done"
        /\ verdict'[l] = "out of time" /\ timeIsUp'
    BY <1>t, <1>3 DEF GiveUpWaiting, Stop, OneLink, Outcomes
  <2>2. Sound(l)'
    BY <2>1 DEF Sound
  <2> QED BY <2>1, <2>2, OneLinkMoves DEF Underway
<1>4. CASE HearHead(l)
  <2>1. CASE world.head[l] \in AskAgain
    <3>1. OneLink(l) /\ worker[l] = "head" /\ worker'[l] = "get"
      BY <1>t, <1>4, <2>1 DEF HearHead, OneLink
    <3> QED BY <3>1, OneLinkMoves DEF Underway
  <2>2. CASE world.head[l] \notin AskAgain
    BY <1>t, <1>4, <2>2, AnswerIsHeard DEF HearHead
  <2> QED BY <2>1, <2>2
<1>5. CASE HearGet(l)
  BY <1>t, <1>5, AnswerIsHeard DEF HearGet
<1>6. CASE CutOff(l)
  <2>1. "timeout" \in Answers \cap NoAnswer
    BY DEF Answers, NoAnswer
  <2> QED BY <1>6, <2>1, AnswerIsHeard DEF CutOff, Asking
<1> QED BY <1>1, <1>2, <1>3, <1>4, <1>5, <1>6 DEF LinkStep

\* The steps before there is a goroutine, which leave every link alone.
LEMMA NobodyIsAskedYet ==
  ASSUME LinksInv, LinksTypeOK', UNCHANGED <<worker, verdict>>,
         stage \in Before, stage' \in Before \ {"idle"}, toRead' \cap (read' \cup unread') = {}
  PROVE  LinksInv'
<1>1. \A l \in Link : worker'[l] = "none"
  BY DEF LinksInv, NoneBefore
<1>2. NoneBefore'
  BY <1>1 DEF NoneBefore
<1>3. OneForEach' /\ WhoIsDoneIsSound'
  BY <1>1 DEF OneForEach, WhoIsDoneIsSound, Underway, Before
<1> QED BY <1>2, <1>3 DEF LinksInv

LEMMA CollectKeeps == LinksInv /\ Collect => LinksInv'
<1> SUFFICES ASSUME LinksInv, Collect PROVE LinksInv'
  OBVIOUS
<1>1. /\ stage = "idle" /\ stage' = "collecting"
      /\ UNCHANGED <<world, notice, worker, verdict, timeIsUp>>
  BY DEF Collect
<1>2. read' \subseteq Place /\ unread' \subseteq Place \ read'
  BY DEF Collect
<1>3. found' \subseteq Link /\ toRead' \subseteq Deposit
  BY LinksAssumption DEF Collect, Source
<1>4. toRead' \cap (read' \cup unread') = {}
  BY <1>2, <1>3, LinksAssumption
<1>5. LinksTypeOK'
  BY <1>1, <1>2, <1>3 DEF LinksInv, LinksTypeOK, Source
<1> QED BY <1>1, <1>4, <1>5, NobodyIsAskedYet DEF Before

LEMMA ReadDepositKeeps ==
  ASSUME LinksInv, NEW d \in Deposit, ReadDeposit(d)
  PROVE  LinksInv'
<1>1. /\ stage = "collecting" /\ d \in toRead /\ toRead' = toRead \ {d}
      /\ UNCHANGED <<world, stage, notice, worker, verdict, timeIsUp>>
  BY DEF ReadDeposit
<1>2. /\ read' \subseteq read \cup {d} /\ unread' \subseteq unread \cup {d}
      /\ d \notin read' \cap unread' /\ found' \subseteq found \cup LinksIn[d]
  BY <1>1 DEF ReadDeposit, LinksInv, NoneBefore
<1>3. LinksIn[d] \subseteq Link
  BY LinksAssumption DEF Source
<1>4. LinksTypeOK'
  BY <1>1, <1>2, <1>3 DEF LinksInv, LinksTypeOK, Source
<1>5. toRead' \cap (read' \cup unread') = {}
  BY <1>1, <1>2 DEF LinksInv, NoneBefore
<1> QED BY <1>1, <1>4, <1>5, NobodyIsAskedYet DEF Before

LEMMA NoticeKeeps == LinksInv /\ Notice => LinksInv'
<1> SUFFICES ASSUME LinksInv, Notice PROVE LinksInv'
  OBVIOUS
<1>1. /\ stage = "collecting" /\ stage' = "collected" /\ notice' \in {notice, "posted"}
      /\ UNCHANGED <<world, found, read, unread, toRead, worker, verdict, timeIsUp>>
  BY DEF Notice
<1>2. LinksTypeOK'
  BY <1>1 DEF LinksInv, LinksTypeOK
<1>3. toRead' \cap (read' \cup unread') = {}
  BY <1>1 DEF LinksInv, NoneBefore
<1> QED BY <1>1, <1>2, <1>3, NobodyIsAskedYet DEF Before

LEMMA ProbeKeeps == LinksInv /\ Probe => LinksInv'
<1> SUFFICES ASSUME LinksInv, Probe PROVE LinksInv'
  OBVIOUS
<1>1. /\ stage = "collected" /\ stage' = "probing"
      /\ UNCHANGED <<world, found, read, unread, toRead, notice, timeIsUp>>
  BY DEF Probe
<1>2. /\ worker' \in [Link -> {"none", "queued", "done"}]
      /\ verdict' \in [Link -> Outcomes \cup {"none"}]
  BY DEF Probe, Outcomes
<1>3. \A l \in Link :
        /\ worker'[l] # "none" <=> l \in found
        /\ worker'[l] = "queued" => world.online /\ ~ Skipped(l)
  BY DEF Probe
<1>4. \A l \in Link : worker'[l] = "done" =>
        \/ verdict'[l] = "skipped host" /\ Skipped(l)
        \/ verdict'[l] = "offline" /\ ~ world.online
  BY DEF Probe
<1>5. LinksTypeOK'
  BY <1>1, <1>2 DEF LinksInv, LinksTypeOK
<1>6. found \subseteq Link /\ NoneBefore'
  BY <1>1 DEF LinksInv, LinksTypeOK, NoneBefore, Before
<1>7. OneForEach'
  BY <1>1, <1>2, <1>3, <1>6 DEF OneForEach, Skipped, Underway
<1>8. WhoIsDoneIsSound'
  BY <1>1, <1>4 DEF WhoIsDoneIsSound, Sound, Skipped
<1> QED BY <1>5, <1>6, <1>7, <1>8 DEF LinksInv

LEMMA TimeKeeps == LinksInv /\ (TimeIsUp \/ Report) => LinksInv'
<1> SUFFICES ASSUME LinksInv, TimeIsUp \/ Report PROVE LinksInv'
  OBVIOUS
<1>1. /\ stage = "probing" /\ stage' \in {"probing", "told"} /\ timeIsUp' \in {timeIsUp, TRUE}
      /\ UNCHANGED <<world, found, read, unread, toRead, notice, worker, verdict>>
  BY DEF TimeIsUp, Report
<1>2. LinksTypeOK'
  BY <1>1 DEF LinksInv, LinksTypeOK
<1>3. NoneBefore'
  BY <1>1 DEF LinksInv, NoneBefore, Before
<1>4. OneForEach'
  <2>1. stage' = "told" => \A l \in Link : worker[l] \in {"none", "done"}
    BY DEF TimeIsUp, Report
  <2> QED BY <1>1, <2>1 DEF LinksInv, OneForEach, Before, Skipped
<1>5. WhoIsDoneIsSound'
  <2>1. timeIsUp => timeIsUp'
    BY DEF TimeIsUp, Report
  <2> SUFFICES ASSUME NEW l \in Link, worker[l] = "done" PROVE Sound(l)'
    BY <1>1 DEF WhoIsDoneIsSound
  <2>2. Sound(l)
    BY DEF LinksInv, WhoIsDoneIsSound
  <2> QED BY <1>1, <2>1, <2>2 DEF Sound, Skipped, LinkOutcome
<1> QED BY <1>2, <1>3, <1>4, <1>5 DEF LinksInv

LEMMA LinksKeep == LinksInv /\ [LinksNext]_linkVars => LinksInv'
<1> SUFFICES ASSUME LinksInv, [LinksNext]_linkVars PROVE LinksInv'
  OBVIOUS
<1>1. CASE UNCHANGED linkVars
  <2>1. LinksTypeOK' /\ NoneBefore' /\ OneForEach'
    BY <1>1 DEF linkVars, LinksInv, LinksTypeOK, NoneBefore, OneForEach, Skipped
  <2>2. WhoIsDoneIsSound'
    BY <1>1 DEF linkVars, LinksInv, WhoIsDoneIsSound, Sound, Skipped, LinkOutcome
  <2> QED BY <2>1, <2>2 DEF LinksInv
<1>2. CASE LinksNext
  BY <1>2, CollectKeeps, ReadDepositKeeps, NoticeKeeps, ProbeKeeps, TimeKeeps, LinkStepKeeps
  DEF LinksNext, LinksWork
<1> QED BY <1>1, <1>2

\* A run of `check links` keeps its types (internal/check/links.go).
THEOREM LinksTypes == LinksSpec => []LinksTypeOK
<1>1. LinksInit => LinksInv
  BY LinksBegin
<1>2. LinksInv /\ [LinksNext]_linkVars => LinksInv'
  BY LinksKeep
<1>3. LinksInv => LinksTypeOK
  BY DEF LinksInv
<1> QED BY <1>1, <1>2, <1>3, PTL DEF LinksSpec

\* A link is called dead, alive or unclear only by what its site says, however
\* the places and the deadline were shared out (probe, outcome in links.go).
THEOREM LinksVerdicts == LinksSpec => []VerdictIsTheSites
<1>1. LinksInit => LinksInv
  BY LinksBegin
<1>2. LinksInv /\ [LinksNext]_linkVars => LinksInv'
  BY LinksKeep
<1>3. LinksInv => VerdictIsTheSites
  <2> SUFFICES ASSUME LinksInv, stage = "told", NEW l \in found
               PROVE  LET final == LinkOutcome(world.get[l])
                          first == IF l \in IsDOI \/ world.head[l] = "gone" THEN final
                                   ELSE LinkOutcome(world.head[l])
                      IN CASE verdict[l] \in {"answers", "gone", "could not say"} ->
                                verdict[l] \in {first, final} /\ world.online /\ ~ Skipped(l)
                           [] verdict[l] = "out of time" -> timeIsUp
                           [] verdict[l] = "offline" -> ~ world.online
                           [] verdict[l] = "skipped host" -> Skipped(l)
                           [] OTHER -> FALSE
    BY DEF VerdictIsTheSites
  <2>1. l \in Link /\ worker[l] = "done"
    BY DEF LinksInv, LinksTypeOK, OneForEach, Before
  <2>2. Sound(l)
    BY <2>1 DEF LinksInv, WhoIsDoneIsSound
  <2> QED BY <2>2, AnOutcome DEF Sound
<1> QED BY <1>1, <1>2, <1>3, PTL DEF LinksSpec

-----------------------------------------------------------------------------
(***************************************************************************)
(* A certificate is announced once, as far as the account is searched, for *)
(* any number of commands, texts, failed requests, deletions and newer     *)
(* toots.  What makes it so is in two places that do not know of each      *)
(* other: a command that finds a toot does not post, and the instance      *)
(* keeps one toot per key for as long as a command that had looked before  *)
(* it was posted may still run.                                            *)
(***************************************************************************)

Building == {"animated", "uploaded", "posting again"}

\* A command that has composed its toot has a text, and one that goes on to
\* build and post it found no toot.
BuildersSawNone ==
  \A d \in Announcer :
    /\ ann[d].at \in Building \cup {"composed"} => ann[d].text \in 1..Editions
    /\ ann[d].at \in Building => ann[d].seen = "none"

\* Who found none looked before a toot was posted, or while it was out of sight.
NoneWasFound ==
  \A d \in Announcer : ann[d].seen = "none" =>
    \A i \in 1..Len(toots) : d \in toots[i].early \cup toots[i].missed

\* A key outlives the commands that had looked before its toot.
KeysAreKept ==
  \A i \in 1..Len(toots) : \A d \in toots[i].early : ann[d].at # "told" => toots[i].kept

AnnounceInv == AnnounceTypeOK /\ BuildersSawNone /\ NoneWasFound /\ KeysAreKept /\ AnnouncedOnce

LEMMA AnnounceStages ==
  /\ "reading" \in Stage /\ "composed" \in Stage /\ "animated" \in Stage
  /\ "uploaded" \in Stage /\ "posting again" \in Stage /\ "told" \in Stage
BY DEF Stage

LEMMA QuietIsACommand == Quiet \in Command
BY AnnounceAssumption DEF Quiet, Command, Stage

LEMMA AnnounceBegins == AnnounceInit => AnnounceInv
<1> SUFFICES ASSUME AnnounceInit PROVE AnnounceInv
  OBVIOUS
<1>1. toots = << >> /\ toots \in Seq(Toot) /\ Len(toots) = 0 /\ DOMAIN toots = {}
  BY DEF AnnounceInit
<1>2. AnnounceTypeOK
  BY <1>1, QuietIsACommand, AnnounceAssumption DEF AnnounceInit, AnnounceTypeOK
<1>3. BuildersSawNone
  BY DEF AnnounceInit, BuildersSawNone, Building, Quiet
<1>4. NoneWasFound /\ KeysAreKept /\ AnnouncedOnce
  BY <1>1 DEF NoneWasFound, KeysAreKept, AnnouncedOnce
<1> QED BY <1>2, <1>3, <1>4 DEF AnnounceInv

LEMMA TootsAre ==
  ASSUME AnnounceInv
  PROVE  /\ toots \in Seq(Toot) /\ Len(toots) \in Nat /\ DOMAIN toots = 1..Len(toots)
         /\ \A i \in 1..Len(toots) : toots[i] \in Toot
<1>1. toots \in Seq(Toot)
  BY DEF AnnounceInv, AnnounceTypeOK
<1> QED BY <1>1

\* The step of one command, as the others see it.
Only(d) == ann' \in [Announcer -> Command] /\ \A e \in Announcer \ {d} : ann'[e] = ann[e]

\* A step of d that posts nothing keeps the invariant as long as d keeps its
\* own part of it.
LEMMA NothingPosted ==
  ASSUME AnnounceInv, NEW d \in Announcer, Only(d),
         toots' = toots, edition' = edition, amiss' \in 0..MaxAmiss,
         ann'[d].at \in Building \cup {"composed"} => ann'[d].text \in 1..Editions,
         ann'[d].at \in Building => ann'[d].seen = "none",
         ann'[d].seen = "none" => ann[d].seen = "none",
         ann[d].at # "told"
  PROVE  AnnounceInv'
<1>1. AnnounceTypeOK'
  BY DEF AnnounceInv, AnnounceTypeOK, Only
<1>2. BuildersSawNone'
  BY DEF AnnounceInv, BuildersSawNone, Only
<1>3. NoneWasFound'
  BY DEF AnnounceInv, NoneWasFound, Only
<1>4. KeysAreKept'
  <2> SUFFICES ASSUME NEW i \in 1..Len(toots), NEW e \in toots[i].early, ann'[e].at # "told"
               PROVE  toots[i].kept
    BY DEF KeysAreKept
  <2>1. e \in Announcer
    BY TootsAre DEF Toot
  <2>2. ann[e].at # "told"
    BY <2>1 DEF Only
  <2> QED BY <2>2 DEF AnnounceInv, KeysAreKept
<1>5. AnnouncedOnce'
  BY DEF AnnounceInv, AnnouncedOnce
<1> QED BY <1>1, <1>2, <1>3, <1>4, <1>5 DEF AnnounceInv

\* What becomes of the toots there are changes nothing about who posted them.
LEMMA SameToots ==
  ASSUME AnnounceInv, toots' \in Seq(Toot), Len(toots') = Len(toots),
         \A i \in 1..Len(toots) : /\ toots'[i].by = toots[i].by /\ toots'[i].text = toots[i].text
                                  /\ toots'[i].early = toots[i].early
                                  /\ toots[i].missed \subseteq toots'[i].missed
  PROVE  AnnouncedOnce'
<1>1. DOMAIN toots = 1..Len(toots) /\ DOMAIN toots' = 1..Len(toots) /\ Len(toots) \in Nat
  BY TootsAre
<1> SUFFICES ASSUME NEW j \in 1..Len(toots), NEW i \in 1..(j - 1)
             PROVE  \/ toots'[j].by \in toots'[i].early /\ toots'[j].text # toots'[i].text
                    \/ toots'[j].by \in toots'[i].missed
  BY <1>1 DEF AnnouncedOnce
<1>2. i \in 1..Len(toots)
  BY <1>1
<1>3. \/ toots[j].by \in toots[i].early /\ toots[j].text # toots[i].text
      \/ toots[j].by \in toots[i].missed
  BY <1>1 DEF AnnounceInv, AnnouncedOnce
<1> QED BY <1>2, <1>3

\* A command that ends says so, and forgets nothing.
LEMMA AnnouncerEnds ==
  ASSUME ann \in [Announcer -> Command], NEW d \in Announcer,
         NEW outcome \in {"preview", "already", "not done", "posted"}, Tell(d, outcome)
  PROVE  /\ Only(d)
         /\ ann'[d].at = "told" /\ ann'[d].seen = ann[d].seen
<1>1. ann' \in [Announcer -> Command]
  BY AnnounceStages DEF Tell, Command
<1>2. \A e \in Announcer \ {d} : ann'[e] = ann[e]
  BY DEF Tell
<1>3. ann'[d].at = "told" /\ ann'[d].seen = ann[d].seen
  BY DEF Tell, Command
<1> QED BY <1>1, <1>2, <1>3 DEF Only

\* A command goes on to the next stage, and changes nothing else.
LEMMA AnnouncerGoesOn ==
  ASSUME ann \in [Announcer -> Command], NEW d \in Announcer, NEW next \in Stage,
         ann' = [ann EXCEPT ![d].at = next]
  PROVE  /\ Only(d)
         /\ ann'[d].at = next /\ ann'[d].seen = ann[d].seen /\ ann'[d].text = ann[d].text
<1>1. ann' \in [Announcer -> Command]
  BY DEF Command
<1>2. \A e \in Announcer \ {d} : ann'[e] = ann[e]
  OBVIOUS
<1>3. ann'[d].at = next /\ ann'[d].seen = ann[d].seen /\ ann'[d].text = ann[d].text
  OBVIOUS
<1> QED BY <1>1, <1>2, <1>3 DEF Only

\* A toot goes out of sight or comes back, or its key is forgotten.
LEMMA TootsAge == ASSUME AnnounceInv, OutOfSight \/ KeyExpires PROVE AnnounceInv'
<1>1. toots \in Seq(Toot) /\ Len(toots) \in Nat /\ DOMAIN toots = 1..Len(toots)
      /\ \A i \in 1..Len(toots) : toots[i] \in Toot
  BY TootsAre
<1>2. UNCHANGED <<edition, ann, amiss>>
  BY DEF OutOfSight, KeyExpires
<1>3. PICK i \in 1..Len(toots), new \in Toot :
        /\ toots' = [toots EXCEPT ![i] = new]
        /\ new.by = toots[i].by /\ new.text = toots[i].text
        /\ new.early = toots[i].early /\ new.missed = toots[i].missed
        /\ new.kept = toots[i].kept \/ \A d \in toots[i].early : ann[d].at = "told"
  <2>1. CASE OutOfSight
    <3>1. PICK i \in 1..Len(toots) : toots' = [toots EXCEPT ![i].shown = ~ @]
      BY <1>1, <2>1 DEF OutOfSight
    <3>2. [toots[i] EXCEPT !.shown = ~ @] \in Toot
      BY <1>1 DEF Toot
    <3>3. toots' = [toots EXCEPT ![i] = [toots[i] EXCEPT !.shown = ~ @]]
      BY <3>1
    <3>4. /\ [toots[i] EXCEPT !.shown = ~ @].by = toots[i].by
          /\ [toots[i] EXCEPT !.shown = ~ @].text = toots[i].text
          /\ [toots[i] EXCEPT !.shown = ~ @].early = toots[i].early
          /\ [toots[i] EXCEPT !.shown = ~ @].missed = toots[i].missed
          /\ [toots[i] EXCEPT !.shown = ~ @].kept = toots[i].kept
      OBVIOUS
    <3> QED BY <3>2, <3>3, <3>4
  <2>2. CASE KeyExpires
    <3>1. PICK i \in 1..Len(toots) : /\ \A d \in toots[i].early : ann[d].at = "told"
                                     /\ toots' = [toots EXCEPT ![i].kept = FALSE]
      BY <1>1, <2>2 DEF KeyExpires
    <3>2. [toots[i] EXCEPT !.kept = FALSE] \in Toot
      BY <1>1 DEF Toot
    <3>3. toots' = [toots EXCEPT ![i] = [toots[i] EXCEPT !.kept = FALSE]]
      BY <3>1
    <3>4. /\ [toots[i] EXCEPT !.kept = FALSE].by = toots[i].by
          /\ [toots[i] EXCEPT !.kept = FALSE].text = toots[i].text
          /\ [toots[i] EXCEPT !.kept = FALSE].early = toots[i].early
          /\ [toots[i] EXCEPT !.kept = FALSE].missed = toots[i].missed
      OBVIOUS
    <3> QED BY <3>1, <3>2, <3>3, <3>4
  <2> QED BY <2>1, <2>2
<1>4. /\ toots' \in Seq(Toot) /\ Len(toots') = Len(toots) /\ toots'[i] = new
      /\ \A k \in 1..Len(toots) : k # i => toots'[k] = toots[k]
  BY <1>1, <1>3
<1>5. AnnounceTypeOK'
  BY <1>2, <1>4 DEF AnnounceInv, AnnounceTypeOK
<1>6. BuildersSawNone'
  BY <1>2 DEF AnnounceInv, BuildersSawNone
<1>7. NoneWasFound' /\ KeysAreKept'
  <2>1. NoneWasFound /\ KeysAreKept
    BY DEF AnnounceInv
  <2> QED BY <1>2, <1>3, <1>4, <2>1 DEF NoneWasFound, KeysAreKept
<1>8. AnnouncedOnce'
  BY <1>3, <1>4, SameToots
<1> QED BY <1>5, <1>6, <1>7, <1>8 DEF AnnounceInv

\* Two sequences over the same positions are of one length.
LEMMA SameLength == ASSUME NEW n \in Nat, NEW m \in Nat, 1..n = 1..m PROVE n = m
<1>1. ~ n < m
  <2> SUFFICES ASSUME n < m PROVE FALSE
    OBVIOUS
  <2>1. m \in 1..m /\ m \notin 1..n
    OBVIOUS
  <2> QED BY <2>1
<1>2. ~ m < n
  <2> SUFFICES ASSUME m < n PROVE FALSE
    OBVIOUS
  <2>1. n \in 1..n /\ n \notin 1..m
    OBVIOUS
  <2> QED BY <2>1
<1> QED BY <1>1, <1>2

\* Who looks finds a toot, or is noted to have missed those there are.
LEMMA LookingKeeps == ASSUME AnnounceInv, NEW d \in Announcer, RecentStatuses(d) PROVE AnnounceInv'
<1>1. toots \in Seq(Toot) /\ Len(toots) \in Nat /\ DOMAIN toots = 1..Len(toots)
      /\ \A i \in 1..Len(toots) : toots[i] \in Toot
  BY TootsAre
<1>2. /\ ann \in [Announcer -> Command] /\ ann[d].at = "reading" /\ UNCHANGED <<edition, amiss>>
      /\ ann' = [ann EXCEPT ![d].seen = IF TootFound THEN "a toot" ELSE "none"]
  BY DEF RecentStatuses, AnnounceInv, AnnounceTypeOK
<1>3. PICK seen \in {"a toot", "none"} :
        /\ ann' = [ann EXCEPT ![d].seen = seen]
        /\ seen = "none" => ~ TootFound
  BY <1>2
<1>4. Only(d) /\ ann'[d].at = "reading" /\ ann'[d].seen = seen
  <2>1. ann[d] \in Command
    BY <1>2
  <2>2. [ann[d] EXCEPT !.seen = seen] \in Command
    BY <2>1 DEF Command
  <2>3. ann' = [ann EXCEPT ![d] = [ann[d] EXCEPT !.seen = seen]]
    BY <1>3
  <2>4. [ann[d] EXCEPT !.seen = seen].at = ann[d].at /\ [ann[d] EXCEPT !.seen = seen].seen = seen
    BY <2>1 DEF Command
  <2> QED BY <1>2, <2>2, <2>3, <2>4 DEF Only
<1>5. /\ toots' \in Seq(Toot) /\ Len(toots') = Len(toots)
      /\ \A i \in 1..Len(toots) : /\ toots'[i].by = toots[i].by /\ toots'[i].text = toots[i].text
                                  /\ toots'[i].kept = toots[i].kept /\ toots'[i].early = toots[i].early
                                  /\ toots[i].missed \subseteq toots'[i].missed
                                  /\ toots[i].shown \/ d \in toots'[i].missed
  <2> DEFINE Seen(i) == IF toots[i].shown THEN toots[i] ELSE [toots[i] EXCEPT !.missed = @ \cup {d}]
  <2>1. toots' = [i \in 1..Len(toots) |-> Seen(i)]
    BY <1>1 DEF RecentStatuses
  <2>2. ASSUME NEW i \in 1..Len(toots)
        PROVE  /\ Seen(i) \in Toot
               /\ Seen(i).by = toots[i].by /\ Seen(i).text = toots[i].text
               /\ Seen(i).kept = toots[i].kept /\ Seen(i).early = toots[i].early
               /\ toots[i].missed \subseteq Seen(i).missed
               /\ toots[i].shown \/ d \in Seen(i).missed
    BY <1>1 DEF Toot
  <2> HIDE DEF Seen
  <2>3. toots' \in Seq(Toot) /\ Len(toots') = Len(toots)
    <3>1. toots' \in [1..Len(toots) -> Toot] /\ DOMAIN toots' = 1..Len(toots)
      BY <2>1, <2>2
    <3>2. toots' \in Seq(Toot)
      BY <1>1, <3>1, SeqDef
    <3>3. DOMAIN toots' = 1..Len(toots') /\ Len(toots') \in Nat
      BY <3>2, LenProperties
    <3>4. Len(toots') = Len(toots)
      BY <1>1, <3>1, <3>3, SameLength
    <3> QED BY <3>2, <3>4
  <2>4. \A i \in 1..Len(toots) : toots'[i] = Seen(i)
    BY <2>1
  <2> QED BY <2>2, <2>3, <2>4
<1>6. AnnounceTypeOK'
  BY <1>2, <1>4, <1>5 DEF AnnounceInv, AnnounceTypeOK, Only
<1>7. BuildersSawNone'
  BY <1>4 DEF AnnounceInv, BuildersSawNone, Only, Building
<1>8. NoneWasFound'
  <2> SUFFICES ASSUME NEW e \in Announcer, ann'[e].seen = "none", NEW i \in 1..Len(toots)
               PROVE  e \in toots'[i].early \cup toots'[i].missed
    BY <1>5 DEF NoneWasFound
  <2>1. CASE e = d
    <3>1. ~ toots[i].shown
      BY <1>1, <1>3, <1>4, <2>1 DEF TootFound
    <3> QED BY <1>5, <2>1, <3>1
  <2>2. CASE e # d
    <3>1. e \in toots[i].early \cup toots[i].missed
      BY <1>4, <2>2 DEF AnnounceInv, NoneWasFound, Only
    <3> QED BY <1>5, <3>1
  <2> QED BY <2>1, <2>2
<1>9. KeysAreKept'
  <2> SUFFICES ASSUME NEW i \in 1..Len(toots), NEW e \in toots[i].early, ann'[e].at # "told"
               PROVE  toots[i].kept
    BY <1>5 DEF KeysAreKept
  <2>1. e \in Announcer
    BY <1>1 DEF Toot
  <2>2. ann[e].at # "told"
    BY <1>2, <1>4, <2>1 DEF Only
  <2> QED BY <2>2 DEF AnnounceInv, KeysAreKept
<1>10. AnnouncedOnce'
  BY <1>5, SameToots
<1> QED BY <1>6, <1>7, <1>8, <1>9, <1>10 DEF AnnounceInv

\* What the instance answers a post with says once what it says.
LEMMA PostingKeeps ==
  ASSUME AnnounceInv, NEW d \in Announcer, PostToot(d) \/ PostLost(d), amiss' \in 0..MaxAmiss
  PROVE  AnnounceInv'
<1>1. toots \in Seq(Toot) /\ Len(toots) \in Nat /\ DOMAIN toots = 1..Len(toots)
      /\ \A i \in 1..Len(toots) : toots[i] \in Toot
  BY TootsAre
<1>2. /\ ann \in [Announcer -> Command] /\ edition \in 1..Editions /\ UNCHANGED edition
      /\ ann[d].at \in {"uploaded", "posting again"} /\ ann[d].text \in 1..Editions /\ ann[d].seen = "none"
  BY DEF PostToot, PostLost, AnnounceInv, AnnounceTypeOK, BuildersSawNone, Building
<1>3. /\ Only(d)
      /\ ann'[d].at \in {"posting again", "told"} /\ ann'[d].seen = "none"
      /\ ann'[d].at = "posting again" => ann'[d].text = ann[d].text
  <2>1. CASE ann' = [ann EXCEPT ![d].at = "posting again"]
    BY <1>2, <2>1, AnnouncerGoesOn, AnnounceStages
  <2>2. CASE Tell(d, "posted") \/ Tell(d, "not done")
    BY <1>2, <2>2, AnnouncerEnds
  <2> QED BY <2>1, <2>2 DEF PostToot, PostLost
<1>4. BuildersSawNone'
  BY <1>2, <1>3 DEF AnnounceInv, BuildersSawNone, Only, Building
<1>5. NoneWasFound /\ KeysAreKept /\ AnnouncedOnce
  BY DEF AnnounceInv
<1>6. \A e \in Announcer : /\ ann'[e].seen = "none" => ann[e].seen = "none"
                           /\ ann'[e].at # "told" => ann[e].at # "told"
  BY <1>2, <1>3 DEF Only
<1>7. CASE toots' = toots
  <2>1. AnnounceTypeOK'
    BY <1>2, <1>3, <1>7 DEF AnnounceInv, AnnounceTypeOK, Only
  <2>2. NoneWasFound' /\ AnnouncedOnce'
    BY <1>5, <1>6, <1>7 DEF NoneWasFound, AnnouncedOnce
  <2>3. KeysAreKept'
    BY <1>1, <1>5, <1>6, <1>7 DEF KeysAreKept, Toot
  <2> QED BY <1>4, <2>1, <2>2, <2>3 DEF AnnounceInv
<1>8. CASE /\ toots' = Append(toots, NewToot(d))
           /\ \A i \in 1..Len(toots) : toots[i].kept => toots[i].text # ann[d].text
  <2> DEFINE new == NewToot(d)
  <2>1. /\ new \in Toot /\ new.by = d /\ new.text = ann[d].text /\ new.kept
        /\ new.early = {e \in Announcer : ann[e].seen # "unread"}
    BY <1>2 DEF NewToot, Toot
  <2> HIDE DEF new
  <2>2. /\ toots' \in Seq(Toot) /\ DOMAIN toots' = 1..Len(toots') /\ Len(toots') = Len(toots) + 1
        /\ toots'[Len(toots) + 1] = new /\ \A i \in 1..Len(toots) : toots'[i] = toots[i]
    BY <1>1, <1>8, <2>1 DEF new
  <2>3. \A i \in 1..Len(toots') : i \in 1..Len(toots) \/ i = Len(toots) + 1
    BY <1>1, <2>2
  <2>4. AnnounceTypeOK'
    BY <1>2, <1>3, <2>2 DEF AnnounceInv, AnnounceTypeOK, Only
  <2>5. NoneWasFound'
    <3> SUFFICES ASSUME NEW e \in Announcer, ann[e].seen = "none", NEW i \in 1..Len(toots')
                 PROVE  e \in toots'[i].early \cup toots'[i].missed
      BY <1>6 DEF NoneWasFound
    <3>1. CASE i \in 1..Len(toots)
      BY <1>5, <2>2, <3>1 DEF NoneWasFound
    <3>2. CASE i = Len(toots) + 1
      <4>1. e \in new.early
        BY <2>1
      <4> QED BY <2>2, <3>2, <4>1
    <3> QED BY <2>3, <3>1, <3>2
  <2>6. KeysAreKept'
    <3> SUFFICES ASSUME NEW i \in 1..Len(toots'), NEW e \in toots'[i].early, ann'[e].at # "told"
                 PROVE  toots'[i].kept
      BY DEF KeysAreKept
    <3>1. CASE i \in 1..Len(toots)
      <4>1. e \in Announcer /\ e \in toots[i].early
        BY <1>1, <2>2, <3>1 DEF Toot
      <4> QED BY <1>5, <1>6, <2>2, <3>1, <4>1 DEF KeysAreKept
    <3>2. CASE i = Len(toots) + 1
      BY <2>1, <2>2, <3>2
    <3> QED BY <2>3, <3>1, <3>2
  <2>7. AnnouncedOnce'
    <3> SUFFICES ASSUME NEW j \in 1..Len(toots'), NEW i \in 1..(j - 1)
                 PROVE  \/ toots'[j].by \in toots'[i].early /\ toots'[j].text # toots'[i].text
                        \/ toots'[j].by \in toots'[i].missed
      BY <2>2 DEF AnnouncedOnce
    <3>1. i \in 1..Len(toots)
      BY <1>1, <2>2
    <3>2. CASE j \in 1..Len(toots)
      <4>1. \/ toots[j].by \in toots[i].early /\ toots[j].text # toots[i].text
            \/ toots[j].by \in toots[i].missed
        BY <1>1, <1>5, <3>2 DEF AnnouncedOnce
      <4> QED BY <2>2, <3>1, <3>2, <4>1
    <3>3. CASE j = Len(toots) + 1
      <4>1. d \in toots[i].early \cup toots[i].missed
        BY <1>2, <1>5, <3>1 DEF NoneWasFound
      <4>2. d \in toots[i].early => toots[i].text # ann[d].text
        <5>1. d \in toots[i].early => toots[i].kept
          BY <1>2, <1>5, <3>1 DEF KeysAreKept
        <5> QED BY <1>8, <3>1, <5>1
      <4>3. toots'[j] = new /\ toots'[i] = toots[i]
        BY <2>2, <3>1, <3>3
      <4> QED BY <2>1, <4>1, <4>2, <4>3
    <3> QED BY <2>3, <3>2, <3>3
  <2> QED BY <1>4, <2>4, <2>5, <2>6, <2>7 DEF AnnounceInv
<1>9. \/ toots' = toots
      \/ /\ toots' = Append(toots, NewToot(d))
         /\ \A i \in 1..Len(toots) : toots[i].kept => toots[i].text # ann[d].text
  BY <1>1 DEF PostToot, PostLost, Accepted
<1> QED BY <1>7, <1>8, <1>9

LEMMA AnnounceKeeps == AnnounceInv /\ [AnnounceNext]_annVars => AnnounceInv'
<1> SUFFICES ASSUME AnnounceInv, [AnnounceNext]_annVars PROVE AnnounceInv'
  OBVIOUS
<1>t. /\ edition \in 1..Editions /\ toots \in Seq(Toot)
      /\ ann \in [Announcer -> Command] /\ amiss \in 0..MaxAmiss
  BY DEF AnnounceInv, AnnounceTypeOK
<1>m. amiss < MaxAmiss /\ amiss' = amiss + 1 => amiss' \in 0..MaxAmiss
  BY <1>t, AnnounceAssumption
<1>p. BuildersSawNone
  BY DEF AnnounceInv
<1>1. CASE UNCHANGED <<toots, ann, amiss>> /\ edition' \in 1..Editions
  <2>1. AnnounceTypeOK'
    BY <1>t, <1>1 DEF AnnounceTypeOK
  <2>2. BuildersSawNone' /\ NoneWasFound' /\ KeysAreKept' /\ AnnouncedOnce'
    BY <1>1 DEF AnnounceInv, BuildersSawNone, NoneWasFound, KeysAreKept, AnnouncedOnce
  <2> QED BY <2>1, <2>2 DEF AnnounceInv
<1>2. CASE UNCHANGED annVars
  BY <1>t, <1>1, <1>2 DEF annVars
<1>3. CASE Publish
  <2>1. edition' \in 1..Editions
    BY <1>t, <1>3, AnnounceAssumption DEF Publish
  <2> QED BY <1>1, <1>3, <2>1 DEF Publish
<1>4. ASSUME NEW d \in Announcer, BeginAnnounce(d) PROVE AnnounceInv'
  <2>1. PICK confirm \in BOOLEAN :
          ann' = [ann EXCEPT ![d] = [Quiet EXCEPT !.at = "reading", !.confirm = confirm]]
    BY <1>4 DEF BeginAnnounce
  <2>2. [Quiet EXCEPT !.at = "reading", !.confirm = confirm] \in Command
    BY QuietIsACommand, AnnounceStages DEF Command
  <2>3. Only(d)
    BY <1>t, <2>1, <2>2 DEF Only
  <2>4. ann'[d].at = "reading" /\ ann'[d].seen = "unread"
    BY <1>t, <2>1 DEF Quiet
  <2>5. ann[d].at = "idle" /\ UNCHANGED <<edition, toots, amiss>>
    BY <1>4 DEF BeginAnnounce
  <2> QED BY <1>t, <2>3, <2>4, <2>5, NothingPosted DEF Building
<1>5. ASSUME NEW d \in Announcer, LoadCertificate(d) PROVE AnnounceInv'
  <2>1. ann' \in [Announcer -> Command]
    <3>1. edition \in 0..Editions
      BY <1>t, AnnounceAssumption
    <3>2. [ann[d] EXCEPT !.text = edition] \in Command
      BY <1>t, <3>1 DEF Command
    <3> QED BY <1>t, <1>5, <3>2 DEF LoadCertificate
  <2>2. /\ Only(d) /\ ann[d].at = "reading" /\ ann'[d].at = "reading" /\ ann'[d].seen = ann[d].seen
        /\ UNCHANGED <<edition, toots, amiss>>
    BY <1>t, <1>5, <2>1 DEF LoadCertificate, Only
  <2> QED BY <1>t, <2>2, NothingPosted DEF Building
<1>7. ASSUME NEW d \in Announcer, NEW outcome \in {"preview", "already", "not done"}, Tell(d, outcome),
             ann[d].at # "told", UNCHANGED <<edition, toots>>, amiss' \in 0..MaxAmiss
      PROVE  AnnounceInv'
  BY <1>t, <1>7, AnnouncerEnds, NothingPosted DEF Building
<1>8. ASSUME NEW d \in Announcer,
             ReadFails(d) \/ UploadFails(d) \/ PostRefused(d) \/ Announced(d)
      PROVE  AnnounceInv'
  <2>1. CASE ReadFails(d)
    BY <1>m, <1>7, <2>1 DEF ReadFails
  <2>2. CASE UploadFails(d)
    BY <1>m, <1>7, <2>2 DEF UploadFails
  <2>3. CASE PostRefused(d)
    BY <1>m, <1>7, <2>3 DEF PostRefused
  <2>4. CASE Announced(d)
    BY <1>t, <1>7, <2>4 DEF Announced
  <2> QED BY <1>8, <2>1, <2>2, <2>3, <2>4
<1>9. ASSUME NEW d \in Announcer, Compose(d) PROVE AnnounceInv'
  <2>1. ann[d].text \in 1..Editions /\ ann[d].at = "reading" /\ UNCHANGED <<edition, toots>>
    <3>1. ann[d].text \in 0..Editions /\ ann[d].text # 0
      BY <1>t, <1>9 DEF Compose, ReadAll, Command
    <3>2. ann[d].text \in 1..Editions
      BY <3>1, AnnounceAssumption
    <3> QED BY <1>9, <3>2 DEF Compose, ReadAll
  <2>2. CASE ann' = [ann EXCEPT ![d].at = "composed"] /\ UNCHANGED amiss
    BY <1>t, <2>1, <2>2, AnnouncerGoesOn, AnnounceStages, NothingPosted DEF Building
  <2>3. CASE Tell(d, "not done") /\ amiss < MaxAmiss /\ amiss' = amiss + 1
    BY <1>m, <1>7, <2>1, <2>3
  <2> QED BY <1>9, <2>2, <2>3 DEF Compose
<1>10. ASSUME NEW d \in Announcer, GIF(d) PROVE AnnounceInv'
  <2>1. /\ ann[d].text \in 1..Editions /\ ann[d].seen = "none" /\ ann[d].at = "composed"
        /\ UNCHANGED <<edition, toots, amiss>>
    BY <1>p, <1>10 DEF GIF, BuildersSawNone
  <2>2. CASE ann' = [ann EXCEPT ![d].at = "animated"]
    BY <1>t, <2>1, <2>2, AnnouncerGoesOn, AnnounceStages, NothingPosted DEF Building
  <2>3. CASE Tell(d, "preview")
    BY <1>t, <1>7, <2>1, <2>3
  <2> QED BY <1>10, <2>2, <2>3 DEF GIF
<1>11. ASSUME NEW d \in Announcer, UploadMedia(d) PROVE AnnounceInv'
  <2>1. /\ ann[d].text \in 1..Editions /\ ann[d].seen = "none" /\ ann[d].at = "animated"
        /\ ann' = [ann EXCEPT ![d].at = "uploaded"] /\ UNCHANGED <<edition, toots, amiss>>
    BY <1>p, <1>11 DEF UploadMedia, BuildersSawNone, Building
  <2> QED BY <1>t, <2>1, AnnouncerGoesOn, AnnounceStages, NothingPosted DEF Building
<1>12. ASSUME NEW d \in Announcer, PostToot(d) \/ PostLost(d) PROVE AnnounceInv'
  <2>1. amiss' \in 0..MaxAmiss
    BY <1>t, <1>m, <1>12 DEF PostToot, PostLost
  <2> QED BY <1>12, <2>1, PostingKeeps
<1> QED
  BY <1>2, <1>3, <1>4, <1>5, <1>8, <1>9, <1>10, <1>11, <1>12, TootsAge, LookingKeeps
  DEF AnnounceNext, AnnounceStep, AnnounceFault

\* The announcements of a certificate keep their types, for any number of
\* commands and texts (Server.announce, Client.Post).
THEOREM AnnounceTypes == AnnounceSpec => []AnnounceTypeOK
<1>1. AnnounceInit => AnnounceInv
  BY AnnounceBegins
<1>2. AnnounceInv /\ [AnnounceNext]_annVars => AnnounceInv'
  BY AnnounceKeeps
<1>3. AnnounceInv => AnnounceTypeOK
  BY DEF AnnounceInv
<1> QED BY <1>1, <1>2, <1>3, PTL DEF AnnounceSpec

\* A certificate is announced once, as far as the account is searched: a second
\* toot comes from a command that had looked before the first and says something
\* else, or from one that looked while the first was out of sight (Server.announce,
\* Client.RecentStatuses, Client.Post).
THEOREM AnnouncedOnlyOnce == AnnounceSpec => []AnnouncedOnce
<1>1. AnnounceInit => AnnounceInv
  BY AnnounceBegins
<1>2. AnnounceInv /\ [AnnounceNext]_annVars => AnnounceInv'
  BY AnnounceKeeps
<1>3. AnnounceInv => AnnouncedOnce
  BY DEF AnnounceInv
<1> QED BY <1>1, <1>2, <1>3, PTL DEF AnnounceSpec

-----------------------------------------------------------------------------
(***************************************************************************)
(* What the bot writes in a team is no guess, for any commands, moves of   *)
(* the organisation and failed requests: a command comes to a team only    *)
(* after it was told that the person is inside, and writes only where it   *)
(* saw no place of theirs, or could not see.                               *)
(***************************************************************************)

Who == Joiner \cup {Sweep}

\* What one command knows: whoever it was told is inside is, unless they have
\* left since; and nobody it saw no place of is a maintainer, unless they own
\* the organisation or have been made one since.
Knows(d) ==
  /\ mem[d].at \in {"destining", "placing", "adding"} => mem[d].told = "inside"
  /\ mem[d].told = "inside" => mem[d].at # "idle" /\ (inside \/ mem[d].left)
  /\ mem[d].at \in {"placing", "adding"} => mem[d].team \in ManagedTeams
  /\ mem[d].at = "adding" /\ mem[d].saw # "unread" =>
       owner \/ mem[d].risen \/ place[mem[d].team] # "maintainer"
  /\ mem[d].saw # "unread" => mem[d].at \in {"adding", "told"}
  /\ d = Sweep /\ mem[d].at # "idle" => mem[d].team = mem[d].asked /\ mem[d].team # NoTeam

MembershipInv == MembershipTypeOK /\ \A d \in Who : Knows(d)

LEMMA AtRestIsJoining == AtRest \in Joining
BY DEF AtRest, Joining, Places

LEMMA MembershipIsTyped ==
  ASSUME MembershipTypeOK
  PROVE  /\ inside \in BOOLEAN /\ owner \in BOOLEAN /\ labelled \in BOOLEAN /\ (owner => inside)
         /\ place \in [ManagedTeams -> Places] /\ promised \in ManagedTeams \cup {NoTeam}
         /\ mem \in [Who -> Joining] /\ moves \in 0..MaxMoves /\ away \in 0..MaxAway
BY DEF MembershipTypeOK, Who

LEMMA MembershipBegins == MembershipInit => MembershipInv
<1> SUFFICES ASSUME MembershipInit PROVE MembershipInv
  OBVIOUS
<1>1. MembershipTypeOK
  BY AtRestIsJoining, MembershipAssumption DEF MembershipInit, MembershipTypeOK, Places
<1>2. ASSUME NEW d \in Who PROVE Knows(d)
  <2>1. mem[d].at = "idle" /\ mem[d].told = "unread" /\ mem[d].saw = "unread"
    BY DEF MembershipInit, AtRest, Who
  <2> QED BY <2>1 DEF Knows
<1> QED BY <1>1, <1>2 DEF MembershipInv

LEMMA Bounds ==
  ASSUME MembershipTypeOK
  PROVE  /\ moves < MaxMoves /\ moves' = moves + 1 => moves' \in 0..MaxMoves
         /\ away < MaxAway /\ away' = away + 1 => away' \in 0..MaxAway
BY MembershipIsTyped, MembershipAssumption

\* A change of the organisation that no command is told of: nobody comes to
\* be outside, and nobody to be a maintainer.
LEMMA UnseenMove ==
  ASSUME MembershipInv, UNCHANGED <<owner, promised, mem, away>>,
         inside' \in BOOLEAN, inside => inside', labelled' \in BOOLEAN,
         place' \in [ManagedTeams -> Places], moves' \in 0..MaxMoves,
         \A t \in ManagedTeams : place'[t] = "maintainer" => place[t] = "maintainer"
  PROVE  MembershipInv'
<1>1. MembershipTypeOK'
  BY DEF MembershipInv, MembershipTypeOK
<1>2. ASSUME NEW d \in Who PROVE Knows(d)'
  BY DEF MembershipInv, Knows
<1> QED BY <1>1, <1>2 DEF MembershipInv

LEMMA LeavesKeeps == MembershipInv /\ Leaves => MembershipInv'
<1> SUFFICES ASSUME MembershipInv, Leaves PROVE MembershipInv'
  OBVIOUS
<1>t. MembershipTypeOK /\ mem \in [Who -> Joining]
  BY MembershipIsTyped DEF MembershipInv
<1>1. /\ ~ owner /\ inside' = FALSE /\ UNCHANGED <<owner, labelled, promised, away>>
      /\ place' = [t \in ManagedTeams |-> "none"] /\ moves' \in 0..MaxMoves
      /\ mem' = [d \in Who |-> [mem[d] EXCEPT !.left = @ \/ mem[d].at # "idle"]]
  BY <1>t, Bounds DEF Leaves, Moved, LeftSince
<1>2. ASSUME NEW d \in Who
      PROVE  /\ mem'[d] \in Joining /\ mem[d] \in Joining
             /\ mem'[d].at = mem[d].at /\ mem'[d].told = mem[d].told
             /\ mem'[d].team = mem[d].team /\ mem'[d].asked = mem[d].asked /\ mem'[d].saw = mem[d].saw
             /\ mem[d].at # "idle" => mem'[d].left
  BY <1>t, <1>1 DEF Joining
<1>3. MembershipTypeOK'
  BY <1>t, <1>1, <1>2 DEF MembershipTypeOK, Who, Places
<1>4. ASSUME NEW d \in Who PROVE Knows(d)'
  <2>1. mem'[d].team \in ManagedTeams => place'[mem'[d].team] = "none"
    BY <1>1
  <2> QED BY <1>1, <1>2, <2>1 DEF MembershipInv, Knows
<1> QED BY <1>3, <1>4 DEF MembershipInv

LEMMA PromotedKeeps == MembershipInv /\ Promoted => MembershipInv'
<1> SUFFICES ASSUME MembershipInv, Promoted PROVE MembershipInv'
  OBVIOUS
<1>t. MembershipTypeOK /\ mem \in [Who -> Joining] /\ place \in [ManagedTeams -> Places]
  BY MembershipIsTyped DEF MembershipInv
<1>1. /\ UNCHANGED <<inside, owner, labelled, promised, away>> /\ moves' \in 0..MaxMoves
      /\ mem' = [d \in Who |-> [mem[d] EXCEPT !.risen = @ \/ mem[d].at # "idle"]]
  BY <1>t, Bounds DEF Promoted, Moved, RisenSince
<1>p. place' \in [ManagedTeams -> Places]
  BY <1>t DEF Promoted, Places
<1>2. ASSUME NEW d \in Who
      PROVE  /\ mem'[d] \in Joining /\ mem[d] \in Joining
             /\ mem'[d].at = mem[d].at /\ mem'[d].told = mem[d].told /\ mem'[d].left = mem[d].left
             /\ mem'[d].team = mem[d].team /\ mem'[d].asked = mem[d].asked /\ mem'[d].saw = mem[d].saw
             /\ mem[d].at # "idle" => mem'[d].risen
  BY <1>t, <1>1 DEF Joining
<1>3. MembershipTypeOK'
  BY <1>t, <1>1, <1>2, <1>p DEF MembershipTypeOK, Who
<1>4. ASSUME NEW d \in Who PROVE Knows(d)'
  BY <1>1, <1>2 DEF MembershipInv, Knows
<1> QED BY <1>3, <1>4 DEF MembershipInv

LEMMA OrganisationKeeps ==
  MembershipInv /\ OrganisationMoves => MembershipInv'
<1> SUFFICES ASSUME MembershipInv, OrganisationMoves PROVE MembershipInv'
  OBVIOUS
<1>t. MembershipTypeOK /\ place \in [ManagedTeams -> Places] /\ inside \in BOOLEAN /\ labelled \in BOOLEAN
  BY MembershipIsTyped DEF MembershipInv
<1>1. CASE OwnerInvites
  <2>1. UNCHANGED <<inside, owner, labelled, promised, mem, away>> /\ moves' \in 0..MaxMoves
    BY <1>t, <1>1, Bounds DEF OwnerInvites, Moved
  <2>2. PICK t \in ManagedTeams : place' = [place EXCEPT ![t] = "pending"]
    BY <1>1 DEF OwnerInvites
  <2> QED BY <1>t, <2>1, <2>2, UnseenMove DEF Places
<1>2. CASE Joins
  <2>1. /\ UNCHANGED <<owner, labelled, promised, mem, away>> /\ moves' \in 0..MaxMoves /\ inside' = TRUE
        /\ place' = [t \in ManagedTeams |-> IF place[t] = "pending" THEN "member" ELSE place[t]]
    BY <1>t, <1>2, Bounds DEF Joins, Moved
  <2> QED BY <1>t, <2>1, UnseenMove DEF Places
<1>3. CASE Relabelled
  <2>1. /\ UNCHANGED <<inside, owner, place, promised, mem, away>> /\ moves' \in 0..MaxMoves
        /\ labelled' \in BOOLEAN
    BY <1>t, <1>3, Bounds DEF Relabelled, Moved
  <2> QED BY <1>t, <2>1, UnseenMove
<1> QED BY <1>1, <1>2, <1>3, LeavesKeeps, PromotedKeeps DEF OrganisationMoves

\* A step of one command, which puts it where it knows what it must.
LEMMA OneCommand ==
  ASSUME MembershipInv, NEW d \in Who, NEW stands \in Joining, Put(d, stands),
         UNCHANGED <<inside, owner, labelled, moves>>,
         place' \in [ManagedTeams -> Places],
         promised' \in ManagedTeams \cup {NoTeam}, away' \in 0..MaxAway,
         ~ owner => \A t \in ManagedTeams : place'[t] = "maintainer" => place[t] = "maintainer",
         Knows(d)'
  PROVE  MembershipInv'
<1>1. mem \in [Who -> Joining]
  BY MembershipIsTyped DEF MembershipInv
<1>2. mem' \in [Who -> Joining] /\ \A e \in Who \ {d} : mem'[e] = mem[e]
  BY <1>1 DEF Put
<1>3. MembershipTypeOK'
  BY <1>2 DEF MembershipInv, MembershipTypeOK, Who
<1>4. ASSUME NEW e \in Who \ {d} PROVE Knows(e)'
  BY <1>2 DEF MembershipInv, Knows
<1> QED BY <1>3, <1>4 DEF MembershipInv

\* The same where the teams are left alone.
LEMMA NothingWritten ==
  ASSUME MembershipInv, NEW d \in Who, NEW stands \in Joining, Put(d, stands),
         UNCHANGED Organisation, promised' \in ManagedTeams \cup {NoTeam}, away' \in 0..MaxAway,
         stands.at \in {"destining", "placing", "adding"} => stands.told = "inside",
         stands.told = "inside" => stands.at # "idle" /\ (inside \/ stands.left),
         stands.at \in {"placing", "adding"} => stands.team \in ManagedTeams,
         stands.at = "adding" /\ stands.saw # "unread" =>
           owner \/ stands.risen \/ place[stands.team] # "maintainer",
         stands.saw # "unread" => stands.at \in {"adding", "told"},
         d = Sweep /\ stands.at # "idle" => stands.team = stands.asked /\ stands.team # NoTeam
  PROVE  MembershipInv'
<1>1. mem \in [Who -> Joining] /\ place \in [ManagedTeams -> Places]
  BY MembershipIsTyped DEF MembershipInv
<1>2. mem'[d] = stands
  BY <1>1 DEF Put
<1>3. UNCHANGED <<inside, owner, place, labelled, moves>>
  BY DEF Organisation
<1>4. Knows(d)'
  BY <1>2, <1>3 DEF Knows
<1> QED BY <1>1, <1>3, <1>4, OneCommand

LEMMA AssignKeeps ==
  ASSUME MembershipInv, NEW d \in Joiner, Assign(d)
  PROVE  MembershipInv'
<1>t. MembershipTypeOK /\ promised \in ManagedTeams \cup {NoTeam} /\ away \in 0..MaxAway
  BY MembershipIsTyped DEF MembershipInv
<1>1. d \in Who /\ d # Sweep /\ UNCHANGED <<Organisation, promised, away>>
  BY MembershipAssumption DEF Assign, Who
<1>2. PICK chosen \in {NoTeam, Institutional, Unmanaged} :
        Put(d, IF chosen = Unmanaged THEN [AtRest EXCEPT !.at = "told"]
               ELSE [AtRest EXCEPT !.at = "looking", !.team = chosen])
  BY DEF Assign
<1>3. CASE chosen = Unmanaged
  <2> DEFINE stands == [AtRest EXCEPT !.at = "told"]
  <2>1. stands \in Joining /\ stands.at = "told" /\ stands.told = "unread" /\ stands.saw = "unread"
    BY AtRestIsJoining DEF AtRest, Joining
  <2>2. Put(d, stands)
    BY <1>2, <1>3
  <2> HIDE DEF stands
  <2> QED BY <1>t, <1>1, <2>1, <2>2, NothingWritten
<1>4. CASE chosen # Unmanaged
  <2> DEFINE stands == [AtRest EXCEPT !.at = "looking", !.team = chosen]
  <2>1. chosen \in ManagedTeams \cup {NoTeam}
    BY <1>4 DEF ManagedTeams
  <2>2. stands \in Joining /\ stands.at = "looking" /\ stands.told = "unread" /\ stands.saw = "unread"
    BY <2>1, AtRestIsJoining DEF AtRest, Joining
  <2>3. Put(d, stands)
    BY <1>2, <1>4
  <2> HIDE DEF stands
  <2> QED BY <1>t, <1>1, <2>2, <2>3, NothingWritten
<1> QED BY <1>3, <1>4

LEMMA SweepAsksKeeps == MembershipInv /\ SweepAsks => MembershipInv'
<1> SUFFICES ASSUME MembershipInv, SweepAsks PROVE MembershipInv'
  OBVIOUS
<1> DEFINE stands == [AtRest EXCEPT !.at = "looking", !.team = promised, !.asked = promised]
<1>t. promised \in ManagedTeams \cup {NoTeam} /\ away \in 0..MaxAway
  BY MembershipIsTyped DEF MembershipInv
<1>1. /\ Sweep \in Who /\ promised # NoTeam /\ Put(Sweep, stands)
      /\ UNCHANGED <<Organisation, promised, away>>
  BY DEF SweepAsks, Who
<1>2. /\ stands \in Joining /\ stands.at = "looking" /\ stands.told = "unread"
      /\ stands.team = promised /\ stands.asked = promised /\ stands.saw = "unread"
  BY <1>t, AtRestIsJoining DEF AtRest, Joining
<1> HIDE DEF stands
<1> QED BY <1>t, <1>1, <1>2, NothingWritten

\* A command that goes on from where it stands, knowing no less.
LEMMA JoinerGoesOn ==
  ASSUME MembershipInv, NEW d \in Who, NEW where \in {"asking", "granting", "destining",
           "adding", "told"}, At(d, where),
         UNCHANGED Organisation, promised' \in ManagedTeams \cup {NoTeam}, away' \in 0..MaxAway,
         mem[d].at # "idle",
         where \in {"destining", "adding"} => mem[d].told = "inside",
         where = "adding" => mem[d].team \in ManagedTeams,
         where # "told" => mem[d].saw = "unread"
  PROVE  MembershipInv'
<1> DEFINE stands == [mem[d] EXCEPT !.at = where]
<1>1. mem[d] \in Joining /\ Knows(d)
  BY MembershipIsTyped DEF MembershipInv
<1>2. /\ stands \in Joining /\ stands.at = where /\ stands.told = mem[d].told
      /\ stands.left = mem[d].left /\ stands.team = mem[d].team
      /\ stands.asked = mem[d].asked /\ stands.saw = mem[d].saw
  BY <1>1 DEF Joining
<1>3. Put(d, stands)
  BY DEF At
<1> HIDE DEF stands
<1> QED BY <1>1, <1>2, <1>3, NothingWritten DEF Knows

LEMMA InOrganisationKeeps ==
  ASSUME MembershipInv, NEW d \in Who, InOrganisation(d)
  PROVE  MembershipInv'
<1>t. /\ promised' \in ManagedTeams \cup {NoTeam} /\ UNCHANGED Organisation
      /\ away' \in 0..MaxAway /\ mem[d].at = "looking"
  <2>1. MembershipTypeOK
    BY DEF MembershipInv
  <2> QED BY <2>1, MembershipIsTyped, Bounds DEF InOrganisation, Fails
<1>1. mem[d] \in Joining /\ Knows(d)
  BY MembershipIsTyped DEF MembershipInv
<1>2. CASE inside /\ Put(d, [mem[d] EXCEPT !.at = "granting", !.told = "inside", !.left = FALSE])
  <2> DEFINE stands == [mem[d] EXCEPT !.at = "granting", !.told = "inside", !.left = FALSE]
  <2>1. /\ stands \in Joining /\ stands.at = "granting" /\ stands.told = "inside"
        /\ stands.team = mem[d].team /\ stands.asked = mem[d].asked /\ stands.saw = mem[d].saw
    BY <1>1 DEF Joining
  <2>2. Put(d, stands)
    BY <1>2
  <2> HIDE DEF stands
  <2> QED BY <1>t, <1>1, <1>2, <2>1, <2>2, NothingWritten DEF Knows
<1>3. ASSUME NEW where \in {"asking", "told", "granting"}, NEW told \in {"outside", "unknown"},
             Put(d, [mem[d] EXCEPT !.at = where, !.told = told])
      PROVE  MembershipInv'
  <2> DEFINE stands == [mem[d] EXCEPT !.at = where, !.told = told]
  <2>1. /\ stands \in Joining /\ stands.at = where /\ stands.told = told
        /\ stands.team = mem[d].team /\ stands.asked = mem[d].asked /\ stands.saw = mem[d].saw
    BY <1>1 DEF Joining
  <2>2. Put(d, stands)
    BY <1>3
  <2> HIDE DEF stands
  <2> QED BY <1>t, <1>1, <2>1, <2>2, NothingWritten DEF Knows
<1> QED BY <1>2, <1>3 DEF InOrganisation

LEMMA DestineKeeps ==
  ASSUME MembershipInv, NEW d \in Who, Destine(d)
  PROVE  MembershipInv'
<1>t. promised \in ManagedTeams \cup {NoTeam} /\ away \in 0..MaxAway
  BY MembershipIsTyped DEF MembershipInv
<1>1. mem[d] \in Joining /\ Knows(d)
  BY MembershipIsTyped DEF MembershipInv
<1>2. PICK t \in Destination(d) : Put(d, [mem[d] EXCEPT !.at = "placing", !.team = t])
  BY DEF Destine
<1>3. t \in ManagedTeams /\ (mem[d].team # NoTeam => t = mem[d].team)
  BY <1>1 DEF Destination, ManagedTeams, Joining
<1>4. mem[d].at = "destining" /\ UNCHANGED <<Organisation, promised, away>>
  BY DEF Destine
<1> DEFINE stands == [mem[d] EXCEPT !.at = "placing", !.team = t]
<1>5. /\ stands \in Joining /\ stands.at = "placing" /\ stands.told = mem[d].told
      /\ stands.left = mem[d].left /\ stands.team = t /\ stands.asked = mem[d].asked
      /\ stands.saw = mem[d].saw
  BY <1>1, <1>3 DEF Joining
<1>6. Put(d, stands)
  BY <1>2
<1> HIDE DEF stands
<1> QED BY <1>t, <1>1, <1>3, <1>4, <1>5, <1>6, NothingWritten DEF Knows

LEMMA TeamMembershipKeeps ==
  ASSUME MembershipInv, NEW d \in Who, TeamMembership(d)
  PROVE  MembershipInv'
<1>t. /\ MembershipTypeOK /\ place \in [ManagedTeams -> Places]
      /\ promised \in ManagedTeams \cup {NoTeam} /\ away \in 0..MaxAway
  BY MembershipIsTyped DEF MembershipInv
<1>1. mem[d] \in Joining /\ Knows(d) /\ mem[d].at = "placing" /\ UNCHANGED <<Organisation, promised>>
  BY MembershipIsTyped DEF MembershipInv, TeamMembership
<1>2. mem[d].team \in ManagedTeams /\ mem[d].told = "inside"
  BY <1>1 DEF Knows
<1>3. ASSUME Put(d, [mem[d] EXCEPT !.at = IF Stands(mem[d].team) = "none" THEN "adding" ELSE "told",
                                   !.saw = Stands(mem[d].team), !.risen = FALSE]),
             UNCHANGED away
      PROVE  MembershipInv'
  <2> DEFINE saw == Stands(mem[d].team)
             stands == [mem[d] EXCEPT !.at = IF saw = "none" THEN "adding" ELSE "told",
                                      !.saw = saw, !.risen = FALSE]
  <2>1. saw \in Places /\ (saw = "none" => owner \/ place[mem[d].team] # "maintainer")
    BY <1>t, <1>2 DEF Stands, Places
  <2> HIDE DEF saw
  <2>2. /\ stands \in Joining /\ stands.at = (IF saw = "none" THEN "adding" ELSE "told")
        /\ stands.told = mem[d].told /\ stands.left = mem[d].left
        /\ stands.team = mem[d].team /\ stands.asked = mem[d].asked
    BY <1>1, <2>1 DEF Joining
  <2>3. Put(d, stands)
    BY <1>3 DEF saw
  <2> HIDE DEF stands
  <2> QED BY <1>t, <1>1, <1>2, <1>3, <2>1, <2>2, <2>3, NothingWritten DEF Knows
<1>4. CASE At(d, "adding") /\ Fails
  <2>1. away' \in 0..MaxAway /\ mem[d].saw = "unread"
    BY <1>t, <1>1, <1>4, Bounds DEF Fails, Knows
  <2> QED BY <1>t, <1>1, <1>2, <1>4, <2>1, JoinerGoesOn
<1> QED BY <1>3, <1>4 DEF TeamMembership

\* What is written: a place in the command's own team, and never a
\* maintainer's for somebody who does not own the organisation.
LEMMA WhatIsAdded ==
  ASSUME MembershipTypeOK, NEW t \in ManagedTeams
  PROVE  /\ Added(t) \in [ManagedTeams -> Places]
         /\ \A u \in ManagedTeams : Added(t)[u] # place[u] => u = t
         /\ ~ owner => \A u \in ManagedTeams : Added(t)[u] = "maintainer" => place[u] = "maintainer"
         /\ owner => Added(t)[t] = "maintainer"
         /\ inside => Added(t)[t] # "pending"
<1>1. /\ place \in [ManagedTeams -> Places] /\ inside \in BOOLEAN /\ owner \in BOOLEAN
      /\ owner => inside
  BY MembershipIsTyped
<1>2. CASE owner
  BY <1>1, <1>2 DEF Added, Places
<1>3. CASE ~ owner /\ inside
  BY <1>1, <1>3 DEF Added, Places
<1>4. CASE ~ owner /\ ~ inside
  BY <1>1, <1>4 DEF Added, Places
<1> QED BY <1>1, <1>2, <1>3, <1>4

LEMMA AddKeeps ==
  ASSUME MembershipInv, NEW d \in Who, AddToTeam(d) \/ AddFails(d)
  PROVE  MembershipInv' /\ NoGuess
<1> DEFINE t == mem[d].team
           stands == [mem[d] EXCEPT !.at = "told"]
<1>t. /\ MembershipTypeOK /\ mem \in [Who -> Joining] /\ place \in [ManagedTeams -> Places]
      /\ promised \in ManagedTeams \cup {NoTeam} /\ away \in 0..MaxAway
  BY MembershipIsTyped DEF MembershipInv
<1>1. /\ mem[d] \in Joining /\ Knows(d) /\ mem[d].at = "adding" /\ At(d, "told")
      /\ UNCHANGED <<inside, owner, labelled, promised, moves>>
      /\ place' \in {place, Added(t)} /\ away' \in 0..MaxAway
  BY <1>t, Bounds DEF MembershipInv, AddToTeam, AddFails, Fails
<1>2. t \in ManagedTeams /\ mem[d].told = "inside" /\ (inside \/ mem[d].left)
  BY <1>1 DEF Knows
<1>3. /\ place' \in [ManagedTeams -> Places]
      /\ ~ owner => \A u \in ManagedTeams : place'[u] = "maintainer" => place[u] = "maintainer"
  BY <1>t, <1>1, <1>2, WhatIsAdded
<1>4. /\ stands \in Joining /\ stands.at = "told" /\ stands.told = mem[d].told
      /\ stands.left = mem[d].left /\ stands.team = mem[d].team /\ stands.asked = mem[d].asked
  BY <1>1 DEF Joining
<1>5. Put(d, stands)
  BY <1>1 DEF At
<1> HIDE DEF stands
<1>6. mem'[d] = stands /\ \A e \in Who \ {d} : mem'[e] = mem[e]
  BY <1>t, <1>5 DEF Put
<1>7. Knows(d)'
  BY <1>1, <1>2, <1>4, <1>6 DEF Knows
<1>8. MembershipInv'
  BY <1>t, <1>1, <1>3, <1>4, <1>5, <1>7, OneCommand
<1>9. NoGuess
  <2> SUFFICES ASSUME NEW e \in DOMAIN mem, NEW u \in ManagedTeams, mem[e].at = "adding",
                      mem'[e].at = "told", place'[u] # place[u]
               PROVE  /\ place'[u] = "pending" => mem[e].told = "inside" /\ mem[e].left
                      /\ place[u] = "maintainer" => mem[e].saw = "unread" \/ mem[e].risen
                      /\ e = Sweep => u = mem[e].asked
    BY DEF NoGuess
  <2>1. e = d
    BY <1>t, <1>6
  <2>2. u = t /\ place' = Added(t)
    BY <1>t, <1>1, <1>2, WhatIsAdded
  <2>3. place'[u] = "pending" => ~ inside
    BY <1>t, <1>2, <2>2, WhatIsAdded
  <2>4. owner => place[u] # "maintainer"
    BY <1>t, <1>2, <2>2, WhatIsAdded
  <2> QED BY <1>1, <1>2, <2>1, <2>2, <2>3, <2>4 DEF Knows
<1> QED BY <1>8, <1>9

LEMMA MemberStepKeeps ==
  ASSUME MembershipInv, NEW d \in Who, MemberStep(d) \/ AddFails(d)
  PROVE  MembershipInv'
<1>t. /\ MembershipTypeOK /\ promised \in ManagedTeams \cup {NoTeam} /\ away \in 0..MaxAway
      /\ mem[d] \in Joining /\ Knows(d)
  BY MembershipIsTyped DEF MembershipInv
<1>1. CASE AskOwners(d)
  <2>1. promised' \in ManagedTeams \cup {NoTeam}
    BY <1>t, <1>1 DEF AskOwners, Destination, Joining, ManagedTeams
  <2> QED BY <1>t, <1>1, <2>1, JoinerGoesOn DEF AskOwners
<1>2. CASE Grant(d)
  <2>1. /\ mem[d].at = "granting" /\ mem[d].saw = "unread" /\ away' \in 0..MaxAway
        /\ UNCHANGED <<Organisation, promised>>
    BY <1>t, <1>2, Bounds DEF Grant, Fails, Knows
  <2>2. CASE At(d, "destining") /\ mem[d].told = "inside"
    BY <1>t, <2>1, <2>2, JoinerGoesOn
  <2>3. CASE At(d, "told")
    BY <1>t, <2>1, <2>3, JoinerGoesOn
  <2> QED BY <1>2, <2>2, <2>3 DEF Grant
<1> QED BY <1>1, <1>2, InOrganisationKeeps, DestineKeeps, TeamMembershipKeeps, AddKeeps DEF MemberStep

LEMMA MembershipKeeps == MembershipInv /\ [MembershipNext]_memVars => MembershipInv'
<1> SUFFICES ASSUME MembershipInv, [MembershipNext]_memVars
             PROVE  MembershipInv'
  OBVIOUS
<1>1. CASE UNCHANGED memVars
  BY <1>1 DEF memVars, MembershipInv, MembershipTypeOK, Knows
<1>2. CASE MembershipNext
  BY <1>2, OrganisationKeeps, SweepAsksKeeps, AssignKeeps, MemberStepKeeps
  DEF MembershipNext, Who
<1> QED BY <1>1, <1>2

\* Only adding writes in a team on the command's behalf.
LEMMA StepsAreNoGuess ==
  MembershipInv /\ [MembershipNext]_memVars => [NoGuess]_memVars
<1> SUFFICES ASSUME MembershipInv, MembershipNext PROVE NoGuess
  OBVIOUS
<1>t. mem \in [Who -> Joining]
  BY MembershipIsTyped DEF MembershipInv
<1>1. CASE \E d \in Who : AddToTeam(d) \/ AddFails(d)
  BY <1>1, AddKeeps
<1>2. CASE UNCHANGED place
  BY <1>2 DEF NoGuess
<1>3. CASE OwnerInvites \/ Joins \/ Leaves \/ Promoted
  <2>1. \A d \in Who : mem'[d].at = mem[d].at
    BY <1>t, <1>3 DEF OwnerInvites, Joins, Leaves, Promoted, LeftSince, RisenSince, Joining
  <2> QED BY <1>t, <2>1 DEF NoGuess
<1>4. CASE Relabelled \/ SweepAsks \/ \E d \in Joiner : Assign(d)
  BY <1>2, <1>4 DEF Relabelled, SweepAsks, Assign, Organisation
<1>5. CASE \E d \in Who : \/ InOrganisation(d) \/ AskOwners(d) \/ Grant(d) \/ Destine(d)
                         \/ TeamMembership(d)
  BY <1>2, <1>5 DEF InOrganisation, AskOwners, Grant, Destine, TeamMembership, Organisation
<1> QED BY <1>1, <1>3, <1>4, <1>5 DEF MembershipNext, MemberStep, OrganisationMoves, Who

\* Who is where, and what every command knows, keeps its types (bot/team.go).
THEOREM MembershipTypes == MembershipSpec => []MembershipTypeOK
<1>1. MembershipInit => MembershipInv
  BY MembershipBegins
<1>2. MembershipInv /\ [MembershipNext]_memVars => MembershipInv'
  BY MembershipKeeps
<1>3. MembershipInv => MembershipTypeOK
  BY DEF MembershipInv
<1> QED BY <1>1, <1>2, <1>3, PTL DEF MembershipSpec

\* What the bot writes in a team is no guess, however the organisation moves
\* between what a command was told and what it writes (Server.membership,
\* intoTheTeam, destination).
THEOREM NoWriteIsAGuess == MembershipSpec => WritesAreNoGuess
<1>1. MembershipInit => MembershipInv
  BY MembershipBegins
<1>2. MembershipInv /\ [MembershipNext]_memVars => MembershipInv'
  BY MembershipKeeps
<1>3. MembershipInv /\ [MembershipNext]_memVars => [NoGuess]_memVars
  BY SMTT(40), StepsAreNoGuess
<1> QED BY <1>1, <1>2, <1>3, PTL DEF MembershipSpec, WritesAreNoGuess

-----------------------------------------------------------------------------
(***************************************************************************)
(* Nobody is asked twice, for any titles, commands and answers.  A command *)
(* has handled whoever the collection it curates names, or was curating it *)
(* already when they were asked.                                           *)
(***************************************************************************)

Collection == Seq(Seq(Item))

\* A command as a record; the items it knows are whatever they are.
Shaped(f) ==
  f \in [at : {"idle", "resolving", "following", "listing", "curating", "told"},
         confirm : BOOLEAN, accounts : SUBSET Account, toFollow : SUBSET Account,
         titles : Seq(Title), byTitle : [Title -> Nat], active : {f.active},
         handled : SUBSET Account, lost : SUBSET (Account \cup Title)]

CollectionsTyped ==
  /\ following \subseteq Account
  /\ collection \in [Title -> Collection]
  /\ fol \in [Follower -> {fol[d] : d \in Follower}]
  /\ \A d \in Follower : Shaped(fol[d])
  /\ answers \in 0..MaxAnswers /\ wrong \in 0..MaxWrong

Asked(items) == {item \in Range(items) : item.state # "declined"}

\* The item is no news to f, a command of d: it has handled the account, or was
\* curating already when somebody asked, itself only unheard.
NoNews(d, f, item) ==
  \/ item.who \in f.handled
  \/ d \in item.during /\ (item.by = d => item.who \in f.lost)

\* What f, a command of d, knows of the collections c.
KnowsWhoWasAsked(d, f, c) ==
  /\ f.toFollow \subseteq f.accounts
  /\ \A t \in Title : f.byTitle[t] \in 0..Len(c[t])
  /\ f.at = "curating" =>
       /\ f.titles # << >> /\ f.byTitle[Head(f.titles)] # 0
       /\ \A item \in Asked(c[Head(f.titles)][f.byTitle[Head(f.titles)]]) : NoNews(d, f, item)

CollectionsInv ==
  CollectionsTyped /\ \A d \in Follower : KnowsWhoWasAsked(d, fol[d], collection)

Choosing(d, t, i) ==
  fol[d].at = "curating" /\ Head(fol[d].titles) = t /\ fol[d].byTitle[t] = i

\* Whoever is in the i-th collection of the title after a step was there before
\* it, or was asked by one of these commands while all those that curate it were
\* curating it.
NoneUnseen(c, asking) ==
  \A t \in Title :
    /\ Len(collection[t]) <= Len(c[t])
    /\ \A i \in DOMAIN collection[t] : \A item \in Asked(c[t][i]) :
         \/ \E was \in Asked(collection[t][i]) :
              was.who = item.who /\ was.during = item.during /\ was.by = item.by
         \/ /\ item.by \in asking
            /\ \A e \in Follower : Choosing(e, t, i) => e \in item.during

LEMMA TheOthersStillKnow ==
  ASSUME CollectionsInv, NEW c \in [Title -> Collection], NEW asking, NoneUnseen(c, asking),
         NEW d \in Follower, d \notin asking
  PROVE  KnowsWhoWasAsked(d, fol[d], c)
<1> USE DEF CollectionsInv
<1>1. Shaped(fol[d]) /\ KnowsWhoWasAsked(d, fol[d], collection)
  BY DEF CollectionsTyped
<1>2. \A t \in Title : /\ Len(c[t]) \in Nat /\ Len(collection[t]) \in Nat
                       /\ DOMAIN collection[t] = 1..Len(collection[t])
  BY DEF CollectionsTyped, Collection
<1>3. ASSUME NEW t \in Title PROVE fol[d].byTitle[t] \in 0..Len(c[t])
  <2>1. fol[d].byTitle[t] \in 0..Len(collection[t]) /\ Len(collection[t]) <= Len(c[t])
    BY <1>1 DEF KnowsWhoWasAsked, NoneUnseen
  <2> QED BY <2>1, <1>2
<1>4. ASSUME fol[d].at = "curating"
      PROVE  /\ fol[d].titles # << >> /\ fol[d].byTitle[Head(fol[d].titles)] # 0
             /\ \A item \in Asked(c[Head(fol[d].titles)][fol[d].byTitle[Head(fol[d].titles)]]) :
                  NoNews(d, fol[d], item)
  <2> DEFINE t == Head(fol[d].titles)
             i == fol[d].byTitle[t]
  <2>1. fol[d].titles # << >> /\ i # 0
    BY <1>1, <1>4 DEF KnowsWhoWasAsked
  <2>2. t \in Title
    BY <1>1, <2>1, HeadTailProperties DEF Shaped
  <2>3. i \in DOMAIN collection[t]
    BY <1>1, <1>2, <2>1, <2>2 DEF KnowsWhoWasAsked
  <2>4. Choosing(d, t, i)
    BY Zenon, <1>4 DEF Choosing
  <2>5. \A was \in Asked(collection[t][i]) : NoNews(d, fol[d], was)
    BY Zenon, <1>1, <1>4 DEF KnowsWhoWasAsked
  <2> HIDE DEF t, i
  <2>6. \A item \in Asked(c[t][i]) : NoNews(d, fol[d], item)
    BY <2>2, <2>3, <2>4, <2>5 DEF NoneUnseen, NoNews
  <2> QED BY <2>1, <2>6 DEF t, i
<1> QED BY <1>1, <1>3, <1>4 DEF KnowsWhoWasAsked

LEMMA OneCommandMoves ==
  ASSUME CollectionsInv, NEW d \in Follower, NEW f,
         fol' = [fol EXCEPT ![d] = f], Shaped(f),
         following' \subseteq Account, collection' \in [Title -> Collection],
         answers' \in 0..MaxAnswers, wrong' \in 0..MaxWrong,
         NoneUnseen(collection', {d}), KnowsWhoWasAsked(d, f, collection')
  PROVE  CollectionsInv'
<1>1. fol'[d] = f /\ \A e \in Follower \ {d} : fol'[e] = fol[e]
  BY DEF CollectionsInv, CollectionsTyped
<1>2. \A e \in Follower : KnowsWhoWasAsked(e, fol'[e], collection')
  BY <1>1, TheOthersStillKnow DEF CollectionsInv
<1>3. \A e \in Follower : Shaped(fol'[e])
  BY <1>1 DEF CollectionsInv, CollectionsTyped
<1>4. fol' \in [Follower -> {fol'[e] : e \in Follower}]
  BY DEF CollectionsInv, CollectionsTyped
<1>5. CollectionsTyped'
  BY SMTT(40), <1>3, <1>4 DEF CollectionsTyped, Shaped
<1>6. (\A e \in Follower : KnowsWhoWasAsked(e, fol[e], collection))'
  BY <1>2 DEF KnowsWhoWasAsked
<1> QED BY <1>5, <1>6 DEF CollectionsInv

\* Nothing was asked.
LEMMA NobodyAsked == CollectionsInv => \A asking : NoneUnseen(collection, asking)
BY DEF CollectionsInv, CollectionsTyped, Collection, NoneUnseen

\* A command that moves on without asking anybody.
LEMMA OnlyTheCommand ==
  ASSUME CollectionsInv, NEW d \in Follower, NEW f,
         fol' = [fol EXCEPT ![d] = f], Shaped(f),
         following' \subseteq Account, UNCHANGED collection,
         answers' \in 0..MaxAnswers, wrong' \in 0..MaxWrong,
         KnowsWhoWasAsked(d, f, collection)
  PROVE  CollectionsInv'
<1>1. collection' \in [Title -> Collection] /\ NoneUnseen(collection', {d})
  BY NobodyAsked DEF CollectionsInv, CollectionsTyped
<1> QED BY <1>1, OneCommandMoves

\* One collection of a title becomes other items.
LEMMA OneCollectionChanges ==
  ASSUME CollectionsInv, NEW t \in Title, NEW i \in DOMAIN collection[t], NEW new \in Seq(Item),
         NEW asking,
         \A item \in Asked(new) :
           \/ \E was \in Asked(collection[t][i]) :
                was.who = item.who /\ was.during = item.during /\ was.by = item.by
           \/ /\ item.by \in asking
              /\ \A e \in Follower : Choosing(e, t, i) => e \in item.during,
         NEW c, c = [collection EXCEPT ![t][i] = new]
  PROVE  c \in [Title -> Collection] /\ NoneUnseen(c, asking)
<1>1. collection \in [Title -> Collection] /\ collection[t] \in Seq(Seq(Item))
  BY DEF CollectionsInv, CollectionsTyped, Collection
<1>2. c = [collection EXCEPT ![t] = [collection[t] EXCEPT ![i] = new]]
  OBVIOUS
<1>3. /\ [collection[t] EXCEPT ![i] = new] \in Seq(Seq(Item))
      /\ Len([collection[t] EXCEPT ![i] = new]) = Len(collection[t])
  BY <1>1, ExceptSeq
<1>4. c \in [Title -> Collection]
  BY <1>1, <1>2, <1>3 DEF Collection
<1>5. c[t] = [collection[t] EXCEPT ![i] = new] /\ \A u \in Title \ {t} : c[u] = collection[u]
  BY <1>1, <1>2
<1>6. c[t][i] = new /\ \A k \in DOMAIN collection[t] : k # i => c[t][k] = collection[t][k]
  BY <1>1, <1>5
<1>7. NoneUnseen(collection, asking)
  BY NobodyAsked
<1> QED BY ZenonT(60), <1>3, <1>4, <1>5, <1>6, <1>7 DEF NoneUnseen

LEMMA TheirItems ==
  ASSUME CollectionsInv, NEW t \in Title, NEW i \in DOMAIN collection[t]
  PROVE  /\ collection[t] \in Seq(Seq(Item)) /\ collection[t][i] \in Seq(Item)
         /\ i \in Nat \ {0} /\ i <= Len(collection[t])
BY DEF CollectionsInv, CollectionsTyped, Collection

\* An account that answers was asked, and stays who it was.
LEMMA ConsentKeeps == ASSUME CollectionsInv, Consent PROVE CollectionsInv'
<1>1. PICK t \in Title : \E i \in DOMAIN collection[t] : \E j \in DOMAIN collection[t][i] :
        /\ collection[t][i][j].state # "declined"
        /\ \E state \in {"accepted", "declined"} \ {collection[t][i][j].state} :
             collection' = [collection EXCEPT ![t][i][j].state = state]
  BY DEF Consent
<1>2. PICK i \in DOMAIN collection[t] : \E j \in DOMAIN collection[t][i] :
        /\ collection[t][i][j].state # "declined"
        /\ \E state \in {"accepted", "declined"} \ {collection[t][i][j].state} :
             collection' = [collection EXCEPT ![t][i][j].state = state]
  BY <1>1
<1>3. PICK j \in DOMAIN collection[t][i], state \in {"accepted", "declined"} :
        /\ collection[t][i][j].state # "declined"
        /\ collection' = [collection EXCEPT ![t][i][j].state = state]
  BY <1>2
<1> DEFINE old == collection[t][i]
           item == [old[j] EXCEPT !.state = state]
           new == [old EXCEPT ![j] = item]
<1>4. old \in Seq(Item) /\ old[j] \in Item /\ item \in Item
  <2>1. old \in Seq(Item)
    BY TheirItems
  <2>2. old[j] \in Item
    BY <2>1
  <2> QED BY <2>1, <2>2 DEF Item
<1>5. new \in Seq(Item) /\ Len(new) = Len(old) /\ DOMAIN new = DOMAIN old
  BY <1>4, ExceptSeq
<1>6. collection' = [collection EXCEPT ![t][i] = new]
  BY <1>3
<1>7. item.who = old[j].who /\ item.during = old[j].during /\ item.by = old[j].by
  BY <1>4 DEF Item
<1>8. old[j] \in Asked(old)
  BY <1>3 DEF Asked, Range
<1>9. \A it \in Asked(new) : \E was \in Asked(old) :
        was.who = it.who /\ was.during = it.during /\ was.by = it.by
  <2> SUFFICES ASSUME NEW it \in Asked(new)
               PROVE  \E was \in Asked(old) :
                        was.who = it.who /\ was.during = it.during /\ was.by = it.by
    OBVIOUS
  <2>0. PICK k \in DOMAIN new : it = new[k] /\ new[k].state # "declined"
    BY DEF Asked, Range
  <2>1. CASE k = j
    BY <2>0, <2>1, <1>4, <1>7, <1>8
  <2>2. CASE k # j
    <3>1. new[k] = old[k] /\ k \in DOMAIN old
      BY <2>2, <1>5
    <3> QED BY <2>0, <3>1 DEF Asked, Range
  <2> QED BY <2>1, <2>2
<1>10. collection' \in [Title -> Collection] /\ NoneUnseen(collection', {})
  <2> HIDE DEF new
  <2> QED BY <1>5, <1>6, <1>9, OneCollectionChanges
<1>11. fol' = fol /\ following' = following /\ wrong' = wrong /\ answers' \in 0..MaxAnswers
  BY CollectionsAssumption DEF Consent, CollectionsInv, CollectionsTyped
<1>12. CollectionsTyped'
  BY <1>10, <1>11 DEF CollectionsInv, CollectionsTyped, Shaped
<1>13. \A d \in Follower : KnowsWhoWasAsked(d, fol[d], collection')
  BY <1>10, TheOthersStillKnow
<1> QED BY <1>11, <1>12, <1>13 DEF CollectionsInv

LEMMA WhatACommandIs ==
  ASSUME CollectionsInv, NEW d \in Follower
  PROVE  /\ Shaped(fol[d]) /\ KnowsWhoWasAsked(d, fol[d], collection)
         /\ following \subseteq Account /\ answers \in 0..MaxAnswers /\ wrong \in 0..MaxWrong
         /\ \A t \in Title : Len(collection[t]) \in Nat
                             /\ DOMAIN collection[t] = 1..Len(collection[t])
BY DEF CollectionsInv, CollectionsTyped, Collection

LEMMA BeginFollowKeeps ==
  ASSUME CollectionsInv, NEW d \in Follower, BeginFollow(d) PROVE CollectionsInv'
<1>1. PICK confirm \in BOOLEAN :
        fol' = [fol EXCEPT ![d] = [Idling EXCEPT !.at = "resolving", !.confirm = confirm]]
  BY DEF BeginFollow
<1> DEFINE f == [Idling EXCEPT !.at = "resolving", !.confirm = confirm]
<1>2. Shaped(f) /\ f.toFollow = {} /\ f.at = "resolving" /\ f.byTitle = [t \in Title |-> 0]
  BY EmptySeq DEF Shaped, Idling
<1>3. UNCHANGED <<following, collection, answers, wrong>>
  BY DEF BeginFollow
<1> HIDE DEF f
<1>4. KnowsWhoWasAsked(d, f, collection)
  BY <1>2, WhatACommandIs DEF KnowsWhoWasAsked
<1> QED BY <1>1, <1>2, <1>3, <1>4, WhatACommandIs, OnlyTheCommand DEF f

LEMMA DoneKeeps ==
  ASSUME CollectionsInv, NEW d \in Follower, Done(d),
         UNCHANGED <<following, collection, answers>>, wrong' \in 0..MaxWrong
  PROVE  CollectionsInv'
<1> DEFINE f == [fol[d] EXCEPT !.at = "told"]
<1>1. Shaped(fol[d]) /\ KnowsWhoWasAsked(d, fol[d], collection)
  BY WhatACommandIs
<1>2. /\ Shaped(f) /\ f.at = "told" /\ f.toFollow = fol[d].toFollow
      /\ f.accounts = fol[d].accounts /\ f.byTitle = fol[d].byTitle
  BY <1>1 DEF Shaped
<1>3. fol' = [fol EXCEPT ![d] = f]
  BY DEF Done
<1> HIDE DEF f
<1>4. KnowsWhoWasAsked(d, f, collection)
  BY <1>1, <1>2 DEF KnowsWhoWasAsked
<1> QED BY <1>2, <1>3, <1>4, WhatACommandIs, OnlyTheCommand

LEMMA ResolveKeeps ==
  ASSUME CollectionsInv, NEW d \in Follower, Resolve(d)
  PROVE  CollectionsInv'
<1> DEFINE named == UNION {Named[d][t] : t \in Title}
<1>1. PICK accounts \in {named} \cup {named \ {who} : who \in named} :
        /\ accounts # named => wrong < MaxWrong
        /\ wrong' = IF accounts # named THEN wrong + 1 ELSE wrong
        /\ fol' = [fol EXCEPT ![d] = [@ EXCEPT !.at = "following", !.accounts = accounts,
                                               !.toFollow = accounts \ following]]
  BY DEF Resolve
<1>2. UNCHANGED <<following, collection, answers>>
  BY DEF Resolve
<1>3. accounts \subseteq Account
  <2>1. named \subseteq Account
    BY CollectionsAssumption DEF Title
  <2> QED BY <2>1
<1>4. wrong' \in 0..MaxWrong
  BY <1>1, WhatACommandIs, CollectionsAssumption
<1> DEFINE f == [fol[d] EXCEPT !.at = "following", !.accounts = accounts,
                               !.toFollow = accounts \ following]
<1>5. Shaped(fol[d]) /\ KnowsWhoWasAsked(d, fol[d], collection)
  BY WhatACommandIs
<1>6. /\ Shaped(f) /\ f.at = "following" /\ f.toFollow \subseteq f.accounts
      /\ f.byTitle = fol[d].byTitle
  BY <1>3, <1>5 DEF Shaped
<1>7. fol' = [fol EXCEPT ![d] = f]
  BY <1>1
<1> HIDE DEF f
<1>8. KnowsWhoWasAsked(d, f, collection)
  BY <1>5, <1>6 DEF KnowsWhoWasAsked
<1> QED BY <1>2, <1>4, <1>6, <1>7, <1>8, WhatACommandIs, OnlyTheCommand

LEMMA FollowKeeps ==
  ASSUME CollectionsInv, NEW d \in Follower, Follow(d) PROVE CollectionsInv'
<1> DEFINE who == CHOOSE a \in fol[d].toFollow : TRUE
           f == [fol[d] EXCEPT !.toFollow = @ \ {who}]
<1>1. Shaped(fol[d]) /\ KnowsWhoWasAsked(d, fol[d], collection)
  BY WhatACommandIs
<1>2. who \in Account
  BY <1>1 DEF Follow, Shaped
<1>3. following' \subseteq Account
  BY <1>2, WhatACommandIs DEF Follow
<1>4. fol' = [fol EXCEPT ![d] = f] /\ UNCHANGED <<collection, answers, wrong>>
  BY DEF Follow
<1>5. Shaped(f) /\ f.toFollow \subseteq f.accounts /\ f.at = "following" /\ f.byTitle = fol[d].byTitle
  BY <1>1 DEF Shaped, Follow, KnowsWhoWasAsked
<1> HIDE DEF f
<1>6. KnowsWhoWasAsked(d, f, collection)
  BY <1>1, <1>5 DEF KnowsWhoWasAsked
<1> QED BY <1>3, <1>4, <1>5, <1>6, WhatACommandIs, OnlyTheCommand

LEMMA ReadKeeps ==
  ASSUME CollectionsInv, NEW d \in Follower, ReadCollections(d)
  PROVE  CollectionsInv'
<1>1. PICK byTitle \in [Title -> {0} \cup UNION {DOMAIN collection[t] : t \in Title}] :
       /\ \A t \in Title : IF collection[t] = << >> THEN byTitle[t] = 0
                           ELSE byTitle[t] \in DOMAIN collection[t]
       /\ fol' = [fol EXCEPT ![d] = [@ EXCEPT !.at = "listing", !.byTitle = byTitle,
                                              !.titles = Titles]]
  BY DEF ReadCollections
<1>2. UNCHANGED <<following, collection, answers, wrong>>
  BY DEF ReadCollections
<1> DEFINE f == [fol[d] EXCEPT !.at = "listing", !.byTitle = byTitle, !.titles = Titles]
<1>3. Shaped(fol[d]) /\ KnowsWhoWasAsked(d, fol[d], collection)
  BY WhatACommandIs
<1>4. \A t \in Title : byTitle[t] \in 0..Len(collection[t])
  BY <1>1, WhatACommandIs
<1>5. byTitle \in [Title -> Nat]
  BY <1>1, <1>4, WhatACommandIs
<1>6. Shaped(f)
  BY <1>3, <1>5, CollectionsAssumption DEF Shaped, Title
<1>7. /\ f.at = "listing" /\ f.toFollow = fol[d].toFollow /\ f.accounts = fol[d].accounts
      /\ f.byTitle = byTitle
  BY <1>3 DEF Shaped
<1>8. fol' = [fol EXCEPT ![d] = f]
  BY <1>1
<1> HIDE DEF f
<1>9. KnowsWhoWasAsked(d, f, collection)
  BY <1>3, <1>4, <1>7 DEF KnowsWhoWasAsked
<1> QED BY <1>2, <1>6, <1>8, <1>9, WhatACommandIs, OnlyTheCommand

\* A title less: nothing is in hand then.
LEMMA TitleLess ==
  ASSUME CollectionsInv, NEW d \in Follower, fol[d].titles # << >>,
         fol' = [fol EXCEPT ![d].at = "listing", ![d].titles = Tail(@)],
         UNCHANGED <<following, collection, answers, wrong>>
  PROVE  CollectionsInv'
<1> DEFINE f == [fol[d] EXCEPT !.at = "listing", !.titles = Tail(@)]
<1>1. Shaped(fol[d]) /\ KnowsWhoWasAsked(d, fol[d], collection)
  BY WhatACommandIs
<1>2. Tail(fol[d].titles) \in Seq(Title)
  BY <1>1, HeadTailProperties DEF Shaped
<1>3. /\ Shaped(f) /\ f.at = "listing" /\ f.toFollow = fol[d].toFollow
      /\ f.accounts = fol[d].accounts /\ f.byTitle = fol[d].byTitle
  BY <1>1, <1>2 DEF Shaped
<1>4. fol' = [fol EXCEPT ![d] = f]
  OBVIOUS
<1> HIDE DEF f
<1>5. KnowsWhoWasAsked(d, f, collection)
  BY <1>1, <1>3 DEF KnowsWhoWasAsked
<1> QED BY <1>3, <1>4, <1>5, WhatACommandIs, OnlyTheCommand

LEMMA PassOverKeeps ==
  ASSUME CollectionsInv, NEW d \in Follower, PassOver(d) PROVE CollectionsInv'
<1>1. Shaped(fol[d]) /\ fol[d].at = "listing" /\ fol \in [Follower -> {fol[e] : e \in Follower}]
  BY WhatACommandIs DEF PassOver, CollectionsInv, CollectionsTyped
<1>2. [fol[d] EXCEPT !.at = "listing"] = fol[d]
  BY <1>1 DEF Shaped
<1>3. [fol EXCEPT ![d].at = "listing"] = fol
  BY <1>1, <1>2
<1>4. fol' = [fol EXCEPT ![d].at = "listing", ![d].titles = Tail(@)]
  BY <1>3 DEF PassOver
<1> QED BY <1>4, TitleLess DEF PassOver

LEMMA NextTitleKeeps ==
  ASSUME CollectionsInv, NEW d \in Follower, NextTitle(d) PROVE CollectionsInv'
<1>1. fol[d].titles # << >>
  BY WhatACommandIs DEF NextTitle, KnowsWhoWasAsked
<1> QED BY <1>1, TitleLess DEF NextTitle

\* The title in hand and its collection.
LEMMA InHand ==
  ASSUME CollectionsInv, NEW d \in Follower, fol[d].titles # << >>
  PROVE  /\ Head(fol[d].titles) \in Title
         /\ fol[d].byTitle[Head(fol[d].titles)] \in 0..Len(collection[Head(fol[d].titles)])
         /\ fol[d].at = "curating" =>
              /\ fol[d].byTitle[Head(fol[d].titles)] \in DOMAIN collection[Head(fol[d].titles)]
              /\ Choosing(d, Head(fol[d].titles), fol[d].byTitle[Head(fol[d].titles)])
              /\ \A item \in Asked(collection[Head(fol[d].titles)]
                                             [fol[d].byTitle[Head(fol[d].titles)]]) :
                   NoNews(d, fol[d], item)
<1>1. Shaped(fol[d]) /\ KnowsWhoWasAsked(d, fol[d], collection)
  BY WhatACommandIs
<1>2. Head(fol[d].titles) \in Title
  BY <1>1, HeadTailProperties DEF Shaped
<1>3. fol[d].byTitle[Head(fol[d].titles)] \in 0..Len(collection[Head(fol[d].titles)])
  BY <1>1, <1>2 DEF KnowsWhoWasAsked
<1> QED BY SMTT(40), <1>1, <1>2, <1>3, WhatACommandIs DEF KnowsWhoWasAsked, Choosing

LEMMA AskedAreAccounts ==
  ASSUME NEW items \in Seq(Item)
  PROVE  /\ NamedIn(items) \subseteq Account
         /\ \A item \in Asked(items) : item \in Item /\ item.who \in NamedIn(items)
<1>1. \A item \in Range(items) : item \in Item
  BY DEF Range
<1>2. \A item \in Item : item.who \in Account
  BY DEF Item
<1>3. NamedIn(items) \subseteq Account
  BY <1>1, <1>2 DEF NamedIn
<1> QED BY <1>1, <1>3 DEF Asked, NamedIn

\* A collection that is made is empty, and the others stay.
LEMMA MadeOne ==
  ASSUME CollectionsInv, NEW t \in Title, NEW c,
         c = [collection EXCEPT ![t] = Append(collection[t], << >>)]
  PROVE  /\ c \in [Title -> Collection] /\ \A asking : NoneUnseen(c, asking)
         /\ Len(c[t]) = Len(collection[t]) + 1 /\ Asked(c[t][Len(collection[t]) + 1]) = {}
         /\ \A u \in Title : u # t => c[u] = collection[u]
<1> DEFINE new == Len(collection[t]) + 1
<1>1. Len(collection[t]) \in Nat /\ DOMAIN collection[t] = 1..Len(collection[t])
  BY WhatACommandIs DEF CollectionsInv, CollectionsTyped, Collection
<1>2. collection \in [Title -> Collection] /\ collection[t] \in Seq(Seq(Item)) /\ << >> \in Seq(Item)
  BY EmptySeq DEF CollectionsInv, CollectionsTyped, Collection
<1>3. /\ Append(collection[t], << >>) \in Seq(Seq(Item))
      /\ Len(Append(collection[t], << >>)) = new
      /\ \A i \in 1..Len(collection[t]) : Append(collection[t], << >>)[i] = collection[t][i]
      /\ Append(collection[t], << >>)[new] = << >>
  BY SMTT(40), <1>2, AppendProperties
<1>4. c \in [Title -> Collection]
  BY <1>2, <1>3 DEF Collection
<1>5. c[t] = Append(collection[t], << >>) /\ \A u \in Title : u # t => c[u] = collection[u]
  BY <1>2
<1>6. \A asking : NoneUnseen(collection, asking)
  BY NobodyAsked
<1>7. \A u \in Title : Len(collection[u]) \in Nat /\ DOMAIN collection[u] = 1..Len(collection[u])
  BY DEF CollectionsInv, CollectionsTyped, Collection
<1>8. ASSUME NEW asking PROVE NoneUnseen(c, asking)
  <2>1. \A u \in Title : Len(collection[u]) <= Len(c[u])
    BY SMTT(40), <1>1, <1>3, <1>5, <1>7
  <2>2. \A u \in Title : \A i \in DOMAIN collection[u] : c[u][i] = collection[u][i]
    BY <1>1, <1>3, <1>5
  <2> QED BY <1>6, <2>1, <2>2 DEF NoneUnseen
<1>9. Asked(c[t][new]) = {}
  BY SMTT(40), <1>3, <1>5 DEF Asked, Range
<1> QED BY <1>3, <1>4, <1>5, <1>8, <1>9

\* A collection just made is empty; of one that was there, whoever it names is
\* handled.
LEMMA PrepareKeeps ==
  ASSUME CollectionsInv, NEW d \in Follower, Prepare(d) PROVE CollectionsInv'
<1> DEFINE t == Head(fol[d].titles)
           which == fol[d].byTitle[t]
<1>1. Shaped(fol[d]) /\ KnowsWhoWasAsked(d, fol[d], collection)
  BY WhatACommandIs
<1>2. t \in Title /\ which \in 0..Len(collection[t]) /\ fol[d].titles # << >>
  BY InHand DEF Prepare
<1>3. UNCHANGED <<following, answers, wrong>>
  BY DEF Prepare
<1>4. Len(collection[t]) \in Nat /\ DOMAIN collection[t] = 1..Len(collection[t])
  BY <1>2, WhatACommandIs
<1>5. CASE which = 0
  <2> DEFINE new == Len(collection[t]) + 1
             c == [collection EXCEPT ![t] = Append(collection[t], << >>)]
             f == [fol[d] EXCEPT !.at = "curating", !.active = << >>, !.handled = {},
                                 !.lost = {}, !.byTitle[t] = new]
  <2>1. collection' = c /\ fol' = [fol EXCEPT ![d] = f]
    BY <1>5 DEF Prepare
  <2>2. /\ Shaped(f) /\ f.titles = fol[d].titles /\ f.toFollow = fol[d].toFollow
        /\ f.accounts = fol[d].accounts /\ f.byTitle[t] = new
        /\ \A u \in Title : u # t => f.byTitle[u] = fol[d].byTitle[u]
    <3>1. [fol[d].byTitle EXCEPT ![t] = new] \in [Title -> Nat]
      BY <1>1, <1>2, <1>4 DEF Shaped
    <3>2. f = [fol[d] EXCEPT !.at = "curating", !.active = << >>, !.handled = {},
                             !.lost = {}, !.byTitle = [fol[d].byTitle EXCEPT ![t] = new]]
      OBVIOUS
    <3>3. f.byTitle = [fol[d].byTitle EXCEPT ![t] = new]
      BY <1>1, <3>2 DEF Shaped
    <3> HIDE DEF t, new
    <3>4. /\ Shaped(f) /\ f.titles = fol[d].titles /\ f.toFollow = fol[d].toFollow
          /\ f.accounts = fol[d].accounts
      BY <1>1, <3>1, <3>2 DEF Shaped
    <3>5. fol[d].byTitle \in [Title -> Nat] /\ t \in Title
      BY <1>1, <1>2 DEF Shaped
    <3> QED BY <3>3, <3>4, <3>5
  <2>3. /\ c \in [Title -> Collection] /\ NoneUnseen(c, {d})
        /\ Len(c[t]) = new /\ Asked(c[t][new]) = {}
        /\ \A u \in Title : u # t => c[u] = collection[u]
    BY <1>2, MadeOne
  <2> HIDE DEF c, f
  <2>4. \A u \in Title : f.byTitle[u] \in 0..Len(c[u])
    <3>1. f.byTitle[t] \in 0..Len(c[t])
      BY SMTT(40), <1>4, <2>2, <2>3
    <3>2. \A u \in Title : u # t => f.byTitle[u] \in 0..Len(c[u])
      BY SMTT(40), <1>1, <2>2, <2>3 DEF KnowsWhoWasAsked
    <3> QED BY <3>1, <3>2
  <2>5. KnowsWhoWasAsked(d, f, c)
    <3>1. f.toFollow \subseteq f.accounts /\ f.titles # << >> /\ Head(f.titles) = t
      BY <1>1, <1>2, <2>2 DEF KnowsWhoWasAsked
    <3>2. f.byTitle[t] = new /\ new # 0 /\ \A item \in Asked(c[t][new]) : NoNews(d, f, item)
      BY <1>4, <2>2, <2>3
    <3> HIDE DEF t, new
    <3> QED BY Zenon, <2>4, <3>1, <3>2 DEF KnowsWhoWasAsked
  <2> QED BY <1>3, <2>1, <2>2, <2>3, <2>5, WhatACommandIs, OneCommandMoves
<1>6. CASE which # 0
  <2> DEFINE f == [fol[d] EXCEPT !.at = "curating", !.active = Active(collection[t][which]),
                                 !.handled = HandledIn(collection[t][which]), !.lost = {}]
  <2>1. fol' = [fol EXCEPT ![d] = f] /\ UNCHANGED collection
    BY <1>6 DEF Prepare
  <2>2. which \in DOMAIN collection[t]
    BY <1>2, <1>4, <1>6
  <2>3. collection[t][which] \in Seq(Item)
    BY <1>2, <2>2, TheirItems
  <2>4. HandledIn(collection[t][which]) \subseteq Account
    BY Zenon, <2>3, AskedAreAccounts DEF HandledIn
  <2>5. /\ Shaped(f) /\ f.titles = fol[d].titles /\ f.toFollow = fol[d].toFollow
        /\ f.accounts = fol[d].accounts /\ f.byTitle = fol[d].byTitle
        /\ f.handled = HandledIn(collection[t][which])
    BY Zenon, <1>1, <2>4 DEF Shaped
  <2> HIDE DEF f
  <2>6. KnowsWhoWasAsked(d, f, collection)
    BY Zenon, <1>1, <1>2, <1>6, <2>3, <2>5, AskedAreAccounts DEF KnowsWhoWasAsked, HandledIn, NoNews
  <2> QED BY <1>3, <2>1, <2>5, <2>6, WhatACommandIs, OnlyTheCommand
<1> QED BY Zenon, <1>5, <1>6

\* What is left when one is removed was there.
LEMMA RemovedOne ==
  ASSUME NEW items \in Seq(Item), NEW i \in DOMAIN items
  PROVE  /\ RemoveAt(items, i) \in Seq(Item) /\ Range(RemoveAt(items, i)) \subseteq Range(items)
         /\ Len(RemoveAt(items, i)) \in Nat /\ Len(RemoveAt(items, i)) <= Len(items)
<1> DEFINE front == SubSeq(items, 1, i - 1)
           back == SubSeq(items, i + 1, Len(items))
<1>1. Len(items) \in Nat /\ DOMAIN items = 1..Len(items) /\ i \in 1..Len(items)
  BY LenProperties
<1>2. /\ front \in Seq(Item) /\ Len(front) = i - 1
      /\ \A k \in 1..i - 1 : front[k] = items[k]
  <2>1. \A k \in 1..i - 1 : items[k] \in Item
    BY <1>1
  <2> HIDE DEF front
  <2>2. /\ front \in Seq(Item) /\ Len(front) = IF 1 <= i - 1 THEN i - 1 - 1 + 1 ELSE 0
        /\ \A k \in 1..i - 1 - 1 + 1 : front[k] = items[1 + k - 1]
    BY <1>1, <2>1, SubSeqProperties DEF front
  <2> QED BY <1>1, <2>2
<1>3. /\ back \in Seq(Item) /\ Len(back) = Len(items) - i
      /\ \A k \in 1..Len(items) - i : back[k] = items[i + k]
  <2>1. \A k \in i + 1..Len(items) : items[k] \in Item
    BY <1>1
  <2> HIDE DEF back
  <2>2. /\ back \in Seq(Item)
        /\ Len(back) = IF i + 1 <= Len(items) THEN Len(items) - (i + 1) + 1 ELSE 0
        /\ \A k \in 1..Len(items) - (i + 1) + 1 : back[k] = items[i + 1 + k - 1]
    BY <1>1, <2>1, SubSeqProperties DEF back
  <2>3. Len(back) = Len(items) - i /\ Len(items) - (i + 1) + 1 = Len(items) - i
    BY <1>1, <2>2
  <2>4. ASSUME NEW k \in 1..Len(items) - i PROVE back[k] = items[i + k]
    <3>1. k \in 1..Len(items) - (i + 1) + 1 /\ i + 1 + k - 1 = i + k
      BY <1>1
    <3> QED BY <2>2, <3>1
  <2> QED BY <2>2, <2>3, <2>4
<1>4. RemoveAt(items, i) = front \o back
  BY DEF RemoveAt
<1> HIDE DEF front, back
<1>5. /\ front \o back \in Seq(Item)
      /\ Len(front \o back) = Len(front) + Len(back)
      /\ \A k \in 1..Len(front) + Len(back) :
           (front \o back)[k] = IF k <= Len(front) THEN front[k] ELSE back[k - Len(front)]
  BY <1>2, <1>3, ConcatProperties
<1>6. \A k \in DOMAIN (front \o back) : \E m \in DOMAIN items : (front \o back)[k] = items[m]
  <2> SUFFICES ASSUME NEW k \in DOMAIN (front \o back)
               PROVE  \E m \in DOMAIN items : (front \o back)[k] = items[m]
    OBVIOUS
  <2>1. k \in 1..Len(items) - 1
    BY <1>1, <1>2, <1>3, <1>5, LenProperties
  <2>2. CASE k <= i - 1
    BY <1>1, <1>2, <1>3, <1>5, <2>1, <2>2
  <2>3. CASE ~ (k <= i - 1)
    <3>1. (front \o back)[k] = back[k - (i - 1)]
      BY <1>1, <1>2, <1>3, <1>5, <2>1, <2>3
    <3>2. back[k - (i - 1)] = items[k + 1]
      BY SMTT(40), <1>1, <1>3, <2>1, <2>3
    <3> QED BY <1>1, <2>1, <3>1, <3>2
  <2> QED BY <2>2, <2>3
<1>7. Len(front \o back) \in Nat /\ Len(front \o back) <= Len(items)
  BY <1>1, <1>2, <1>3, <1>5
<1> QED BY <1>4, <1>5, <1>6, <1>7 DEF Range

\* One less in the collection in hand.
LEMMA MadeRoom ==
  ASSUME CollectionsInv, NEW t \in Title, NEW which \in DOMAIN collection[t],
         NEW i \in DOMAIN collection[t][which],
         NEW c, c = [collection EXCEPT ![t][which] = RemoveAt(@, i)]
  PROVE  c \in [Title -> Collection] /\ \A asking : NoneUnseen(c, asking)
<1> DEFINE new == RemoveAt(collection[t][which], i)
<1>1. c = [collection EXCEPT ![t][which] = new]
  OBVIOUS
<1>2. new \in Seq(Item) /\ Asked(new) \subseteq Asked(collection[t][which])
  BY Zenon, TheirItems, RemovedOne DEF Asked
<1> HIDE DEF new
<1> QED BY <1>1, <1>2, OneCollectionChanges

LEMMA EvictKeeps ==
  ASSUME CollectionsInv, NEW d \in Follower, Evict(d) \/ EvictLost(d),
         UNCHANGED <<following, answers>>, wrong' \in 0..MaxWrong
  PROVE  CollectionsInv'
<1> DEFINE t == Head(fol[d].titles)
           which == fol[d].byTitle[t]
<1>1. Shaped(fol[d]) /\ KnowsWhoWasAsked(d, fol[d], collection)
  BY WhatACommandIs
<1>2. fol[d].at = "curating" /\ fol[d].titles # << >>
  BY Zenon, <1>1 DEF Evict, EvictLost, KnowsWhoWasAsked
<1>3. t \in Title /\ which \in DOMAIN collection[t]
  BY Zenon, <1>2, InHand
<1>5. CASE Done(d) /\ UNCHANGED collection
  BY <1>5, WhatACommandIs, DoneKeeps
<1>6. ASSUME NEW i \in DOMAIN collection[t][which],
             collection' = [collection EXCEPT ![t][which] = RemoveAt(@, i)],
             fol' = [fol EXCEPT ![d].active = Tail(@)] \/ Done(d)
      PROVE  CollectionsInv'
  <2>1. PICK f \in {[fol[d] EXCEPT !.active = Tail(fol[d].active)], [fol[d] EXCEPT !.at = "told"]} :
          fol' = [fol EXCEPT ![d] = f]
    BY <1>6 DEF Done
  <2>2. /\ Shaped(f) /\ f.titles = fol[d].titles /\ f.toFollow = fol[d].toFollow
        /\ f.accounts = fol[d].accounts /\ f.byTitle = fol[d].byTitle
        /\ f.handled = fol[d].handled /\ f.lost = fol[d].lost
    BY <1>1 DEF Shaped
  <2> HIDE DEF t, which
  <2>3. collection' \in [Title -> Collection] /\ \A asking : NoneUnseen(collection', asking)
    BY <1>3, <1>6, MadeRoom
  <2>4. KnowsWhoWasAsked(d, fol[d], collection')
    <3>1. NoneUnseen(collection', {}) /\ d \notin {}
      BY <2>3
    <3> QED BY <2>3, <3>1, TheOthersStillKnow
  <2>5. KnowsWhoWasAsked(d, f, collection')
    BY <1>2, <2>2, <2>4 DEF KnowsWhoWasAsked, NoNews
  <2> QED BY <2>1, <2>2, <2>3, <2>5, WhatACommandIs, OneCommandMoves
<1> QED BY Zenon, <1>5, <1>6 DEF Evict, EvictLost

\* Who is asked next had not been handled.
LEMMA NextIsNew ==
  ASSUME CollectionsInv, NEW d \in Follower, fol[d].titles # << >>,
         Wanting(d) # {}
  PROVE  NextHandle(d) \in Account /\ NextHandle(d) \notin fol[d].handled
<1>1. NextHandle(d) \in Wanting(d)
  BY DEF NextHandle
<1>2. Shaped(fol[d])
  BY WhatACommandIs
<1> QED BY <1>1, <1>2 DEF Wanting, Resolved, Shaped

LEMMA RefusedKeeps ==
  ASSUME CollectionsInv, NEW d \in Follower, Refused(d)
  PROVE  CollectionsInv'
<1> DEFINE f == Handle(d, NextHandle(d))
<1>1. Shaped(fol[d]) /\ KnowsWhoWasAsked(d, fol[d], collection)
  BY WhatACommandIs
<1>2. NextHandle(d) \in Account
  BY <1>1, NextIsNew DEF Refused, KnowsWhoWasAsked
<1>3. /\ Shaped(f) /\ f.titles = fol[d].titles /\ f.toFollow = fol[d].toFollow
      /\ f.accounts = fol[d].accounts /\ f.byTitle = fol[d].byTitle
      /\ f.handled = fol[d].handled \cup {NextHandle(d)} /\ f.at = fol[d].at
      /\ f.lost = fol[d].lost
  BY <1>1, <1>2 DEF Handle, Shaped
<1>4. fol' = [fol EXCEPT ![d] = f] /\ UNCHANGED <<following, collection, answers, wrong>>
  BY DEF Refused
<1> HIDE DEF f
<1>5. KnowsWhoWasAsked(d, f, collection)
  BY Zenon, <1>1, <1>3 DEF KnowsWhoWasAsked, NoNews
<1> QED BY <1>3, <1>4, <1>5, WhatACommandIs, OnlyTheCommand

LEMMA OneMore ==
  ASSUME NEW items \in Seq(Item), NEW item \in Item
  PROVE  /\ Append(items, item) \in Seq(Item)
         /\ Len(Append(items, item)) = Len(items) + 1 /\ Last(Append(items, item)) = item
         /\ \A it \in Asked(Append(items, item)) : it \in Asked(items) \/ it = item
<1> DEFINE new == Append(items, item)
<1>1. /\ new \in Seq(Item) /\ Len(new) = Len(items) + 1
      /\ \A k \in 1..Len(items) : new[k] = items[k]
      /\ new[Len(items) + 1] = item
  BY AppendProperties
<1> HIDE DEF new
<1>2. Last(new) = item
  BY <1>1 DEF Last
<1>3. ASSUME NEW it \in Asked(new), it # item PROVE it \in Asked(items)
  <2>1. PICK k \in DOMAIN new : it = new[k] /\ it.state # "declined"
    BY DEF Asked, Range
  <2>2. k \in 1..Len(items)
    BY <1>1, <1>3, <2>1, LenProperties
  <2> QED BY <1>1, <2>1, <2>2, LenProperties DEF Asked, Range
<1> QED BY <1>1, <1>2, <1>3 DEF new

\* The collections with one account more in the i-th of a title.
Grown(t, i, item) == [collection EXCEPT ![t][i] = Append(collection[t][i], item)]

LEMMA OneCollectionGrows ==
  ASSUME CollectionsInv, NEW t \in Title, NEW i \in DOMAIN collection[t],
         NEW item \in Item, \A e \in Follower : Choosing(e, t, i) => e \in item.during
  PROVE  /\ Grown(t, i, item) \in [Title -> Collection] /\ NoneUnseen(Grown(t, i, item), {item.by})
         /\ Grown(t, i, item)[t][i] = Append(collection[t][i], item)
<1> DEFINE new == Append(collection[t][i], item)
           c == Grown(t, i, item)
<1>1. new \in Seq(Item) /\ \A it \in Asked(new) : it \in Asked(collection[t][i]) \/ it = item
  BY TheirItems, OneMore
<1> HIDE DEF new
<1>2. \A it \in Asked(new) :
        \/ \E was \in Asked(collection[t][i]) :
             was.who = it.who /\ was.during = it.during /\ was.by = it.by
        \/ /\ it.by \in {item.by}
           /\ \A e \in Follower : Choosing(e, t, i) => e \in it.during
  BY <1>1
<1>3. c = [collection EXCEPT ![t][i] = new]
  BY DEF new, Grown
<1> HIDE DEF c
<1>4. c \in [Title -> Collection] /\ NoneUnseen(c, {item.by})
  BY <1>1, <1>2, <1>3, OneCollectionChanges
<1>5. c[t][i] = new
  BY <1>3, TheirItems DEF CollectionsInv, CollectionsTyped
<1> QED BY <1>4, <1>5 DEF new, c

\* Whoever is asked is somebody new to the command.
LEMMA WhoIsAsked ==
  ASSUME CollectionsInv, NEW d \in Follower, fol[d].at = "curating", Wanting(d) # {}
  PROVE  /\ Head(fol[d].titles) \in Title
         /\ fol[d].byTitle[Head(fol[d].titles)] \in DOMAIN collection[Head(fol[d].titles)]
         /\ NextHandle(d) \in Account /\ NextHandle(d) \notin fol[d].handled
         /\ Request(d) \in Item /\ Request(d).who = NextHandle(d) /\ Request(d).by = d
<1>1. fol[d].titles # << >>
  BY Zenon, WhatACommandIs DEF KnowsWhoWasAsked
<1>2. /\ Head(fol[d].titles) \in Title
      /\ fol[d].byTitle[Head(fol[d].titles)] \in DOMAIN collection[Head(fol[d].titles)]
  BY <1>1, InHand
<1>3. NextHandle(d) \in Account /\ NextHandle(d) \notin fol[d].handled
  BY Zenon, <1>1, NextIsNew
<1>4. Request(d) \in Item /\ Request(d).who = NextHandle(d) /\ Request(d).by = d
  BY <1>3 DEF Item, Request
<1> QED BY <1>2, <1>3, <1>4

\* And is asked while all who curate the collection do.
LEMMA AskedOneMore ==
  ASSUME CollectionsInv, NEW d \in Follower, fol[d].at = "curating", Wanting(d) # {},
         NEW t, t = Head(fol[d].titles), NEW which, which = fol[d].byTitle[t],
         NEW c, c = Requested(d)
  PROVE  /\ t \in Title /\ Request(d).who = NextHandle(d) /\ Request(d).by = d
         /\ d \in Request(d).during
         /\ c \in [Title -> Collection] /\ NoneUnseen(c, {d})
         /\ \A it \in Asked(c[t][which]) : it \in Asked(collection[t][which]) \/ it = Request(d)
<1> DEFINE item == Request(d)
           new == Append(collection[t][which], item)
<1>1. t \in Title /\ which \in DOMAIN collection[t]
  BY WhoIsAsked
<1>2. item \in Item /\ item.who = NextHandle(d) /\ item.by = d
  BY WhoIsAsked
<1>3. item.during = {e \in Follower : Choosing(e, t, which)}
  BY DEF Request, Choosing
<1>4. d \in item.during /\ \A e \in Follower : Choosing(e, t, which) => e \in item.during
  BY <1>3 DEF Choosing
<1>5. collection[t][which] \in Seq(Item)
  BY <1>1, TheirItems
<1>6. c = Grown(t, which, item)
  BY DEF Requested, Grown
<1> HIDE DEF item
<1>7. \A it \in Asked(new) : it \in Asked(collection[t][which]) \/ it = item
  BY <1>2, <1>5, OneMore
<1>8. c \in [Title -> Collection] /\ NoneUnseen(c, {d}) /\ c[t][which] = new
  <2>1. /\ Grown(t, which, item) \in [Title -> Collection]
        /\ NoneUnseen(Grown(t, which, item), {item.by})
        /\ Grown(t, which, item)[t][which] = Append(collection[t][which], item)
    BY Zenon, <1>1, <1>2, <1>4, OneCollectionGrows
  <2> QED BY <1>2, <1>6, <2>1
<1> HIDE DEF new
<1>9. \A it \in Asked(c[t][which]) : it \in Asked(collection[t][which]) \/ it = item
  BY <1>7, <1>8
<1> QED BY <1>1, <1>2, <1>4, <1>8, <1>9 DEF item

\* What a command may have made of itself, having asked: it has noted who, or
\* that it did not hear, or is done.
LEMMA AskingKeeps ==
  ASSUME CollectionsInv, NEW d \in Follower, fol[d].at = "curating", Wanting(d) # {},
         collection' = Requested(d), UNCHANGED <<following, answers>>, wrong' \in 0..MaxWrong,
         NEW f, fol' = [fol EXCEPT ![d] = f], Shaped(f), f.titles = fol[d].titles,
         f.toFollow = fol[d].toFollow, f.accounts = fol[d].accounts,
         f.byTitle = fol[d].byTitle, fol[d].handled \subseteq f.handled,
         fol[d].lost \subseteq f.lost,
         f.at = "told" \/ NextHandle(d) \in f.handled \/ NextHandle(d) \in f.lost
  PROVE  CollectionsInv'
<1> DEFINE t == Head(fol[d].titles)
           which == fol[d].byTitle[t]
<1>1. Shaped(fol[d]) /\ KnowsWhoWasAsked(d, fol[d], collection)
  BY WhatACommandIs
<1>2. \A item \in Asked(collection[t][which]) : NoNews(d, fol[d], item)
  BY Zenon, <1>1 DEF KnowsWhoWasAsked
<1>3. fol[d].titles # << >> /\ which # 0
  BY <1>1 DEF KnowsWhoWasAsked
<1> HIDE DEF t, which
<1>4. /\ t \in Title
      /\ Request(d).who = NextHandle(d) /\ Request(d).by = d /\ d \in Request(d).during
      /\ collection' \in [Title -> Collection] /\ NoneUnseen(collection', {d})
      /\ \A it \in Asked(collection'[t][which]) :
           it \in Asked(collection[t][which]) \/ it = Request(d)
  BY Zenon, AskedOneMore DEF t, which
<1>5. \A u \in Title : f.byTitle[u] \in 0..Len(collection'[u])
  <2> SUFFICES ASSUME NEW u \in Title PROVE f.byTitle[u] \in 0..Len(collection'[u])
    OBVIOUS
  <2>1. fol[d].byTitle[u] \in 0..Len(collection[u]) /\ Len(collection[u]) <= Len(collection'[u])
    BY <1>1, <1>4 DEF KnowsWhoWasAsked, NoneUnseen
  <2>2. Len(collection[u]) \in Nat /\ Len(collection'[u]) \in Nat
    BY <1>4, WhatACommandIs DEF Collection
  <2> QED BY <2>1, <2>2
<1>6. f.at = "curating" => \A it \in Asked(collection'[t][which]) : NoNews(d, f, it)
  BY <1>2, <1>4 DEF NoNews
<1>7. KnowsWhoWasAsked(d, f, collection')
  BY <1>1, <1>3, <1>5, <1>6 DEF KnowsWhoWasAsked, t, which
<1> QED BY <1>4, <1>7, WhatACommandIs, OneCommandMoves

LEMMA AskKeeps ==
  ASSUME CollectionsInv, NEW d \in Follower, Ask(d) PROVE CollectionsInv'
<1>1. Shaped(fol[d]) /\ KnowsWhoWasAsked(d, fol[d], collection) /\ wrong \in 0..MaxWrong
  BY WhatACommandIs
<1>2. fol[d].at = "curating" /\ Wanting(d) # {} /\ UNCHANGED <<following, answers, wrong>>
  BY DEF Ask
<1>3. CASE Done(d) /\ UNCHANGED collection
  BY <1>1, <1>2, <1>3, DoneKeeps
<1>4. CASE /\ collection' = Requested(d)
           /\ fol' = [fol EXCEPT ![d] = [Handle(d, NextHandle(d)) EXCEPT
                                            !.active = Append(fol[d].active, Request(d))]]
  <2> DEFINE f == [Handle(d, NextHandle(d)) EXCEPT !.active = Append(fol[d].active, Request(d))]
  <2>1. NextHandle(d) \in Account
    BY Zenon, <1>2, WhoIsAsked
  <2>2. /\ Shaped(f) /\ f.titles = fol[d].titles /\ f.toFollow = fol[d].toFollow
        /\ f.accounts = fol[d].accounts /\ f.byTitle = fol[d].byTitle
        /\ f.handled = fol[d].handled \cup {NextHandle(d)} /\ f.lost = fol[d].lost
    BY <1>1, <2>1 DEF Handle, Shaped
  <2> HIDE DEF f
  <2> QED BY <1>1, <1>2, <1>4, <2>2, AskingKeeps DEF f
<1> QED BY Zenon, <1>3, <1>4 DEF Ask

\* A command whose write was not answered: it is sent again, or the command ends.
LEMMA AskLostKeeps ==
  ASSUME CollectionsInv, NEW d \in Follower, AskLost(d),
         UNCHANGED <<following, answers>>, wrong' \in 0..MaxWrong
  PROVE  CollectionsInv'
<1>1. Shaped(fol[d])
  BY WhatACommandIs
<1>2. fol[d].at = "curating" /\ Wanting(d) # {} /\ collection' = Requested(d)
  BY DEF AskLost
<1>3. NextHandle(d) \in Account
  BY Zenon, <1>2, WhoIsAsked
<1>4. PICK f \in {[fol[d] EXCEPT !.at = "told"], [fol[d] EXCEPT !.lost = @ \cup {NextHandle(d)}]} :
        fol' = [fol EXCEPT ![d] = f]
  BY DEF AskLost, SentAgain, Done
<1>5. /\ Shaped(f) /\ f.titles = fol[d].titles /\ f.toFollow = fol[d].toFollow
      /\ f.accounts = fol[d].accounts /\ f.byTitle = fol[d].byTitle
      /\ f.handled = fol[d].handled /\ fol[d].lost \subseteq f.lost
      /\ f.at = "told" \/ NextHandle(d) \in f.lost
  BY <1>1, <1>3 DEF Shaped
<1> QED BY <1>2, <1>4, <1>5, AskingKeeps

LEMMA CreateLostKeeps ==
  ASSUME CollectionsInv, NEW d \in Follower, CreateLost(d),
         UNCHANGED <<following, answers>>, wrong' \in 0..MaxWrong
  PROVE  CollectionsInv'
<1> DEFINE t == Head(fol[d].titles)
<1>1. Shaped(fol[d]) /\ KnowsWhoWasAsked(d, fol[d], collection)
  BY WhatACommandIs
<1>2. fol[d].at = "listing" /\ t \in Title
  BY InHand DEF CreateLost
<1>3. collection' = [collection EXCEPT ![t] = Append(collection[t], << >>)]
  BY DEF CreateLost
<1>4. PICK f \in {[fol[d] EXCEPT !.at = "told"], [fol[d] EXCEPT !.lost = @ \cup {t}]} :
        fol' = [fol EXCEPT ![d] = f]
  BY DEF CreateLost, SentAgain, Done
<1>5. /\ Shaped(f) /\ f.toFollow = fol[d].toFollow /\ f.accounts = fol[d].accounts
      /\ f.byTitle = fol[d].byTitle /\ f.at \in {"told", "listing"}
  BY <1>1, <1>2 DEF Shaped
<1> HIDE DEF t
<1>6. collection' \in [Title -> Collection] /\ \A asking : NoneUnseen(collection', asking)
  BY <1>2, <1>3, MadeOne
<1>7. KnowsWhoWasAsked(d, fol[d], collection')
  <2>1. NoneUnseen(collection', {}) /\ d \notin {}
    BY <1>6
  <2> QED BY <1>6, <2>1, TheOthersStillKnow
<1>8. KnowsWhoWasAsked(d, f, collection')
  BY <1>5, <1>7 DEF KnowsWhoWasAsked
<1> QED BY <1>4, <1>5, <1>6, <1>8, WhatACommandIs, OneCommandMoves

LEMMA CollectionsBegin == CollectionsInit => CollectionsInv
<1> SUFFICES ASSUME CollectionsInit PROVE CollectionsInv
  OBVIOUS
<1>1. Shaped(Idling)
  BY EmptySeq DEF Shaped, Idling
<1>2. \A d \in Follower : fol[d] = Idling
  BY DEF CollectionsInit
<1>3. CollectionsTyped
  <2>1. collection \in [Title -> Collection]
    BY EmptySeq DEF CollectionsInit, Collection
  <2>2. answers \in 0..MaxAnswers /\ wrong \in 0..MaxWrong
    BY CollectionsAssumption DEF CollectionsInit
  <2> QED BY <1>1, <1>2, <2>1, <2>2 DEF CollectionsTyped, CollectionsInit
<1>4. \A t \in Title : Len(collection[t]) \in Nat
  BY <1>3 DEF CollectionsTyped, Collection
<1>5. Idling.toFollow = {} /\ Idling.at = "idle" /\ \A t \in Title : Idling.byTitle[t] = 0
  BY DEF Idling
<1>6. \A d \in Follower : KnowsWhoWasAsked(d, fol[d], collection)
  BY <1>2, <1>4, <1>5 DEF KnowsWhoWasAsked
<1> QED BY <1>3, <1>6 DEF CollectionsInv

LEMMA CollectionsKeep == CollectionsInv /\ [CollectionsNext]_folVars => CollectionsInv'
<1> SUFFICES ASSUME CollectionsInv, [CollectionsNext]_folVars PROVE CollectionsInv'
  OBVIOUS
<1>1. ASSUME NEW d \in Follower, BeginFollow(d) \/ FollowStep(d) \/ FollowLost(d) \/ FollowFails(d)
      PROVE  CollectionsInv'
  <2>1. ASSUME Preview(d) \/ Curated(d) PROVE CollectionsInv'
    BY <2>1, WhatACommandIs, DoneKeeps DEF Preview, Curated
  <2>2. ASSUME FollowFails(d) PROVE CollectionsInv'
    <3>1. wrong' \in 0..MaxWrong
      BY <2>2, WhatACommandIs, CollectionsAssumption DEF FollowFails
    <3> QED BY <2>2, <3>1, DoneKeeps DEF FollowFails
  <2>3. ASSUME FollowLost(d) PROVE CollectionsInv'
    <3>1. UNCHANGED <<following, answers>> /\ wrong' \in 0..MaxWrong
      BY <2>3, WhatACommandIs, CollectionsAssumption DEF FollowLost
    <3> QED BY <2>3, <3>1, CreateLostKeeps, AskLostKeeps, EvictKeeps DEF FollowLost
  <2>4. ASSUME Evict(d) PROVE CollectionsInv'
    BY <2>4, WhatACommandIs, EvictKeeps DEF Evict
  <2> QED BY <1>1, <2>1, <2>2, <2>3, <2>4, BeginFollowKeeps, ResolveKeeps, FollowKeeps, ReadKeeps, PassOverKeeps,
             PrepareKeeps, RefusedKeeps, AskKeeps, NextTitleKeeps DEF FollowStep
<1>2. CASE UNCHANGED folVars
  <2>1. fol' = fol /\ collection' = collection /\ following' = following
        /\ answers' = answers /\ wrong' = wrong
    BY <1>2 DEF folVars
  <2>2. CollectionsTyped'
    BY <2>1 DEF CollectionsInv, CollectionsTyped, Shaped
  <2> QED BY <2>1, <2>2 DEF CollectionsInv, KnowsWhoWasAsked
<1> QED BY <1>1, <1>2, ConsentKeeps DEF CollectionsNext

LEMMA CollectionsInvTypes == CollectionsInv => CollectionsTypeOK
<1> SUFFICES ASSUME CollectionsInv PROVE CollectionsTypeOK
  OBVIOUS
<1>1. \A t \in Title : \A i \in DOMAIN collection[t] : Range(collection[t][i]) \subseteq Item
  BY TheirItems DEF Range
<1>2. ASSUME NEW d \in Follower, fol[d].at = "curating"
      PROVE  fol[d].byTitle[Head(fol[d].titles)] \in DOMAIN collection[Head(fol[d].titles)]
  BY <1>2, WhatACommandIs, InHand DEF KnowsWhoWasAsked
<1>3. \A d \in Follower : Shaped(fol[d]) /\ fol[d].toFollow \subseteq fol[d].accounts
  BY WhatACommandIs DEF KnowsWhoWasAsked
<1>4. \A d \in Follower :
        fol[d].at \in {"idle", "resolving", "following", "listing", "curating", "told"}
  BY <1>3 DEF Shaped
<1> QED BY <1>1, <1>2, <1>3, <1>4 DEF CollectionsTypeOK, CollectionsInv, CollectionsTyped

\* A collection that stays as long has asked nobody.
LEMMA NotLonger ==
  ASSUME \A t \in Title : \A i \in DOMAIN collection[t] :
           /\ Len(collection[t][i]) \in Nat /\ Len(collection'[t][i]) \in Nat
           /\ Len(collection'[t][i]) <= Len(collection[t][i])
  PROVE  NobodyTwice
BY DEF NobodyTwice

LEMMA AskIsNotTwice ==
  ASSUME CollectionsInv, NEW d \in Follower, fol[d].at = "curating", Wanting(d) # {},
         collection' = Requested(d)
  PROVE  NobodyTwice
<1> DEFINE t == Head(fol[d].titles)
           which == fol[d].byTitle[t]
           item == Request(d)
           old == collection[t][which]
           new == Append(old, item)
<1>1. \A it \in Asked(old) : NoNews(d, fol[d], it)
  BY Zenon, WhatACommandIs DEF KnowsWhoWasAsked
<1> HIDE DEF t, which
<1>2. /\ t \in Title /\ which \in DOMAIN collection[t]
      /\ NextHandle(d) \notin fol[d].handled
      /\ item \in Item /\ item.who = NextHandle(d) /\ item.by = d
      /\ collection' = [collection EXCEPT ![t][which] = new]
  <2>1. /\ t \in Title /\ which \in DOMAIN collection[t]
        /\ NextHandle(d) \notin fol[d].handled
        /\ Request(d) \in Item /\ Request(d).who = NextHandle(d) /\ Request(d).by = d
    BY Zenon, WhoIsAsked DEF t, which
  <2>2. collection' = [collection EXCEPT ![t][which] = Append(collection[t][which], Request(d))]
    BY DEF Requested, t, which
  <2> QED BY <2>1, <2>2
<1>3. old \in Seq(Item)
  BY <1>2, TheirItems
<1> HIDE DEF item
<1>5. new \in Seq(Item) /\ Last(new) = item
  BY <1>2, <1>3, OneMore
<1> HIDE DEF new
<1>6. collection'[t][which] = new
  BY <1>2, TheirItems DEF CollectionsInv, CollectionsTyped
<1>7. ASSUME NEW u \in Title, NEW i \in DOMAIN collection[u], u # t \/ i # which
      PROVE  collection'[u][i] = collection[u][i]
  BY <1>2, <1>7, TheirItems DEF CollectionsInv, CollectionsTyped
<1>8. \A u \in Title : \A i \in DOMAIN collection[u] : Len(collection[u][i]) \in Nat
  BY TheirItems
<1>9. ASSUME NEW it \in Range(old), it.who = Last(new).who, it.state # "declined"
      PROVE  /\ Last(new).by \in it.during
             /\ Last(new).by = it.by => it.who \in fol[it.by].lost
  <2>1. it \in Asked(old)
    BY <1>9 DEF Asked
  <2>2. NoNews(d, fol[d], it)
    BY Zenon, <1>1, <2>1
  <2>3. it.who \notin fol[d].handled /\ Last(new).by = d
    BY <1>2, <1>5, <1>9
  <2> QED BY <2>2, <2>3 DEF NoNews
<1> SUFFICES ASSUME NEW u \in Title, NEW i \in DOMAIN collection[u],
                    Len(collection'[u][i]) > Len(collection[u][i]),
                    NEW it \in Range(collection[u][i]),
                    it.who = Last(collection'[u][i]).who, it.state # "declined"
             PROVE  /\ Last(collection'[u][i]).by \in it.during
                    /\ Last(collection'[u][i]).by = it.by => it.who \in fol[it.by].lost
  BY DEF NobodyTwice
<1>10. u = t /\ i = which
  BY <1>7, <1>8
<1> QED BY Zenon, <1>6, <1>9, <1>10

LEMMA StepsAskOnce == CollectionsInv /\ [CollectionsNext]_folVars => [NobodyTwice]_folVars
<1> SUFFICES ASSUME CollectionsInv, CollectionsNext PROVE NobodyTwice
  OBVIOUS
<1>1. CollectionsInv'
  BY CollectionsKeep
<1>2. \A t \in Title : \A i \in DOMAIN collection[t] : Len(collection[t][i]) \in Nat
  BY TheirItems
<1>3. CASE UNCHANGED collection
  BY <1>2, <1>3, NotLonger
<1>4. CASE Consent
  <2>1. PICK t \in Title : \E i \in DOMAIN collection[t] : \E j \in DOMAIN collection[t][i] :
          /\ collection[t][i][j].state # "declined"
          /\ \E state \in {"accepted", "declined"} \ {collection[t][i][j].state} :
               collection' = [collection EXCEPT ![t][i][j].state = state]
    BY <1>4 DEF Consent
  <2>2. PICK i \in DOMAIN collection[t] : \E j \in DOMAIN collection[t][i] :
          /\ collection[t][i][j].state # "declined"
          /\ \E state \in {"accepted", "declined"} \ {collection[t][i][j].state} :
               collection' = [collection EXCEPT ![t][i][j].state = state]
    BY <2>1
  <2>3. PICK j \in DOMAIN collection[t][i], state \in {"accepted", "declined"} :
          collection' = [collection EXCEPT ![t][i][j].state = state]
    BY <2>2
  <2> DEFINE item == [collection[t][i][j] EXCEPT !.state = state]
             new == [collection[t][i] EXCEPT ![j] = item]
  <2>4. collection[t][i] \in Seq(Item) /\ collection[t][i][j] \in Item /\ item \in Item
    <3>1. collection[t][i] \in Seq(Item)
      BY TheirItems
    <3>2. collection[t][i][j] \in Item
      BY <3>1
    <3> QED BY <3>1, <3>2 DEF Item
  <2>5. collection' = [collection EXCEPT ![t][i] = new]
    BY <2>3
  <2> HIDE DEF item
  <2>6. Len(new) = Len(collection[t][i])
    BY <2>4, ExceptSeq
  <2> HIDE DEF new
  <2>7. \A u \in Title : \A k \in DOMAIN collection[u] :
          Len(collection'[u][k]) = Len(collection[u][k])
    BY <2>5, <2>6 DEF CollectionsInv, CollectionsTyped
  <2> QED BY <1>2, <2>7, NotLonger
<1>5. ASSUME NEW d \in Follower, Prepare(d) \/ CreateLost(d) PROVE NobodyTwice
  <2> DEFINE t == Head(fol[d].titles)
  <2>1. t \in Title
    BY <1>5, InHand DEF Prepare, CreateLost
  <2>2. UNCHANGED collection \/ collection' = [collection EXCEPT ![t] = Append(@, << >>)]
    BY <1>5 DEF Prepare, CreateLost
  <2>3. \A i \in 1..Len(collection[t]) : Append(collection[t], << >>)[i] = collection[t][i]
    BY <2>1, EmptySeq, AppendProperties DEF CollectionsInv, CollectionsTyped, Collection
  <2> HIDE DEF t
  <2>4. \A u \in Title : \A i \in DOMAIN collection[u] : collection'[u][i] = collection[u][i]
    BY <2>1, <2>2, <2>3, WhatACommandIs, TheirItems DEF CollectionsInv, CollectionsTyped
  <2> QED BY SMTT(40), <1>2, <2>4, NotLonger
<1>6. ASSUME NEW d \in Follower, Evict(d) \/ EvictLost(d), collection' # collection
      PROVE  NobodyTwice
  <2> DEFINE t == Head(fol[d].titles)
             which == fol[d].byTitle[t]
  <2>1. fol[d].at = "curating" /\ fol[d].titles # << >>
    BY Zenon, <1>6, WhatACommandIs DEF Evict, EvictLost, KnowsWhoWasAsked
  <2>2. t \in Title /\ which \in DOMAIN collection[t]
    BY Zenon, <2>1, InHand
  <2>3. PICK i \in DOMAIN collection[t][which] :
          collection' = [collection EXCEPT ![t][which] = RemoveAt(@, i)]
    BY Zenon, <1>6 DEF Evict, EvictLost
  <2> HIDE DEF t, which
  <2>4. collection[t][which] \in Seq(Item)
    BY <2>2, TheirItems
  <2>5. /\ Len(RemoveAt(collection[t][which], i)) \in Nat
        /\ Len(RemoveAt(collection[t][which], i)) <= Len(collection[t][which])
    BY <2>4, RemovedOne
  <2>6. collection' = [collection EXCEPT ![t][which] = RemoveAt(collection[t][which], i)]
    BY <2>3
  <2>7. \A u \in Title : \A k \in DOMAIN collection[u] :
          /\ Len(collection'[u][k]) \in Nat
          /\ Len(collection'[u][k]) <= Len(collection[u][k])
    BY <1>2, <2>2, <2>5, <2>6 DEF CollectionsInv, CollectionsTyped
  <2> QED BY <1>2, <2>7, NotLonger
<1>7. ASSUME NEW d \in Follower, BeginFollow(d) \/ FollowStep(d) \/ FollowLost(d) \/ FollowFails(d)
      PROVE  NobodyTwice
  BY Zenon, <1>3, <1>5, <1>6, <1>7, AskIsNotTwice
     DEF BeginFollow, FollowStep, FollowFails, FollowLost, Ask, AskLost, Resolve, Preview, Follow, ReadCollections,
         PassOver, Refused, NextTitle, Curated
<1> QED BY <1>4, <1>7 DEF CollectionsNext

\* A command curates only a collection there is, and follows only whom it
\* resolved (Server.follow).
THEOREM CollectionsTypes == CollectionsSpec => []CollectionsTypeOK
<1>1. CollectionsInit => CollectionsInv
  BY CollectionsBegin
<1>2. CollectionsInv /\ [CollectionsNext]_folVars => CollectionsInv'
  BY CollectionsKeep
<1>3. CollectionsInv => CollectionsTypeOK
  BY CollectionsInvTypes
<1> QED BY <1>1, <1>2, <1>3, PTL DEF CollectionsSpec

\* Nobody is asked twice, but by a command that had read the collection before
\* the other asked, however accounts answer and whatever fails (Server.follow:
\* "handled is every account this collection has ever asked").
THEOREM NobodyIsAskedTwice == CollectionsSpec => AskedOnce
<1>1. CollectionsInit => CollectionsInv
  BY CollectionsBegin
<1>2. CollectionsInv /\ [CollectionsNext]_folVars => CollectionsInv'
  BY CollectionsKeep
<1>3. CollectionsInv /\ [CollectionsNext]_folVars => [NobodyTwice]_folVars
  BY StepsAskOnce
<1> QED BY <1>1, <1>2, <1>3, PTL DEF CollectionsSpec, AskedOnce


-----------------------------------------------------------------------------
(***************************************************************************)
(* The bot that plays all of these: what is proved of each component holds *)
(* of it, because a step of it is a step of one component and leaves the   *)
(* others alone.                                                           *)
(***************************************************************************)

\* The events a behaviour plays are such as the bot may read.
LEMMA PlayedEventsAreRead == Init => EventsRead
<1> SUFFICES ASSUME Init PROVE EventsRead
  OBVIOUS
<1>1. scene \in Scenes /\ script \in Scripts(scene)
  BY DEF Init
<1>2. \A d \in Delivery : script[d] # NoEvent => script[d] \in Event /\ Readable(script[d])
  BY <1>1, MCBotAssumption
<1>3. \E e : script = [d \in Delivery |-> e]
  BY <1>1 DEF Scripts
<1>4. script \in [Delivery -> Event \cup {NoEvent}]
  BY <1>2, <1>3
<1> QED BY <1>2, <1>4 DEF EventsRead

LEMMA EachBegins ==
  Init => /\ DispatchInit /\ LinksInit /\ AnnounceInit
          /\ CollectionsInit /\ MembershipInit /\ RunInit
BY DEF Init

\* A step of the bot is a step of one component, and the others stand still.
LEMMA EachStep ==
  [Next]_vars => /\ [DispatchNext]_<<teamVars, dispatchVars>> /\ [LinksNext]_linkVars
                 /\ [AnnounceNext]_annVars /\ [CollectionsNext]_folVars
                 /\ [MembershipNext]_memVars /\ [RunNext]_runVars
<1> SUFFICES ASSUME [Next]_vars
             PROVE  /\ [DispatchNext]_<<teamVars, dispatchVars>> /\ [LinksNext]_linkVars
                    /\ [AnnounceNext]_annVars /\ [CollectionsNext]_folVars
                    /\ [MembershipNext]_memVars /\ [RunNext]_runVars
  OBVIOUS
<1>1. CASE Deliveries
  <2>1. UNCHANGED <<linkVars, annVars, folVars, memVars, runVars>>
    BY <1>1 DEF Deliveries, others
  <2>2. DispatchNext
    BY <1>1 DEF Deliveries, DispatchNext
  <2> QED BY <2>1, <2>2
<1>2. CASE CheckingLinks
  BY <1>2 DEF CheckingLinks, dispatching
<1>3. CASE Announcing
  BY <1>3 DEF Announcing, dispatching
<1>4. CASE Curating
  BY <1>4 DEF Curating, dispatching
<1>5. CASE Assigning
  BY <1>5 DEF Assigning, dispatching
<1>6. CASE Judging
  BY <1>6 DEF Judging, dispatching
<1>7. CASE UNCHANGED vars
  BY <1>7 DEF vars, dispatching
<1> QED BY <1>1, <1>2, <1>3, <1>4, <1>5, <1>6, <1>7 DEF Next

\* Whichever component a scene plays, the bot keeps the specification of each, so
\* what is proved of one of them alone holds of the bot.
THEOREM EachPlaysItsPart ==
  Spec => /\ EventsRead /\ DispatchSpec /\ LinksSpec /\ AnnounceSpec
          /\ CollectionsSpec /\ MembershipSpec /\ RunSpec
BY PlayedEventsAreRead, EachBegins, EachStep, PTL
   DEF Spec, DispatchSpec, LinksSpec, AnnounceSpec, CollectionsSpec, MembershipSpec, RunSpec

\* Every variable of the bot holds a value of its type, for any deliveries, links,
\* codecheckers, collections, sites and configurations.
THEOREM BotTypes == Spec => []TypeOK
<1>1. DispatchTypeOK /\ LinksTypeOK /\ AnnounceTypeOK /\ CollectionsTypeOK /\ MembershipTypeOK /\ RunTypeOK
        => TypeOK
  BY DEF TypeOK
<1> QED BY <1>1, EachPlaysItsPart, DispatchTypes, LinksTypes, AnnounceTypes, CollectionsTypes,
           MembershipTypes, RunTypes, PTL

\* What the bot promises of its answers, in every scene: who may give a command is
\* as GitHub lately said (teams.go), the codechecker is offered their own command
\* (bot.go), a verdict on a link or a rule rests on an answer (links.go, run.go),
\* nothing is proposed unjudged, and what was announced is announced once as far as
\* the account is searched.
THEOREM BotPromises ==
  Spec => [](/\ GrantIsRecent /\ RefreshSeesTheChange /\ OwnCommandIsOffered
             /\ VerdictIsTheSites /\ AnnouncedOnce
             /\ SilenceIsNoVerdict /\ OneReportOneWorld /\ NothingIsProposedUnjudged)
BY EachPlaysItsPart, DispatchGrantsAreRecent, DispatchRefreshesSeeTheChange, OwnCommandsAreOffered,
   LinksVerdicts, AnnouncedOnlyOnce, NoVerdictFromSilence, OneReport, NothingProposedUnjudged, PTL

\* Nor is anybody asked twice into a collection (follow), or written to a team on a
\* guess (intoTheTeam).
THEOREM BotSteps == Spec => AskedOnce /\ WritesAreNoGuess
BY EachPlaysItsPart, NobodyIsAskedTwice, NoWriteIsAGuess
=============================================================================
