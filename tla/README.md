# Chekhov in TLA+

Chekhov is the bot of the CODECHECK community: it answers commands in the comments of
the issues of a register of checks, keeps the state of every check in those comments, and
goes over the register once a night. This directory is a verification development of it:
TLA+ modules translated from the Go sources under `src/internal/`, TLC runs over small
instances, and theorems checked by TLAPS. `PROJECT.json` maps every definition to the
lines it stands for; line numbers below are of the same commit.

- [The system](#the-system)
- [The modules](#the-modules)
- [The runs](#the-runs)
- [Fairness](#fairness)
- [What is proved](#what-is-proved)
- [What the runs refute](#what-the-runs-refute)
- [What is left out](#what-is-left-out)
- [The plan](#the-plan)

To repeat a run: `tlc -workers 2 -config record.cfg MCCheckRecord`; to repeat a proof:
`tlapm CheckRecordProofs.tla`.

## The system

One Go process answers GitHub's webhook. Every delivery that addresses the bot starts a
goroutine (`act`, `bot/bot.go:251`) with five minutes to live; a timer starts the nightly
sweep. There is no database. What the bot knows it reads from the issue it is on, from
`register.csv`, and from other services, and whatever it wants to remember it writes into
a comment. So all the hard behaviour has one shape: **read over the network, decide,
write over the network, while other commands, other deployments and people do the
same**, with requests that fail, or that arrive and whose answer is lost.

| component | state it keeps | operations | what makes it correct |
|---|---|---|---|
| record of a check (`people/record.go`, `sign.go`, `listing.go`) | the roles and the identifier of a check, as a signed block in a comment of the bot's; a lock per issue, in the process | `Update` (list again, change, write whole), `Accept`, `Read` | no update is lost; what verifies has no conflict of interest; no path keeps the lock |
| roles (`command/roles.go`) | who is what on a check | `Grant`, `Revoke`, `Conflicts` | nobody is author and codechecker or editor at once |
| role commands (`bot/bot.go`) | the issue's assignee, kept beside the record | `assign`, `remove`, `record accept` | the assignee follows the record |
| certificate identifiers (`check/certificate.go`, `bot/certificate.go`) | claims: rows, titles and the label `id assigned`; one lock for reservations | `certificate next`, `certificate set` | no two checks get one identifier; a check keeps its own |
| writes to GitHub (`httpretry/`, `github/client.go`) | one slot, the time the next write may leave | `Turn`, `Hold`, `Do` | one write at a time, spaced as the service asked; every write leaves the queue |
| register pull request (`github/register.go`, `bot/register.go`) | a branch and a pull request per certificate | `register` | the branch adds one row to what is there; no editor's work is thrown away; done means proposed |
| follow-ups and the sweep (`followup/`, `bot/nudge*.go`, `organisation.go`, `archive.go`, `remind.go`, `stalled.go`) | signed records in the bot's own replies; a lock tried and not waited for; a timer | the walk with one handler per kind, `nudge`, `remind` | nobody is asked twice within the interval; the asking stops; what was promised comes; a walk takes no role away |
| workflow commands and labels (`bot/workflow.go`, `bot/labels.go`, `command/labels.go`) | the labels; one memo per command | `check start`, `check finish`, `status`, the note about labels | the labels follow the steps; the note is about the check as it now is, and is said once |
| staged replies (`bot/progress.go`) | one comment, rewritten | `write`, `run` | one command, one comment, and it is finished or apologised for |
| webhook and dispatch (`bot/webhook.go`, `bot/bot.go`, `lists.go`, `serve.go`) | one goroutine per delivery | read and refuse, look up the author's roles, run, answer, apologise | every delivery that is accepted ends; nobody is kept from their own command |
| standing roles and the teams cache (`people/teams.go`, `bot/role.go`) | members of each team, when they were read and when that was last tried; a lock per team | a lookup, a forced one, the load at startup | a right is as old as the cache says and no older; a refresh sees what it was asked to see; a team never read makes nobody an editor |
| team membership (`bot/team.go`, `github/team.go`) | none: the organisation's teams | `assign` and the sweep's `finish`, as far as they write a team | nobody outside is invited on a guess and no maintainer demoted on one |
| announcements (`announce/`, `mastodon/`) | none: the account's own toots | `announce` | a certificate is announced once, as far as the account is searched |
| codechecker collections (`bot/bot.go` follow) | none: the instance's collections | `follow` | an account is asked once, and a collection keeps to its limit |
| links (`check/links.go`) | a pool of readers with a limit per site, and a deadline | `check links` | what is said of a link is what its site says; the pool ends |
| check rules and what they ask (`check/`) | one memo of answers per command | `check`, `check ready`, `check finish`, `check register`, `register` | a rule that could not ask is not one that passed or failed; one report, one world; nothing is proposed unjudged |
| landing pages (`check/landing.go`) | none | the last word of `check finish` | what is said of a page is what its site says: but a page that answers an outage is called missing |
| commands (`command/registry.go`) | none: a table | who may run which, what a mistyped word is offered | the dispatch reads what the answer turns on |
| suggestions, registration form, Zenodo, request guard, process | none | | |

The components meet in five places: the **issue** (comments, title, labels, assignee),
which every command writes and people edit by hand; the **record**, which `assign`,
`certificate set` and the sweep's `finish` change through `Update`; the **queue** of
writes, which every write passes; and the **reply**, into which a command, the label note
and a follow-up record are put together; and the **teams' cache**, which every delivery reads
before its command runs.

The hazards of this code that a test would hardly reach are listed in `PROJECT.json`
under "hazards", each at its line and with the properties that would catch it. Those no
property covers, there and besides, are under [What is left out](#what-is-left-out).

## The modules

| module | models | composed of |
|---|---|---|
| `Roles` | the record as a value: granting, revoking, conflicts, and the operations of the commands | |
| `RecordStore` | **abstract**: what the store of a record promises its commands | `Roles` |
| `CheckRecord` | the store as it is: comments, locks, signatures, retries, hand edits, and the assignee | `Roles`; implements `RecordStore` |
| `CheckRecordProofs` | theorems about `CheckRecord` | `CheckRecord`, `TLAPS` |
| `Certificates` | identifiers, what a title claims, the next free number | |
| `Reservation` | `certificate set` with everything it writes | `Certificates` |
| `ReservationProofs` | theorems about `Reservation` | `Reservation`, `WellFoundedInduction`, `TLAPS` |
| `Pacer` | the queue of writes and the retry above it | |
| `PacerProofs` | theorems about `Pacer` | `Pacer`, `TLAPS` |
| `RegisterRow` | `register`, its branch and its pull request | |
| `RegisterRowProofs` | theorems about `RegisterRow` | `RegisterRow`, `TLAPS` |
| `FollowUp` | the follow-ups of one check and the walks that pick them up | |
| `FollowUpProofs` | theorems about `FollowUp` | `FollowUp`, `TLAPS` |
| `CheckWorkflow` | commands about where a check stands, their labels, note and staged reply | |
| `CheckWorkflowProofs` | theorems about `CheckWorkflow` | `CheckWorkflow`, `TLAPS` |
| `Teams` | the cache of team members: lookups, locks, reads that fail, time. It is also the **abstract** specification of what the dispatch may do with it | |
| `Registry` | the commands, who may run which, what a word may have meant | |
| `Dispatch` | a delivery from its signature to its answer, over the cache | `Teams`, `Registry`; implements `Teams` |
| `Links` | `check links`: collecting, the two pools, HEAD and GET, the deadline | |
| `Announce` | `announce`: concurrent reads, upload, post, retry | |
| `Collections` | `follow`: following, eviction, consent | |
| `Membership` | a person's way into a team, by `assign` and by the sweep | |
| `CheckRules` | every rule of both versions, as an operator over a configuration and what was heard | |
| `CheckRun` | the commands that run the rules, one address at a time | `CheckRules` |
| `CheckRunProofs` | theorems about `CheckRun` and the rules | `CheckRun`, `TLAPS` |
| `MCBot` | the nine modules above that are not proofs, one scene at a time | extends `Dispatch`, `Links`, `Announce`, `Membership`, `Collections` and `CheckRun` |
| `BotProofs` | theorems about `Teams`, `Dispatch` and the refinement between them, about `Links`, `Announce`, `Membership` and `Collections`, and about the bot that plays them all | `MCBot`, `CheckRunProofs`, `SequenceTheorems` |
| other `MC*` | the instances TLC runs | the module of that name |

The modules `Teams` to `CheckRun` share no state with each other but the cache, so `MCBot`
plays a *scene* per behaviour, in which one of them acts: the states of its run are the sum
of the components' and not the product.

A definition whose comment begins with "Deviation:" is not part of a specification. It is
the mutated form of the definition below it, used to see that the properties notice.

**CheckRecord.** `comments` is the sequence of the bot's record comments on one issue: the
index is the comment's id, the record is in the oldest one there is (`findBlock`). A
comment is a `record`, `garbled` or `deleted`, and carries its roles and a `seal`: signed
over these bytes, unsigned, or broken. A command takes the lock of its deployment (`Lock`), lists the
comments and decides (`Read`, with `Verdict` for the signature and `Applied` for the
change), and writes (`Land` or `NotLand`, then `WriteAnswered`, `WriteRetried` or
`WriteFails`: whether a request arrived and whether its answer did are separate). When the
write ends the lock is released, and only then is the assignee set (`Assign`,
`Unassign`), as in `bot.go:814`. `HandEdit` is a person editing or deleting a comment of
the bot's, `Restart` the process being stopped. The map to `RecordStore` shows the
record a reader finds, whether the bot would trust it, and the last one it did trust.

**Reservation.** One action per step of `setCertificate`: the lock over the register, the
rows, the listing of the labelled issues, the record, and three writes: record,
title, label. Titles are a set of identifiers with the check's own one apart, rather than text.

**Pacer.** Time is in ticks and every clock counts down. `Take`, the wait and the send are
`Turn`; `EndTurn` is `Hold`; `Retry` is the loop of `Do` and its second try; a context
that ends may end a write wherever it waits.

**RegisterRow.** GitHub's side is a sequence of commits of the default branch, the branch
with its base, file and kind of head, and the pull requests. One action per request of
`ProposeRow`, in its order, each of which may fail or lose its answer; editors merge,
push, close, delete, and use the "Update branch" button in between. A lost write is sent once more or not
(`SentAgain`, `GivenUp`): `httpretry` gives up at once on a refusal, an unreadable answer, a pause that is
too long, or the end of the command's own time. The look whether a refused write had landed (`LookMoved`, `LookOpened`) is a
request of its own, and may fail as well.

**FollowUp.** Time is in days. For each topic `newest` is the newest record in the thread
with its age and count, which is all `outstanding` looks at. A walk takes the lock or
gives up (`TryLock`), lists the open issues and then those closed lately (`List`), reads the
thread once (`Visit`), and answers each record it found, in the order of `outstanding` (`Before`),
with the handler of its kind
(`FollowArchive`, `FollowOrganisation`, `FollowReminder`, `QuietNudge`), whose comment may be posted,
refused, or posted without an answer (`Post`, `PostFails`).

**CheckWorkflow.** A command reads the record and the issue once (`About`, `ReadIssue`),
moves labels one request at a time and tells its memo (`Move`), and writes its reply in
stages into one comment (`Progress`, `Write`). The note is the set of warnings of the three
label rules (`Warnings`), built from the memo and the command's listing (`Note`), and is
replaced by a pointer when the bot's last word already said it (`JustSaid`, `Above`). A panic (`Panic`) comes
anywhere. While the stages run, they finish the comment they had begun, if that can be written; from the note on
nothing does. Either way the dispatch apologises in a comment of its own (`Apologise`), if that can be posted.

**Teams.** `cache[t]` holds a team's members, when they were read, when that was last tried
and whether it failed, as `teamCache` does; `holder[t]` is the team's fetching lock. A lookup
(`Begin`) answers from the copy, or waits for the lock, looks at the age once more (`Lock`), asks (`TeamMembers`)
and stores what it heard (`RecordRead`, `RecordFailure`). `Take` is the statement after it. `seenAt`, `seen`
and `since` are histories: when GitHub said what is in hand, and how many changes of the team it had
then made.

**Dispatch.** `act[d]` is the goroutine of a delivery: it asks team after team (`AskTeam`, `HearTeam`), reads the
check's record only where the answer may turn on a role of the check (`Known`, `ReadRecord`),
judges whether the author may (`Judge`), and answers and posts (`Answer`, `Post`). `teams refresh`
forces the teams one by one (`RefreshTeams`). What a command does is in the
component of that command; here it is allowed, refused, or answered with a hint. `Restart`
loses every goroutine and the cache, and `Load` reads the teams at startup.

**Links.** `world` is what each place holds and each site would answer. The places and the deposits
they mention are read first (`Collect`, `ReadDeposit`); then every link has a `worker`, which takes a place of its
site and one of the run (`TakeSite`, `TakePlace`: the two channels of `Probe`), asks with HEAD, and
with GET where HEAD says gone or may have been refused for being one. `TimeIsUp` is the deadline: it comes anywhere in
the asking, and cuts off requests and waits (`CutOff`, `GiveUpWaiting`).

**Announce, Collections.** One action per request, in the code's order; each may fail, and a
write may arrive without its answer, and be sent again or not. The concurrent reads of `announce` (`LoadCertificate`,
`RecentStatuses`) end in any order. A toot is `shown` while it is among the forty that `RecentStatuses` reads, and `kept` while
the instance has its key: newer toots and deletions take it out of sight whenever they like (`OutOfSight`), and the key lasts an hour (`KeyExpires`), which is
longer than any command that was running when the toot was posted.
A title none of whose accounts resolved is passed over (`PassOver`).
Accounts answer being asked whenever they like (`Consent`). What a command sent and did not hear of is in its
`lost`: a collection may so be made twice (`CreateLost`), an account asked twice (`AskLost`), and an eviction end the command that made it (`EvictLost`).

**Membership.** One person. `told` is what the organisation answered, `saw` what the
membership said; `OrganisationMoves` joins, leaves, promotes and demotes in between. An ask to
the owners carries the team promised (`promised`), and `Sweep` finishes it.

**CheckRules, CheckRun.** A configuration is a record of what the rules tell apart; the world is a
function from addresses to answers. `heard` is the command's memo: an address is asked once,
and answers what it has, or `Silent`. The rules are operators that are told `heard`, so `RunRule(r, heard)` is
what a rule said and `RunRule(r, job.truth)` what it would have said with everything up.

## The runs

| run | instance | what it shows |
|---|---|---|
| `record` | one deployment, two commands of six kinds, two start records, two edits by hand, two faults | `NoLostUpdate`: nothing is written from a reading that another command outdated. `TrustedIsConflictFree`: whatever people type, what verifies and was not adopted has no conflict. `EveryCommandEnds`. `ImplementsStore`: the refinement of `RecordStore` |
| `record_deployments` | the same with two deployments | `NoLostUpdate` is violated |
| `record_assignee` | two commands about the codechecker, no faults | `AssigneeInStep` is violated |
| `reservation` | two commands, four issues (one a pull request, one with an edited record), one fault, the turn of a year | `NoTwoChecksWhenWhole`: no identifier is held twice while reservations are whole. `NextIsPastEveryClaim`, `EveryReservationEnds` |
| `reservation_partial` | the same, with a label that may fail | `NoTwoChecksOneIdentifier` is violated |
| `pacer` | three writes with different patience | `OneWriteAtATime`, `Spaced` (also across a writer that gave up), `EveryWriteEnds` |
| `register` | two commands with different rows for one certificate, two acts of editors, two failed requests | `BranchAddsOneRow`, `PullIsNeverEmpty`, `OnlyAPushAfterTheLookIsLost`, `DoneMeansProposed`: a command nobody disturbed that says it is done has proposed its row, and none is told off for its own write |
| `register_overwrite` | one command and one editor | `EditorsWorkIsKept` is violated |
| `followup` | one check, the nightly walk and an editor's, three acts of people, one fault | `NeverTooOften`, `Spaced`, `ArchiveComesToAnEnd`, and `PromisesAreKept`: reminders come, and whoever joins is noticed |
| `followup_removed` | the same for the ask to the owners | `RemovedStaysRemoved` is violated |
| `workflow` | two commands of five kinds on one check, four answers of the placeholder rule, one failed request, panic, restart or edit by hand | `DoneIsDone`, `NoteIsAboutNow`, `PointerHasItsNote`, `AnsweredOrApologised`: a command none of whose writes failed has at most one reply, answered or with an apology below it |
| `bot` | the scenes below, one per behaviour | see there |

The scenes of `bot`:

| scene | what acts | what it shows |
|---|---|---|
| `teams` | one delivery, the load at startup, the clock, one change of a team, reads that fail | `GrantIsRecent`: whoever is in a team was in it within the time to live and one request, or it could not be read since. `RefreshSeesTheChange`: a refresh never answers with a read begun before it |
| `commands` | one delivery of every kind a delivery may have, by every kind of author, with one failure, panic or restart | `OwnCommandIsOffered`: the codechecker is not refused, and is offered, their own commands. `EverythingEnds` |
| `links` | three links in the issue, the configuration and the certificate, one in a deposit, every answer of a site, the deadline anywhere | `VerdictIsTheSites`, `EverythingEnds` |
| `announce` | two commands, two texts, two failures, toots that go out of sight and keys that expire | `AnnouncedOnce`: a second toot comes only of a command that looked before the first and says something else, or that looked while the first was out of sight |
| `collections` | two commands over two collections of two, three accounts, one request that fails or whose answer is lost | `AskedOnce` |
| `membership` | one `assign`, one sweep, two moves of the organisation, one failure | `WritesAreNoGuess` |
| `rules` | some hundred commands, each over the configuration and the world in which every rule is content with one thing changed, and one address that may not answer | `SilenceIsNoVerdict`, `OneReportOneWorld`, `NothingIsProposedUnjudged`: a rule that is an error and would have failed was skipped, for an address of its own that was silent |

Every run checks its module's `TypeOK` as well, and every property is known to fail for a
plausible mistake in the code (the "mutants" of `PROJECT.json`).

**Bounds, and why they are enough.**

- *Two commands.* Locks and snapshots are between pairs: a lost update, a double
  reservation or a crossed reply takes one command that reads and one that writes in
  between. For the record and the queue the proofs remove the bound.
- *`MaxFaults`, `MaxEdits`, `MaxHands`, `MaxTrouble`* bound what goes wrong in one
  behaviour, in the guards of the actions of people and of failures only. A write is sent
  at most twice (`httpretry`), so two faults are a write that fails for good, which
  `record` and `register` have. `reservation` has one, of every kind; `workflow` has one,
  of every kind, in every place.
- *Identifiers.* `Reservation` has numbers up to `Largest` 9 with `MaxJump` 2 where the code
  has 999 and 9: enough for a free number, a taken one, a range, a jump that is refused,
  and the next year.
- *Days.* The intervals of the follow-ups are scaled: 2 days where the code has 3 days and 14,
  two or three reminders where it has up to six, and a closed check read for 7 days where the code has 90. The
  order of the constants that matters is kept: a reminder comes several times while a
  closed check is still read. `WithinReach` says what `ArchiveComesToAnEnd` needs of it.
- *Ticks.* The pacer's interval, retry wait, cap and pause are 2, 1, 3 and 2, so that a hold
  may be shorter and longer than the interval, and patience may end in every place.
- *The clock of `Teams`*: `TTL` 2, `RetryAfterFailure` 1, `ReadTime` 1, up to `MaxTime` 3, so that
  a copy ages out, a failure is retried and ages out too, and a read may span a tick.
  `MaxChanges` 1 is one person leaving. One delivery and the load at startup are two askers, which is
  what the lock is between; the proofs take any number.
- *`MaxTrouble`, `MaxSilent`, `MaxAway`, `MaxWrong` 1 and `MaxAmiss` 2*: one thing goes wrong in one behaviour, in any
  place, a lost answer being one; `announce` has two, as it retries a post once.
- *`Editions` 2, `MaxCollectionItems` 2, `MaxAnswers` 1, `MaxMoves` 2*: a text that changes between two
  commands, a collection that is full, an account that answers, somebody who joins and leaves, or joins and is promoted.
- *Links*: two links of one site with one place of it, and two places of the run: a link waits
  for its site while the run has a place, and the other way round.
- *Rules*: a rule sees one configuration and one world; what differs from the good ones is one thing in most jobs
  and two or three where rules look at them together.
- *Symmetry* is used in `workflow` only, on two commands no constant tells apart,
  and that run checks no liveness.

**Histories.** Some variables exist for the properties only, and are marked "history" where they
are declared: the record trusted before (`kept`), commands whose reading is outdated
(`stale`), what a hold owes (`owed`, `quiet`), how often somebody was asked (`sent`, `gap`),
whether others have disturbed a command (`calm`, `found`), and what of it failed (`hurt`). No
guard reads them, but for `early` of a toot, which tells `KeyExpires` that an hour is longer than any command takes.

## Fairness

Weak fairness is assumed of what the Go scheduler and the HTTP client's deadlines
guarantee, and of nothing else:

- `CheckRecord`, `Reservation`: `WF(Work(c))` for each command. A goroutine that can run
  does; a request ends with an answer or at its deadline; an unlocked mutex is given to somebody, and
  as finitely many commands arrive, to everybody in the end. Arriving, failing and what
  people do is not fair.
- `Pacer`: `WF(Tick)` and `WF(Work(w))`. Nothing is assumed of the order in which the slot
  is given.
- `FollowUp`: `WF(Tick)` (days pass), `WF(StartNightly)` (the timer fires; when an editor's
  walk holds the lock, the nightly one gives up for that night, as `TryLock` does) and
  `WF(Walk(w))` (a walk goes on, and `sweepTimeout`, 15 minutes, ends it on the day it began).
- `MCBot`: `WF(Step(d))` for each delivery, `WF(TeamStep(a))` for each asker, `WF(Loaded)` and `WF(LinksWork)`: the same
  goroutines and requests. The fetching lock is given in any order. Failures, panics, restarts and the deadline
  of `check links` are not fair: the links end because every request does.
- `RegisterRow` and `CheckWorkflow` are checked for safety, and assume none; so are the other scenes of `bot`.

`Restart` is never fair, and is bounded by `MaxFaults`: a process that is stopped for ever
reminds nobody.

## What is proved

All proofs are checked by `tlapm` with Z3, Zenon and LS4, for every value of the constants
that the assumptions named in the modules allow: any number of people, commands,
deployments and comments, any intervals.

**CheckRecordProofs.** The inductive invariant is

    IInv == TypeOK /\ LockHeld /\ AboutAssignee /\ TargetKnown /\ DraftSound
            /\ TrustedIsConflictFree

`TrustedIsConflictFree` alone is not inductive: what a write puts on the issue was decided at an
earlier step. `DraftSound` says that a command about to write holds a draft without
conflicts unless an editor adopts it; `TargetKnown` that the comment it will write over is one of the
issue's; `LockHeld` that a command is at its reading or its write exactly while it has the lock of
its deployment; `AboutAssignee` that only `assign` and `remove` go on to the assignee.
`RecordStepKeeps` has one case per action, each with a lemma of its own, and rests on
`AppliedKeeps` (granting and revoking keep a record free of conflicts) and `ConflictFreeMeans`.

- `RecordTypes`: `Spec => []TypeOK`
- `TrustedRecordsAreSound`: `Spec => []TrustedIsConflictFree`
- `SoleDeploymentLosesNothing`: assuming that all commands arrive at one deployment,
  `Spec => []NoLostUpdate`. The assumption is needed: run `record_deployments` shows
  what happens without it. The invariant is that `stale` stays empty, from `LockHeld`.
- `OneDeploymentImplementsTheStore`: assuming `SoleDeployment` and `Signs`, `Spec => ImplementsStore`: every step is
  one atomic change of `RecordStore`, or none

The refinement needs one invariant more,

    RInv == NothingYet /\ DraftIsTheChange

`DraftIsTheChange` says that what a command is about to write is its change of the latest record that can be
trusted, or, where the write may have landed without an answer, that record itself; so the write that lands is one `Apply`
of the store (`LandChanges`) and the one that lands again none. Both hypotheses are needed. A second deployment writes a change of
a record that is no longer the latest; and where the deployments hold no key, a record edited by hand is trusted still, and
changes with no command. `StepIsOfStore` has one case per action.

**ReservationProofs.** The inductive invariant is

    IInv == TypeOK /\ LockHeld /\ (\A c \in Commands : Sound(c))
            /\ Settled /\ NoRanges /\ NoTwoChecksWhenWhole

Uniqueness alone is not inductive: an identifier is written three steps after it was found free.
`Sound(c)` follows it through them: what the command listed is still so but for its own writes
(`Fresh`), what it takes for the others' claims covers all they hold (`Informed`), and what it chose
is not among them (`Chosen`). `Informed` is where the lock is needed: while a command lists the issues
nobody is between a record and its label (`Settled`), so every recorded identifier is in a labelled
title and is read. `NoRanges` is for the last write: a label makes claims of what the title mentions.

- `ReservationTypes`: `Spec => []TypeOK`
- `ReservationInvariant`: `StartsWhole /\ Spec => []IInv`
- `NoTwoChecksOneIdentifierWhenWhole`: `StartsWhole /\ Spec => []NoTwoChecksWhenWhole`
- `WhatIsPickedIsPastEveryClaim`: `StartsWhole /\ Spec => NextIsPastEveryClaim`, an action property

`StartsWhole` says that the bot finds the register in order: no identifier twice, a record whose identifier
is in a labelled title, and no range of well-formed identifiers in the title of an issue
without the label. The last is a real limit: such a range is no claim until the label is set, and
nothing in `setCertificate` looks at it when it sets the label. The instance's starts meet it (an `ASSUME` of `MCReservation`).
`HighestIsTheMaximum`, that a bounded set of numbers has the highest one `NextCertificate` counts on from, is
proved from the well-foundedness of the natural numbers.

**PacerProofs.** The inductive invariant is

    Inv == TypeOK /\ TurnIsSlot /\ Debt /\ TryLeft

`Debt` (what is still to wait and what was waited add up to what is owed) is what makes
`Spaced` follow, also when writers between gave up; `TurnIsSlot` makes the slot exclusive;
`TryLeft` bounds the tries.

- `Types`: `Spec => []TypeOK`, which has the cap on every hold in it
- `OneAtATime`: `Spec => []OneWriteAtATime`
- `WritesAreSpaced`: `Spec => Spaced`, an action property

**RegisterRowProofs.** The inductive invariant is

    IInv == TypeOK /\ AddsARow /\ OpenIsAhead
            /\ (\A c \in Commands : TriesLeft(c) /\ OneSnapshot(c) /\ Compares(c))
            /\ (\A c \in calm : Undisturbed(c)) /\ thrown \subseteq overtaken

None of the four properties is inductive alone, as what is pushed was read several requests
before. `OneSnapshot` carries it there: the content a command will commit is the file of the one commit it
read with its row in it, and that file had no row of the certificate; with it `AddsARow` holds of every branch the bot
makes. `Compares` says that a command that found a branch goes on only if nobody's work was on it
when it looked, so any there is by now was pushed since. `Undisturbed` is what a command knows of GitHub at
each of its requests while nobody else writes there, with the write that may have landed without an answer: the branch
is as it was found or is already its own commit, and an open pull request is the one it just opened.
`OpenIsAhead` is what makes GitHub keep a pull request open.

- `RegisterRowTypes`, `OneRowIsAdded`, `NoPullIsEmpty`, `OnlyWorkAfterTheLookIsLost`, `DoneIsProposed`:
  `StartsInOrder /\ Spec => []...`, for any commands, rows, editors' acts and failures

`DoneIsProposed` does not say that a command succeeds: a single lost answer may fail it, and a command that failed may have
landed all it wanted. It says that "done" is true, and that the conflict with its own first try, which the retry is answered with,
is recognised as that: a command that ends as `refused` was disturbed (`Unforgiven`, and the cases of `Undisturbed` for the
writes that may have landed).

`StartsInOrder` says that the bot finds its branch, if there is one, adding a row of the certificate to a commit that
had none, and at most one pull request open, from a branch that is ahead: what `ProposeRow` and GitHub
leave. The instance's starts meet it (an `ASSUME` of `MCRegisterRow`).

**CheckWorkflowProofs.** The inductive invariant is

    IInv == TypeOK /\ PointerHasItsNote /\ \A c \in Commands : Mine(c)
    Mine(c) == HowFar(c) /\ OneReply(c) /\ Heard(c) /\ (found[c] # None => Undisturbed(c))

and three arguments run side by side in it.

- *What was read is still so.* Every write to the check clears `found` of all commands but the writer's, so a
  command that still has it may count on what it read (`Undisturbed`): its memo, moved labels included, is the issue, its
  listing is the record, and between two moves the labels are where the moves made so far bring them
  (`Moving`), which ends at `Target`. Moves that are skipped as needless do no harm, as the memo
  is the issue; and without a memo nothing is skipped.
- *A note is never written over.* `OneReply`: a command's comment carries no note and no pointer until its
  last write, so rewriting it takes nothing away from a comment below that points at it.
- *What is pointed at is above.* `Heard`: the listing was taken before the first write, so the note in it
  stands in a comment above the command's own, and stays there by the second argument.

`OneStep` puts them together: a step of one command leaves the others' comments, and every note, as
they were (`Leaves`), and what the others know is either unchanged or no longer counted on (`LeftAlone`).

- `WorkflowTypes`, `LabelsFollowTheCheck` (`DoneIsDone`), `TheNoteIsAboutNow`, `PointersHaveTheirNote`, `EveryCommandIsAnswered` (`AnsweredOrApologised`):
  `Spec => []...`, for any commands of any kinds, codecheckers, rules, failures, panics, restarts and hands

**FollowUpProofs.** The inductive invariant is

    IInv == TypeOK /\ ThreadIsGood /\ \A w \in Walkers : ReadIsGood(w) /\ PostIsGood(w)

Neither `NeverTooOften` nor `Spaced` is inductive: a walk decides from a thread it read some requests ago, and posts later
still. The argument follows an ask through the three places it may be in.

- *The thread shows every ask* (`ThreadIsGood`). `Shows` says that somebody asked less than an interval ago is so by a
  record that is no older (`Dated`), and that the count in the record is at least the number of asks (`Told`). A restart
  takes nothing from it, which is why the bot may forget everything else.
- *So does what a walk read of it, about what it has still to answer* (`ReadIsGood`). There is one walk at a time, by the lock in
  `TypeOK`, so nobody else asks meanwhile, and what the walk itself asks is taken from its `todo` first. A person who
  speaks meanwhile only starts the counting over.
- *An ask about to be posted comes neither too soon nor uncounted* (`GoodAsk`), *or a person has overtaken it*, and then it
  is nobody's second (`Overtaken`). A post that says something is done takes no count back (`GoodWord`).

`OneLeft`, that a copy still to be archived has a reminder left, is what bounds the archive's count: its handler settles the record as it
gives the last reminder, and looks at no limit.

- `FollowUpTypes`: `Spec => []TypeOK`, which has the lock and the limits of every record in it
- `AskingStops`: `Spec => []NeverTooOften`
- `AsksAreSpaced`: `Spec => Spaced`, an action property

for any intervals and limits, any number of acts of people, failures and restarts.

**Teams**, in `BotProofs`. The inductive invariant is

    TeamsInv == TeamsTypeOK /\ Lookups /\ Ages /\ Order

`Lookups`: whoever reads a team holds its lock. `Ages`: a copy was read no earlier than a
request before it was stored, and a read in flight is no older than a request may be. `Order`:
copies and reads see the organisation's changes in the order of the reads, and no read older than
a refresh is still under way once that refresh is answered. The last is what
`RefreshSeesTheChange` needs: without it, a slow read could overwrite what a refresh had found.

- `TeamsTypes`, `GrantsAreRecent`, `RefreshesSeeTheChange`: `TeamsSpec => []...`, for any teams, people,
  askers and times

**Dispatch**, in `BotProofs`. Every step of the dispatch is a step of `Teams` or leaves the cache alone
(`DeliveryStep`, `ProcessStep`), so

- `DispatchUsesTheCache`: `DispatchSpec => TeamsSpec`
- `DispatchGrantsAreRecent`, `DispatchRefreshesSeeTheChange`: the properties of the cache hold inside the bot,
  with its restarts and its load at startup
- `DispatchTypes`, `OwnCommandsAreOffered`: `EventsRead /\ DispatchSpec => []OwnCommandIsOffered`

The last rests on `ReadBeforeJudged`: where an answer may turn on a role of the check, the record has been read by the
time the command is judged, unless something failed. `EventsRead` says that a delivery is an event, and that a word after
a command is near only to a command that the first word begins or to one of a single word, as `misspelt` finds it (`Readable`).

**Links**, in `BotProofs`. `LinksInv` says that no goroutine runs before everything is collected, that every link found has
one, and that what a finished one says is `Sound`: what the site says, or a reason why it was not asked.

- `LinksTypes`, `LinksVerdicts`: `LinksSpec => []VerdictIsTheSites`, for any links, sites, limits and worlds

**Announce**, in `BotProofs`.

    AnnounceInv == AnnounceTypeOK /\ BuildersSawNone /\ NoneWasFound /\ KeysAreKept /\ AnnouncedOnce

`BuildersSawNone`: whoever builds a toot saw none. `NoneWasFound`: whoever saw none looked before each toot there is was
posted, or while it was out of sight. `KeysAreKept`: a key outlives every command that had looked before its toot, so that
such a command with the same text is answered with that toot.

- `AnnounceTypes`, `AnnouncedOnlyOnce`: `AnnounceSpec => []AnnouncedOnce`, for any commands, texts, failures, deletions and newer toots

**Membership**, in `BotProofs`. `Knows(d)` carries what a command learned to the write: who it was told is inside is
inside or has left since, and whoever it read as no maintainer is none, or owns the organisation, or
was made one since.

- `MembershipTypes`, `NoWriteIsAGuess`: `MembershipSpec => WritesAreNoGuess`, an action property

**Collections**, in `BotProofs`. `KnowsWhoWasAsked` says of a command that curates a collection that whoever is in it and has not
declined is no news to it (`NoNews`): it is among those the command has handled, or was asked while the command was curating already (`during`), and
if by itself, in a request it had no answer to (`lost`). What others do keeps it:
a step asks only somebody whose `during` has everybody curating (`NoneUnseen`), and consents and evictions ask nobody.
So whoever is asked next, being unhandled, was asked by nobody this command could have read, and by itself only unheard.

- `CollectionsTypes`, `NobodyIsAskedTwice`: `CollectionsSpec => AskedOnce`, an action property, for any titles, accounts,
  commands, answers and failures

**CheckRun**, in `CheckRunProofs`. Three facts about the rules come first, each by cases over the 62 of them and the four items
of `check ready`:

- `RulesAgree`, `ItemsAgree`: a rule that read all it asks says the same, and asks the same, in any world that answers these
  addresses alike. What a rule asks may depend on what it heard, so both are proved together.
- `RulesAreHonest`, `ItemsAreHonest`: where each address a rule asked gave its true answer or none, the rule says what it
  would have said with every service up, or that it could not be checked. It is false of exactly the rules and the item in
  `OnPartOfIt`.
- `RulesHaveOutcomes`, `AsksAreAddresses`: a rule passes, fails or is skipped, and asks addresses there are.

From the first two, `ErrorsOnlyForSilence`: a rule of the file or of the register that would fail with everything up, and did not,
was skipped, and an address it asks itself was silent.

The inductive invariant is

    RunInv == Shape /\ NothingYet /\ Grounds /\ ReadFirst /\ ResultsStand
              /\ AllJudged /\ PageStands /\ NothingIsProposedUnjudged /\ ...

`ResultsStand` is the middle of it: every result is what its rule says of `heard` *now*, and all the rule asks has been
heard. `OneReportOneWorld` alone is not inductive, as an answer that comes after a rule was run could change what it says;
`MoreIsHeard` shows that it does not, from `RulesAgree`, and needs `Grounds` for it: the branch the files are read from, the
root and the issue were asked before the first rule. `AllJudged` says of `register` that what has not been judged is still
to be, area by area, and `ReadFirst` that a version is chosen for a configuration that was found; with `ErrorsOnlyForSilence`, all
of them give `NothingIsProposedUnjudged`. `SilenceIsNoVerdict` has the exceptions named in it: the three of `OnPartOfIt`, a configuration
that was read where an outage sent the command (`ReadWhereItIs`), and the page, which may be called missing when it is silent (`PagesOf`).

- `RunTypes`, `OneReport`, `NoVerdictFromSilence` (`SilenceIsNoVerdict`), `NothingProposedUnjudged`: `RunSpec => []...`, for
  every configuration, world and pattern of outages, of which the run has a sample

**The bot that plays them all**, in `BotProofs`. A step of `MCBot` is a step of one component, and leaves the variables of
the others alone; and a component that the scene does not play begins as its own specification says and stays there. So the
bot implements each of its components (`EachBegins`, `EachStep`, with a case for each disjunct of `Next`), and what is proved of them alone
is proved of what the run `bot` checks. The scenes play one component at a time, so this is no claim about two
of them side by side: but for the cache, which the dispatch has, they share nothing:

- `EachPlaysItsPart`: `Spec => EventsRead /\ DispatchSpec /\ LinksSpec /\ AnnounceSpec /\ CollectionsSpec /\ MembershipSpec /\ RunSpec`
- `BotTypes`: `Spec => []TypeOK`, the type invariant of the run `bot`
- `BotPromises`: `Spec => []...` of the eight safety invariants of that run
- `BotSteps`: `Spec => AskedOnce /\ WritesAreNoGuess`, its two action properties

**Assumptions.** They are named in the modules that declare the constants, and TLC evaluates them on
the runs of those modules. Most
say what the constants are (natural bounds, links in their places, goroutines that are not the sweep, an address that is silent told from one that was not asked), and nothing
about the behaviour. Four theorems or groups of them say more, each where it is used above: what the bot finds at the start
(`StartsWhole`, `StartsInOrder`, and in `CheckWorkflowAssumption` that no comment of the thread is by these commands and that
a pointer in it has its note above), what an event may be (`EventsRead`), and `SoleDeployment` and `Signs`.

**Only model-checked**: every liveness property, as the prover has no fairness and no `ENABLED`: that commands, reservations,
writes, deliveries and runs end (`EveryCommandEnds` and its kin), and that reminders come. Every invariant and every action property of a passing run is
stated by a theorem.

## What the runs refute

Five runs check what a comment of the code says and find it violated. Each counterexample is
a few steps long and stays within what the code handles elsewhere.

1. `record_deployments`: `people/record.go:338` says the fresh read in `Update` catches what a
   second deployment would do. It narrows the window and does not close it: between the read and the
   write there is no lock the other deployment knows of.
2. `record_assignee`: `bot/bot.go:953` says the assignee is kept in step with the codechecker.
   It is set after the record's lock is released, so two commands may set it in the other order: the trace ends
   with no assignee on an issue whose record names a codechecker; the replaced one left assigned is another end of the same race.
3. `reservation_partial`: `bot/certificate.go:231` says an identifier proposed from half the claims
   is how two checks get one. A reservation whose label failed is recorded and
   titled, and is no claim to the next reservation.
4. `register_overwrite`: `github/register.go:320` says an editor's fix must not be thrown away. The branch is
   compared, then two requests are made, then it is moved by force.
   `OnlyAPushAfterTheLookIsLost` shows that this window is all there is.
5. `followup_removed`: `bot/organisation.go:36` says no record has to be marked settled. A role an
   editor removes after the newcomer joined is granted again by the next sweep.

Other places where the code and what is said of it part company, met while modelling. No run
refutes them: the properties are stated as the code has it, with the case named.

- A reply may say for ever that it is still reading. `bot/progress.go:131` says that finishing that sentence is
  `run`'s job, as nothing else knows a comment is waiting, and `progress.go:19` that a reader a week later finds one finished answer.
  When `run` has returned, `answer` still builds the note and makes the last write (`bot/bot.go:543` to `:559`): a panic there is recovered by the
  dispatch, which apologises in another comment. `AnsweredOrApologised` asks for the apology only.
- Two confirms may post two toots: `bot/bot.go:1205` says a doubled confirm returns the first toot instead of posting twice. The key is made of the text as each
  confirm composes it, so two that had both looked post twice when the certificate, or an account it names, was corrected in between.
  `AnnouncedOnce` lets a second toot say something else.
- A page nobody could look at may be called missing: `command/landing.go:58` says that it is unknown, and not a failure. `PageExists`
  (`check/landing.go:137`) answers "no" for any status but 200, and so for 503, 429 and 403 (`PagesOf`). `SilenceIsNoVerdict` names the page.
- `follow` asks an account that declined again: `bot/bot.go:1395` says that everybody ever asked is handled, and
  the instance names no account of an item that was declined (`mastodon/client.go:301`). `AskedOnce`
  leaves out who declined.
- `intoTheTeam` (`bot/team.go:214`) puts a membership it could not read, which makes a plain member of a maintainer;
  the comment below says that a put would take the role away. `NoGuess` leaves out who could not be read.
- `serve.go:147` says that commands in flight are let finish, and what is waited for are requests: those were
  answered 202 long ago, and nothing waits for the goroutines that act on them. `EverythingEnds` lets a restart lose them.
- `CC-MET-003` and `CC-REG-008` pass on the part of their evidence that could be read, where
  `check/services.go` says that what could not be checked is no verdict; and `check ready` takes an issue it could not read for
  one that links no paper. `OnPartOfIt` names the three.
- An outage of `main` on GitLab sends a command to `master`, where another configuration may be: `ReadWhereItIs` names it.
- `docs/mastodon-token.md:31` says that the last ten toots are searched for the certificate. The code searches forty (`bot/bot.go:1113`), and
  a confirm after more than those, or after a deletion, posts again when the hour of the key is over (`mastodon/client.go:75`):
  `AnnouncedOnce` names a toot that is out of sight.
- A `venue` given to `register` is taken as written when `register.csv` cannot be read.

## What is left out

Within the modelled components:

- `CheckRecord`: the bytes of the block and of the signature, retired keys, and the
  Repository, Type and Venue fields, each of which is set as the identifier is.
- role commands: the words of an assignment.
- `Pacer`: reads, which do not queue.
- A write that arrives after its own command has given up on it: a lost write lands when it is
  sent, or never.
- `RegisterRow`: how the row is built and judged, which is `CheckRun`'s.
- `FollowUp`: the nudge about the whole queue, the most nudges of one walk, the permissions
  of `remind`, and two asks for one person in different roles. A record marker that a person
  removes from a comment is not modelled.
- `CheckWorkflow`: the words of the stages, the last two stages of a finish (the archive's follow-up
  is in `FollowUp`), who may give which command, and a panic in the recovery of a panic.
  `DoneIsDone` and `NoteIsAboutNow` are about commands that nobody disturbed:
  labels have no lock, and the code promises nothing when two commands or a person
  move them at once. `PointerHasItsNote` holds for all, and `AnsweredOrApologised` for every command none of whose writes failed and that was not cut off.
- `Teams`, `Dispatch`: the table `teams` shows, the permissions of the bot's own token, the HTTP server, the issues that are
  removed from the lists when they are closed or moved. A redelivered delivery is acted on again, as nothing deduplicates
  them (`bot.go:184`): two deliveries with one script are two commands.
- `Membership`: what is written in the record (`CheckRecord`), and more than one person at a time: nothing relates two.
- `Dispatch`: a panic inside the report of a panic.
- `Announce`: the words of a toot, and what its animation shows. One certificate; nothing relates two.
- `Collections`: the private message, and which of two collections of one title a later command takes, which is any.
- `Links`: how a link is found in prose, and a panic in a goroutine of `Probe`, which nothing recovers and which ends the process.
- `CheckRules`: parsing of YAML, matching of names, edit distances, and `drift.go`, `format.go` and `languages.go`, which only
  the offline command line uses. `CheckRun`: the stages of a finish about the archive (`FollowUp`) and about Zenodo.

Hazards no property covers, and why:

- `check/certificate.go:117`: a number past three digits is written and never read back. `Largest` stands for the last
  number there is; the format is an open question of the register's.
- `github/register.go:371`: two commands with different rows for one certificate share the branch, and the last row stays.
  Both say so, and `BranchAddsOneRow` holds.
- `bot/organisation.go:147` and `:132`: a role granted whose comment fails is not announced; a team that cannot be written is
  spoken of every night. Both are choices the code's comments defend.
- `followup/followup.go:166`: two asks for one person in two roles are one subject, and the newer hides the older.
- `bot/workflow.go:486`: `check start` and `check finish` of one check interleave their moves, and a finish
  skips a move the labels of minutes ago made look done. Labels have no lock and no promise.
- `bot/serve.go:157`: a stop waits for the requests and not for the goroutines that act on them. The restart is a step of `Dispatch` and of
  `CheckWorkflow`, and the invariants hold across it; but an answer lost with its process, or a reply left half written, is chased by nothing: `EverythingEnds`
  counts it as ended, and `AnsweredOrApologised` excuses a command that was cut off.
- `bot/bot.go:1113`: an announcement out of the forty toots searched and past the hour of its key, or with another text, is made again;
  `check/landing.go:142`: an outage of a page. Both are above, and named in the properties.
- `bot/progress.go:85`: a first post that landed and was not answered is followed by a second comment. `WriteLost` has it, and `AnsweredOrApologised`
  excuses a command one of whose writes failed.
- `bot/bot.go:412`: a panic whose report fails in turn. The report and the apology may each fail in `Dispatch`; a panic inside the report is
  logged, and has no state behind it.
- `bot/bot.go:1390`: an account that declined is listed without its name, and is asked again (above).
- `bot/workflow.go:496`: one of the two label writes fails and the command goes on: `DoneIsDone` excuses a command whose own write failed.
- `command/labels.go:240`: the note ends "I have changed no labels." also under a start that moved some: wording.

Not modelled at all: suggestions of codecheckers (a ranking of public records), the
registration form (parsing), Zenodo's own reads and wording, the request guard (a predicate), the process,
its settings, the build and the test server. None keeps state between two steps that could interleave, except what is named above.

## The plan

In the order of what matters most to the system:

1. Done: the record (`Roles`, `RecordStore`, `CheckRecord`), reservations (`Certificates`,
   `Reservation`), the queue (`Pacer`), the register row (`RegisterRow`), follow-ups
   (`FollowUp`), labels and replies (`CheckWorkflow`).
2. Done: the bot around the record (`Teams`, `Registry`, `Dispatch`, `Links`, `Announce`, `Collections`, `Membership`,
   `CheckRules`, `CheckRun`), composed in `MCBot`.
3. Done: proofs of every safety property of these; the record as an implementation of `RecordStore`, the dispatch as one
   of the teams' cache, the composed bot as one of each of its components.
4. `Suggest`, the ranking of codecheckers, and the registration form, as operators with a reference definition.
5. Two persons in `Membership`, and the permissions of `remind` in `FollowUp`.
