------------------------------ MODULE Dispatch ------------------------------
(***************************************************************************)
(* Webhook deliveries and the dispatch (internal/bot/webhook.go, bot.go,   *)
(* lists.go, serve.go): a delivery is verified, read, refused or ignored,  *)
(* or it is answered 202 and a goroutine acts on it.  The goroutine looks  *)
(* up the author's standing roles, reads the check's record where a role   *)
(* of the check could matter, refuses or runs the command, and posts what  *)
(* it came to.  A panic costs the answer and is reported on the admin      *)
(* issue; stopping the process costs every answer in flight, because       *)
(* nothing waits for these goroutines.                                     *)
(*                                                                         *)
(* What a command does is modelled by the components' own modules: here a *)
(* command is allowed or not, and ends with `Answer`.                      *)
(***************************************************************************)
EXTENDS Teams, Registry

CONSTANTS
  Delivery,    \* deliveries, each with a goroutine of its own
  Startup,     \* the goroutine that loads the teams at startup
  Bot,         \* the bot's own account
  NoEvent,     \* a delivery GitHub has not made
  AdminIssue,  \* the issue panics are reported on
  Recorded,    \* who the check's record names as its codechecker
  MaxTrouble   \* bound on requests that fail, panics and restarts

ASSUME DispatchAssumption ==
  /\ Asker = Delivery \cup {Startup}
  /\ Startup \notin Delivery
  /\ Bot \notin People
  /\ Team = StandingRoles
  /\ Recorded \in People
  /\ AdminIssue \in Nat \ {0}
  /\ MaxTrouble \in Nat

VARIABLES
  script,   \* the event of each delivery
  act,      \* the goroutine of each delivery
  loading,  \* the teams the load at startup has still to read
  trouble   \* how much has gone wrong

dispatchVars == <<script, act, loading, trouble>>

\* One event as the bot reads it.  name is the command of its first line,
\* "none" when that does not address the bot; meant is the command a mistyped
\* second word is near to, "none" when there is no second word or it is an
\* argument, and bare says no word follows.
Event == [signed : BOOLEAN, type : {"opened", "created", "edited"},
          repository : {"register", "lists", "elsewhere"},
          author : People \cup {Bot}, issue : Nat, registration : BOOLEAN,
          name : Commands \cup {"unknown", "none"},
          meant : Commands \cup {"none"}, bare : BOOLEAN]

\* What a first line may be read as: after a command that begins others, a mistyped
\* word is near to one of these or to a command of one word; and a bare first word
\* is followed by none.
Readable(e) ==
  /\ e.meant # "none" => Family(e.name) # {} /\ e.meant \in Family(e.name) \cup OneWordCommands
  /\ e.bare => e.meant = "none"

Goroutine ==
  [at : {"none", "dropped", "roles", "record", "judging", "running",
         "posting", "panicked", "apologising", "done", "lost"},
   teams : SUBSET StandingRoles,        \* teams still to be looked up
   roles : SUBSET (StandingRoles \cup {"assigned codechecker"}),
   reply : {"none", "refused", "hint", "typo", "answered", "on the lists"},
   offered : SUBSET Commands]           \* the commands the reply offers

Unmade == [at |-> "none", teams |-> {}, roles |-> {}, reply |-> "none", offered |-> {}]

DispatchTypeOK ==
  /\ TeamsTypeOK
  /\ script \in [Delivery -> Event \cup {NoEvent}]
  /\ act \in [Delivery -> Goroutine]
  /\ loading \subseteq Team
  /\ trouble \in 0..MaxTrouble

DispatchInit ==
  /\ TeamsInit
  /\ act = [d \in Delivery |-> Unmade]
  /\ loading = Team
  /\ trouble = 0

OnLists(e) == e.repository = "lists"

RegistrationOpened(e) == e.type = "opened" /\ OnLists(e) /\ e.registration

\* The guards in the order of the code: the signature over the raw body, the
\* kinds of event that carry an instruction, the repositories this deployment
\* works on, the bot's own comments, an issue, and the first line.
Accepts(e) ==
  /\ e.signed
  /\ e.type \in {"opened", "created"}
  /\ e.repository \in {"register", "lists"}
  /\ e.author # Bot
  /\ e.issue > 0
  /\ e.name # "none" \/ RegistrationOpened(e)

Parsed(e) == IF e.name = "none" THEN "include check" ELSE e.name

\* A command of the lists is answered there without asking who wants it.
Deliver(d) ==
  LET e == script[d] IN
  /\ e # NoEvent
  /\ act[d].at = "none"
  /\ act' = [act EXCEPT ![d] =
       CASE ~ Accepts(e) -> [@ EXCEPT !.at = "dropped"]
         [] Accepts(e) /\ OnLists(e) -> [@ EXCEPT !.at = "posting", !.reply = "on the lists"]
         [] OTHER -> [@ EXCEPT !.at = "roles", !.teams = StandingRoles]]
  /\ UNCHANGED <<teamVars, script, loading, trouble>>

\* Teams are read one after another, in the order of the settings.
FirstOf(teams) == IF "editor" \in teams THEN "editor" ELSE "codechecker"

(* Who asks: the standing roles. *)

AskTeam(d) ==
  /\ act[d].at = "roles"
  /\ act[d].teams # {}
  /\ Begin(d, FirstOf(act[d].teams), FALSE)
  /\ UNCHANGED dispatchVars

HearTeam(d) ==
  /\ act[d].at = "roles"
  /\ act' = [act EXCEPT ![d].teams = @ \ {look[d].team},
                        ![d].roles = IF Has(d, script[d].author) THEN @ \cup {look[d].team}
                                     ELSE @]
  /\ Take(d)
  /\ UNCHANGED <<script, loading, trouble>>

\* Deviation: only for a command that is itself gated on one.
WantsRecordWhenGated(e) == NeedsCheckRoles(e.name)

\* The record is read for a command gated on a role of the check, and for one
\* whose answer offers such a command.
WantsRecord(e) ==
  \/ NeedsCheckRoles(e.name)
  \/ (e.bare \/ e.meant # "none") /\ ChildrenNeedCheckRoles(e.name)

Known(d) ==
  /\ act[d].at = "roles"
  /\ act[d].teams = {}
  /\ look[d].at = "idle"
  /\ act' = [act EXCEPT ![d].at = IF script[d].name # "unknown" /\ WantsRecord(script[d])
                                  THEN "record" ELSE "judging"]
  /\ UNCHANGED <<teamVars, script, loading, trouble>>

ReadRecord(d) ==
  /\ act[d].at = "record"
  /\ act' = [act EXCEPT ![d].at = "judging",
                        ![d].roles = IF script[d].author = Recorded
                                     THEN @ \cup {"assigned codechecker"} ELSE @]
  /\ UNCHANGED <<teamVars, script, loading, trouble>>

\* A record that cannot be read or was tampered with grants nothing.
RecordUnread(d) ==
  /\ act[d].at = "record"
  /\ trouble < MaxTrouble
  /\ trouble' = trouble + 1
  /\ act' = [act EXCEPT ![d].at = "judging"]
  /\ UNCHANGED <<teamVars, script, loading>>

\* Refuse, answer a mistyped word, or run; the answer to a bare name lists
\* what may follow it.
Judge(d) ==
  LET e == script[d]
      roles == act[d].roles
      offers == IF e.name = "unknown" THEN {} ELSE
                IF e.meant # "none" THEN {c \in {e.meant} : Permits(c, roles)}
                ELSE IF e.bare THEN Children(e.name, roles) ELSE {}
  IN
  /\ act[d].at = "judging"
  /\ act' = [act EXCEPT ![d] =
       IF e.name # "unknown" /\ ~ Permits(e.name, roles)
       THEN [@ EXCEPT !.at = "posting", !.reply = "refused"]
       ELSE IF e.meant # "none"
       THEN [@ EXCEPT !.at = "posting", !.offered = offers,
                      !.reply = IF offers # {} THEN "hint" ELSE "typo"]
       ELSE [@ EXCEPT !.at = "running", !.offered = offers]]
  /\ UNCHANGED <<teamVars, script, loading, trouble>>

\* `teams refresh` reads both teams again before it answers.
RefreshTeams(d) ==
  /\ act[d].at = "running"
  /\ script[d].name = "teams refresh"
  /\ act[d].teams # StandingRoles
  /\ Begin(d, FirstOf(StandingRoles \ act[d].teams), TRUE)
  /\ UNCHANGED dispatchVars

Refreshed(d) ==
  /\ act[d].at = "running"
  /\ script[d].name = "teams refresh"
  /\ act' = [act EXCEPT ![d].teams = @ \cup {look[d].team}]
  /\ Take(d)
  /\ UNCHANGED <<script, loading, trouble>>

\* The command has its answer.
Answer(d) ==
  /\ act[d].at = "running"
  /\ look[d].at = "idle"
  /\ script[d].name = "teams refresh" => act[d].teams = StandingRoles
  /\ act' = [act EXCEPT ![d] = [@ EXCEPT !.at = "posting", !.reply = "answered"]]
  /\ UNCHANGED <<teamVars, script, loading, trouble>>

\* The context of the command is the post's as well: a command that ran out
\* of time is not answered either.
Post(d) ==
  /\ act[d].at = "posting"
  /\ act' = [act EXCEPT ![d].at = "done"]
  /\ UNCHANGED <<teamVars, script, loading, trouble>>

PostFails(d) ==
  /\ act[d].at = "posting"
  /\ trouble < MaxTrouble
  /\ trouble' = trouble + 1
  /\ act' = [act EXCEPT ![d].at = "lost"]
  /\ UNCHANGED <<teamVars, script, loading>>

(* A bug in one command costs its answer.  It is reported first, then       *)
(* apologised for; on the admin issue the report is the answer.  Neither    *)
(* may panic in turn.                                                       *)

Panic(d) ==
  /\ act[d].at = "running"
  /\ look[d].at = "idle"
  /\ trouble < MaxTrouble
  /\ trouble' = trouble + 1
  /\ act' = [act EXCEPT ![d].at = "panicked"]
  /\ UNCHANGED <<teamVars, script, loading>>

ReportPanic(d) ==
  /\ act[d].at = "panicked"
  /\ act' = [act EXCEPT ![d].at = IF script[d].issue = AdminIssue THEN "done"
                                  ELSE "apologising"]
  /\ UNCHANGED <<teamVars, script, loading, trouble>>

Apologise(d) ==
  /\ act[d].at = "apologising"
  /\ act' = [act EXCEPT ![d].at = "done"]
  /\ UNCHANGED <<teamVars, script, loading, trouble>>

(* The process. *)

Load ==
  /\ loading # {}
  /\ Begin(Startup, FirstOf(loading), TRUE)
  /\ UNCHANGED dispatchVars

Loaded ==
  /\ Take(Startup)
  /\ loading' = loading \ {look[Startup].team}
  /\ UNCHANGED <<script, act, trouble>>

InFlight(d) == act[d].at \notin {"none", "dropped", "done", "lost"}

\* The process is stopped and another started: Shutdown waits for requests,
\* and a goroutine acting on a delivery is none.
Restart ==
  /\ trouble < MaxTrouble
  /\ trouble' = trouble + 1
  /\ act' = [d \in Delivery |-> IF InFlight(d) THEN [act[d] EXCEPT !.at = "lost"] ELSE act[d]]
  /\ Forget
  /\ loading' = Team
  /\ UNCHANGED script

TeamStep(a) == LookStep(a) /\ UNCHANGED dispatchVars

TeamUnread(a) ==
  /\ RecordFailure(a)
  /\ trouble < MaxTrouble
  /\ trouble' = trouble + 1
  /\ UNCHANGED <<script, act, loading>>

\* What the goroutine of a delivery does by itself, with no fault.
Step(d) ==
  \/ AskTeam(d) \/ HearTeam(d) \/ Known(d) \/ ReadRecord(d) \/ Judge(d)
  \/ RefreshTeams(d) \/ Refreshed(d) \/ Answer(d) \/ Post(d)
  \/ ReportPanic(d) \/ Apologise(d)

Fault(d) == RecordUnread(d) \/ PostFails(d) \/ Panic(d)

Environment == (Tick \/ ChangeTeam) /\ UNCHANGED dispatchVars

DispatchNext ==
  \/ \E d \in Delivery : Deliver(d) \/ Step(d) \/ Fault(d)
  \/ \E a \in Asker : TeamStep(a) \/ TeamUnread(a)
  \/ Load \/ Loaded \/ Restart \/ Environment

DispatchSpec == DispatchInit /\ [][DispatchNext]_<<teamVars, dispatchVars>>

-----------------------------------------------------------------------------
(***************************************************************************)
(* Properties.                                                             *)
(***************************************************************************)

\* The codechecker of a check is not kept from their own command: with the
\* record readable, `check start` is not refused them, a mistyped form of it
\* is answered with it, and the answer to a bare `check` lists it - although
\* the record is read only for a command whose answer may turn on it
\* (Server.checkRoles, misspelt, run).
OwnCommandIsOffered ==
  \A d \in Delivery :
    LET e == script[d] IN
    /\ act[d].at \in {"running", "posting", "done"}
    /\ act[d].reply # "on the lists"
    /\ e.author = Recorded /\ trouble = 0
    => /\ e.name = "check start" => act[d].reply # "refused"
       /\ e.name = "check" /\ e.bare => "check start" \in act[d].offered
       /\ e.meant = "check start" => act[d].reply = "hint"

\* A delivery that was made is dropped, answered, or lost to a fault: no
\* goroutine waits for ever for a team another one is reading, for the load
\* at startup, or for a request that failed (Teams.fetch, Server.dispatch,
\* survive).
EveryDeliveryEnds ==
  \A d \in Delivery : (act[d].at # "none") ~> (act[d].at \in {"dropped", "done", "lost"})
=============================================================================
