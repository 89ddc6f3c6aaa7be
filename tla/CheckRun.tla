------------------------------ MODULE CheckRun ------------------------------
(***************************************************************************)
(* The commands that judge a configuration: `check`, `check ready`,        *)
(* `check finish` as far as the register's page, `check register` and      *)
(* `register` (internal/bot/bot.go, ready.go, register.go, landing.go,     *)
(* workflow.go; internal/check/run.go, source.go, target.go, ready.go).    *)
(*                                                                         *)
(* A command finds out what to read, reads the configuration through its   *)
(* bundle, chooses the specification version, and runs rule after rule.    *)
(* Every address it needs is asked once, an outage included: one command   *)
(* has one cache of what it heard.  `heard` is that cache.                 *)
(***************************************************************************)
EXTENDS CheckRules

CONSTANTS
  Jobs,      \* commands, each with the world it meets
  MaxSilent  \* bound on addresses that do not answer in one command

\* What the constants are.
ASSUME CheckRunAssumption ==
  /\ MaxSilent \in Nat /\ Silent # Unasked
  /\ \A j \in Jobs : j.config \in Configuration /\ Truth(j.truth)

VARIABLES
  job,       \* the command, and the world it meets
  runStage,  \* what it does next
  heard,     \* what each address answered
  silence,   \* how many did not
  todo,      \* the rules or items still to run, by their places in the order
  version,   \* the specification version, "" while there is none
  results,   \* what each rule or item came to
  row,       \* the register row it proposes
  reply,     \* how it ended
  page       \* what `check finish` says of the register's page

runVars == <<job, runStage, heard, silence, todo, version, results, row, reply, page>>

Stages == {"record", "issue", "target", "venue", "row", "root", "read", "date", "version",
           "rules", "certificate", "pull", "page", "done"}

ReadyItems == <<"a README", "a codecheck.yml with a manifest", "a licence", "a paper to check">>

Replies == {"none", "no target", "unread", "tampered", "refused", "answered", "not a venue",
            "incomplete", "no pull request", "pull request"}

Pages == {"none", "other certificate", "unknown", "later", "missing", "uncompared", "same", "differs"}

Rules == {Catalogue20[i] : i \in DOMAIN Catalogue20} \cup {ReadyItems[i] : i \in DOMAIN ReadyItems}

RunTypeOK ==
  /\ job \in Jobs
  /\ runStage \in Stages
  /\ \A a \in Address : heard[a] \in {Silent, Unasked, job.truth[a]}
  /\ silence \in 0..MaxSilent
  /\ todo \subseteq DOMAIN Catalogue20
  /\ version \in {"", "1.0", "2.0"}
  /\ DOMAIN results \subseteq Rules
  /\ \A r \in DOMAIN results : results[r] \in {"pass", "fail", "skip"}
  /\ reply \in Replies /\ page \in Pages

First(command) ==
  CASE command = "check" -> "target"
    [] command = "check ready" -> "issue"
    [] OTHER -> "record"

RunInit ==
  /\ job \in Jobs
  /\ runStage = First(job.command)
  /\ heard = [a \in Address |-> Unasked]
  /\ silence = 0 /\ todo = {} /\ version = "" /\ results = <<>>
  /\ row = NoRow /\ reply = "none" /\ page = "none"

Registering == job.command \in {"check register", "register"}

-----------------------------------------------------------------------------
(***************************************************************************)
(* What to read.                                                           *)
(***************************************************************************)

InRegister(h) == Said(h, "register") /\ h["register"].times > 0

\* A certificate stands for the repository of its row, where that can be read, as
\* one without its platform can.
RowNamesRepository(h) == InRegister(h) /\ h["register"].row.repository # "malformed"

Remembers(h) == Said(h, "record of the check")

\* targetFor passes over a word it cannot read; `check` and `check ready` say so.
Names ==
  IF job.command = "check finish" /\ job.names = "unreadable" THEN "nothing" ELSE job.names

\* targetFor: what the command names, the repository of the record, or the
\* certificate of the record once register.csv knows it.  The issue's
\* Repository line is what `check ready` falls back to.
TargetOf(h) ==
  IF Names # "nothing" THEN Names
  ELSE IF Remembers(h) /\ h["record of the check"].repository THEN "a repository"
  ELSE IF /\ Remembers(h) /\ h["record of the check"].certificate # "none"
          /\ RowNamesRepository(h) THEN "an identifier"
  ELSE IF /\ job.command = "check ready"
          /\ Said(h, "this issue") /\ h["this issue"].repository THEN "a repository"
  ELSE "nothing"

\* What resolving the target asks for.
TargetAsks(h) ==
  When(Names = "nothing" /\ job.command = "check ready", {"record of the check"})
  \cup When(\/ Names = "an identifier"
            \/ /\ Names = "nothing" /\ Remembers(h)
               /\ ~h["record of the check"].repository
               /\ h["record of the check"].certificate # "none", {"register", "venues"})

ReadAsks(h) ==
  {"codecheck.yml"}
  \cup When(job.bundle = "gitlab" /\ h["codecheck.yml"] # Unasked /\ Branch(h) = "master",
            {"codecheck.yml on master"})

\* A GitLab project is read from the first of its branches that has the file.
Configured(h) ==
  \/ h["codecheck.yml"] = "there"
  \/ job.bundle = "gitlab" /\ h["codecheck.yml on master"] = "there"

\* The configuration as parsed; there is none at all before it is read.
Config == FromBytes(job.config)

Undated(c) == c.version = "absent" /\ c.checkTime = "none"

\* lastModified: only GitHub and Zenodo are asked.
DateAsks == When(Undated(Config) /\ job.bundle \in {"github", "archive"}, {"last change"})

-----------------------------------------------------------------------------
(***************************************************************************)
(* Readiness, and the page.                                                *)
(***************************************************************************)

\* A link to the paper on the issue's own line; an issue that could not be
\* read has none.
IssueLinksPaper(h) == Said(h, "this issue") /\ h["this issue"].paper

\* The reference is asked where it is a link, a bare DOI included; the issue's
\* link stands in for one that is missing, unfilled or plain text.
FromTheIssue(c, h) ==
  c.reference \in {"none", "FIXME"} \/ (c.reference = "text" /\ IssueLinksPaper(h))

PaperItem(c, h) ==
  IF FromTheIssue(c, h)
  THEN IF IssueLinksPaper(h) THEN Resolves(h, "paper of the issue") ELSE "fail"
  ELSE IF c.reference = "text" THEN "skip" ELSE Resolves(h, "paper")

\* A repository without a codecheck.yml still has a README and a licence.
ThereIsAFile(h) == Said(h, "root") /\ "codecheck.yml" \in h["root"]

ItemCheck(item, config, bundle, h) ==
  LET c == IF ThereIsAFile(h) THEN config ELSE Blank(config)
  IN CASE item = "a README" -> Grade(Said(h, "root"), "README" \in h["root"])
       [] item = "a codecheck.yml with a manifest" ->
            Grade(TRUE, ThereIsAFile(h) /\ FileRule("CC-CFG-001", c) = "pass" /\ c.hasManifest)
       [] item = "a licence" -> Licence(bundle, h)
       [] item = "a paper to check" -> PaperItem(c, h)

ItemAsks(item, config, bundle, h) ==
  LET c == IF ThereIsAFile(h) THEN config ELSE Blank(config)
  IN CASE item = "a licence" -> BundleAsks("CC-BUN-005", c, bundle, h)
       [] item = "a paper to check" ->
            IF FromTheIssue(c, h) THEN When(IssueLinksPaper(h), {"paper of the issue"})
            ELSE When(c.reference # "text", {"paper"})
       [] OTHER -> {}

\* What a rule, or an item of `check ready`, says of what was heard, and asks.
RunRule(r, h) ==
  IF job.command = "check ready" THEN ItemCheck(r, Config, job.bundle, h)
  ELSE Check(r, Config, job.bundle, row, h)

RuleAsks(r, h) ==
  IF job.command = "check ready" THEN ItemAsks(r, Config, job.bundle, h)
  ELSE Asks(r, Config, job.bundle, row, h)

\* The catalogue in its order: the rule, or the item, whose turn it is.
Foremost(places) == CHOOSE i \in places : \A j \in places : i <= j

NextRule ==
  IF job.command = "check ready" THEN ReadyItems[Foremost(todo)] ELSE Catalogue20[Foremost(todo)]

\* The page of a certificate that is registered; one that is not has none yet.
PageOf(h) ==
  IF Config.certificate \in {"none", "malformed"} THEN "none"
  ELSE IF h["record of the check"].certificate = "another" THEN "other certificate"
  ELSE IF ~Said(h, "register") THEN "unknown"
  ELSE IF ~InRegister(h) THEN "later"
  ELSE IF ~Said(h, "index.json") THEN "unknown"
  ELSE IF h["index.json"] # "missing" THEN h["index.json"]
  ELSE IF ~Said(h, "page") THEN "unknown"
  ELSE IF h["page"] = "there" THEN "uncompared" ELSE "missing"

\* PageExists: a page that answers with anything but 200 is one that is not there,
\* an outage included; one that does not answer at all is not known.
PagesOf(h) == {PageOf(h)} \cup When(h["page"] = Silent, {"missing"})

PageAsks(h) ==
  When(Config.certificate \notin {"none", "malformed"}
         /\ h["record of the check"].certificate # "another", {"register", "venues"})
  \cup When(Config.certificate \notin {"none", "malformed"}
              /\ h["record of the check"].certificate # "another" /\ InRegister(h), {"index.json"})
  \cup When(h["index.json"] = "missing", {"page"})

-----------------------------------------------------------------------------
(***************************************************************************)
(* The row `register` proposes: from what the command was given, what the  *)
(* record says an editor set, and what the issue says, in that order.      *)
(***************************************************************************)

\* A venue given is looked up in venues.csv, which is read with the register:
\* where register.csv cannot be read, the words are taken as they are.
NotAVenue(h) ==
  job.given.venue # "none" /\ Said(h, "register") /\ ~Listed(h, job.given.venue)

\* The venue the labels name, where venues.csv could be read for it.
LabelledVenue(h) ==
  /\ Said(h, "this issue") /\ h["this issue"].venued = "one"
  /\ Said(h, "register") /\ Said(h, "venues") /\ h["venues"] = "some"

VenueOf(h) ==
  IF job.given.venue # "none" THEN job.given.venue
  ELSE IF h["record of the check"].venue # "none" THEN h["record of the check"].venue
  ELSE IF LabelledVenue(h) THEN "listed" ELSE "none"

Complete(h) ==
  LET record == h["record of the check"]
      issue == Said(h, "this issue")
  IN /\ record.certificate # "none"
     /\ job.given.repository \/ record.repository \/ (issue /\ h["this issue"].repository)
     /\ job.given.type \/ record.type \/ (issue /\ h["this issue"].typed = "one")
     /\ VenueOf(h) # "none"

\* A certificate in the file other than the one reserved is not this row's.
Row(h) ==
  [same |-> job.same, repository |-> "sound", type |-> "a type", venue |-> VenueOf(h),
   issue |-> TRUE]

Errors == {r \in DOMAIN results : results[r] = "fail" /\ Severity(r, version) = "error"}

\* Deviation: only a rule that fails is looked at, not a report that was
\* refused or never made.
StoppedByARule == Errors # {}

\* failed, or mismatch: nothing is proposed for a configuration that was not
\* read or not judged, that fails a rule, or that is another certificate's.
Stopped == version = "" \/ Errors # {} \/ ~job.same

-----------------------------------------------------------------------------
(***************************************************************************)
(* The steps.                                                              *)
(***************************************************************************)

Wanted ==
  CASE runStage = "record" -> {"record of the check"}
    [] runStage = "issue" -> {"this issue"}
    [] runStage = "target" -> TargetAsks(heard)
    [] runStage = "venue" -> When(job.given.venue # "none", {"register", "venues"})
    [] runStage = "row" -> When(Said(heard, "this issue"), {"register", "venues"})
    [] runStage = "root" -> {"root"}
    [] runStage = "read" -> ReadAsks(heard)
    [] runStage = "date" -> DateAsks
    [] runStage \in {"rules", "certificate"} /\ todo # {} -> RuleAsks(NextRule, heard)
    [] runStage = "page" -> PageAsks(heard)
    [] OTHER -> {}

\* requestContext: one request to an address, whatever comes of it.
Hear(a) ==
  /\ a \in Wanted /\ heard[a] = Unasked
  /\ \/ heard' = [heard EXCEPT ![a] = job.truth[a]] /\ UNCHANGED silence
     \/ /\ silence < MaxSilent
        /\ heard' = [heard EXCEPT ![a] = Silent] /\ silence' = silence + 1
  /\ UNCHANGED <<job, runStage, todo, version, results, row, reply, page>>

Answered(s) == runStage = s /\ \A a \in Wanted : heard[a] # Unasked

Goes(s) == runStage' = s /\ UNCHANGED <<job, silence, results, page, reply, version, row, todo, heard>>

Ends(with) ==
  /\ runStage' = "done" /\ reply' = with
  /\ UNCHANGED <<job, heard, silence, todo, version, results, row, page>>

\* about: a record somebody edited grants nothing.
ReadTheRecord ==
  /\ Answered("record")
  /\ IF ~Said(heard, "record of the check") THEN Ends("unread")
     ELSE IF heard["record of the check"].tampered THEN Ends("tampered") ELSE Goes("issue")

\* An issue that could not be read is an issue that says nothing.
ReadTheIssue == Answered("issue") /\ Goes("target")

ResolveTarget ==
  /\ Answered("target")
  /\ IF Registering THEN Goes("venue")
     ELSE LET target == TargetOf(heard)
          IN CASE target = "nothing" -> Ends("no target")
               [] target = "unreadable" ->
                    Ends(IF job.command = "check" THEN "unread" ELSE "no target")
               [] target = "an identifier" /\ ~RowNamesRepository(heard) -> Ends("unread")
               [] OTHER -> Goes(IF job.command = "check ready" THEN "root" ELSE "read")

ReadTheVenue ==
  Answered("venue") /\ IF NotAVenue(heard) THEN Ends("not a venue") ELSE Goes("row")

MakeTheRow ==
  /\ Answered("row")
  /\ IF ~Complete(heard) THEN Ends("incomplete")
     ELSE /\ row' = Row(heard) /\ runStage' = "read"
          /\ UNCHANGED <<job, silence, results, page, reply, version, todo, heard>>

\* readyContext: the root first, since a repository without a codecheck.yml
\* still has a README to look for.
ListTheRoot ==
  /\ Answered("root")
  /\ IF ~Said(heard, "root") THEN Ends("unread")
     ELSE IF "codecheck.yml" \in heard["root"] THEN Goes("read")
     ELSE /\ runStage' = "rules" /\ todo' = DOMAIN ReadyItems
          /\ UNCHANGED <<job, silence, results, page, reply, version, row, heard>>

\* A configuration that cannot be read ends a command, or leaves `register`
\* with nothing to judge: its later stages say so and propose nothing.
ReadTheConfiguration ==
  /\ Answered("read")
  /\ CASE Configured(heard) /\ job.command # "check ready" -> Goes("date")
       [] Configured(heard) /\ job.command = "check ready" ->
            /\ runStage' = "rules" /\ todo' = DOMAIN ReadyItems
            /\ UNCHANGED <<job, silence, results, page, reply, version, row, heard>>
       [] OTHER -> IF Registering THEN Goes("pull") ELSE Ends("unread")

Date == Answered("date") /\ Goes("version")

\* RunPart: a configuration of an unknown version is refused, not judged.
ChooseTheVersion ==
  /\ runStage = "version"
  /\ version' = SpecVersion(Config, heard)
  /\ LET part == IF Registering THEN "config" ELSE job.part
     IN CASE version' # "" ->
               /\ todo' = {i \in Catalogue(version') : InPart(Catalogue20[i], part)}
               /\ runStage' = "rules" /\ UNCHANGED reply
          [] version' = "" /\ Registering -> runStage' = "pull" /\ UNCHANGED <<todo, reply>>
          [] OTHER -> runStage' = "done" /\ reply' = "refused" /\ UNCHANGED todo
  /\ UNCHANGED <<job, heard, silence, results, row, page>>

\* Deviation: what could not be asked is asked again for the next rule.
ForgetsSilence(h) == [a \in Address |-> IF h[a] = Silent THEN Unasked ELSE h[a]]

\* What one rule heard is what the next one reads.
Remembered(h) == h

\* runRule: one rule, or one thing an author provides, in its turn.
Apply ==
  /\ runStage \in {"rules", "certificate"} /\ todo # {} /\ Answered(runStage)
  /\ LET r == NextRule
     IN results' = [x \in DOMAIN results \cup {r} |->
                      IF x = r THEN RunRule(r, heard) ELSE results[x]]
  /\ todo' = todo \ {Foremost(todo)}
  /\ heard' = Remembered(heard)
  /\ UNCHANGED <<job, runStage, silence, version, row, reply, page>>

\* placeholdersLeft: nothing but a pass of CC-CFG-023 finishes a check.
Finished == results["CC-CFG-023"] = "pass"

\* The rules are through.  `register` judges the row next, unless it is
\* another certificate's; `check finish` looks at the page of a finished check.
EndTheRules ==
  /\ runStage = "rules" /\ todo = {}
  /\ CASE Registering /\ job.same ->
            /\ runStage' = "certificate"
            /\ todo' = {i \in Catalogue(version) : InPart(Catalogue20[i], "certificate")}
            /\ UNCHANGED <<job, heard, silence, results, version, row, reply, page>>
       [] Registering /\ ~job.same -> Goes("pull")
       [] job.command = "check finish" /\ Finished -> Goes("page")
       [] OTHER -> Ends("answered")

EndTheRow == runStage = "certificate" /\ todo = {} /\ Goes("pull")

\* `check register` shows the row and proposes nothing.
Propose ==
  /\ runStage = "pull"
  /\ Ends(IF job.command = "check register" THEN "answered"
          ELSE IF Stopped THEN "no pull request" ELSE "pull request")

LookAtThePage ==
  /\ Answered("page")
  /\ page' \in PagesOf(heard) /\ runStage' = "done" /\ reply' = "answered"
  /\ UNCHANGED <<job, heard, silence, todo, version, results, row>>

Proceed ==
  \/ ReadTheRecord \/ ReadTheIssue \/ ResolveTarget \/ ReadTheVenue \/ MakeTheRow
  \/ ListTheRoot \/ ReadTheConfiguration \/ Date \/ ChooseTheVersion
  \/ Apply \/ EndTheRules \/ EndTheRow \/ Propose \/ LookAtThePage

RunNext == Proceed \/ \E a \in Address : Hear(a)

RunSpec == RunInit /\ [][RunNext]_runVars

-----------------------------------------------------------------------------
(***************************************************************************)
(* Properties.                                                             *)
(***************************************************************************)

\* The same configuration was read as would have been with every service up.
ReadWhereItIs == Branch(heard) = Branch(job.truth)

\* Rules that pass on what they could read, and the item that takes an issue
\* it could not read for one that links no paper.
OnPartOfIt ==
  {"CC-MET-003", "CC-REG-008"}
  \cup When(~Said(heard, "this issue") /\ job.command = "check ready", {"a paper to check"})

\* "Could not check" is never a verdict (run.go, services.go): whatever went
\* unanswered, a rule that passes or fails says what it would have said with
\* every service up.  The rules and the item named in OnPartOfIt are the ones
\* the code decides on partial information; the register's page is held to
\* the same, but where the page itself went unanswered: it may be called missing.
SilenceIsNoVerdict ==
  runStage = "done" /\ ReadWhereItIs =>
    /\ \A r \in DOMAIN results \ OnPartOfIt :
         results[r] # "skip" => results[r] = RunRule(r, job.truth)
    /\ \/ page \in {"none", "unknown", PageOf(job.truth)}
       \/ page = "missing" /\ heard["page"] = Silent

\* One report describes one world: rules that read the same answer agree
\* about it, even when the service behind it came back half-way through the
\* report (services.go's memo of requests; runRule).
OneReportOneWorld ==
  runStage = "done" => \A r \in DOMAIN results : results[r] = RunRule(r, heard)

\* register opens a pull request only for a row whose configuration was read
\* and judged, is the reserved certificate's, and breaks no rule that is an
\* error in the version chosen - unless that rule was skipped, for evidence of its
\* own that went unanswered (bot/register.go, check/run.go).
NothingIsProposedUnjudged ==
  reply = "pull request" =>
    /\ Configured(heard) /\ version # "" /\ job.same
    /\ \A i \in Catalogue(version) :
         LET r == Catalogue20[i]
         IN /\ Area(r) \in {"config", "register"} /\ Severity(r, version) = "error"
            => /\ r \in DOMAIN results
               /\ RunRule(r, job.truth) = "fail" =>
                    results[r] = "skip" /\ \E a \in RuleAsks(r, heard) : heard[a] = Silent
=============================================================================
