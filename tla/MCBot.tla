-------------------------------- MODULE MCBot --------------------------------
(***************************************************************************)
(* The bot around the record, for TLC: webhook deliveries over the teams'  *)
(* cache, team membership, announcements, collections, the links of a      *)
(* check and the rules.  These components share no state but the code, so  *)
(* each behaviour plays one scene, in which one of them acts: the states   *)
(* of a run are the sum of the components' and not the product.            *)
(***************************************************************************)
EXTENDS Dispatch, Links, Announce, Membership, Collections, CheckRun

CONSTANTS
  Scenes,            \* the scenes to play
  d1, d2, p, q,
  l1, l2, l3, l4, z1, host, doi, hidden,
  a1, a2, a3

MCTeam == StandingRoles
MCAsker == Delivery \cup {Startup}

-----------------------------------------------------------------------------
(* Deliveries. *)

Hello == [signed |-> TRUE, type |-> "created", repository |-> "register", author |-> p,
          issue |-> 2, registration |-> FALSE, name |-> "hello", meant |-> "none", bare |-> FALSE]

\* Everything a delivery may be refused or ignored for, and the lists.
OddEvents ==
  {[Hello EXCEPT !.signed = FALSE], [Hello EXCEPT !.type = "edited"],
   [Hello EXCEPT !.repository = "elsewhere"], [Hello EXCEPT !.author = Bot],
   [Hello EXCEPT !.issue = 0], [Hello EXCEPT !.name = "none"],
   [Hello EXCEPT !.repository = "lists"],
   [Hello EXCEPT !.repository = "lists", !.type = "opened", !.registration = TRUE, !.name = "none"],
   [Hello EXCEPT !.repository = "lists", !.type = "opened", !.name = "none"],
   [Hello EXCEPT !.issue = AdminIssue]}

\* Every command, by the codechecker of the check and by somebody else, and
\* what a first word may begin.
OrdinaryEvents ==
  {[Hello EXCEPT !.name = c, !.author = who] :
     c \in {"teams refresh", "announce", "check start", "unknown"}, who \in {p, q}}
  \cup {[Hello EXCEPT !.name = "check", !.author = who, !.meant = m] :
          m \in {"check start", "check finish", "announce", "status"}, who \in {p, q}}
  \cup {[Hello EXCEPT !.name = c, !.author = who, !.bare = TRUE] :
          c \in {"check", "certificate"}, who \in {p, q}}

\* One delivery of every kind; and a command while the teams are loaded and
\* p leaves one of them.
Scripts(scene) ==
  CASE scene = "commands" ->
         {[d \in Delivery |-> e] : e \in OddEvents \cup OrdinaryEvents}
    [] scene = "teams" -> {[d \in Delivery |-> Hello]}
    [] OTHER -> {[d \in Delivery |-> NoEvent]}

Memberships(scene) ==
  {[t \in Team |-> IF t = "editor" THEN {q} ELSE {p}]}
  \cup IF scene = "commands" THEN {[t \in Team |-> IF t = "editor" THEN {p, q} ELSE {}],
                                   [t \in Team |-> {}]} ELSE {}

-----------------------------------------------------------------------------
(* Links: two of one site, one the DOI system answers for, and one of a    *)
(* site that is not asked, which only a deposit mentions.                  *)

MCLink == {l1, l2, l3, l4}
MCHostOf == [l \in Link |-> IF l = l3 THEN doi ELSE IF l = l4 THEN hidden ELSE host]
MCLinksIn == [s \in Source |->
  CASE s = "issue" -> {l1} [] s = "configuration" -> {l1, l2} [] s = "certificate" -> {l3}
    [] OTHER -> {l4}]
MCMentions == [s \in Place |-> IF s = "certificate" THEN {z1} ELSE {}]

AllWell == [source |-> [s \in Source |-> "read"], online |-> TRUE,
            head |-> [l \in Link |-> "ok"], get |-> [l \in Link |-> "ok"]]

MCWorlds ==
  {[AllWell EXCEPT !.head[l1] = x, !.get[l1] = y] :
     x \in Answers \ {"odd"}, y \in {"ok", "gone", "5xx", "timeout"}}
  \cup {[AllWell EXCEPT !.get[l3] = y] : y \in Answers}
  \cup {[AllWell EXCEPT !.source[s] = x] : s \in {"issue", "certificate", z1},
                                           x \in {"absent", "unreadable"}}
  \cup {[AllWell EXCEPT !.source["configuration"] = "absent"],
        [AllWell EXCEPT !.online = FALSE]}

-----------------------------------------------------------------------------
(* Collections. *)

MCFollower == {d1, d2}
MCAccount == {a1, a2, a3}
MCTitles == <<"codecheckers", "authors">>
MCNamed == [d \in Follower |-> [t \in {"codecheckers", "authors"} |->
           IF d = d1 THEN IF t = "authors" THEN Account ELSE {a1}
           ELSE IF t = "authors" THEN {a3} ELSE {}]]

-----------------------------------------------------------------------------
(* The rules: one configuration and one world in which every rule passes   *)
(* or has nothing to say, and each of them with one thing changed.         *)

Somebody == [here |-> TRUE, name |-> TRUE, orcid |-> "sound"]

Good == [text |-> "yaml", marker |-> TRUE, named |-> TRUE, version |-> "2.0",
         checkTime |-> "recent", hasManifest |-> TRUE,
         items |-> <<[file |-> "inside", comment |-> TRUE], [file |-> "inside", comment |-> TRUE]>>,
         codechecker |-> Somebody, author |-> Somebody, report |-> "Zenodo link", paper |-> TRUE,
         title |-> TRUE, reference |-> "DOI link", other |-> "links", summary |-> TRUE,
         certificate |-> "sound", todo |-> FALSE, repository |-> TRUE]

SomeRow == [same |-> TRUE, repository |-> "sound", type |-> "a type", venue |-> "listed",
            issue |-> TRUE]

Content == [a \in {"codecheck.yml", "codecheck.yml on master", "last change", "root", "inside",
                 "file 1", "file 2", "file 1 on master", "file 2 on master", "stated licence",
                 "report", "paper", "other 1", "other 2", "repository", "ORCID of the author",
                 "ORCID of the codechecker", "work", "deposit", "register", "venues", "issue",
                 "record of the check", "this issue", "paper of the issue", "index.json", "page"} |->
  CASE a \in {"codecheck.yml", "file 1", "file 2", "file 1 on master", "file 2 on master"} -> "there"
    [] a = "codecheck.yml on master" -> "missing"
    [] a = "last change" -> "old"
    [] a = "root" -> {"codecheck/", "README", "LICENSE", "codecheck.yml"}
    [] a = "inside" -> "a PDF"
    [] a = "stated licence" -> "stated"
    [] a \in {"ORCID of the author", "ORCID of the codechecker"} -> "same name"
    [] a = "work" -> [title |-> "same", authors |-> "same", orcids |-> "same"]
    [] a = "deposit" -> [draft |-> FALSE, concept |-> FALSE, newest |-> "yes",
                         pdf |-> "codecheck.pdf", sources |-> {"codecheck.Rmd"}, titled |-> TRUE,
                         creator |-> "same", orcid |-> "same"]
    [] a = "register" -> [times |-> 1, row |-> SomeRow, close |-> TRUE]
    [] a = "venues" -> "some"
    [] a = "issue" -> [there |-> TRUE, titled |-> TRUE, typed |-> TRUE, venued |-> TRUE]
    [] a = "record of the check" ->
         [certificate |-> "this", repository |-> TRUE, type |-> TRUE, venue |-> "listed",
          tampered |-> FALSE]
    [] a = "this issue" -> [paper |-> TRUE, repository |-> TRUE, typed |-> "one", venued |-> "one"]
    [] a = "index.json" -> "same"
    [] a = "page" -> "there"
    [] OTHER -> "ok"]

Given == [repository |-> FALSE, type |-> FALSE, venue |-> "none"]

Job == [command |-> "check", config |-> Good, bundle |-> "github", truth |-> Content,
        names |-> "a repository", part |-> "all", given |-> Given, same |-> TRUE]

\* A part of the catalogue, and the worlds that matter to it.
Checks ==
  {Job}
  \cup {[Job EXCEPT !.part = "metadata", !.truth = w] :
          w \in {[Content EXCEPT !["work"].title = "another"], [Content EXCEPT !["work"].authors = "one more"],
                 [Content EXCEPT !["work"].orcids = "others"], [Content EXCEPT !["paper"] = "missing"],
                 [Content EXCEPT !["other 1"] = "missing"], [Content EXCEPT !["other 2"] = "blocked"],
                 [Content EXCEPT !["ORCID of the author"] = "none"],
                 [Content EXCEPT !["ORCID of the codechecker"] = "another name"]}}
  \cup {[Job EXCEPT !.part = "bundle", !.bundle = b, !.truth = w] :
          b \in {"github", "gitlab", "archive"},
          w \in {Content, [Content EXCEPT !["root"] = {"codecheck.yml"}],
                 [Content EXCEPT !["inside"] = "other"],
                 [Content EXCEPT !["file 1"] = "missing"], [Content EXCEPT !["file 2"] = "missing"],
                 [Content EXCEPT !["stated licence"] = "none"],
                 [Content EXCEPT !["repository"] = "missing"]}}
  \cup {[Job EXCEPT !.part = "bundle", !.bundle = "gitlab",
                    !.truth["codecheck.yml"] = "missing", !.truth["codecheck.yml on master"] = there] :
          there \in {"there", "missing"}}
  \cup {[Job EXCEPT !.part = "report", !.truth["deposit"] = r] :
          r \in {[Content["deposit"] EXCEPT !.concept = TRUE, !.newest = "unsaid", !.pdf = "none"],
                 [Content["deposit"] EXCEPT !.draft = TRUE, !.pdf = "another", !.sources = {}],
                 [Content["deposit"] EXCEPT !.newest = "no", !.creator = "others", !.orcid = "others"],
                 [Content["deposit"] EXCEPT !.titled = FALSE, !.creator = "none", !.orcid = "none",
                                          !.sources = {"codecheck.Rmd", "codecheck.ipynb"}]}}
  \cup {[Job EXCEPT !.part = "certificate", !.names = "an identifier", !.truth = w] :
          w \in {Content, [Content EXCEPT !["register"].times = 0], [Content EXCEPT !["register"].times = 2],
                 [Content EXCEPT !["register"].row.repository = "malformed"],
                 [Content EXCEPT !["register"].row.repository = "no platform"],
                 [Content EXCEPT !["register"].row.venue = "unlisted"],
                 [Content EXCEPT !["register"].row.issue = FALSE],
                 [Content EXCEPT !["register"].close = FALSE],
                 [Content EXCEPT !["venues"] = "none"],
                 [Content EXCEPT !["issue"].there = FALSE], [Content EXCEPT !["issue"].titled = FALSE],
                 [Content EXCEPT !["issue"].typed = FALSE], [Content EXCEPT !["issue"].venued = FALSE]}}
  \cup {[Job EXCEPT !.names = n] : n \in {"nothing", "unreadable"}}

\* Configurations with something wrong, judged by the rules of the file.
Configurations ==
  {[Good EXCEPT !.text = t] : t \in {"empty", "another shape", "not YAML", "not UTF-8"}}
  \cup {[Good EXCEPT !.version = v, !.checkTime = t] :
          v \in {"absent", "empty", "1.0", "historical 1.0", "unknown"}, t \in {"none", "old"}}
  \cup {[Good EXCEPT !.reference = r] : r \in {"none", "FIXME", "text", "bare DOI", "PDF", "archived PDF"}}
  \cup {[Good EXCEPT !.report = r] : r \in {"none", "FIXME", "example", "text", "bare Zenodo DOI"}}
  \cup {[Good EXCEPT !.items = <<>>], [Good EXCEPT !.items[1].file = "outside"],
        [Good EXCEPT !.items = <<[file |-> "none", comment |-> TRUE]>>],
        [Good EXCEPT !.hasManifest = FALSE, !.items = <<>>],
        [Good EXCEPT !.author.orcid = "placeholder"], [Good EXCEPT !.author.orcid = "malformed"],
        [Good EXCEPT !.codechecker.here = FALSE], [Good EXCEPT !.other = "scalar"],
        [Good EXCEPT !.todo = TRUE], [Good EXCEPT !.marker = FALSE]}

\* Each is judged by `check`, asked about by `check ready`, and proposed.
Configs ==
  {[Job EXCEPT !.command = x, !.config = c, !.part = "config", !.truth["register"].times = 0,
               !.names = IF x = "register" THEN "nothing" ELSE "a repository"] :
     x \in {"check", "check ready", "register"}, c \in Configurations}

Ready ==
  {[Job EXCEPT !.command = "check ready", !.names = "nothing", !.truth = w, !.config.reference = r] :
     r \in {"text", "FIXME", "DOI link"},
     w \in {Content, [Content EXCEPT !["this issue"].paper = FALSE],
            [Content EXCEPT !["record of the check"].repository = FALSE],
            [Content EXCEPT !["root"] = {"README"}], [Content EXCEPT !["codecheck.yml"] = "missing"],
            [Content EXCEPT !["paper of the issue"] = "missing"]}}
  \cup {[Job EXCEPT !.command = "check ready", !.names = "unreadable"]}

Finish ==
  {[Job EXCEPT !.command = "check finish", !.names = n] : n \in {"nothing", "unreadable"}}
  \cup {[Job EXCEPT !.command = "check finish", !.names = "nothing", !.truth = w, !.part = "config"] :
          w \in {[Content EXCEPT !["register"].times = 0], [Content EXCEPT !["index.json"] = "missing"],
                 [Content EXCEPT !["index.json"] = "missing", !["page"] = "missing"],
                 [Content EXCEPT !["index.json"] = "differs"],
                 [Content EXCEPT !["record of the check"].certificate = "another"],
                 [Content EXCEPT !["record of the check"].certificate = "none",
                               !["record of the check"].repository = FALSE],
                 [Content EXCEPT !["record of the check"].repository = FALSE],
                 [Content EXCEPT !["record of the check"].tampered = TRUE]}}

NewRow == [Content EXCEPT !["register"].times = 0]

Registrations ==
  {[Job EXCEPT !.command = x, !.names = "nothing", !.truth = NewRow, !.given = g] :
     x \in {"check register", "register"},
     g \in {Given, [Given EXCEPT !.venue = "listed"], [Given EXCEPT !.venue = "unlisted"]}}
  \cup {[Job EXCEPT !.command = "register", !.names = "nothing", !.truth = w] :
          w \in {Content, [NewRow EXCEPT !["register"].close = FALSE],
                 [NewRow EXCEPT !["codecheck.yml"] = "missing"],
                 [NewRow EXCEPT !["issue"].there = FALSE],
                 [NewRow EXCEPT !["record of the check"].certificate = "none"],
                 [NewRow EXCEPT !["record of the check"].venue = "none"],
                 [NewRow EXCEPT !["record of the check"].venue = "none", !["this issue"].venued = "two"]}}
  \cup {[Job EXCEPT !.command = "register", !.names = "nothing", !.truth = NewRow, !.same = FALSE]}

MCJobs == Checks \cup Configs \cup Ready \cup Finish \cup Registrations

-----------------------------------------------------------------------------
VARIABLES
  scene

ASSUME MCBotAssumption ==
  \A s \in Scenes : \A events \in Scripts(s) : \A d \in Delivery :
    events[d] # NoEvent => events[d] \in Event /\ Readable(events[d])

TypeOK ==
  /\ DispatchTypeOK
  /\ LinksTypeOK /\ AnnounceTypeOK /\ CollectionsTypeOK
  /\ MembershipTypeOK /\ RunTypeOK

dispatching == <<teamVars, dispatchVars>>
others == <<scene, linkVars, annVars, folVars, memVars, runVars>>
vars == <<scene, dispatching, linkVars, annVars, folVars, memVars, runVars>>

Init ==
  /\ scene \in Scenes
  /\ DispatchInit /\ script \in Scripts(scene) /\ member \in Memberships(scene)
  /\ LinksInit /\ (scene # "links" => world = AllWell)
  /\ AnnounceInit /\ CollectionsInit
  /\ MembershipInit
  /\ scene # "membership" => inside /\ ~owner /\ ~labelled /\ \A t \in DOMAIN place : place[t] = "none"
  /\ RunInit /\ (scene # "rules" => job = Job)

Deliveries ==
  /\ scene \in {"teams", "commands"}
  /\ \/ \E d \in Delivery : Deliver(d) \/ Step(d)
     \/ \E a \in Asker : TeamStep(a) \/ TeamUnread(a)
     \/ scene = "commands" /\ (Restart \/ \E d \in Delivery : Fault(d))
     \/ scene = "teams" /\ (Load \/ Loaded)
     \/ /\ scene = "teams" /\ Environment /\ act[d1].at \in {"none", "roles"}
        /\ member' \in {member, [member EXCEPT !["codechecker"] = {}]}
  /\ UNCHANGED others

CheckingLinks ==
  /\ scene = "links"
  /\ LinksNext
  /\ UNCHANGED <<scene, dispatching, annVars, folVars, memVars, runVars>>

Announcing ==
  /\ scene = "announce"
  /\ AnnounceNext
  /\ UNCHANGED <<scene, dispatching, linkVars, folVars, memVars, runVars>>

Curating ==
  /\ scene = "collections"
  /\ CollectionsNext
  /\ UNCHANGED <<scene, dispatching, linkVars, annVars, memVars, runVars>>

Assigning ==
  /\ scene = "membership"
  /\ MembershipNext
  /\ UNCHANGED <<scene, dispatching, linkVars, annVars, folVars, runVars>>

Judging ==
  /\ scene = "rules"
  /\ RunNext
  /\ UNCHANGED <<scene, dispatching, linkVars, annVars, folVars, memVars>>

Next == Deliveries \/ CheckingLinks \/ Announcing \/ Curating \/ Assigning \/ Judging

\* The scheduler runs every goroutine there is.
Fairness ==
  /\ \A d \in Delivery : WF_vars(Step(d) /\ UNCHANGED others)
  /\ \A a \in Asker : WF_vars(TeamStep(a) /\ UNCHANGED others)
  /\ WF_vars(Loaded /\ UNCHANGED others)
  /\ WF_vars(LinksWork /\ UNCHANGED <<scene, dispatching, annVars, folVars, memVars, runVars>>)

Spec == Init /\ [][Next]_vars /\ Fairness

-----------------------------------------------------------------------------
(* The components' properties. *)

\* Whatever was begun comes to its end: a delivery is dropped, answered or
\* lost to a fault, and the command that asks the links waits for all of them
\* and for none of them for ever (bot.go, links.go).
EverythingEnds == EveryDeliveryEnds /\ EveryRunEnds
=============================================================================
