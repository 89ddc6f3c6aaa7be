------------------------------- MODULE Links -------------------------------
(***************************************************************************)
(* `check links` (internal/check/links.go, internal/bot/links.go): the     *)
(* links in what a codechecker is about to publish are collected, and each *)
(* is asked whether it is still there, a few at a time and fewer of any    *)
(* one site.  A run that ends before a link was asked says so; only "not   *)
(* there" is a dead link.                                                  *)
(*                                                                         *)
(* A link is a model value and a place's text the links and deposits it    *)
(* mentions: how a URL is found in prose is not modelled, nor are the      *)
(* words of the answer.                                                    *)
(***************************************************************************)
EXTENDS Naturals, FiniteSets

CONSTANTS
  Link,           \* the different links around the check
  HostOf,         \* the site of each
  IsDOI,          \* the links the DOI system is asked about
  SkipHosts,      \* the sites the settings say not to ask
  Deposit,        \* deposits whose metadata may be mentioned
  LinksIn,        \* the links in the text of each place
  Mentions,       \* the deposits mentioned in each
  LinksInFlight,  \* how many links are asked at once
  LinksPerHost,   \* and how many of one site
  WorthANotice,   \* more links than this, and the reply says it has begun
  Worlds          \* what the places and the sites may answer

Place == {"issue", "configuration", "certificate"}
Source == Place \cup Deposit

\* What a site answers to one request: a status, by what it means here, or
\* why there was none.  "gone" is 404 and 410; "odd" is an answer of the DOI
\* system that says neither found nor not found.
Answers == {"ok", "gone", "405", "401", "403", "429", "4xx", "5xx", "odd",
            "no host", "timeout", "no connection"}
NoAnswer == {"no host", "timeout", "no connection"}

\* A world: which sources are there and can be read, whether the services are
\* enabled, and what each link answers to a HEAD and to a GET.
World == [source : [Source -> {"absent", "unreadable", "read"}], online : BOOLEAN,
          head : [Link -> Answers], get : [Link -> Answers]]

\* What the constants are.
ASSUME LinksAssumption ==
  /\ LinksInFlight \in Nat \ {0} /\ LinksPerHost \in Nat \ {0} /\ WorthANotice \in Nat
  /\ IsDOI \subseteq Link /\ Deposit \cap Place = {}
  /\ LinksIn \in [Source -> SUBSET Link] /\ Mentions \in [Place -> SUBSET Deposit]
  /\ Worlds \subseteq World

VARIABLES
  world,      \* what the sources hold and the sites answer
  stage,      \* where the command stands
  found,      \* the links collected
  read,       \* the sources they were collected from
  unread,     \* the sources that could not be read
  toRead,     \* the deposits still to be read
  notice,     \* whether the notice of a long run was posted
  worker,     \* the goroutine of each link
  verdict,    \* what each link came to
  timeIsUp    \* the run's deadline has passed

linkVars == <<world, stage, found, read, unread, toRead, notice, worker, verdict, timeIsUp>>

Outcomes == {"answers", "gone", "could not say", "skipped host", "out of time", "offline"}
Unchecked == {"skipped host", "out of time", "offline"}

LinksTypeOK ==
  /\ world \in World
  /\ stage \in {"idle", "collecting", "collected", "probing", "told"}
  /\ found \subseteq Link
  /\ read \subseteq Source /\ unread \subseteq Source \ read
  /\ toRead \subseteq Deposit
  /\ notice \in {"none", "posted"}
  /\ worker \in [Link -> {"none", "queued", "has site", "head", "get", "done"}]
  /\ verdict \in [Link -> Outcomes \cup {"none"}]
  /\ timeIsUp \in BOOLEAN

LinksInit ==
  /\ world \in Worlds
  /\ stage = "idle"
  /\ found = {} /\ read = {} /\ unread = {} /\ toRead = {}
  /\ notice = "none"
  /\ worker = [l \in Link |-> "none"]
  /\ verdict = [l \in Link |-> "none"]
  /\ timeIsUp = FALSE

(* Collecting. *)

\* The issue, the configuration and the certificate's source, as the command
\* has them; a place that is meant to be there and cannot be read is named.
\* A certificate that is not there is a place not read as well, and an issue
\* there is none of is not.
Collect ==
  LET has == {p \in Place : world.source[p] = "read"} IN
  /\ stage = "idle"
  /\ stage' = "collecting"
  /\ found' = UNION {LinksIn[p] : p \in has}
  /\ read' = has
  /\ unread' = {p \in Place : \/ world.source[p] = "unreadable"
                              \/ p = "certificate" /\ p \notin has}
  /\ toRead' = UNION {Mentions[p] : p \in has}
  /\ UNCHANGED <<world, notice, worker, verdict, timeIsUp>>

\* A deposit's own mentions are not followed: the list was made before.
ReadDeposit(d) ==
  /\ stage = "collecting"
  /\ d \in toRead
  /\ toRead' = toRead \ {d}
  /\ IF world.online /\ world.source[d] = "read"
     THEN found' = found \cup LinksIn[d] /\ read' = read \cup {d} /\ UNCHANGED unread
     ELSE unread' = unread \cup {d} /\ UNCHANGED <<found, read>>
  /\ UNCHANGED <<world, stage, notice, worker, verdict, timeIsUp>>

\* Everything is collected; a long run says that it has begun.  A notice that
\* cannot be posted is given up.
Notice ==
  /\ stage = "collecting"
  /\ toRead = {}
  /\ stage' = "collected"
  /\ \/ Cardinality(found) > WorthANotice /\ notice' = "posted"
     \/ UNCHANGED notice
  /\ UNCHANGED <<world, found, read, unread, toRead, worker, verdict, timeIsUp>>

(* Asking. *)

Skipped(l) == HostOf[l] \in SkipHosts

Probe ==
  /\ stage = "collected"
  /\ stage' = "probing"
  /\ verdict' = [l \in Link |->
       CASE l \notin found   -> "none"
         [] l \in found /\ Skipped(l) -> "skipped host"
         [] l \in found /\ ~ Skipped(l) /\ ~ world.online -> "offline"
         [] OTHER            -> "none"]
  /\ worker' = [l \in Link |-> IF l \notin found THEN "none"
                               ELSE IF Skipped(l) \/ ~ world.online THEN "done" ELSE "queued"]
  /\ UNCHANGED <<world, found, read, unread, toRead, notice, timeIsUp>>

\* Who holds a place of a site, and one of those of the run.
HoldsSite(l) == worker[l] \in {"has site", "head", "get"}
HoldsPlace(l) == worker[l] \in {"head", "get"}
Asking(l) == worker[l] \in {"head", "get"}

SiteFree(l) ==
  Cardinality({k \in Link : HostOf[k] = HostOf[l] /\ HoldsSite(k)}) < LinksPerHost
PlaceFree == Cardinality({k \in Link : HoldsPlace(k)}) < LinksInFlight

Stop(l, outcome) ==
  /\ worker' = [worker EXCEPT ![l] = "done"]
  /\ verdict' = [verdict EXCEPT ![l] = outcome]

\* The site's place first: waiting for a busy site must hold nobody else up.
TakeSite(l) ==
  /\ worker[l] = "queued"
  /\ SiteFree(l)
  /\ worker' = [worker EXCEPT ![l] = "has site"]
  /\ UNCHANGED <<world, stage, found, read, unread, toRead, notice, verdict, timeIsUp>>

TakePlace(l) ==
  /\ worker[l] = "has site"
  /\ PlaceFree
  /\ worker' = [worker EXCEPT ![l] = IF l \in IsDOI THEN "get" ELSE "head"]
  /\ UNCHANGED <<world, stage, found, read, unread, toRead, notice, verdict, timeIsUp>>

\* The deadline passed while this link waited for either place.
GiveUpWaiting(l) ==
  /\ timeIsUp
  /\ worker[l] \in {"queued", "has site"}
  /\ Stop(l, "out of time")
  /\ UNCHANGED <<world, stage, found, read, unread, toRead, notice, timeIsUp>>

\* Only "not there" is a dead link.
LinkOutcome(answer) ==
  CASE answer \in {"gone", "no host"} -> "gone"
    [] answer = "ok"                  -> "answers"
    [] OTHER                          -> "could not say"

\* Deviation: a HEAD that says the page is gone is believed.
AskAgainUnlessGone == {"405", "403", "no connection"}

\* Answers to a HEAD that a GET may better.
AskAgain == {"405", "403", "gone", "no connection"}

\* An error after the deadline is the run's end and not the link's answer.
Heard(l, answer) ==
  Stop(l, IF answer \in NoAnswer /\ timeIsUp THEN "out of time" ELSE LinkOutcome(answer))

HearHead(l) ==
  /\ worker[l] = "head"
  /\ IF world.head[l] \in AskAgain
     THEN worker' = [worker EXCEPT ![l] = "get"] /\ UNCHANGED verdict
     ELSE Heard(l, world.head[l])
  /\ UNCHANGED <<world, stage, found, read, unread, toRead, notice, timeIsUp>>

HearGet(l) ==
  /\ worker[l] = "get"
  /\ Heard(l, world.get[l])
  /\ UNCHANGED <<world, stage, found, read, unread, toRead, notice, timeIsUp>>

\* The request in flight is cut off with the run.
CutOff(l) ==
  /\ timeIsUp
  /\ Asking(l)
  /\ Heard(l, "timeout")
  /\ UNCHANGED <<world, stage, found, read, unread, toRead, notice, timeIsUp>>

TimeIsUp ==
  /\ stage = "probing"
  /\ ~ timeIsUp
  /\ timeIsUp' = TRUE
  /\ UNCHANGED <<world, stage, found, read, unread, toRead, notice, worker, verdict>>

\* The report: what each link found came to, and what could not be read.
Count(outcomes) == {l \in found : verdict[l] \in outcomes}
Attention == Count({"gone", "could not say"})
EveryLinkAnswers == Attention = {} /\ found \ Count(Unchecked) # {}

\* The command waits for every goroutine it started.
Report ==
  /\ stage = "probing"
  /\ \A l \in Link : worker[l] \in {"none", "done"}
  /\ stage' = "told"
  /\ UNCHANGED <<world, found, read, unread, toRead, notice, worker, verdict, timeIsUp>>

LinkStep(l) ==
  TakeSite(l) \/ TakePlace(l) \/ GiveUpWaiting(l) \/ HearHead(l) \/ HearGet(l) \/ CutOff(l)

LinksWork ==
  \/ \E d \in Deposit : ReadDeposit(d)
  \/ Notice \/ Probe \/ Report
  \/ \E l \in Link : LinkStep(l)

LinksNext == Collect \/ TimeIsUp \/ LinksWork

LinksSpec == LinksInit /\ [][LinksNext]_linkVars

\* A link is called dead, alive or unclear only by what its site says: a page
\* a HEAD calls gone is dead only if a GET agrees, a request this run cut off
\* itself says nothing about the site, and a link nobody asked about is never
\* counted as one that answers - however the deadline, the places of a site
\* and the places of the run were shared out (probe, outcome in links.go).
VerdictIsTheSites ==
  stage = "told" => \A l \in found :
    LET final == LinkOutcome(world.get[l])
        first == IF l \in IsDOI \/ world.head[l] = "gone" THEN final
                 ELSE LinkOutcome(world.head[l])
    IN CASE verdict[l] \in {"answers", "gone", "could not say"} ->
              verdict[l] \in {first, final} /\ world.online /\ ~ Skipped(l)
         [] verdict[l] = "out of time" -> timeIsUp
         [] verdict[l] = "offline" -> ~ world.online
         [] verdict[l] = "skipped host" -> Skipped(l)
         [] OTHER -> FALSE

\* A run ends, whether or not its deadline passes: no goroutine waits for ever
\* for a place of a site while it, or another, holds one of the run (acquire).
EveryRunEnds == stage = "collecting" ~> stage = "told"
=============================================================================
