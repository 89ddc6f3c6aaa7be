------------------------------ MODULE Announce ------------------------------
(***************************************************************************)
(* `announce <certificate> confirm` (internal/bot/bot.go, internal/        *)
(* announce, internal/mastodon): the published certificate, what the       *)
(* instance allows and what the account posted lately are read side by     *)
(* side; a certificate found among those is not announced again; else the  *)
(* pages are uploaded as an animation and the toot is posted, under a key  *)
(* made of the certificate and the text, which the instance answers with   *)
(* the first toot when it sees it again.                                   *)
(*                                                                         *)
(* The account is searched forty toots back and no further, and the key is *)
(* kept for an hour: a toot goes out of sight when others push it out or   *)
(* when somebody deletes it, and its key is forgotten.                     *)
(*                                                                         *)
(* One certificate.  Its text is an edition: what is published, and who is *)
(* mentioned, may change between two commands.                             *)
(***************************************************************************)
EXTENDS Naturals, Sequences

CONSTANTS
  Announcer,   \* the goroutines answering an announce
  Editions,    \* how many texts are published, one after another
  MaxAmiss     \* bound on requests that fail

\* What the constants are.
ASSUME AnnounceAssumption == Editions \in Nat \ {0} /\ MaxAmiss \in Nat

VARIABLES
  edition,  \* what is published now
  toots,    \* the toots about the certificate, in the order they were posted
  ann,      \* where each command stands
  amiss     \* how many requests have failed

annVars == <<edition, toots, ann, amiss>>

Stage == {"idle", "reading", "composed", "animated", "uploaded", "posting again", "told"}

\* text and seen are what the command read: the edition, 0 before it has, and
\* whether it found a toot about the certificate.
Command == [at : Stage, text : 0..Editions,
            seen : {"unread", "none", "a toot"}, confirm : BOOLEAN,
            reply : {"none", "preview", "already", "not done", "posted"}]

Quiet == [at |-> "idle", text |-> 0, seen |-> "unread", confirm |-> FALSE, reply |-> "none"]

\* Who posted it, the text, whether the instance keeps its key, and whether it is
\* among the toots that are searched; and, as history, the commands that had looked
\* before it was posted, and those that looked while it was out of sight.
Toot == [by : Announcer, text : 1..Editions, kept : BOOLEAN, shown : BOOLEAN,
         early : SUBSET Announcer, missed : SUBSET Announcer]

AnnounceTypeOK ==
  /\ edition \in 1..Editions
  /\ toots \in Seq(Toot)
  /\ ann \in [Announcer -> Command]
  /\ amiss \in 0..MaxAmiss

AnnounceInit ==
  /\ edition = 1
  /\ toots = << >>
  /\ ann = [d \in Announcer |-> Quiet]
  /\ amiss = 0

\* The certificate, or an account of somebody it names, is corrected.
Publish ==
  /\ edition < Editions
  /\ edition' = edition + 1
  /\ UNCHANGED <<toots, ann, amiss>>

\* Newer toots push one out of the forty, or it is deleted; and it may come back
\* when newer ones are.
OutOfSight ==
  /\ \E i \in DOMAIN toots : toots' = [toots EXCEPT ![i].shown = ~ @]
  /\ UNCHANGED <<edition, ann, amiss>>

\* An hour after a toot, every command that was running when it was posted has
\* been over for long: a command has five minutes.
KeyExpires ==
  /\ \E i \in DOMAIN toots :
       /\ toots[i].kept /\ \A d \in toots[i].early : ann[d].at = "told"
       /\ toots' = [toots EXCEPT ![i].kept = FALSE]
  /\ UNCHANGED <<edition, ann, amiss>>

BeginAnnounce(d) ==
  /\ ann[d].at = "idle"
  /\ \E confirm \in BOOLEAN :
       ann' = [ann EXCEPT ![d] = [Quiet EXCEPT !.at = "reading", !.confirm = confirm]]
  /\ UNCHANGED <<edition, toots, amiss>>

Tell(d, reply) == ann' = [ann EXCEPT ![d] = [@ EXCEPT !.at = "told", !.reply = reply]]

\* index.json next to the landing page, and the accounts of who it names.
LoadCertificate(d) ==
  /\ ann[d].at = "reading" /\ ann[d].text = 0
  /\ ann' = [ann EXCEPT ![d].text = edition]
  /\ UNCHANGED <<edition, toots, amiss>>

TootFound == \E i \in DOMAIN toots : toots[i].shown

\* The account's recent toots, read by a goroutine of its own once the token
\* has been seen to be the account's.
RecentStatuses(d) ==
  /\ ann[d].at = "reading" /\ ann[d].seen = "unread"
  /\ ann' = [ann EXCEPT ![d].seen = IF TootFound THEN "a toot" ELSE "none"]
  /\ toots' = [i \in DOMAIN toots |->
                 IF toots[i].shown THEN toots[i] ELSE [toots[i] EXCEPT !.missed = @ \cup {d}]]
  /\ UNCHANGED <<edition, amiss>>

\* A certificate not published, a service that does not answer, a token of
\* another account, a goroutine that panicked: nothing is posted.
ReadFails(d) ==
  /\ ann[d].at = "reading"
  /\ amiss < MaxAmiss /\ amiss' = amiss + 1
  /\ Tell(d, "not done")
  /\ UNCHANGED <<edition, toots>>

ReadAll(d) == ann[d].at = "reading" /\ ann[d].text # 0 /\ ann[d].seen # "unread"

\* A text within the instance's limits, unless what must be in it does not fit.
Compose(d) ==
  /\ ReadAll(d)
  /\ \/ ann' = [ann EXCEPT ![d].at = "composed"] /\ UNCHANGED amiss
     \/ /\ amiss < MaxAmiss /\ amiss' = amiss + 1
        /\ Tell(d, "not done")
  /\ UNCHANGED <<edition, toots>>

\* Announced already, and there is nothing more to build.
Announced(d) ==
  /\ ann[d].at = "composed" /\ ann[d].seen = "a toot"
  /\ Tell(d, "already")
  /\ UNCHANGED <<edition, toots, amiss>>

\* The pages are fetched and animated, which may fail.
GIF(d) ==
  /\ ann[d].at = "composed" /\ ann[d].seen = "none"
  /\ \/ ann[d].confirm /\ ann' = [ann EXCEPT ![d].at = "animated"]
     \/ Tell(d, "preview")
  /\ UNCHANGED <<edition, toots, amiss>>

\* The attachment is uploaded and processed before a status may name it.
UploadMedia(d) ==
  /\ ann[d].at = "animated"
  /\ ann' = [ann EXCEPT ![d].at = "uploaded"]
  /\ UNCHANGED <<edition, toots, amiss>>

UploadFails(d) ==
  /\ ann[d].at = "animated"
  /\ amiss < MaxAmiss /\ amiss' = amiss + 1
  /\ Tell(d, "not done")
  /\ UNCHANGED <<edition, toots>>

NewToot(d) ==
  [by |-> d, text |-> ann[d].text, kept |-> TRUE, shown |-> TRUE,
   early |-> {e \in Announcer : ann[e].seen # "unread"}, missed |-> {}]

\* Deviation: a key for every command.
AcceptedEach(d) == Append(toots, NewToot(d))

\* What the instance does with a status: a key it still has is answered with the
\* toot posted under it.
Accepted(d) ==
  IF \E i \in DOMAIN toots : toots[i].kept /\ toots[i].text = ann[d].text THEN toots
  ELSE Append(toots, NewToot(d))

PostToot(d) ==
  /\ ann[d].at \in {"uploaded", "posting again"}
  /\ toots' = Accepted(d)
  /\ Tell(d, "posted")
  /\ UNCHANGED <<edition, amiss>>

\* The answer is lost, whether or not the toot was taken: asked once more.
PostLost(d) ==
  /\ ann[d].at \in {"uploaded", "posting again"}
  /\ amiss < MaxAmiss /\ amiss' = amiss + 1
  /\ toots' \in {toots, Accepted(d)}
  /\ IF ann[d].at = "uploaded" THEN ann' = [ann EXCEPT ![d].at = "posting again"]
                               ELSE Tell(d, "not done")
  /\ UNCHANGED edition

\* Refused: a refusal is not asked again.
PostRefused(d) ==
  /\ ann[d].at \in {"uploaded", "posting again"}
  /\ amiss < MaxAmiss /\ amiss' = amiss + 1
  /\ Tell(d, "not done")
  /\ UNCHANGED <<edition, toots>>

AnnounceStep(d) ==
  \/ LoadCertificate(d) \/ RecentStatuses(d) \/ Compose(d) \/ Announced(d) \/ GIF(d)
  \/ UploadMedia(d) \/ PostToot(d)
AnnounceFault(d) == ReadFails(d) \/ UploadFails(d) \/ PostLost(d) \/ PostRefused(d)

AnnounceNext ==
  \/ Publish \/ OutOfSight \/ KeyExpires
  \/ \E d \in Announcer : BeginAnnounce(d) \/ AnnounceStep(d) \/ AnnounceFault(d)

AnnounceSpec == AnnounceInit /\ [][AnnounceNext]_annVars

\* The certificate is announced once, as far as the account is searched: a second
\* toot was posted by a command that had looked before the first one and says
\* something else, or by one that looked while the first was out of sight
\* (Server.announce, Client.RecentStatuses, Client.Post).
AnnouncedOnce ==
  \A j \in DOMAIN toots : \A i \in 1..(j - 1) :
    \/ toots[j].by \in toots[i].early /\ toots[j].text # toots[i].text
    \/ toots[j].by \in toots[i].missed
=============================================================================
