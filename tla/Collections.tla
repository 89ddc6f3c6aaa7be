---------------------------- MODULE Collections ----------------------------
(***************************************************************************)
(* `follow <certificate> confirm` (internal/bot/bot.go over                *)
(* internal/mastodon): the accounts a certificate names are followed, and  *)
(* each is asked to join the collections of its roles.  A collection holds *)
(* at most MaxCollectionItems; past that the oldest makes room.  An item   *)
(* waits for its account's consent, and the instance names the account of  *)
(* an item only while it is pending or accepted.  The bot keeps nothing    *)
(* between two commands: each reads the collections again.                 *)
(*                                                                         *)
(* One certificate per command; a private message asking to follow back is *)
(* left out.                                                               *)
(***************************************************************************)
EXTENDS Naturals, Sequences, SequencesExt, FiniteSets

CONSTANTS
  Follower,            \* the goroutines answering a follow
  Account,             \* fediverse accounts
  Titles,              \* the collections, in the order they are curated
  Named,               \* the accounts a command's certificate names, by title
  MaxCollectionItems,  \* the instance's limit on active items
  MaxAnswers,          \* bound on the answers accounts give to being asked
  MaxWrong             \* bound on requests that fail

\* What the constants are.
ASSUME CollectionsAssumption ==
  /\ Titles \in Seq(Range(Titles))
  /\ Named \in [Follower -> [Range(Titles) -> SUBSET Account]]
  /\ MaxCollectionItems \in Nat \ {0} /\ MaxAnswers \in Nat /\ MaxWrong \in Nat

VARIABLES
  following,   \* whom the account follows
  collection,  \* the collections of each title, each its items, oldest first
  fol,         \* where each command stands
  answers,     \* how often an account has answered
  wrong        \* how many requests have failed

folVars == <<following, collection, fol, answers, wrong>>

Title == Range(Titles)

\* An item.  by, whose command asked, and during, which commands had read the
\* collection by then, are there for what is said of asking twice.
Item == [who : Account, state : {"pending", "accepted", "declined"},
         by : Follower, during : SUBSET Follower]

Active(items) == SelectSeq(items, LAMBDA item : item.state # "declined")

\* Whom the instance names: an item that was declined is listed without.
NamedIn(items) == {item.who : item \in {i \in Range(items) : i.state # "declined"}}

\* A command: the accounts that resolved, whom it is to follow, the titles
\* still to curate and which collection each had when they were listed, 0 for
\* none; and of the one in hand, the active items and the accounts handled as
\* it read them.  lost is what was sent and not answered: the making of a title's
\* collection, the asking of an account.
Idling == [at |-> "idle", confirm |-> FALSE, accounts |-> {}, toFollow |-> {},
           titles |-> << >>, byTitle |-> [t \in Title |-> 0],
           active |-> << >>, handled |-> {}, lost |-> {}]

CollectionsTypeOK ==
  /\ following \subseteq Account
  /\ \A t \in Title : \A i \in DOMAIN collection[t] : Range(collection[t][i]) \subseteq Item
  /\ \A d \in Follower :
       /\ fol[d].at \in {"idle", "resolving", "following", "listing", "curating", "told"}
       /\ fol[d].toFollow \subseteq fol[d].accounts
       /\ fol[d].at = "curating" => fol[d].byTitle[Head(fol[d].titles)] \in
                                     DOMAIN collection[Head(fol[d].titles)]
  /\ answers \in 0..MaxAnswers /\ wrong \in 0..MaxWrong

CollectionsInit ==
  /\ following = {}
  /\ collection = [t \in Title |-> << >>]
  /\ fol = [d \in Follower |-> Idling]
  /\ answers = 0
  /\ wrong = 0

\* An account that was asked accepts, declines, or withdraws.
Consent ==
  /\ answers < MaxAnswers /\ answers' = answers + 1
  /\ \E t \in Title : \E i \in DOMAIN collection[t] : \E j \in DOMAIN collection[t][i] :
       /\ collection[t][i][j].state # "declined"
       /\ \E state \in {"accepted", "declined"} \ {collection[t][i][j].state} :
            collection' = [collection EXCEPT ![t][i][j].state = state]
  /\ UNCHANGED <<following, fol, wrong>>

BeginFollow(d) ==
  /\ fol[d].at = "idle"
  /\ \E confirm \in BOOLEAN :
       fol' = [fol EXCEPT ![d] = [Idling EXCEPT !.at = "resolving", !.confirm = confirm]]
  /\ UNCHANGED <<following, collection, answers, wrong>>

Done(d) == fol' = [fol EXCEPT ![d] = [@ EXCEPT !.at = "told"]]

\* The certificate's accounts, one that does not resolve left out; who is
\* followed already; and, before the first write, whose token this is.
Resolve(d) ==
  LET named == UNION {Named[d][t] : t \in Title} IN
  /\ fol[d].at = "resolving"
  /\ \E accounts \in {named} \cup {named \ {who} : who \in named} :
       /\ accounts # named => wrong < MaxWrong
       /\ wrong' = IF accounts # named THEN wrong + 1 ELSE wrong
       /\ fol' = [fol EXCEPT ![d] = [@ EXCEPT !.at = "following", !.accounts = accounts,
                                              !.toFollow = accounts \ following]]
  /\ UNCHANGED <<following, collection, answers>>

\* Only previewed: nothing is written.
Preview(d) ==
  /\ fol[d].at = "following" /\ ~ fol[d].confirm
  /\ Done(d)
  /\ UNCHANGED <<following, collection, answers, wrong>>

\* One after another, in the certificate's order, whichever that is.
Follow(d) ==
  /\ fol[d].at = "following" /\ fol[d].confirm
  /\ fol[d].toFollow # {}
  /\ LET who == CHOOSE a \in fol[d].toFollow : TRUE IN
       /\ following' = following \cup {who}
       /\ fol' = [fol EXCEPT ![d].toFollow = @ \ {who}]
  /\ UNCHANGED <<collection, answers, wrong>>

\* The titles that exist, read once.
ReadCollections(d) ==
  /\ fol[d].at = "following" /\ fol[d].confirm
  /\ fol[d].toFollow = {}
  /\ \E byTitle \in [Title -> {0} \cup UNION {DOMAIN collection[t] : t \in Title}] :
       /\ \A t \in Title : IF collection[t] = << >> THEN byTitle[t] = 0
                           ELSE byTitle[t] \in DOMAIN collection[t]
       /\ fol' = [fol EXCEPT ![d] = [@ EXCEPT !.at = "listing", !.byTitle = byTitle,
                                              !.titles = Titles]]
  /\ UNCHANGED <<following, collection, answers, wrong>>

\* The accounts of a title that resolved.
Resolved(d, t) == Named[d][t] \cap fol[d].accounts

\* A title with nobody to ask is passed over: no collection is made for it.
PassOver(d) ==
  /\ fol[d].at = "listing"
  /\ fol[d].titles # << >>
  /\ Resolved(d, Head(fol[d].titles)) = {}
  /\ fol' = [fol EXCEPT ![d].titles = Tail(@)]
  /\ UNCHANGED <<following, collection, answers, wrong>>

\* Deviation: only who has accepted.
HandledWhenAccepted(items) == {i.who : i \in {j \in Range(items) : j.state = "accepted"}}

\* Whom a collection as it was read has handled: whoever it names.
HandledIn(items) == NamedIn(items)

\* Deviation: the collection just made is not the one curated.
PrepareForgotten(d) ==
  LET t == Head(fol[d].titles) IN
  /\ fol[d].at = "listing"
  /\ fol[d].titles # << >>
  /\ Resolved(d, t) # {}
  /\ collection' = IF fol[d].byTitle[t] = 0 THEN [collection EXCEPT ![t] = Append(@, << >>)]
                   ELSE collection
  /\ fol' = [fol EXCEPT ![d] = [@ EXCEPT !.at = "curating", !.active = << >>, !.handled = {}]]
  /\ UNCHANGED <<following, answers, wrong>>

\* A collection there was none of is made, and is empty; one there was, is read.
Prepare(d) ==
  LET t == Head(fol[d].titles)
      which == fol[d].byTitle[t] IN
  /\ fol[d].at = "listing"
  /\ fol[d].titles # << >>
  /\ Resolved(d, t) # {}
  /\ IF which = 0
     THEN /\ collection' = [collection EXCEPT ![t] = Append(@, << >>)]
          /\ fol' = [fol EXCEPT ![d] = [@ EXCEPT !.at = "curating", !.active = << >>,
               !.handled = {}, !.lost = {}, !.byTitle[t] = Len(collection[t]) + 1]]
     ELSE /\ fol' = [fol EXCEPT ![d] = [@ EXCEPT !.at = "curating",
               !.active = Active(collection[t][which]),
               !.handled = HandledIn(collection[t][which]), !.lost = {}]]
          /\ UNCHANGED collection
  /\ UNCHANGED <<following, answers, wrong>>

\* Who of this title is still to be asked.
Wanting(d) == Resolved(d, Head(fol[d].titles)) \ fol[d].handled

Same(item, other) == item.who = other.who /\ item.by = other.by

\* The oldest active item, as this command knows them, makes room; one that
\* is gone already ends the command.
Evict(d) ==
  LET t == Head(fol[d].titles)
      which == fol[d].byTitle[t]
      oldest == Head(fol[d].active)
  IN
  /\ fol[d].at = "curating"
  /\ Wanting(d) # {}
  /\ Len(fol[d].active) >= MaxCollectionItems
  /\ \/ \E i \in DOMAIN collection[t][which] :
          /\ Same(collection[t][which][i], oldest)
          /\ collection' = [collection EXCEPT ![t][which] = RemoveAt(@, i)]
          /\ fol' = [fol EXCEPT ![d].active = Tail(@)]
     \/ /\ ~ \E item \in Range(collection[t][which]) : Same(item, oldest)
        /\ Done(d) /\ UNCHANGED collection
  /\ UNCHANGED <<following, answers, wrong>>

\* One after another, in the certificate's order.
NextHandle(d) == CHOOSE who \in Wanting(d) : TRUE

\* Deviation: who was asked is not noted.
HandleForgotten(d, who) == fol[d]

Handle(d, who) == [fol[d] EXCEPT !.handled = @ \cup {who}]

\* An account that lets itself not be featured is refused, which is no failure.
Refused(d) ==
  /\ fol[d].at = "curating" /\ Len(fol[d].active) < MaxCollectionItems
  /\ Wanting(d) # {}
  /\ fol' = [fol EXCEPT ![d] = Handle(d, NextHandle(d))]
  /\ UNCHANGED <<following, collection, answers, wrong>>

\* The next account as an item, and the collection that has it.
Request(d) ==
  LET t == Head(fol[d].titles) IN
  [who |-> NextHandle(d), state |-> "pending", by |-> d,
   during |-> {e \in Follower : /\ fol[e].at = "curating" /\ Head(fol[e].titles) = t
                                /\ fol[e].byTitle[t] = fol[d].byTitle[t]}]

Requested(d) ==
  LET t == Head(fol[d].titles) IN
  [collection EXCEPT ![t][fol[d].byTitle[t]] = Append(@, Request(d))]

\* The instance has no room left, whatever the command knows.
Full(d) ==
  LET t == Head(fol[d].titles) IN
  Len(Active(collection[t][fol[d].byTitle[t]])) >= MaxCollectionItems

\* An account is asked; an instance that is full ends the command.
Ask(d) ==
  /\ fol[d].at = "curating" /\ Len(fol[d].active) < MaxCollectionItems
  /\ Wanting(d) # {}
  /\ \/ Full(d) /\ Done(d) /\ UNCHANGED collection
     \/ /\ ~ Full(d) /\ collection' = Requested(d)
        /\ fol' = [fol EXCEPT ![d] = [Handle(d, NextHandle(d)) EXCEPT
                                         !.active = Append(fol[d].active, Request(d))]]
  /\ UNCHANGED <<following, answers, wrong>>

NextTitle(d) ==
  /\ fol[d].at = "curating"
  /\ Wanting(d) = {}
  /\ fol' = [fol EXCEPT ![d].at = "listing", ![d].titles = Tail(@)]
  /\ UNCHANGED <<following, collection, answers, wrong>>

\* Whoever could not be asked is sent a message; one that fails is skipped.
Curated(d) ==
  /\ fol[d].at = "listing"
  /\ fol[d].titles = << >>
  /\ Done(d)
  /\ UNCHANGED <<following, collection, answers, wrong>>

\* A write that arrived and whose answer was lost is sent once more when it was
\* lost on the wire, and else ends the command.
SentAgain(d, what) ==
  \/ Done(d)
  \/ what \notin fol[d].lost /\ fol' = [fol EXCEPT ![d].lost = @ \cup {what}]

\* So a collection may be made twice, and the first stay empty.
CreateLost(d) ==
  LET t == Head(fol[d].titles) IN
  /\ fol[d].at = "listing" /\ fol[d].titles # << >>
  /\ Resolved(d, t) # {} /\ fol[d].byTitle[t] = 0
  /\ collection' = [collection EXCEPT ![t] = Append(@, << >>)]
  /\ SentAgain(d, t)

\* An account may be asked twice by one command.
AskLost(d) ==
  /\ fol[d].at = "curating" /\ Len(fol[d].active) < MaxCollectionItems
  /\ Wanting(d) # {} /\ ~ Full(d)
  /\ collection' = Requested(d)
  /\ SentAgain(d, NextHandle(d))

\* What made room is gone when it is to go again, which ends the command.
EvictLost(d) ==
  LET t == Head(fol[d].titles)
      which == fol[d].byTitle[t] IN
  /\ fol[d].at = "curating"
  /\ Wanting(d) # {}
  /\ Len(fol[d].active) >= MaxCollectionItems
  /\ \E i \in DOMAIN collection[t][which] :
       /\ Same(collection[t][which][i], Head(fol[d].active))
       /\ collection' = [collection EXCEPT ![t][which] = RemoveAt(@, i)]
  /\ Done(d)

\* (To follow somebody again changes nothing.)
FollowLost(d) ==
  /\ CreateLost(d) \/ AskLost(d) \/ EvictLost(d)
  /\ wrong < MaxWrong /\ wrong' = wrong + 1
  /\ UNCHANGED <<following, answers>>

\* Any request that is not the resolving of an account ends the command, and
\* what was done stays done.
FollowFails(d) ==
  /\ fol[d].at \in {"resolving", "following", "listing", "curating"}
  /\ wrong < MaxWrong /\ wrong' = wrong + 1
  /\ Done(d)
  /\ UNCHANGED <<following, collection, answers>>

FollowStep(d) ==
  \/ Resolve(d) \/ Preview(d) \/ Follow(d) \/ ReadCollections(d) \/ PassOver(d) \/ Prepare(d)
  \/ Evict(d) \/ Refused(d) \/ Ask(d) \/ NextTitle(d) \/ Curated(d)

CollectionsNext ==
  Consent \/ \E d \in Follower : BeginFollow(d) \/ FollowStep(d) \/ FollowLost(d) \/ FollowFails(d)

CollectionsSpec == CollectionsInit /\ [][CollectionsNext]_folVars

-----------------------------------------------------------------------------
(***************************************************************************)
(* Properties.                                                             *)
(***************************************************************************)

\* The step of it: a collection grows by somebody it had not asked, or had
\* asked while this command was curating it already; and not by this command
\* itself, unless it did not hear of it.
NobodyTwice ==
  \A t \in Title : \A i \in DOMAIN collection[t] :
    Len(collection'[t][i]) > Len(collection[t][i]) =>
      LET asked == Last(collection'[t][i]) IN
      \A item \in Range(collection[t][i]) :
        item.who = asked.who /\ item.state # "declined" =>
          /\ asked.by \in item.during
          /\ asked.by = item.by => item.who \in fol[item.by].lost

\* Nobody is asked twice: an account that a collection has asked and has not
\* heard from, or has as a member, is asked again only by a command that had
\* read the collection before the other asked; and by the same command only
\* when its request was lost.  (Server.follow: "handled is every account this
\* collection has ever asked"; an account that declined is named by no listing,
\* and so is asked again.)
AskedOnce == [][NobodyTwice]_folVars
=============================================================================
