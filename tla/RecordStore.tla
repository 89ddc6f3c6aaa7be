---------------------------- MODULE RecordStore ----------------------------
(***************************************************************************)
(* What the store of a check's record promises the commands that use it:   *)
(* every change is one command applied, as one step, to the latest record  *)
(* that can be trusted, and a command says it is done only when its change *)
(* is in the record.  Comments, locks, retries and lost answers are the    *)
(* business of CheckRecord, which implements this specification.           *)
(***************************************************************************)
EXTENDS Roles

CONSTANT Commands

VARIABLES
  record,   \* the record as anybody reading the issue finds it
  trusted,  \* whether the bot would act on it
  kept,     \* the record trusted before the present one
  op,       \* what each command asks for
  answer    \* how far each command is

vars == <<record, trusted, kept, op, answer>>

Init ==
  /\ record \in Record
  /\ trusted = TRUE
  /\ kept = record
  /\ op \in [Commands -> Operation]
  /\ answer = [c \in Commands |-> "asked"]

\* The record a change may be built on: never one somebody edited by hand.
Latest == IF trusted THEN record ELSE kept

Keep == kept' = Latest

\* The change is made, and the command may be told so at once or not at all.
Told(c) == \E told \in {"applied", "done", "failed"} : answer' = [answer EXCEPT ![c] = told]

\* A command's change, made at one moment.  A write that is sent twice makes
\* the same change again.
Change(c) ==
  /\ answer[c] \in {"asked", "applied"}
  /\ op[c].kind # "accept"
  /\ \/ /\ record' = Applied(op[c], Latest)
        /\ ~ Conflicting(op[c], Latest)
     \/ answer[c] = "applied" /\ record' = Latest
  /\ trusted' = TRUE
  /\ Keep
  /\ Told(c)
  /\ UNCHANGED op

\* An editor takes responsibility for a record somebody edited.
Adopt(c) ==
  /\ answer[c] \in {"asked", "applied"}
  /\ op[c].kind = "accept"
  /\ record' \in Record
  /\ trusted' = TRUE
  /\ Keep
  /\ Told(c)
  /\ UNCHANGED op

\* A second copy of a record nobody reads: the issue looks as it did.
Repeat(c) ==
  /\ answer[c] = "applied"
  /\ Keep
  /\ Told(c)
  /\ UNCHANGED <<record, trusted, op>>

\* A person with write access edits or deletes the bot's comment.
HandEdit ==
  /\ record' \in Record
  /\ trusted' \in BOOLEAN
  /\ Keep
  /\ UNCHANGED <<op, answer>>

\* "done" is only ever said of a change that was made; a command that failed
\* may have made it.
Answer(c) ==
  /\ \/ answer[c] = "asked" /\ answer' = [answer EXCEPT ![c] = "nothing done"]
     \/ answer[c] = "applied" /\ answer' = [answer EXCEPT ![c] = "done"]
     \/ answer[c] \in {"asked", "applied"} /\ answer' = [answer EXCEPT ![c] = "failed"]
  /\ UNCHANGED <<record, trusted, kept, op>>

\* A restart ends every command that is under way.
Restart ==
  /\ \E lost \in SUBSET {c \in Commands : answer[c] \in {"asked", "applied"}} :
       answer' = [c \in Commands |-> IF c \in lost THEN "failed" ELSE answer[c]]
  /\ UNCHANGED <<record, trusted, kept, op>>

Next ==
  \/ \E c \in Commands : Change(c) \/ Adopt(c) \/ Repeat(c) \/ Answer(c)
  \/ HandEdit
  \/ Restart

Spec == Init /\ [][Next]_vars
=============================================================================
