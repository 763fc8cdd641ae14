----------------------------- MODULE AlertRules -----------------------------
(***************************************************************************)
(* Alert rules of one firm (src/alerting.py, src/notify/deliver.py and the *)
(* alert endpoints of src/api/admin.py): which breaches a worker finds in  *)
(* each batch it builds, which it remembers, and which anybody hears of.   *)
(*                                                                         *)
(* A worker evaluates and delivers every batch of a poll in one            *)
(* transaction; administrators edit the rules in transactions of their own *)
(* between any two of its statements (Postgres, read committed, foreign    *)
(* keys enforced).  A rule and a group it aggregates to make a pair.       *)
(***************************************************************************)
EXTENDS Integers, Sequences, FiniteSets

CONSTANTS
  Rules,       \* alert_rules ids
  Groups,      \* group keys
  Edits,       \* what administrators do: the members of AllEdits they may
  Faults,      \* what goes wrong: "send", "evaluate", "abort"
  MaxBatches,  \* bound: batches evaluated
  MaxEdits     \* bound: edits

Pairs == Rules \X Groups
Modes == {"transition", "every_batch"}
AllEdits == {"create", "mode", "recipients", "active", "delete"}
Rule  == [status : {"new", "saved", "deleted"}, active : BOOLEAN, mode : Modes,
          recipients : BOOLEAN]
Evaluation == [rule : Rules, breaches : SUBSET Pairs, fresh : SUBSET Pairs]

ASSUME AlertAssumption ==
  /\ Edits \subseteq AllEdits
  /\ Faults \subseteq {"send", "evaluate", "abort"}
  /\ MaxBatches \in Nat
  /\ MaxEdits \in Nat

VARIABLES
  rules,       \* committed alert_rules
  breaching,   \* committed alert_state: pairs with breaching true
  known,       \* committed alert_state: pairs with a row
  txBreaching, txKnown,   \* the same as the worker's transaction sees them
  pc,          \* the worker: "idle", "poll", "evaluate", "deliver"
  book,        \* the pairs in breach in the batch being looked at
  todo,        \* rules evaluate_batch has still to evaluate
  evaluations, \* what it found: [rule, breaches, fresh], in order
  asRead,      \* the rules as deliver_alerts has read them
  unflushed,   \* pairs whose new row the session has not sent yet
  doomed,      \* the session's flush will fail
  standing,    \* history: txBreaching when this batch's evaluation began
  judged,      \* history: rules evaluated on this batch
  heard,       \* history: pairs mailed about since they last cleared, leaving
               \* out the mail of a poll that was rolled back
  repeated,    \* history: pairs mailed in transition mode though heard of
  trouble,     \* history: rules of which something failed, or that were off
  batches, edits

committed == <<breaching, known>>
session   == <<txBreaching, txKnown, unflushed, doomed>>
pass      == <<book, todo, evaluations, asRead, standing, judged>>
history   == <<heard, repeated, trouble>>
vars == <<rules, breaching, known, txBreaching, txKnown, pc, book, todo,
          evaluations, asRead, unflushed, doomed, standing, judged, heard,
          repeated, trouble, batches, edits>>

\* The row is there; ids are not used again.
Present(r) == rules[r].status = "saved"

Of(r, S) == {p \in S : p[1] = r}

\* Outside deliver_alerts no rule has been read.
Unread == [r \in Rules |-> [status |-> "new", active |-> FALSE, mode |-> "transition",
                            recipients |-> FALSE]]

-----------------------------------------------------------------------------
Init ==
  /\ rules \in [Rules -> {x \in Rule : x.active /\ x.recipients}]
  /\ \A r \in Rules : Present(r) \/ (rules[r].status = "new" /\ "create" \in Edits)
  /\ breaching = {} /\ known = {}
  /\ txBreaching = {} /\ txKnown = {}
  /\ pc = "idle" /\ book = {} /\ todo = {} /\ evaluations = <<>>
  /\ unflushed = {} /\ doomed = FALSE
  /\ asRead = Unread
  /\ standing = {} /\ judged = {} /\ heard = {} /\ repeated = {} /\ trouble = {}
  /\ batches = 0 /\ edits = 0

(***************************************************************************)
(* The worker.                                                             *)
(***************************************************************************)
StartPoll ==
  /\ pc = "idle"
  /\ pc' = "poll"
  /\ UNCHANGED <<rules, committed, session, pass, history, batches, edits>>

\* ingest_file has registered a batch: evaluate_batch selects the active rules.
StartBatch(found) ==
  /\ pc = "poll"
  /\ batches < MaxBatches
  /\ batches' = batches + 1
  /\ book' = found
  /\ heard' = heard \cap found
  /\ standing' = txBreaching
  /\ judged' = {}
  /\ todo' = {r \in Rules : Present(r) /\ rules[r].active}
  /\ evaluations' = <<>>
  /\ unflushed' = {}
  /\ pc' = "evaluate"
  /\ UNCHANGED <<rules, committed, txBreaching, txKnown, doomed, asRead, repeated,
                 trouble, edits>>

\* Seeded fault: breaches are compared with what the last poll committed.
EvaluateAgainstCommitted(r) ==
  /\ pc = "evaluate" /\ ~doomed
  /\ r \in todo
  /\ todo' = todo \ {r}
  /\ LET found == Of(r, book)
     IN  /\ evaluations' =
              Append(evaluations, [rule |-> r, breaches |-> found,
                                   fresh |-> found \ breaching])
         /\ txBreaching' = (txBreaching \ Of(r, txBreaching)) \cup found
         /\ txKnown' = txKnown \cup found
         /\ unflushed' = found \ txKnown
         /\ doomed' = (~Present(r) /\ found \ txKnown # {})
  /\ judged' = judged \cup {r}
  /\ UNCHANGED <<rules, committed, pc, book, asRead, standing, history, batches, edits>>

\* Seeded fault: groups that have cleared are not noticed.
EvaluateNeverClears(r) ==
  /\ pc = "evaluate" /\ ~doomed
  /\ r \in todo
  /\ todo' = todo \ {r}
  /\ LET found == Of(r, book)
     IN  /\ evaluations' =
              Append(evaluations, [rule |-> r, breaches |-> found,
                                   fresh |-> found \ txBreaching])
         /\ txBreaching' = txBreaching \cup found
         /\ txKnown' = txKnown \cup found
         /\ unflushed' = found \ txKnown
         /\ doomed' = (~Present(r) /\ found \ txKnown # {})
  /\ judged' = judged \cup {r}
  /\ UNCHANGED <<rules, committed, pc, book, asRead, standing, history, batches, edits>>

\* evaluate_rule: a breach not yet breaching is new, a breaching group that is
\* no longer found is cleared. Its select flushes the rows added before. The
\* rule may have been deleted since StartBatch, but then it has no rows yet and
\* those it adds will not go in.
Evaluate(r) ==
  /\ pc = "evaluate" /\ ~doomed
  /\ r \in todo
  /\ todo' = todo \ {r}
  /\ LET found == Of(r, book)
     IN  /\ evaluations' =
              Append(evaluations, [rule |-> r, breaches |-> found,
                                   fresh |-> found \ txBreaching])
         /\ txBreaching' = (txBreaching \ Of(r, txBreaching)) \cup found
         /\ txKnown' = txKnown \cup found
         /\ unflushed' = found \ txKnown
         /\ doomed' = (~Present(r) /\ found \ txKnown # {})
  /\ judged' = judged \cup {r}
  /\ UNCHANGED <<rules, committed, pc, book, asRead, standing, history, batches, edits>>

\* Seeded fault: the evaluation that stands for a failure is incomplete.
EvaluateFailsHalf(r) ==
  /\ pc = "evaluate" /\ ~doomed
  /\ "evaluate" \in Faults
  /\ r \in todo
  /\ todo' = todo \ {r}
  /\ evaluations' = Append(evaluations, [rule |-> r, breaches |-> {}])
  /\ UNCHANGED <<rules, committed, session, pc, book, asRead, standing, judged,
                 history, batches, edits>>

\* The rule cannot be evaluated (a measure or a column the batch lacks):
\* evaluate_batch reports no breach and its state is left as it was.
EvaluateFails(r) ==
  /\ pc = "evaluate" /\ ~doomed
  /\ "evaluate" \in Faults
  /\ r \in todo
  /\ todo' = todo \ {r}
  /\ trouble' = trouble \cup {r}
  /\ UNCHANGED <<rules, committed, session, pc, book, evaluations, asRead, standing,
                 judged, heard, repeated, batches, edits>>

\* deliver_alerts selects the rules afresh, once for all of its sends; the
\* select flushes the session.
StartDelivery ==
  /\ pc = "evaluate" /\ ~doomed
  /\ todo = {}
  /\ unflushed' = {}
  /\ asRead' = rules
  /\ pc' = "deliver"
  /\ UNCHANGED <<rules, committed, txBreaching, txKnown, doomed, book, todo,
                 evaluations, standing, judged, history, batches, edits>>

\* Seeded fault: what to say is decided from the rule as it is now, while the
\* message speaks of the rule as it was read.
ToNotifyAsNow(e) == IF rules[e.rule].mode = "every_batch" THEN e.breaches ELSE e.fresh

\* breaches_to_notify, with the rule as it was read.
ToNotify(e) == IF asRead[e.rule].mode = "every_batch" THEN e.breaches ELSE e.fresh

\* deliver_alerts, one evaluation: told, or else the rule was gone when the rules
\* were read, has nobody to tell, or the send raises; whichever it was is not
\* tried again. Edits made meanwhile are not seen.
Deliver ==
  /\ pc = "deliver"
  /\ evaluations # <<>>
  /\ evaluations' = Tail(evaluations)
  /\ LET e    == Head(evaluations)
         rule == asRead[e.rule]
         tell == ToNotify(e)
     IN  \/ /\ rule.status = "saved" /\ rule.recipients
            /\ heard' = heard \cup tell
            /\ repeated' = IF rule.mode = "transition" THEN repeated \cup (tell \cap heard)
                           ELSE repeated
            /\ UNCHANGED trouble
         \/ /\ \/ rule.status # "saved" \/ ~rule.recipients
               \/ "send" \in Faults /\ tell # {}
            /\ trouble' = trouble \cup {e.rule}
            /\ UNCHANGED <<heard, repeated>>
  /\ UNCHANGED <<rules, committed, session, pc, book, todo, asRead, standing, judged,
                 batches, edits>>

\* The next file of the poll, if any.
EndBatch ==
  /\ pc = "deliver"
  /\ evaluations = <<>>
  /\ asRead' = Unread
  /\ pc' = "poll"
  /\ UNCHANGED <<rules, committed, session, book, todo, evaluations, standing, judged,
                 history, batches, edits>>

Commit ==
  /\ pc = "poll"
  /\ breaching' = txBreaching
  /\ known' = txKnown
  /\ pc' = "idle"
  /\ UNCHANGED <<rules, session, pass, history, batches, edits>>

\* Everything the poll found goes, but not the mail it sent.
Rollback ==
  /\ txBreaching' = breaching
  /\ txKnown' = known
  /\ unflushed' = {}
  /\ doomed' = FALSE
  /\ pc' = "idle"
  /\ evaluations' = <<>>
  /\ asRead' = Unread
  /\ todo' = {}
  /\ heard' = heard \cap breaching
  /\ trouble' = trouble \cup {r \in Rules : Present(r)}
  /\ UNCHANGED <<rules, committed, book, standing, judged, repeated, batches, edits>>

\* A row refers to a rule that was deleted under it: the flush raises, and so
\* does every statement after it until poll_firm's next one ends the poll.
FlushFails == doomed /\ Rollback

\* The process dies, or a later file's step raises out of the poll.
Abort == "abort" \in Faults /\ pc # "idle" /\ Rollback

(***************************************************************************)
(* The administrators.                                                     *)
(***************************************************************************)
\* save_alert creates the rule, or overwrites every column of one there is. What
\* the rule looks for is not told apart: any pairs may be found in any batch.
SaveAlert(r, to) ==
  /\ edits < MaxEdits
  /\ edits' = edits + 1
  /\ rules[r].status # "deleted"
  /\ to # rules[r] /\ to.status = "saved"
  /\ "mode" \notin Edits => to.mode = rules[r].mode
  /\ "recipients" \notin Edits => to.recipients = rules[r].recipients
  /\ "active" \notin Edits => to.active = rules[r].active
  /\ rules' = [rules EXCEPT ![r] = to]
  /\ trouble' = IF to.active /\ to.recipients THEN trouble ELSE trouble \cup {r}
  /\ UNCHANGED <<committed, session, pc, pass, heard, repeated, batches>>

\* Seeded fault: a database that does not enforce foreign keys.
DeleteAlertReferenced(r) ==
  /\ "delete" \in Edits
  /\ edits < MaxEdits
  /\ edits' = edits + 1
  /\ Present(r)
  /\ rules' = [rules EXCEPT ![r].status = "deleted"]
  /\ UNCHANGED <<committed, session, pc, pass, history, batches>>

\* delete_alert: refused by the foreign key while a row the database has seen
\* refers to the rule. A row the worker has not flushed does not stop it.
DeleteAlert(r) ==
  /\ "delete" \in Edits
  /\ edits < MaxEdits
  /\ edits' = edits + 1
  /\ Present(r)
  /\ Of(r, known \cup (txKnown \ unflushed)) = {}
  /\ rules' = [rules EXCEPT ![r].status = "deleted"]
  /\ doomed' = (doomed \/ Of(r, unflushed) # {})
  /\ UNCHANGED <<committed, txBreaching, txKnown, unflushed, pc, pass, history,
                 batches>>

Worker ==
  \/ StartPoll \/ StartDelivery \/ Deliver \/ EndBatch \/ Commit \/ FlushFails
  \/ \E found \in SUBSET Pairs : StartBatch(found)
  \/ \E r \in Rules : Evaluate(r) \/ EvaluateFails(r)

Next ==
  \/ Worker
  \/ Abort
  \/ \E r \in Rules : DeleteAlert(r) \/ \E to \in Rule : SaveAlert(r, to)

Spec == Init /\ [][Next]_vars

-----------------------------------------------------------------------------
TypeOK ==
  /\ rules \in [Rules -> Rule]
  /\ breaching \subseteq Pairs /\ known \subseteq Pairs
  /\ txBreaching \subseteq Pairs /\ txKnown \subseteq Pairs
  /\ pc \in {"idle", "poll", "evaluate", "deliver"}
  /\ book \subseteq Pairs /\ todo \subseteq Rules
  /\ evaluations \in Seq(Evaluation)
  /\ unflushed \subseteq Pairs /\ doomed \in BOOLEAN
  /\ asRead \in [Rules -> Rule]
  /\ standing \subseteq Pairs /\ judged \subseteq Rules
  /\ heard \subseteq Pairs /\ repeated \subseteq Pairs /\ trouble \subseteq Rules
  /\ batches \in 0..MaxBatches /\ edits \in 0..MaxEdits

\* alert_state never refers to a rule that is gone, though a delete may slip
\* between a worker's evaluation of the rule and its flush.
NoOrphanState == \A p \in known : Present(p[1])

\* Once every rule of a batch has been evaluated, the state of an active rule
\* is what the batch says: what breached is breaching, what cleared is clear.
StateFollowsBatch ==
  pc = "deliver" =>
    \A e \in {evaluations[i] : i \in 1..Len(evaluations)} :
      Of(e.rule, txBreaching) = Of(e.rule, book)

\* A breach that already stood before this batch is not mailed by a rule that
\* deliver_alerts read in transition mode, even if administrators change the
\* rule between its evaluation and the reading, or while earlier mail goes out.
StandingIsQuiet ==
  [][\A p \in (heard' \ heard) :
       asRead[p[1]].mode = "transition" /\ p \in standing => FALSE]_vars

\* "You are told once per breach ... so this is new" (build_alert_message): no
\* mail with that text is about a breach somebody was mailed about before and
\* that has stood since, whatever fails and however rules are edited. Mail of a
\* poll that was rolled back apart: the worker has forgotten it.
ToldOnce == repeated = {}

\* The other half of the same sentence: when a poll is over, somebody has been
\* told of every breach a rule found in the batch it ended with, since the
\* group last came into breach, whatever became of other rules. Not so for a
\* rule that was off or had no recipients, that could not be evaluated or whose
\* mail failed, or after a poll was rolled back.
BreachIsTold ==
  pc = "idle" => \A p \in book :
    p[1] \in judged \ trouble /\ Present(p[1]) => p \in heard

=============================================================================
