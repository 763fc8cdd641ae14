-------------------------- MODULE AlertRulesProofs --------------------------
(***************************************************************************)
(* What AlertRules guarantees for any number of rules, groups, batches and *)
(* edits, and whatever faults occur.                                       *)
(***************************************************************************)
EXTENDS AlertRules, SequenceTheorems, TLAPS

LEMMA UnreadType == Unread \in [Rules -> Rule]
BY DEF Unread, Rule, Modes

\* Every variable of the worker, the database and the history keeps its type.
THEOREM TypeCorrect == Spec => []TypeOK
<1>1. Init => TypeOK
  <2> SUFFICES ASSUME Init PROVE TypeOK
    OBVIOUS
  <2>1. rules \in [Rules -> Rule]
    BY DEF Init
  <2>2. <<>> \in Seq(Evaluation)
    OBVIOUS
  <2>3. 0 \in 0..MaxBatches /\ 0 \in 0..MaxEdits
    BY AlertAssumption
  <2> QED
    BY <2>1, <2>2, <2>3, UnreadType DEF Init, TypeOK
<1>2. TypeOK /\ [Next]_vars => TypeOK'
  <2> SUFFICES ASSUME TypeOK, [Next]_vars PROVE TypeOK'
    OBVIOUS
  <2> USE AlertAssumption
  <2>1. CASE StartPoll
    BY <2>1 DEF TypeOK, StartPoll, committed, session, pass, history
  <2>2. ASSUME NEW found \in SUBSET Pairs, StartBatch(found) PROVE TypeOK'
    BY <2>2 DEF TypeOK, StartBatch, committed
  <2>3. ASSUME NEW r \in Rules, Evaluate(r) PROVE TypeOK'
    <3>1. Of(r, book) \in SUBSET Pairs
      BY DEF TypeOK, Of
    <3>2. [rule |-> r, breaches |-> Of(r, book),
           fresh |-> Of(r, book) \ txBreaching] \in Evaluation
      BY <3>1 DEF Evaluation
    <3>3. evaluations' \in Seq(Evaluation)
      BY <2>3, <3>2 DEF TypeOK, Evaluate
    <3>4. /\ txBreaching' \subseteq Pairs /\ txKnown' \subseteq Pairs
          /\ unflushed' \subseteq Pairs /\ doomed' \in BOOLEAN
          /\ todo' \subseteq Rules /\ judged' \subseteq Rules
      BY <2>3, <3>1 DEF TypeOK, Evaluate
    <3> QED
      BY <2>3, <3>3, <3>4
      DEF TypeOK, Evaluate, committed, history
  <2>4. ASSUME NEW r \in Rules, EvaluateFails(r) PROVE TypeOK'
    BY <2>4 DEF TypeOK, EvaluateFails, committed, session
  <2>5. CASE StartDelivery
    BY <2>5 DEF TypeOK, StartDelivery, committed, history
  <2>6. CASE Deliver
    <3>1. /\ Head(evaluations) \in Evaluation
          /\ Tail(evaluations) \in Seq(Evaluation)
      BY <2>6 DEF TypeOK, Deliver
    <3>2. ToNotify(Head(evaluations)) \subseteq Pairs
      BY <3>1 DEF ToNotify, Evaluation
    <3>3. heard' \subseteq Pairs /\ repeated' \subseteq Pairs /\ trouble' \subseteq Rules
      BY <2>6, <3>1, <3>2 DEF TypeOK, Deliver, Evaluation
    <3> QED
      BY <2>6, <3>1, <3>3 DEF TypeOK, Deliver, committed, session
  <2>7. CASE EndBatch
    BY <2>7, UnreadType DEF TypeOK, EndBatch, committed, session, history
  <2>8. CASE Commit
    BY <2>8 DEF TypeOK, Commit, session, pass, history
  <2>9. CASE FlushFails \/ Abort
    <3>1. Rollback
      BY <2>9 DEF FlushFails, Abort
    <3>2. <<>> \in Seq(Evaluation)
      OBVIOUS
    <3> QED
      BY <3>1, <3>2, UnreadType DEF TypeOK, Rollback, committed
  <2>10. ASSUME NEW r \in Rules, NEW to \in Rule, SaveAlert(r, to) PROVE TypeOK'
    BY <2>10 DEF TypeOK, SaveAlert, committed, session, pass
  <2>11. ASSUME NEW r \in Rules, DeleteAlert(r) PROVE TypeOK'
    <3>1. [rules[r] EXCEPT !.status = "deleted"] \in Rule
      BY DEF TypeOK, Rule
    <3>2. rules' \in [Rules -> Rule]
      BY <2>11, <3>1 DEF TypeOK, DeleteAlert
    <3>3. doomed' \in BOOLEAN /\ edits' \in 0..MaxEdits
      BY <2>11 DEF TypeOK, DeleteAlert
    <3> QED
      BY <2>11, <3>2, <3>3 DEF TypeOK, DeleteAlert, committed, pass, history
  <2>12. CASE UNCHANGED vars
    BY <2>12 DEF TypeOK, vars
  <2> QED
    BY <2>1, <2>2, <2>3, <2>4, <2>5, <2>6, <2>7, <2>8, <2>9, <2>10, <2>11,
       <2>12 DEF Next, Worker
<1> QED
  BY <1>1, <1>2, PTL DEF Spec

-----------------------------------------------------------------------------
(* Rows of alert_state and the rules they refer to.                        *)

\* NoOrphanState says nothing of rows that are not committed yet. Those the
\* transaction holds refer to rules that are there, unless the transaction is
\* doomed, and it can be doomed only before its flush.
RowsInv ==
  /\ NoOrphanState
  /\ ~doomed => \A p \in txKnown : Present(p[1])
  /\ doomed \/ unflushed # {} => pc = "evaluate"

\* A committed row of alert_state refers to a rule that exists, for any
\* interleaving of a worker's evaluation with deletes, and any failure.
THEOREM NoOrphanStateAlways == Spec => []NoOrphanState
<1>1. Init => RowsInv
  BY DEF Init, RowsInv, NoOrphanState
<1>2. TypeOK /\ RowsInv /\ [Next]_vars => RowsInv'
  <2> SUFFICES ASSUME TypeOK, RowsInv, [Next]_vars PROVE RowsInv'
    OBVIOUS
  <2> USE DEF RowsInv, NoOrphanState, Present
  <2>1. CASE StartPoll
    BY <2>1 DEF StartPoll, committed, session
  <2>2. ASSUME NEW found \in SUBSET Pairs, StartBatch(found) PROVE RowsInv'
    BY <2>2 DEF StartBatch, committed
  <2>3. ASSUME NEW r \in Rules, Evaluate(r) PROVE RowsInv'
    <3>1. ASSUME ~doomed' PROVE \A p \in txKnown' : Present(p[1])
      <4>1. \A p \in Of(r, book) : p[1] = r
        BY DEF Of
      <4>2. Present(r) \/ Of(r, book) \subseteq txKnown
        BY <2>3, <3>1 DEF Evaluate
      <4>3. txKnown' = txKnown \cup Of(r, book) /\ ~doomed
        BY <2>3 DEF Evaluate
      <4> QED
        BY <4>1, <4>2, <4>3
    <3>2. pc' = "evaluate" /\ UNCHANGED <<rules, known>>
      BY <2>3 DEF Evaluate, committed
    <3> QED
      BY <3>1, <3>2
  <2>4. ASSUME NEW r \in Rules, EvaluateFails(r) PROVE RowsInv'
    BY <2>4 DEF EvaluateFails, committed, session
  <2>5. CASE StartDelivery
    BY <2>5 DEF StartDelivery, committed
  <2>6. CASE Deliver
    BY <2>6 DEF Deliver, committed, session
  <2>7. CASE EndBatch
    BY <2>7 DEF EndBatch, committed, session
  <2>8. CASE Commit
    BY <2>8 DEF Commit, session
  <2>9. CASE FlushFails \/ Abort
    BY <2>9 DEF FlushFails, Abort, Rollback, committed
  <2>10. ASSUME NEW r \in Rules, NEW to \in Rule, SaveAlert(r, to) PROVE RowsInv'
    <3>1. \A q \in Rules : Present(q) => Present(q)'
      BY <2>10 DEF SaveAlert, TypeOK
    <3>2. /\ \A p \in known : p[1] \in Rules
          /\ \A p \in txKnown : p[1] \in Rules
      BY DEF TypeOK, Pairs
    <3>3. UNCHANGED <<known, txKnown, unflushed, doomed, pc>>
      BY <2>10 DEF SaveAlert, committed, session
    <3> QED
      BY <3>1, <3>2, <3>3
  <2>11. ASSUME NEW r \in Rules, DeleteAlert(r) PROVE RowsInv'
    <3>1. \A q \in Rules : q # r /\ Present(q) => Present(q)'
      BY <2>11 DEF DeleteAlert, TypeOK
    <3>2. /\ \A p \in known : p[1] \in Rules /\ p[1] # r
          /\ \A p \in txKnown : p[1] \in Rules /\ (p[1] = r => p \in unflushed)
      BY <2>11 DEF DeleteAlert, Of, TypeOK, Pairs
    <3>3. ~doomed' => ~doomed /\ \A p \in txKnown : p[1] # r
      BY <2>11, <3>2 DEF DeleteAlert, Of
    <3>4. doomed' => doomed \/ unflushed # {}
      BY <2>11 DEF DeleteAlert, Of
    <3>5. UNCHANGED <<known, txKnown, unflushed, pc>>
      BY <2>11 DEF DeleteAlert, committed
    <3> QED
      BY <3>1, <3>2, <3>3, <3>4, <3>5
  <2>12. CASE UNCHANGED vars
    BY <2>12 DEF vars
  <2> QED
    BY <2>1, <2>2, <2>3, <2>4, <2>5, <2>6, <2>7, <2>8, <2>9, <2>10, <2>11,
       <2>12 DEF Next, Worker
<1>3. RowsInv => NoOrphanState
  BY DEF RowsInv
<1> QED
  BY <1>1, <1>2, <1>3, TypeCorrect, PTL DEF Spec

-----------------------------------------------------------------------------
(* What an evaluation says against what the session remembers.             *)

\* An evaluation that has been made: its rule's state is the batch's, and what
\* it calls fresh did not stand before.
Settled(e) ==
  /\ e.rule \notin todo
  /\ Of(e.rule, txBreaching) = Of(e.rule, book)
  /\ \A p \in e.breaches : p[1] = e.rule
  /\ \A p \in e.fresh : p[1] = e.rule /\ p \notin standing

\* From StartBatch on, evaluations made are settled, and the rules still to be
\* evaluated have the state they had when the batch began.
PassInv ==
  pc \in {"evaluate", "deliver"} =>
    /\ \A i \in 1..Len(evaluations) : Settled(evaluations[i])
    /\ \A r \in todo : Of(r, txBreaching) = Of(r, standing)

LEMMA PassInvKept ==
  ASSUME UNCHANGED <<book, todo, txBreaching, standing, evaluations>>,
         pc' \in {"evaluate", "deliver"} => pc \in {"evaluate", "deliver"},
         PassInv
  PROVE  PassInv'
BY DEF PassInv, Settled, Of

LEMMA PassInvEvaluate ==
  ASSUME TypeOK, PassInv, NEW r \in Rules, Evaluate(r)
  PROVE  PassInv'
<1> DEFINE found == Of(r, book)
           e == [rule |-> r, breaches |-> found, fresh |-> found \ txBreaching]
<1>1. /\ r \in todo /\ todo' = todo \ {r}
      /\ evaluations' = Append(evaluations, e)
      /\ txBreaching' = (txBreaching \ Of(r, txBreaching)) \cup found
      /\ UNCHANGED <<book, standing>>
  BY DEF Evaluate
<1>2. /\ \A i \in 1..Len(evaluations) : Settled(evaluations[i])
      /\ \A q \in todo : Of(q, txBreaching) = Of(q, standing)
  BY DEF PassInv, Evaluate
<1>3. Of(r, txBreaching') = found
  BY <1>1 DEF Of
<1>4. \A q : q # r => Of(q, txBreaching') = Of(q, txBreaching)
  BY <1>1 DEF Of
<1>5. \A q \in todo' : Of(q, txBreaching') = Of(q, standing')
  BY <1>1, <1>2, <1>4
<1>6. /\ e.rule = r /\ r \notin todo'
      /\ Of(r, txBreaching') = Of(r, book')
      /\ \A p \in e.breaches : p[1] = r
      /\ \A p \in e.fresh : p[1] = r /\ p \notin standing'
  <2>1. \A p \in found \ txBreaching : p[1] = r /\ p \notin standing
    BY <1>1, <1>2 DEF Of
  <2>2. \A p \in found : p[1] = r
    BY DEF Of
  <2> QED
    BY <1>1, <1>3, <2>1, <2>2
<1>7. ASSUME NEW i \in 1..Len(evaluations), evaluations'[i] = evaluations[i]
      PROVE  Settled(evaluations[i])'
  <2> DEFINE d == evaluations[i]
  <2>1. /\ d.rule \notin todo /\ d.rule # r
        /\ Of(d.rule, txBreaching) = Of(d.rule, book)
        /\ \A p \in d.breaches : p[1] = d.rule
        /\ \A p \in d.fresh : p[1] = d.rule /\ p \notin standing
    BY <1>1, <1>2 DEF Settled
  <2>2. Of(d.rule, txBreaching') = Of(d.rule, book')
    BY <1>1, <1>4, <2>1
  <2> QED
    BY <1>1, <1>7, <2>1, <2>2 DEF Settled
<1>8. e \in Evaluation /\ evaluations \in Seq(Evaluation)
  <2>1. Of(r, book) \subseteq Pairs
    BY DEF TypeOK, Of
  <2> QED
    BY <2>1 DEF TypeOK, Evaluation
<1> HIDE DEF e
<1>9. /\ Len(evaluations') = Len(evaluations) + 1
      /\ evaluations'[Len(evaluations) + 1] = e
      /\ \A i \in 1..Len(evaluations) : evaluations'[i] = evaluations[i]
      /\ Len(evaluations) \in Nat
  BY <1>1, <1>8, AppendProperties, LenProperties
<1>10. \A i \in 1..Len(evaluations') : Settled(evaluations[i])'
  <2> SUFFICES ASSUME NEW i \in 1..Len(evaluations')
               PROVE  Settled(evaluations[i])'
    OBVIOUS
  <2>1. CASE i = Len(evaluations) + 1
    BY <2>1, <1>6, <1>9 DEF Settled
  <2>2. CASE i \in 1..Len(evaluations)
    BY <2>2, <1>7, <1>9
  <2> QED
    BY <1>9, <2>1, <2>2
<1> QED
  BY <1>1, <1>5, <1>10 DEF PassInv

LEMMA PassInvDeliver ==
  ASSUME TypeOK, PassInv, Deliver
  PROVE  PassInv'
<1>1. /\ evaluations' = Tail(evaluations) /\ evaluations # <<>>
      /\ pc = "deliver"
      /\ UNCHANGED <<book, todo, txBreaching, standing>>
  BY DEF Deliver, session
<1>2. ASSUME NEW i \in 1..Len(evaluations')
      PROVE  i + 1 \in 1..Len(evaluations) /\ evaluations'[i] = evaluations[i + 1]
  BY <1>1 DEF TypeOK
<1> QED
  BY <1>1, <1>2 DEF PassInv, Settled, Of

LEMMA PassInvStep == TypeOK /\ PassInv /\ [Next]_vars => PassInv'
<1> SUFFICES ASSUME TypeOK, PassInv, [Next]_vars PROVE PassInv'
  OBVIOUS
<1>1. CASE StartPoll
  BY <1>1, PassInvKept DEF StartPoll, session, pass
<1>2. ASSUME NEW found \in SUBSET Pairs, StartBatch(found) PROVE PassInv'
  BY <1>2 DEF StartBatch, PassInv, Of
<1>3. ASSUME NEW r \in Rules, Evaluate(r) PROVE PassInv'
  BY <1>3, PassInvEvaluate
<1>4. ASSUME NEW r \in Rules, EvaluateFails(r) PROVE PassInv'
  BY <1>4 DEF EvaluateFails, session, PassInv, Settled, Of
<1>5. CASE StartDelivery
  BY <1>5, PassInvKept DEF StartDelivery
<1>6. CASE Deliver
  BY <1>6, PassInvDeliver
<1>7. CASE EndBatch
  BY <1>7 DEF EndBatch, PassInv
<1>8. CASE Commit
  BY <1>8 DEF Commit, PassInv
<1>9. CASE FlushFails \/ Abort
  BY <1>9 DEF FlushFails, Abort, Rollback, PassInv
<1>10. ASSUME NEW r \in Rules, NEW to \in Rule, SaveAlert(r, to) PROVE PassInv'
  BY <1>10, PassInvKept DEF SaveAlert, session, pass
<1>11. ASSUME NEW r \in Rules, DeleteAlert(r) PROVE PassInv'
  BY <1>11, PassInvKept DEF DeleteAlert, pass
<1>12. CASE UNCHANGED vars
  BY <1>12, PassInvKept DEF vars
<1> QED
  BY <1>1, <1>2, <1>3, <1>4, <1>5, <1>6, <1>7, <1>8, <1>9, <1>10, <1>11, <1>12
  DEF Next, Worker

\* After a batch has been evaluated, the remembered state of every rule that
\* could be evaluated is exactly what the batch shows.
THEOREM StateFollowsBatchAlways == Spec => []StateFollowsBatch
<1>1. Init => PassInv
  BY DEF Init, PassInv
<1>2. TypeOK /\ PassInv => StateFollowsBatch
  BY DEF StateFollowsBatch, PassInv, Settled
<1> QED
  BY <1>1, <1>2, PassInvStep, TypeCorrect, PTL DEF Spec

\* A rule that deliver_alerts read in transition mode mails nobody about a breach
\* that stood before the batch, however rules are edited between its evaluation
\* and the reading, or after it while earlier mail goes out.
THEOREM StandingIsQuietAlways == Spec => StandingIsQuiet
<1> DEFINE A == \A p \in (heard' \ heard) :
                  asRead[p[1]].mode = "transition" /\ p \in standing => FALSE
<1>1. Init => PassInv
  BY DEF Init, PassInv
<1>2. TypeOK /\ PassInv /\ [Next]_vars => [A]_vars
  <2> SUFFICES ASSUME TypeOK, PassInv, Next,
                      NEW p \in heard' \ heard,
                      asRead[p[1]].mode = "transition", p \in standing
               PROVE  FALSE
    OBVIOUS
  <2>1. Deliver
    BY DEF Next, Worker, StartPoll, StartBatch, Evaluate, EvaluateFails,
           StartDelivery, EndBatch, Commit, FlushFails, Abort, Rollback,
           SaveAlert, DeleteAlert, history
  <2> DEFINE e == Head(evaluations)
  <2>2. Settled(e)
    BY <2>1 DEF PassInv, Deliver, TypeOK
  <2>3. p \in ToNotify(e)
    BY <2>1 DEF Deliver
  <2>4. p[1] = e.rule
    BY <2>2, <2>3 DEF ToNotify, Settled
  <2>5. p \in e.fresh
    BY <2>3, <2>4 DEF ToNotify
  <2> QED
    BY <2>2, <2>5 DEF Settled
<1> QED
  BY <1>1, <1>2, PassInvStep, TypeCorrect, PTL DEF Spec, StandingIsQuiet

-----------------------------------------------------------------------------
(* Who has been told.                                                      *)

\* What anybody has heard of is in breach, and the session knows it. So what an
\* evaluation calls fresh nobody has heard of, and no two evaluations that wait
\* for delivery are of one rule.
OnceInv ==
  /\ heard \subseteq book \cap txBreaching
  /\ \A i \in 1..Len(evaluations) :
       /\ evaluations[i].fresh \subseteq evaluations[i].breaches
       /\ evaluations[i].breaches \subseteq Of(evaluations[i].rule, book)
       /\ evaluations[i].fresh \cap heard = {}
  /\ \A i, j \in 1..Len(evaluations) :
       evaluations[i].rule = evaluations[j].rule => i = j
  /\ ToldOnce

LEMMA OnceInvKept ==
  ASSUME UNCHANGED <<heard, book, txBreaching, evaluations, repeated>>, OnceInv
  PROVE  OnceInv'
BY DEF OnceInv, ToldOnce, Of

LEMMA OnceInvEvaluate ==
  ASSUME TypeOK, PassInv, OnceInv, NEW r \in Rules, Evaluate(r)
  PROVE  OnceInv'
<1> DEFINE found == Of(r, book)
           e == [rule |-> r, breaches |-> found, fresh |-> found \ txBreaching]
<1>1. /\ r \in todo
      /\ evaluations' = Append(evaluations, e)
      /\ txBreaching' = (txBreaching \ Of(r, txBreaching)) \cup found
      /\ UNCHANGED <<book, heard, repeated>>
  BY DEF Evaluate, history
<1>2. heard' \subseteq book' \cap txBreaching'
  BY <1>1 DEF OnceInv, Of
<1>3. /\ e.rule = r /\ e.fresh \subseteq e.breaches
      /\ e.breaches \subseteq Of(e.rule, book')
      /\ e.fresh \cap heard' = {}
  BY <1>1 DEF OnceInv
<1>4. \A i \in 1..Len(evaluations) : evaluations[i].rule # r
  BY <1>1 DEF PassInv, Settled, Evaluate
<1>5. e \in Evaluation /\ evaluations \in Seq(Evaluation)
  <2>1. Of(r, book) \subseteq Pairs
    BY DEF TypeOK, Of
  <2> QED
    BY <2>1 DEF TypeOK, Evaluation
<1> HIDE DEF e
<1>6. /\ Len(evaluations') = Len(evaluations) + 1
      /\ evaluations'[Len(evaluations) + 1] = e
      /\ \A i \in 1..Len(evaluations) : evaluations'[i] = evaluations[i]
      /\ Len(evaluations) \in Nat
  BY <1>1, <1>5, AppendProperties, LenProperties
<1>7. \A i \in 1..Len(evaluations') :
        /\ evaluations'[i].fresh \subseteq evaluations'[i].breaches
        /\ evaluations'[i].breaches \subseteq Of(evaluations'[i].rule, book')
        /\ evaluations'[i].fresh \cap heard' = {}
  <2> SUFFICES ASSUME NEW i \in 1..Len(evaluations')
               PROVE  /\ evaluations'[i].fresh \subseteq evaluations'[i].breaches
                      /\ evaluations'[i].breaches \subseteq Of(evaluations'[i].rule, book')
                      /\ evaluations'[i].fresh \cap heard' = {}
    OBVIOUS
  <2>1. CASE i = Len(evaluations) + 1
    BY <2>1, <1>3, <1>6
  <2>2. CASE i \in 1..Len(evaluations)
    BY <2>2, <1>1, <1>6 DEF OnceInv
  <2> QED
    BY <1>6, <2>1, <2>2
<1>8. \A i, j \in 1..Len(evaluations') :
        evaluations'[i].rule = evaluations'[j].rule => i = j
  BY <1>3, <1>4, <1>6 DEF OnceInv
<1> QED
  BY <1>1, <1>2, <1>7, <1>8 DEF OnceInv, ToldOnce

LEMMA OnceInvDeliver ==
  ASSUME TypeOK, PassInv, OnceInv, Deliver
  PROVE  OnceInv'
<1> DEFINE e == Head(evaluations)
           tell == ToNotify(e)
<1>1. /\ evaluations' = Tail(evaluations) /\ evaluations # <<>>
      /\ pc = "deliver"
      /\ UNCHANGED <<book, txBreaching>>
      /\ \/ UNCHANGED <<heard, repeated>>
         \/ /\ heard' = heard \cup tell
            /\ repeated' = IF asRead[e.rule].mode = "transition"
                           THEN repeated \cup (tell \cap heard) ELSE repeated
  BY DEF Deliver, session
<1>2. /\ 1 \in 1..Len(evaluations) /\ e = evaluations[1]
      /\ \A i \in 1..Len(evaluations') :
           /\ i + 1 \in 1..Len(evaluations) /\ i + 1 # 1
           /\ evaluations'[i] = evaluations[i + 1]
  BY <1>1 DEF TypeOK
<1>3. /\ e.fresh \subseteq e.breaches
      /\ e.breaches \subseteq Of(e.rule, book)
      /\ e.fresh \cap heard = {}
      /\ Of(e.rule, txBreaching) = Of(e.rule, book)
  BY <1>1, <1>2 DEF OnceInv, PassInv, Settled
<1> HIDE DEF e
<1>4. tell \subseteq e.breaches /\ (asRead[e.rule].mode = "transition" => tell = e.fresh)
  BY <1>3 DEF ToNotify
<1> HIDE DEF tell
<1>5. heard' \subseteq book' \cap txBreaching'
  BY <1>1, <1>3, <1>4 DEF OnceInv, Of
<1>6. repeated' = {}
  BY <1>1, <1>3, <1>4 DEF OnceInv, ToldOnce
<1>7. ASSUME NEW i \in 1..Len(evaluations')
      PROVE  /\ evaluations'[i].fresh \subseteq evaluations'[i].breaches
             /\ evaluations'[i].breaches \subseteq Of(evaluations'[i].rule, book')
             /\ evaluations'[i].fresh \cap heard' = {}
  <2> DEFINE d == evaluations[i + 1]
  <2>1. /\ d.fresh \subseteq d.breaches
        /\ d.breaches \subseteq Of(d.rule, book)
        /\ d.fresh \cap heard = {}
        /\ d.rule # e.rule
    BY <1>2 DEF OnceInv
  <2>2. d.fresh \cap tell = {}
    BY <2>1, <1>3, <1>4 DEF Of
  <2> QED
    BY <1>1, <1>2, <2>1, <2>2
<1>8. \A i, j \in 1..Len(evaluations') :
        evaluations'[i].rule = evaluations'[j].rule => i = j
  <2> SUFFICES ASSUME NEW i \in 1..Len(evaluations'), NEW j \in 1..Len(evaluations'),
                      evaluations'[i].rule = evaluations'[j].rule
               PROVE  i = j
    OBVIOUS
  <2>1. i + 1 = j + 1
    BY <1>2 DEF OnceInv
  <2> QED
    BY <2>1
<1> QED
  BY <1>5, <1>6, <1>7, <1>8 DEF OnceInv, ToldOnce

LEMMA OnceInvStep ==
  ASSUME TypeOK, PassInv, OnceInv, [Next]_vars
  PROVE  OnceInv'
<1>1. CASE StartPoll \/ EndBatch \/ Commit
  BY <1>1, OnceInvKept DEF StartPoll, EndBatch, Commit, session, pass, history
<1>2. ASSUME NEW found \in SUBSET Pairs, StartBatch(found) PROVE OnceInv'
  BY <1>2 DEF StartBatch, OnceInv, ToldOnce
<1>3. ASSUME NEW r \in Rules, Evaluate(r) PROVE OnceInv'
  BY <1>3, OnceInvEvaluate
<1>4. ASSUME NEW r \in Rules, EvaluateFails(r) PROVE OnceInv'
  BY <1>4, OnceInvKept DEF EvaluateFails, session
<1>5. CASE StartDelivery
  BY <1>5, OnceInvKept DEF StartDelivery, history
<1>6. CASE Deliver
  BY <1>6, OnceInvDeliver
<1>7. CASE FlushFails \/ Abort
  <2>1. /\ heard' = heard \cap breaching /\ txBreaching' = breaching
        /\ evaluations' = <<>>
        /\ UNCHANGED <<book, repeated>>
    BY <1>7 DEF FlushFails, Abort, Rollback
  <2>2. 1..Len(evaluations') = {}
    BY <2>1
  <2> QED
    BY <2>1, <2>2 DEF OnceInv, ToldOnce
<1>8. ASSUME NEW r \in Rules, NEW to \in Rule, SaveAlert(r, to) PROVE OnceInv'
  BY <1>8, OnceInvKept DEF SaveAlert, session, pass
<1>9. ASSUME NEW r \in Rules, DeleteAlert(r) PROVE OnceInv'
  BY <1>9, OnceInvKept DEF DeleteAlert, pass, history
<1>10. CASE UNCHANGED vars
  BY <1>10, OnceInvKept DEF vars
<1> QED
  BY <1>1, <1>2, <1>3, <1>4, <1>5, <1>6, <1>7, <1>8, <1>9, <1>10 DEF Next, Worker

\* Nobody is mailed twice about one uninterrupted breach by a rule in transition
\* mode, whatever is edited, sent in vain, not evaluated or deleted, and though
\* polls be rolled back (whose own mail the worker has forgotten).
THEOREM ToldOnceAlways == Spec => []ToldOnce
<1>1. Init => PassInv /\ OnceInv
  BY DEF Init, PassInv, OnceInv, ToldOnce
<1>2. OnceInv => ToldOnce
  BY DEF OnceInv
<1> QED
  BY <1>1, <1>2, PassInvStep, OnceInvStep, TypeCorrect, PTL DEF Spec

\* A rule of which nothing failed, and that was never switched off.
Sound(r) == Present(r) /\ r \notin trouble

\* A pair that stands is one somebody has heard of, or will when the evaluation
\* that found it is delivered, or one whose rule has still to find it cleared.
Answered(p) ==
  \/ p \in heard
  \/ pc = "evaluate" /\ p[1] \in todo /\ p \notin book
  \/ /\ pc \in {"evaluate", "deliver"}
     /\ \E i \in 1..Len(evaluations) : p \in evaluations[i].fresh

\* The worker has not met a rule that is not there yet, so a rule it has met that
\* is gone stays gone.
ToldInv ==
  /\ \A r \in Rules \ trouble : rules[r].active
  /\ \A r \in Rules : rules[r].status = "new" =>
       r \notin todo \cup judged /\ Of(r, txBreaching \cup breaching) = {}
  /\ pc = "deliver" => todo = {}
  /\ \A p \in txBreaching : Sound(p[1]) => Answered(p)
  /\ \A p \in book : p[1] \in judged /\ Sound(p[1]) => p \in txBreaching

\* A step that changes the rules at most: none that was met becomes sound.
LEMMA ToldInvKept ==
  ASSUME UNCHANGED <<pc, todo, txBreaching, breaching, book, judged, heard,
                     evaluations>>,
         \A r \in Rules : rules[r].status # "new" /\ Sound(r)' => Sound(r),
         \A r \in Rules : rules'[r].status = "new" => rules[r].status = "new",
         \A r \in Rules \ trouble' : rules'[r].active,
         TypeOK, ToldInv
  PROVE  ToldInv'
<1>1. /\ \A p \in txBreaching : p[1] \in Rules /\ rules[p[1]].status # "new"
      /\ \A r \in judged : r \in Rules /\ rules[r].status # "new"
  BY DEF ToldInv, TypeOK, Pairs, Of
<1>2. \A p : Answered(p) => Answered(p)'
  BY DEF Answered
<1>3. \A p \in txBreaching' : Sound(p[1])' => Answered(p)'
  BY <1>1, <1>2 DEF ToldInv
<1>4. \A p \in book' : p[1] \in judged' /\ Sound(p[1])' => p \in txBreaching'
  BY <1>1 DEF ToldInv
<1>5. \A r \in Rules : rules'[r].status = "new" =>
        r \notin todo' \cup judged' /\ Of(r, txBreaching' \cup breaching') = {}
  BY DEF ToldInv
<1> QED
  BY <1>3, <1>4, <1>5 DEF ToldInv, Of

LEMMA ToldInvStartBatch ==
  ASSUME NEW found \in SUBSET Pairs, StartBatch(found), TypeOK, ToldInv
  PROVE  ToldInv'
<1>1. /\ pc = "poll" /\ pc' = "evaluate"
      /\ book' = found /\ heard' = heard \cap found /\ judged' = {}
      /\ todo' = {r \in Rules : Present(r) /\ rules[r].active}
      /\ UNCHANGED <<rules, txBreaching, breaching, trouble>>
  BY DEF StartBatch, committed
<1>2. \A p \in txBreaching : p[1] \in Rules /\ (Sound(p[1]) => p \in heard)
  BY <1>1 DEF ToldInv, Answered, TypeOK, Pairs
<1>3. \A r \in Rules : Sound(r) => r \in todo'
  BY <1>1 DEF ToldInv, Sound
<1>4. \A p \in txBreaching' : Sound(p[1])' => Answered(p)'
  BY <1>1, <1>2, <1>3 DEF Answered, Sound, Present
<1>5. \A r \in todo' : rules'[r].status # "new"
  BY <1>1 DEF Present
<1> QED
  BY <1>1, <1>4, <1>5 DEF ToldInv, Of

LEMMA ToldInvEvaluate ==
  ASSUME TypeOK, ToldInv, NEW r \in Rules, Evaluate(r)
  PROVE  ToldInv'
<1> DEFINE found == Of(r, book)
           e == [rule |-> r, breaches |-> found, fresh |-> found \ txBreaching]
<1>1. /\ r \in todo /\ todo' = todo \ {r} /\ judged' = judged \cup {r}
      /\ evaluations' = Append(evaluations, e)
      /\ txBreaching' = (txBreaching \ Of(r, txBreaching)) \cup found
      /\ pc = "evaluate"
      /\ UNCHANGED <<book, heard, rules, pc, trouble, breaching>>
  BY DEF Evaluate, history, committed
<1>2. e \in Evaluation /\ evaluations \in Seq(Evaluation)
  <2>1. Of(r, book) \subseteq Pairs
    BY DEF TypeOK, Of
  <2> QED
    BY <2>1 DEF TypeOK, Evaluation
<1>3. e.fresh = found \ txBreaching
  OBVIOUS
<1> HIDE DEF e
<1>4. /\ Len(evaluations') = Len(evaluations) + 1
      /\ evaluations'[Len(evaluations) + 1] = e
      /\ \A i \in 1..Len(evaluations) : evaluations'[i] = evaluations[i]
      /\ Len(evaluations) \in Nat
  BY <1>1, <1>2, AppendProperties, LenProperties
<1>5. ASSUME NEW p, \E i \in 1..Len(evaluations) : p \in evaluations[i].fresh
      PROVE  \E i \in 1..Len(evaluations') : p \in evaluations'[i].fresh
  BY <1>4, <1>5
<1>6. ASSUME NEW p \in txBreaching', Sound(p[1])' PROVE Answered(p)'
  <2>1. Sound(p[1])
    BY <1>1, <1>6 DEF Sound, Present
  <2>2. CASE p \in txBreaching
    <3>1. Answered(p)
      BY <2>1, <2>2 DEF ToldInv
    <3>2. p[1] = r => p \in book
      BY <1>1, <1>6 DEF Of
    <3> QED
      BY <3>1, <3>2, <1>1, <1>5 DEF Answered
  <2>3. CASE p \notin txBreaching
    <3>1. p \in evaluations'[Len(evaluations) + 1].fresh
      BY <2>3, <1>1, <1>3, <1>4, <1>6
    <3> QED
      BY <3>1, <1>1, <1>4 DEF Answered
  <2> QED
    BY <2>2, <2>3
<1>7. ASSUME NEW p \in book', p[1] \in judged', Sound(p[1])' PROVE p \in txBreaching'
  <2>1. CASE p[1] = r
    BY <2>1, <1>1, <1>7 DEF Of
  <2>2. CASE p[1] # r
    <3>1. p \in txBreaching
      BY <2>2, <1>1, <1>7 DEF ToldInv, Sound, Present
    <3> QED
      BY <2>2, <3>1, <1>1 DEF Of
  <2> QED
    BY <2>1, <2>2
<1>8. \A q \in Rules : rules'[q].status = "new" =>
        q \notin todo' \cup judged' /\ Of(q, txBreaching' \cup breaching') = {}
  <2>1. rules[r].status # "new"
    BY <1>1 DEF ToldInv
  <2> QED
    BY <2>1, <1>1 DEF ToldInv, Of
<1> QED
  BY <1>1, <1>6, <1>7, <1>8 DEF ToldInv

LEMMA ToldInvDeliver ==
  ASSUME TypeOK, PassInv, OnceInv, ToldInv, Deliver
  PROVE  ToldInv'
<1> DEFINE e == Head(evaluations)
           tell == ToNotify(e)
<1>1. /\ evaluations' = Tail(evaluations) /\ evaluations # <<>>
      /\ pc = "deliver" /\ todo = {}
      /\ UNCHANGED <<rules, pc, todo, book, judged, txBreaching, breaching>>
  BY DEF Deliver, session, committed, ToldInv
<1>2. /\ 1 \in 1..Len(evaluations) /\ e = evaluations[1] /\ e \in Evaluation
      /\ \A i \in 1..Len(evaluations) :
           i # 1 => i - 1 \in 1..Len(evaluations') /\ evaluations'[i - 1] = evaluations[i]
  BY <1>1 DEF TypeOK
<1>3. \/ heard' = heard \cup tell /\ trouble' = trouble
      \/ heard' = heard /\ trouble' = trouble \cup {e.rule}
  BY DEF Deliver
<1>4. \A p \in e.fresh : p[1] = e.rule
  BY <1>1, <1>2 DEF PassInv, Settled
<1> HIDE DEF e
<1>5. e.fresh \subseteq tell
  BY <1>2 DEF OnceInv, ToNotify
<1> HIDE DEF tell
<1>6. \A r : Sound(r)' => Sound(r)
  BY <1>1, <1>3 DEF Sound, Present
<1>7. ASSUME NEW p \in txBreaching', Sound(p[1])' PROVE Answered(p)'
  <2>1. p \in heard \/ \E i \in 1..Len(evaluations) : p \in evaluations[i].fresh
    BY <1>1, <1>6, <1>7 DEF ToldInv, Answered
  <2>2. CASE p \in heard
    BY <2>2, <1>3 DEF Answered
  <2>3. ASSUME NEW i \in 1..Len(evaluations), p \in evaluations[i].fresh
        PROVE  Answered(p)'
    <3>1. CASE i = 1
      BY <2>3, <3>1, <1>2, <1>3, <1>4, <1>5, <1>7 DEF Answered, Sound
    <3>2. CASE i # 1
      BY <2>3, <3>2, <1>1, <1>2 DEF Answered
    <3> QED
      BY <3>1, <3>2
  <2> QED
    BY <2>1, <2>2, <2>3
<1>8. \A p \in book' : p[1] \in judged' /\ Sound(p[1])' => p \in txBreaching'
  BY <1>1, <1>6 DEF ToldInv
<1>9. \A r \in Rules \ trouble' : rules'[r].active
  BY <1>1, <1>3 DEF ToldInv
<1> QED
  BY <1>1, <1>7, <1>8, <1>9 DEF ToldInv

LEMMA ToldInvRollback ==
  ASSUME TypeOK, ToldInv, Rollback
  PROVE  ToldInv'
<1>1. /\ txBreaching' = breaching /\ todo' = {} /\ pc' = "idle"
      /\ trouble' = trouble \cup {r \in Rules : Present(r)}
      /\ UNCHANGED <<rules, breaching, book, judged>>
  BY DEF Rollback, committed
<1>2. \A r \in Rules : ~Sound(r)'
  BY <1>1 DEF Sound, Present
<1>3. (\A p \in txBreaching' : p[1] \in Rules) /\ (\A p \in book' : p[1] \in Rules)
  BY <1>1 DEF TypeOK, Pairs
<1>4. \A r \in Rules : rules'[r].status = "new" =>
        r \notin todo' \cup judged' /\ Of(r, txBreaching' \cup breaching') = {}
  BY <1>1 DEF ToldInv, Of
<1>5. \A r \in Rules \ trouble' : rules'[r].active
  BY <1>1 DEF ToldInv
<1> QED
  BY <1>1, <1>2, <1>3, <1>4, <1>5 DEF ToldInv

LEMMA ToldInvStep ==
  ASSUME TypeOK, PassInv, OnceInv, ToldInv, [Next]_vars
  PROVE  ToldInv'
<1>1. CASE StartPoll \/ Commit
  BY <1>1 DEF StartPoll, Commit, committed, session, pass, history, ToldInv,
              Answered, Sound, Present, Of
<1>2. ASSUME NEW found \in SUBSET Pairs, StartBatch(found) PROVE ToldInv'
  BY <1>2, ToldInvStartBatch
<1>3. ASSUME NEW r \in Rules, Evaluate(r) PROVE ToldInv'
  BY <1>3, ToldInvEvaluate
<1>4. ASSUME NEW r \in Rules, EvaluateFails(r) PROVE ToldInv'
  <2>1. /\ todo' = todo \ {r} /\ trouble' = trouble \cup {r}
        /\ UNCHANGED <<rules, txBreaching, breaching, pc, book, judged, heard,
                       evaluations>>
    BY <1>4 DEF EvaluateFails, committed, session
  <2>2. \A p : Sound(p[1])' => Sound(p[1]) /\ (Answered(p) => Answered(p)')
    BY <2>1 DEF Sound, Present, Answered
  <2> QED
    BY <2>1, <2>2, <1>4 DEF ToldInv, EvaluateFails
<1>5. CASE StartDelivery
  BY <1>5 DEF StartDelivery, committed, history, ToldInv, Answered, Sound,
              Present, Of
<1>6. CASE Deliver
  BY <1>6, ToldInvDeliver
<1>7. CASE EndBatch
  <2>1. /\ evaluations = <<>> /\ pc = "deliver" /\ pc' = "poll" /\ todo = {}
        /\ UNCHANGED <<rules, txBreaching, breaching, todo, book, judged, heard,
                       trouble>>
    BY <1>7 DEF EndBatch, committed, session, history, ToldInv
  <2>2. Len(evaluations) = 0
    BY <2>1
  <2>3. \A p \in txBreaching : Sound(p[1]) => p \in heard
    BY <2>1, <2>2 DEF ToldInv, Answered
  <2> QED
    BY <2>1, <2>3 DEF ToldInv, Answered, Sound, Present, Of
<1>8. CASE FlushFails \/ Abort
  BY <1>8, ToldInvRollback DEF FlushFails, Abort
<1>9. ASSUME NEW r \in Rules, NEW to \in Rule, SaveAlert(r, to) PROVE ToldInv'
  <2>1. \A q \in Rules \ trouble' : rules'[q].active
    BY <1>9 DEF SaveAlert, ToldInv, TypeOK
  <2>2. \A q \in Rules : q # r => rules'[q] = rules[q]
    BY <1>9 DEF SaveAlert, TypeOK
  <2>3. /\ rules[r].status \in {"new", "saved"} /\ rules'[r].status = "saved"
        /\ trouble \subseteq trouble'
    BY <1>9 DEF SaveAlert, TypeOK, Rule
  <2>4. \A q \in Rules : rules[q].status # "new" /\ Sound(q)' => Sound(q)
    BY <2>2, <2>3 DEF Sound, Present
  <2>5. \A q \in Rules : rules'[q].status = "new" => rules[q].status = "new"
    BY <2>2, <2>3
  <2> QED
    BY <1>9, <2>1, <2>4, <2>5, ToldInvKept DEF SaveAlert, committed, session, pass
<1>10. ASSUME NEW r \in Rules, DeleteAlert(r) PROVE ToldInv'
  <2>1. /\ \A q \in Rules : q # r => rules'[q] = rules[q]
        /\ rules'[r].status = "deleted" /\ rules'[r].active = rules[r].active
        /\ UNCHANGED trouble
    BY <1>10 DEF DeleteAlert, TypeOK, Rule, history
  <2>2. \A q \in Rules : Sound(q)' => Sound(q)
    BY <2>1 DEF Sound, Present
  <2>3. \A q \in Rules \ trouble' : rules'[q].active
    BY <2>1 DEF ToldInv
  <2> QED
    BY <1>10, <2>1, <2>2, <2>3, ToldInvKept
    DEF DeleteAlert, committed, pass, history
<1>11. CASE UNCHANGED vars
  BY <1>11, ToldInvKept DEF vars, ToldInv, Sound, Present
<1> QED
  BY <1>1, <1>2, <1>3, <1>4, <1>5, <1>6, <1>7, <1>8, <1>9, <1>10, <1>11
  DEF Next, Worker

\* When a poll is over, each breach a rule found in the batch it ended with has
\* been mailed since it came about, however rules are edited and whatever becomes
\* of the others: missed are at most those of rules that were off, failed or had
\* a poll rolled back under them.
THEOREM BreachIsToldAlways == Spec => []BreachIsTold
<1>1. Init => PassInv /\ OnceInv /\ ToldInv
  BY DEF Init, PassInv, OnceInv, ToldOnce, ToldInv, Of
<1>2. TypeOK /\ PassInv /\ OnceInv /\ ToldInv /\ [Next]_vars
        => OnceInv' /\ ToldInv'
  BY OnceInvStep, ToldInvStep
<1>3. ToldInv => BreachIsTold
  BY DEF ToldInv, Answered, Sound, BreachIsTold
<1> QED
  BY <1>1, <1>2, <1>3, PassInvStep, TypeCorrect, PTL DEF Spec

=============================================================================
