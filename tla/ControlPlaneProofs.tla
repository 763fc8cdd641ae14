------------------------- MODULE ControlPlaneProofs -------------------------
(***************************************************************************)
(* What the control database keeps true for any number of firms, people,   *)
(* keys, views and requests at once.                                       *)
(***************************************************************************)
EXTENDS ControlPlane, SequenceTheorems, TLAPS

\* A key that was minted belongs to a user there is.
KeysHaveUsers ==
  \A k \in Keys : keys[k].state # "unused" =>
    keys[k].email \in Emails /\ users[keys[k].email] \in User

-----------------------------------------------------------------------------
(* What a request may do.                                                  *)

LEMMA UserFacts ==
  /\ NoUser \notin User
  /\ \A u \in User : u.firm \in Firms \cup {NoFirm} /\ u.role \in Roles
BY DEF NoUser, User, Roles

\* What every request has been through: its key's user, its firm, its rights.
LEMMA BeginFacts ==
  ASSUME TypeOK, KeysHaveUsers,
         NEW t \in Threads, NEW k \in Keys, NEW requested, NEW op, NEW name,
         NEW view, NEW seen, Begin(t, k, requested, op, name, view, seen)
  PROVE  /\ keys[k].email \in Emails
         /\ users[keys[k].email] \in User
         /\ \E f \in Firms :
              /\ MayRead(users[keys[k].email], f)
              /\ op # "save_view" => MayAdminister(users[keys[k].email], f)
              /\ serves \in {f, NoFirm}
              /\ req' = [req EXCEPT ![t] =
                          [op |-> op, email |-> keys[k].email, key |-> k,
                           firm |-> f, name |-> name, view |-> view,
                           seen |-> seen[f]]]
<1>1. keys[k].email \in Emails /\ users[keys[k].email] \in User
  BY DEF Begin, KeysHaveUsers
<1> DEFINE f == FirmFor(users[keys[k].email], requested)
<1>2. /\ f # NoFirm
      /\ op # "save_view" => MayAdminister(users[keys[k].email], f)
      /\ req' = [req EXCEPT ![t] =
                  [op |-> op, email |-> keys[k].email, key |-> k,
                   firm |-> f, name |-> name, view |-> view, seen |-> seen[f]]]
  BY DEF Begin
<1>3. /\ f \in Firms
      /\ MayRead(users[keys[k].email], f)
      /\ serves \in {f, NoFirm}
  BY <1>2 DEF FirmFor
<1> HIDE DEF f
<1> QED
  BY <1>1, <1>2, <1>3

-----------------------------------------------------------------------------
(* Type correctness.                                                       *)

\* The versions of the firm that t's request is for, before and after a step.
Before(t) == profiles[req[t].firm]
After(t)  == profiles'[req[t].firm]

\* A version is added after the ones there were, which are retired.
LEMMA VersionAdded ==
  ASSUME TypeOK, NEW t \in Threads, req[t] # Idle, ProfileWritten(t)
  PROVE  /\ req[t].firm \in Firms
         /\ Len(Before(t)) \in Nat
         /\ DOMAIN Before(t) = 1..Len(Before(t))
         /\ DOMAIN After(t) = 1..(Len(Before(t)) + 1)
         /\ Len(After(t)) = Len(Before(t)) + 1
         /\ After(t)[Len(Before(t)) + 1].active = TRUE
         /\ After(t)[Len(Before(t)) + 1].by = req[t].email
         /\ \A i \in 1..Len(Before(t)) : /\ After(t)[i].active = FALSE
                                         /\ After(t)[i].by = Before(t)[i].by
         /\ profiles' \in [Firms -> Seq(Version)]
         /\ \A g \in Firms \ {req[t].firm} : profiles'[g] = profiles[g]
<1>1. req[t] \in Request /\ req[t].firm \in Firms /\ req[t].email \in Emails
  BY DEF TypeOK, Request
<1> DEFINE p == profiles[req[t].firm]
           old == [i \in 1..Len(p) |-> [p[i] EXCEPT !.active = FALSE]]
           new == [active |-> TRUE, by |-> req[t].email]
<1>2. p \in Seq(Version) /\ Len(p) \in Nat /\ DOMAIN p = 1..Len(p)
  BY <1>1, LenProperties DEF TypeOK, Version
<1>3. \A i \in 1..Len(p) : /\ p[i] \in Version
                           /\ old[i] = [active |-> FALSE, by |-> p[i].by]
                           /\ old[i] \in Version
  <2> TAKE i \in 1..Len(p)
  <2>1. p[i] \in Version
    BY <1>2, ElementOfSeq
  <2>2. old[i] = [p[i] EXCEPT !.active = FALSE]
    OBVIOUS
  <2> HIDE DEF p, old
  <2> QED
    BY <2>1, <2>2 DEF Version
<1>4. old \in Seq(Version) /\ Len(old) = Len(p)
  <2> HIDE DEF p
  <2>1. old \in [1..Len(p) -> Version]
    BY <1>3
  <2> HIDE DEF old
  <2> QED
    BY <1>2, <2>1
<1>5. new \in Version
  BY <1>1 DEF Version
<1>6. profiles' = [profiles EXCEPT ![req[t].firm] = Append(old, new)]
  BY <1>1 DEF ProfileWritten
<1> HIDE DEF p, old, new
<1>7. /\ Append(old, new) \in Seq(Version)
      /\ Len(Append(old, new)) = Len(p) + 1
      /\ DOMAIN Append(old, new) = 1..(Len(p) + 1)
      /\ Append(old, new)[Len(p) + 1] = new
      /\ \A i \in 1..Len(p) : Append(old, new)[i] = old[i]
  BY <1>2, <1>4, <1>5
<1>8. profiles \in [Firms -> Seq(Version)]
  BY DEF TypeOK, Version
<1>9. new.active = TRUE /\ new.by = req[t].email
  BY DEF new
<1>10. \A i \in 1..Len(p) : old[i].active = FALSE /\ old[i].by = p[i].by
  <2> TAKE i \in 1..Len(p)
  <2>1. old[i] = [active |-> FALSE, by |-> p[i].by]
    BY <1>3
  <2>2. old[i].active = FALSE
    BY <2>1
  <2>3. old[i].by = p[i].by
    BY <2>1
  <2> QED
    BY <2>2, <2>3
<1>11. Before(t) = p /\ After(t) = Append(old, new)
  BY <1>1, <1>6, <1>8 DEF Before, After, p
<1>12. /\ profiles' \in [Firms -> Seq(Version)]
       /\ \A g \in Firms \ {req[t].firm} : profiles'[g] = profiles[g]
  BY <1>1, <1>6, <1>7, <1>8
<1> QED
  BY <1>1, <1>2, <1>7, <1>9, <1>10, <1>11, <1>12

TypeInv == TypeOK /\ KeysHaveUsers

LEMMA TypeStep == TypeInv /\ [Next]_vars => TypeInv'
<1> SUFFICES ASSUME TypeOK, KeysHaveUsers, [Next]_vars PROVE TypeInv'
  BY DEF TypeInv
<1> USE ControlAssumption DEF TypeInv
<1>1. CASE UNCHANGED vars
  BY <1>1 DEF vars, TypeOK, KeysHaveUsers
<1>2. ASSUME NEW e \in Emails, NEW role \in Roles, NEW f \in Firms,
             Bootstrap(e, role, f)
      PROVE  TypeInv'
  <2> DEFINE u == [role |-> role,
                   firm |-> IF role = "platform_admin" THEN NoFirm ELSE f]
  <2>1. u \in User
    BY DEF User
  <2>2. CASE users[e] = NoUser
    <3>1. users' = [users EXCEPT ![e] = u] /\ Mint(e)
      BY <1>2, <2>2 DEF Bootstrap
    <3>2. PICK k \in Keys :
            keys' = [keys EXCEPT ![k] = [email |-> e, state |-> "active"]]
      BY <3>1 DEF Mint
    <3> HIDE DEF u
    <3>3. users' \in [Emails -> User \cup {NoUser}]
      BY <2>1, <3>1 DEF TypeOK
    <3>4. keys' \in [Keys -> Key]
      BY <3>2 DEF TypeOK, Key
    <3>5. KeysHaveUsers'
      BY <2>1, <2>2, <3>1, <3>2, UserFacts DEF KeysHaveUsers, TypeOK
    <3> QED
      BY <1>2, <3>3, <3>4, <3>5 DEF Bootstrap, TypeOK, rows
  <2>3. CASE users[e] # NoUser
    BY <1>2, <2>3 DEF Bootstrap, TypeOK, rows, KeysHaveUsers
  <2> QED
    BY <2>2, <2>3
<1>3. ASSUME NEW e \in Emails, IssueKey(e)
      PROVE  TypeInv'
  <2>1. PICK k \in Keys :
          keys' = [keys EXCEPT ![k] = [email |-> e, state |-> "active"]]
    BY <1>3 DEF IssueKey, Mint
  <2>2. users[e] \in User
    BY <1>3 DEF IssueKey, TypeOK
  <2>3. keys' \in [Keys -> Key]
    BY <2>1 DEF TypeOK, Key
  <2>4. KeysHaveUsers'
    BY <1>3, <2>1, <2>2 DEF IssueKey, KeysHaveUsers, TypeOK
  <2> QED
    BY <1>3, <2>3, <2>4 DEF IssueKey, TypeOK, rows
<1>4. ASSUME NEW k \in Keys, RevokeKey(k)
      PROVE  TypeInv'
  <2>1. keys' \in [Keys -> Key]
    BY <1>4 DEF RevokeKey, TypeOK, Key
  <2>2. KeysHaveUsers'
    BY <1>4 DEF RevokeKey, KeysHaveUsers, TypeOK, Key
  <2> QED
    BY <1>4, <2>1, <2>2 DEF RevokeKey, TypeOK, rows
<1>5. ASSUME NEW t \in Threads, NEW k \in Keys, NEW requested, NEW op \in Ops,
             NEW name \in ViewNames \cup {Nobody}, NEW view \in 0..MaxViews,
             NEW seen \in [Firms -> Nat],
             op = "save_view" => name \in ViewNames,
             Begin(t, k, requested, op, name, view, seen)
      PROVE  TypeInv'
  <2>1. PICK f \in Firms :
          req' = [req EXCEPT ![t] =
                   [op |-> op, email |-> keys[k].email, key |-> k, firm |-> f,
                    name |-> name, view |-> view, seen |-> seen[f]]]
    BY <1>5, BeginFacts
  <2>2. keys[k].email \in Emails
    BY <1>5, BeginFacts
  <2> DEFINE r == [op |-> op, email |-> keys[k].email, key |-> k, firm |-> f,
                   name |-> name, view |-> view, seen |-> seen[f]]
  <2>a. seen[f] \in Nat
    BY <1>5
  <2>b. r \in [op : Ops, email : Emails, key : Keys, firm : Firms,
               name : ViewNames \cup {Nobody}, view : 0..MaxViews, seen : Nat]
    BY <2>2, <2>a
  <2>c. r \in Request
    BY <1>5, <2>b DEF Request
  <2> HIDE DEF r
  <2>3. req' \in [Threads -> Request \cup {Idle}]
    BY <2>1, <2>c DEF TypeOK, r
  <2> QED
    BY <1>5, <2>3 DEF Begin, TypeOK, KeysHaveUsers, rows
<1>6. ASSUME NEW t \in Threads, NEW k \in Keys, NEW requested,
             \/ BeginSaveProfile(t, k, requested)
             \/ \E n \in ViewNames : BeginSaveView(t, k, requested, n)
             \/ \E id \in 1..MaxViews : \/ BeginDeleteView(t, k, requested, id)
                                        \/ BeginSaveReport(t, k, requested, id)
      PROVE  TypeInv'
  <2>1. \A f \in Firms : Len(profiles[f]) \in Nat
    BY LenProperties DEF TypeOK
  <2>2. 0 \in 0..MaxViews /\ (0..MaxViews) \subseteq Nat
    OBVIOUS
  <2>3. CASE BeginSaveProfile(t, k, requested)
    <3> DEFINE seen == [f \in Firms |-> Len(profiles[f])]
    <3>1. seen \in [Firms -> Nat]
      BY <2>1
    <3>2. Begin(t, k, requested, "save_profile", Nobody, 0, seen)
      BY <2>3 DEF BeginSaveProfile
    <3> HIDE DEF seen
    <3> QED
      BY <1>5, <2>2, <3>1, <3>2 DEF Ops
  <2>4. ASSUME NEW n \in ViewNames, BeginSaveView(t, k, requested, n)
        PROVE  TypeInv'
    BY <1>5, <2>2, <2>4 DEF BeginSaveView, Ops
  <2>5. ASSUME NEW id \in 1..MaxViews, BeginDeleteView(t, k, requested, id)
        PROVE  TypeInv'
    BY <1>5, <2>2, <2>5 DEF BeginDeleteView, Ops
  <2>6. ASSUME NEW id \in 1..MaxViews, BeginSaveReport(t, k, requested, id)
        PROVE  TypeInv'
    <3> DEFINE seen == [f \in Firms |-> IF reports[f] = 0 THEN 0 ELSE 1]
    <3>1. seen \in [Firms -> Nat]
      OBVIOUS
    <3>2. Begin(t, k, requested, "save_report", Nobody, id, seen)
      BY <2>6 DEF BeginSaveReport
    <3> HIDE DEF seen
    <3> QED
      BY <1>5, <2>2, <3>1, <3>2 DEF Ops
  <2> QED
    BY <1>6, <2>3, <2>4, <2>5, <2>6
<1>7. ASSUME NEW t \in Threads, Commit(t)
      PROVE  TypeInv'
  <2>1. /\ req[t] # Idle /\ req[t] \in Request
        /\ req[t].email \in Emails /\ req[t].firm \in Firms
        /\ req[t].view \in 0..MaxViews /\ req[t].seen \in Nat
        /\ req[t].name \in ViewNames \cup {Nobody}
    BY <1>7 DEF Commit, TypeOK, Request
  <2>2. /\ req' \in [Threads -> Request \cup {Idle}]
        /\ UNCHANGED <<serves, firms, users, keys>>
    BY <1>7 DEF Commit, End, TypeOK
  <2>3. ASSUME NEW action \in {"profile.save", "report.save"},
               NEW target \in Nat, Audited(t, action, target)
        PROVE  audit' \subseteq Entry
    BY <2>1, <2>3 DEF Audited, Entry, TypeOK
  <2>4. CASE ProfileWritten(t)
    <3>1. audit' \subseteq Entry
      BY <2>1, <2>3, <2>4 DEF ProfileWritten
    <3>2. profiles' \in [Firms -> Seq(Version)]
      BY <2>1, <2>4, VersionAdded
    <3> QED
      BY <2>2, <2>4, <3>1, <3>2
      DEF ProfileWritten, TypeOK, Version, KeysHaveUsers
  <2>5. CASE ViewWritten(t)
    <3>1. req[t].seen = 0 => req[t].name \in ViewNames
      BY <2>1, <2>5 DEF ViewWritten, Request
    <3>2. views' \subseteq View /\ lastView' \in 0..MaxViews
      BY <2>1, <2>5, <3>1 DEF ViewWritten, View, TypeOK
    <3> QED
      BY <2>2, <2>5, <3>2 DEF ViewWritten, TypeOK, KeysHaveUsers
  <2>6. CASE ViewDeleted(t)
    BY <2>2, <2>6 DEF ViewDeleted, TypeOK, KeysHaveUsers
  <2>7. CASE ReportWritten(t)
    <3>1. audit' \subseteq Entry
      BY <2>1, <2>3, <2>7 DEF ReportWritten
    <3> QED
      BY <2>1, <2>2, <2>7, <3>1 DEF ReportWritten, TypeOK, KeysHaveUsers
  <2> QED
    BY <1>7, <2>4, <2>5, <2>6, <2>7 DEF Commit, Written
<1>8. ASSUME NEW t \in Threads, Rollback(t)
      PROVE  TypeInv'
  BY <1>8 DEF Rollback, End, TypeOK, rows, KeysHaveUsers
<1> QED
  BY <1>1, <1>2, <1>3, <1>4, <1>6, <1>7, <1>8 DEF Next

\* Every table keeps its type, and every key that was minted has its user.
THEOREM TypeCorrect == Spec => [](TypeOK /\ KeysHaveUsers)
<1>1. Init => TypeInv
  BY ControlAssumption, EmptySeq
  DEF Init, TypeInv, TypeOK, KeysHaveUsers, Key, Idle
<1> QED
  BY <1>1, TypeStep, PTL DEF Spec, TypeInv

-----------------------------------------------------------------------------
(* What a step changes.                                                    *)

\* Only a commit writes a row; the firm a process serves stays.
LEMMA WhoWrites ==
  ASSUME [Next]_vars
  PROVE  /\ serves' = serves
         /\ (\E t \in Threads : Commit(t)) \/ UNCHANGED rows
<1> USE DEF rows
<1>1. ASSUME NEW t, NEW k, NEW requested, NEW op, NEW name, NEW view, NEW seen,
             Begin(t, k, requested, op, name, view, seen)
      PROVE  UNCHANGED <<serves, rows>>
  BY <1>1 DEF Begin
<1>2. CASE UNCHANGED vars
  BY <1>2 DEF vars
<1>3. ASSUME NEW t \in Threads, Commit(t)
      PROVE  serves' = serves
  BY <1>3 DEF Commit, End
<1>4. ASSUME NEW t \in Threads, NEW k \in Keys, NEW f \in Requested,
             \/ BeginSaveProfile(t, k, f)
             \/ \E n \in ViewNames : BeginSaveView(t, k, f, n)
             \/ \E id \in 1..MaxViews :
                  BeginDeleteView(t, k, f, id) \/ BeginSaveReport(t, k, f, id)
      PROVE  UNCHANGED <<serves, rows>>
  BY <1>1, <1>4
  DEF BeginSaveProfile, BeginSaveView, BeginDeleteView, BeginSaveReport
<1> QED
  BY <1>2, <1>3, <1>4
  DEF Next, Bootstrap, IssueKey, RevokeKey, Rollback, End

\* A user, once there, stays who they are.
LEMMA UsersStay ==
  ASSUME [Next]_vars, TypeOK, NEW e \in Emails, users[e] # NoUser
  PROVE  users'[e] = users[e]
<1>1. ASSUME NEW t, NEW k, NEW requested, NEW op, NEW name, NEW view, NEW seen,
             Begin(t, k, requested, op, name, view, seen)
      PROVE  users' = users
  BY <1>1 DEF Begin
<1>2. ASSUME NEW d \in Emails, NEW role \in Roles, NEW f \in Firms,
             Bootstrap(d, role, f)
      PROVE  users'[e] = users[e]
  BY <1>2 DEF Bootstrap, TypeOK
<1>3. CASE UNCHANGED vars
  BY <1>3 DEF vars
<1> QED
  BY <1>1, <1>2, <1>3
  DEF Next, IssueKey, RevokeKey, Rollback, Commit, End, BeginSaveProfile,
      BeginSaveView, BeginDeleteView, BeginSaveReport

\* A request that is there after a step was there before it, or began with it.
LEMMA WhoAsks ==
  ASSUME [Next]_vars, TypeOK, NEW t \in Threads, req'[t] # Idle
  PROVE  \/ req'[t] = req[t]
         \/ \E k \in Keys, f \in Requested :
              \/ BeginSaveProfile(t, k, f)
              \/ \E n \in ViewNames : BeginSaveView(t, k, f, n)
              \/ \E id \in 1..MaxViews :
                   BeginDeleteView(t, k, f, id) \/ BeginSaveReport(t, k, f, id)
<1>1. ASSUME NEW s \in Threads \ {t}, NEW k, NEW requested, NEW op, NEW name,
             NEW view, NEW seen, Begin(s, k, requested, op, name, view, seen)
      PROVE  req'[t] = req[t]
  BY <1>1 DEF Begin, TypeOK
<1>2. ASSUME NEW s \in Threads, End(s)
      PROVE  req'[t] = req[t]
  BY <1>2 DEF End, TypeOK
<1>3. CASE UNCHANGED vars
  BY <1>3 DEF vars
<1>4. ASSUME NEW s \in Threads \ {t}, NEW k \in Keys, NEW f \in Requested,
             \/ BeginSaveProfile(s, k, f)
             \/ \E n \in ViewNames : BeginSaveView(s, k, f, n)
             \/ \E id \in 1..MaxViews :
                  BeginDeleteView(s, k, f, id) \/ BeginSaveReport(s, k, f, id)
      PROVE  req'[t] = req[t]
  BY <1>1, <1>4
  DEF BeginSaveProfile, BeginSaveView, BeginDeleteView, BeginSaveReport
<1> QED
  BY <1>2, <1>3, <1>4
  DEF Next, Bootstrap, IssueKey, RevokeKey, Rollback, Commit

-----------------------------------------------------------------------------
(* Isolation.                                                              *)

\* e may write what op writes for firm f.
Allowed(e, f, op) ==
  /\ e \in Emails /\ f \in Firms
  /\ MayWrite(e, f)
  /\ op # "save_view" => MayAdminister(users[e], f)
  /\ serves \in {f, NoFirm}

AccessInv ==
  /\ \A t \in Threads : req[t] # Idle => Allowed(req[t].email, req[t].firm, req[t].op)
  /\ OwnFirmOnly
  /\ Contained

LEMMA AllowedStays ==
  ASSUME TypeOK, [Next]_vars, NEW e, NEW f, NEW op, Allowed(e, f, op)
  PROVE  Allowed(e, f, op)'
BY UsersStay, WhoWrites DEF Allowed, MayWrite

LEMMA AllowedBegins ==
  ASSUME TypeInv, [Next]_vars, NEW t \in Threads, NEW k \in Keys,
         NEW requested, NEW op, NEW name, NEW view, NEW seen,
         Begin(t, k, requested, op, name, view, seen)
  PROVE  Allowed(req[t].email, req[t].firm, req[t].op)'
<1>1. /\ keys[k].email \in Emails
      /\ users[keys[k].email] \in User
  BY BeginFacts DEF TypeInv
<1>2. PICK f \in Firms :
        /\ MayRead(users[keys[k].email], f)
        /\ op # "save_view" => MayAdminister(users[keys[k].email], f)
        /\ serves \in {f, NoFirm}
        /\ req' = [req EXCEPT ![t] =
                    [op |-> op, email |-> keys[k].email, key |-> k, firm |-> f,
                     name |-> name, view |-> view, seen |-> seen[f]]]
  BY BeginFacts DEF TypeInv
<1>3. /\ req'[t].email = keys[k].email
      /\ req'[t].firm = f
      /\ req'[t].op = op
  BY <1>2 DEF TypeInv, TypeOK
<1>4. UNCHANGED <<users, serves>>
  BY DEF Begin
<1> QED
  BY <1>1, <1>2, <1>3, <1>4, UserFacts DEF Allowed, MayWrite

LEMMA AccessStep == TypeInv /\ AccessInv /\ [Next]_vars => AccessInv'
<1> SUFFICES ASSUME TypeInv, AccessInv, [Next]_vars PROVE AccessInv'
  OBVIOUS
<1>0. TypeOK
  BY DEF TypeInv
<1>1. ASSUME NEW t \in Threads, req'[t] # Idle
      PROVE  Allowed(req[t].email, req[t].firm, req[t].op)'
  <2>1. CASE req'[t] = req[t]
    <3>1. Allowed(req[t].email, req[t].firm, req[t].op)
      BY <1>1, <2>1 DEF AccessInv
    <3>2. Allowed(req[t].email, req[t].firm, req[t].op)
            => \A e, f, op : e = req[t].email /\ f = req[t].firm /\ op = req[t].op
                 => Allowed(e, f, op)'
      BY <1>0, AllowedStays
    <3> QED
      BY <2>1, <3>1, <3>2
  <2>2. ASSUME NEW k \in Keys, NEW f \in Requested,
               \/ BeginSaveProfile(t, k, f)
               \/ \E n \in ViewNames : BeginSaveView(t, k, f, n)
               \/ \E id \in 1..MaxViews :
                    BeginDeleteView(t, k, f, id) \/ BeginSaveReport(t, k, f, id)
        PROVE  Allowed(req[t].email, req[t].firm, req[t].op)'
    BY <2>2, AllowedBegins
    DEF BeginSaveProfile, BeginSaveView, BeginDeleteView, BeginSaveReport
  <2> QED
    BY <1>0, <1>1, <2>1, <2>2, WhoAsks
<1>2. \A e, f : MayWrite(e, f) /\ e \in Emails => MayWrite(e, f)'
  BY <1>0, UsersStay DEF MayWrite
<1>3. \A e, f : MayWrite(e, f) /\ e \in Emails /\ MayAdminister(users[e], f)
                  => MayAdminister(users[e], f)'
  BY <1>0, UsersStay DEF MayWrite
<1>4. CASE UNCHANGED rows
  <2>1. OwnFirmOnly'
    <3>1. /\ \A v \in views : v.by \in Emails
          /\ \A a \in audit : a.actor \in Emails
          /\ \A f \in Firms : \A i \in DOMAIN profiles[f] :
               profiles[f][i].by \in Emails
      <4>1. \A f \in Firms : /\ profiles[f] \in Seq(Version)
                             /\ DOMAIN profiles[f] = 1..Len(profiles[f])
        BY <1>0, LenProperties DEF TypeOK, Version
      <4>2. \A f \in Firms : \A i \in DOMAIN profiles[f] : profiles[f][i] \in Version
        BY <4>1, ElementOfSeq
      <4> QED
        BY <1>0, <4>2 DEF TypeOK, View, Entry, Version
    <3> QED
      BY <1>2, <1>3, <1>4, <3>1 DEF AccessInv, OwnFirmOnly, rows
  <2>2. Contained'
    BY <1>4, WhoWrites DEF AccessInv, Contained, rows
  <2> QED
    BY <1>1, <2>1, <2>2 DEF AccessInv
<1>5. ASSUME NEW t \in Threads, Commit(t)
      PROVE  AccessInv'
  <2> DEFINE r == req[t]
  <2>1. /\ req[t] # Idle
        /\ UNCHANGED <<serves, firms, users, keys>>
        /\ Allowed(r.email, r.firm, r.op)
    BY <1>5 DEF Commit, End, AccessInv
  <2>2. CASE ProfileWritten(t)
    <3>1. r.op = "save_profile" /\ MayAdminister(users[r.email], r.firm)
      BY <2>1, <2>2 DEF ProfileWritten, Allowed
    <3>2. OwnFirmOnly'
      <4>1. \A v \in views : MayWrite(v.by, v.firm)
        BY DEF AccessInv, OwnFirmOnly
      <4>2. \A a \in audit' :
              MayWrite(a.actor, a.firm) /\ MayAdminister(users[a.actor], a.firm)
        BY <2>1, <2>2, <3>1
        DEF AccessInv, OwnFirmOnly, ProfileWritten, Audited, Allowed
      <4>3. \A f \in Firms : \A i \in DOMAIN profiles'[f] :
              /\ MayWrite(profiles'[f][i].by, f)
              /\ MayAdminister(users[profiles'[f][i].by], f)
        <5> DEFINE p == Before(t)
                   q == After(t)
        <5>a. /\ Len(p) \in Nat
              /\ DOMAIN p = 1..Len(p)
              /\ DOMAIN q = 1..(Len(p) + 1)
              /\ q[Len(p) + 1].by = r.email
              /\ \A i \in 1..Len(p) : q[i].by = p[i].by
              /\ \A g \in Firms \ {r.firm} : profiles'[g] = profiles[g]
          BY <1>0, <2>1, <2>2, VersionAdded
        <5>1. \A i \in DOMAIN q : /\ MayWrite(q[i].by, r.firm)
                                  /\ MayAdminister(users[q[i].by], r.firm)
          <6>1. \A i \in DOMAIN q : i \in 1..Len(p) \/ i = Len(p) + 1
            BY <5>a
          <6>2. \A i \in DOMAIN p : /\ MayWrite(p[i].by, r.firm)
                                    /\ MayAdminister(users[p[i].by], r.firm)
            BY <2>1 DEF Allowed, AccessInv, OwnFirmOnly, Before
          <6> HIDE DEF p, q
          <6> QED
            BY <2>1, <3>1, <5>a, <6>1, <6>2 DEF Allowed
        <5>2. \A f \in Firms \ {r.firm} : \A i \in DOMAIN profiles'[f] :
                /\ MayWrite(profiles'[f][i].by, f)
                /\ MayAdminister(users[profiles'[f][i].by], f)
          BY <5>a DEF AccessInv, OwnFirmOnly
        <5> QED
          BY <5>1, <5>2 DEF After
      <4> QED
        BY <2>1, <2>2, <4>1, <4>2, <4>3 DEF ProfileWritten, OwnFirmOnly, MayWrite
    <3>3. Contained'
      <4>1. \A f \in Firms \ {r.firm} : profiles'[f] = profiles[f]
        BY <1>0, <2>1, <2>2, VersionAdded
      <4> QED
        BY <2>1, <2>2, <4>1 DEF AccessInv, Contained, Allowed, ProfileWritten
    <3> QED
      BY <1>1, <3>2, <3>3 DEF AccessInv
  <2>3. CASE ViewWritten(t)
    <3>1. OwnFirmOnly'
      BY <2>1, <2>3 DEF ViewWritten, AccessInv, OwnFirmOnly, Allowed, MayWrite
    <3>2. Contained'
      BY <2>1, <2>3 DEF ViewWritten, AccessInv, Contained, Allowed
    <3> QED
      BY <1>1, <3>1, <3>2 DEF AccessInv
  <2>4. CASE ViewDeleted(t)
    <3>1. OwnFirmOnly'
      BY <2>1, <2>4 DEF ViewDeleted, AccessInv, OwnFirmOnly, MayWrite
    <3>2. Contained'
      BY <2>1, <2>4 DEF ViewDeleted, AccessInv, Contained
    <3> QED
      BY <1>1, <3>1, <3>2 DEF AccessInv
  <2>5. CASE ReportWritten(t)
    <3>1. r.op = "save_report" /\ MayAdminister(users[r.email], r.firm)
      BY <2>1, <2>5 DEF ReportWritten, Allowed
    <3>2. OwnFirmOnly'
      BY <2>1, <2>5, <3>1
      DEF ReportWritten, Audited, AccessInv, OwnFirmOnly, Allowed, MayWrite
    <3>3. Contained'
      BY <1>0, <2>1, <2>5 DEF ReportWritten, AccessInv, Contained, Allowed, TypeOK
    <3> QED
      BY <1>1, <3>2, <3>3 DEF AccessInv
  <2> QED
    BY <1>5, <2>2, <2>3, <2>4, <2>5 DEF Commit, Written
<1> QED
  BY <1>4, <1>5, WhoWrites

\* Requests, rows and the audit log keep to the rights of who asked.
THEOREM AccessInvariant == Spec => []AccessInv
<1>1. Init => AccessInv
  BY DEF Init, AccessInv, OwnFirmOnly, Contained
<1> QED
  BY <1>1, AccessStep, TypeCorrect, PTL DEF Spec, TypeInv

\* Whatever a request wrote for a firm was written by its own people or by a
\* platform admin, whatever firm it named and however requests interleave.
THEOREM OwnFirmOnlyAlways == Spec => []OwnFirmOnly
<1>1. AccessInv => OwnFirmOnly
  BY DEF AccessInv
<1> QED
  BY <1>1, AccessInvariant, PTL

\* A process started for one firm never writes a row of another's.
THEOREM ContainedAlways == Spec => []Contained
<1>1. AccessInv => Contained
  BY DEF AccessInv
<1> QED
  BY <1>1, AccessInvariant, PTL

-----------------------------------------------------------------------------
(* Profiles.                                                               *)

\* Firm f's versions: the newest is the active one, and the audit log has an
\* entry for each, by who saved it, and for no other.
ProfileInv == OneActiveProfile /\ AuditIsTrue

LEMMA ProfileStep == TypeInv /\ ProfileInv /\ [Next]_vars => ProfileInv'
<1> SUFFICES ASSUME TypeInv, ProfileInv, [Next]_vars PROVE ProfileInv'
  OBVIOUS
<1> USE DEF ProfileInv
<1>0. TypeOK
  BY DEF TypeInv
<1>1. CASE UNCHANGED <<profiles, audit>>
  BY <1>1 DEF OneActiveProfile, AuditIsTrue
<1>2. ASSUME NEW t \in Threads, Commit(t), ProfileWritten(t)
      PROVE  ProfileInv'
  <2> DEFINE r == req[t]
             p == Before(t)
             q == After(t)
  <2>0. req[t] # Idle /\ r.email \in Emails
    BY <1>2 DEF Commit, TypeInv, TypeOK, Request
  <2>1. /\ r.firm \in Firms
        /\ Len(p) \in Nat
        /\ DOMAIN p = 1..Len(p)
        /\ Len(q) = Len(p) + 1
        /\ DOMAIN q = 1..(Len(p) + 1)
        /\ q[Len(p) + 1].active = TRUE
        /\ q[Len(p) + 1].by = r.email
        /\ \A i \in 1..Len(p) : q[i].active = FALSE /\ q[i].by = p[i].by
        /\ \A g \in Firms \ {r.firm} : profiles'[g] = profiles[g]
    BY <1>0, <1>2, <2>0, VersionAdded
  <2>a. p = profiles[r.firm] /\ q = profiles'[r.firm]
    BY DEF Before, After
  <2>2. /\ r.seen = Len(p)
        /\ audit' = audit \cup {[actor |-> r.email, action |-> "profile.save",
                                 firm |-> r.firm, target |-> Len(p) + 1]}
    BY <1>2, <2>a DEF ProfileWritten, Audited
  <2> HIDE DEF p, q, r
  <2>3. \A i \in DOMAIN q : q[i].active <=> i = Len(q)
    <3>1. \A i \in DOMAIN q : i \in 1..Len(p) \/ i = Len(p) + 1
      BY <2>1
    <3>2. \A i \in 1..Len(p) : i # Len(p) + 1
      BY <2>1
    <3> QED
      BY <2>1, <3>1, <3>2
  <2>4. OneActiveProfile'
    BY <2>1, <2>3, <2>a DEF OneActiveProfile
  <2>5. ASSUME NEW e \in Emails, NEW i \in 1..MaxVersions
        PROVE  [actor |-> e, action |-> "profile.save", firm |-> r.firm, target |-> i]
                 \in audit' <=> i \in DOMAIN q /\ q[i].by = e
    <3>1. [actor |-> e, action |-> "profile.save", firm |-> r.firm, target |-> i]
            \in audit <=> i \in DOMAIN p /\ p[i].by = e
      BY <2>1, <2>a DEF AuditIsTrue
    <3>2. [actor |-> e, action |-> "profile.save", firm |-> r.firm, target |-> i]
            = [actor |-> r.email, action |-> "profile.save", firm |-> r.firm,
               target |-> Len(p) + 1]
            <=> e = r.email /\ i = Len(p) + 1
      OBVIOUS
    <3>3. i \in DOMAIN q <=> i \in DOMAIN p \/ i = Len(p) + 1
      BY <2>1
    <3>4. Len(p) + 1 \notin DOMAIN p
      BY <2>1
    <3> QED
      BY <2>1, <2>2, <3>1, <3>2, <3>3, <3>4
  <2>6. ASSUME NEW f \in Firms \ {r.firm}, NEW e \in Emails, NEW i \in 1..MaxVersions
        PROVE  [actor |-> e, action |-> "profile.save", firm |-> f, target |-> i]
                 \in audit' <=> i \in DOMAIN profiles'[f] /\ profiles'[f][i].by = e
    <3>1. [actor |-> e, action |-> "profile.save", firm |-> f, target |-> i]
            # [actor |-> r.email, action |-> "profile.save", firm |-> r.firm,
               target |-> Len(p) + 1]
      BY <2>6
    <3>2. profiles'[f] = profiles[f]
      BY <2>1
    <3> QED
      BY <2>2, <3>1, <3>2 DEF AuditIsTrue
  <2>7. AuditIsTrue'
    BY <2>5, <2>6, <2>a DEF AuditIsTrue
  <2> QED
    BY <2>4, <2>7
<1>3. ASSUME NEW t \in Threads, ReportWritten(t)
      PROVE  ProfileInv'
  <2>1. profiles' = profiles /\ Audited(t, "report.save", 0)
    BY <1>3 DEF ReportWritten
  <2>2. \A e, f, i : [actor |-> e, action |-> "profile.save", firm |-> f, target |-> i]
                       # [actor |-> req[t].email, action |-> "report.save",
                          firm |-> req[t].firm, target |-> 0]
    OBVIOUS
  <2> QED
    BY <2>1, <2>2 DEF Audited, OneActiveProfile, AuditIsTrue
<1> QED
  BY <1>1, <1>2, <1>3, WhoWrites
  DEF Commit, Written, ViewWritten, ViewDeleted, rows

\* However many administrators save at once, a firm's newest version is the one
\* that is active.
THEOREM OneActiveProfileAlways == Spec => []OneActiveProfile
<1>1. Init => ProfileInv
  BY DEF Init, ProfileInv, OneActiveProfile, AuditIsTrue
<1>2. ProfileInv => OneActiveProfile
  BY DEF ProfileInv
<1> QED
  BY <1>1, <1>2, ProfileStep, TypeCorrect, PTL DEF Spec, TypeInv

\* The audit log and the versions of every profile tell one story.
THEOREM AuditIsTrueAlways == Spec => []AuditIsTrue
<1>1. Init => ProfileInv
  BY DEF Init, ProfileInv, OneActiveProfile, AuditIsTrue
<1>2. ProfileInv => AuditIsTrue
  BY DEF ProfileInv
<1> QED
  BY <1>1, <1>2, ProfileStep, TypeCorrect, PTL DEF Spec, TypeInv

\* No step takes a version away, puts another's name to it or revives it.
THEOREM ProfilesAreHistoryAlways == Spec => ProfilesAreHistory
<1> DEFINE Kept == \A f \in Firms : \A i \in DOMAIN profiles[f] :
                     /\ i \in DOMAIN profiles'[f]
                     /\ profiles'[f][i].by = profiles[f][i].by
                     /\ profiles'[f][i].active => profiles[f][i].active
<1>1. ASSUME TypeInv, [Next]_vars PROVE Kept
  <2>1. CASE UNCHANGED profiles
    BY <2>1
  <2>2. ASSUME NEW t \in Threads, Commit(t), ProfileWritten(t)
        PROVE  Kept
    <3>1. TypeOK /\ req[t] # Idle
      BY <1>1, <2>2 DEF TypeInv, Commit
    <3>2. /\ Len(Before(t)) \in Nat
          /\ DOMAIN Before(t) = 1..Len(Before(t))
          /\ DOMAIN After(t) = 1..(Len(Before(t)) + 1)
          /\ \A i \in 1..Len(Before(t)) : /\ After(t)[i].active = FALSE
                                          /\ After(t)[i].by = Before(t)[i].by
          /\ \A g \in Firms \ {req[t].firm} : profiles'[g] = profiles[g]
      BY <2>2, <3>1, VersionAdded
    <3>3. \A i \in DOMAIN Before(t) : /\ i \in DOMAIN After(t)
                                      /\ After(t)[i].by = Before(t)[i].by
                                      /\ After(t)[i].active = FALSE
      BY <3>2
    <3> QED
      BY <3>2, <3>3 DEF Before, After
  <2> QED
    BY <1>1, <2>1, <2>2, WhoWrites
    DEF Commit, Written, ViewWritten, ViewDeleted, ReportWritten, rows
<1> QED
  BY <1>1, TypeCorrect, PTL DEF Spec, TypeInv, ProfilesAreHistory

-----------------------------------------------------------------------------
(* Views and reports.                                                      *)

\* Ids are given once, so that what a request found under an id is what the
\* id still names, if anything.
ViewInvOf(t) ==
  req[t] # Idle /\ req[t].op \in {"delete_view", "save_report"} =>
    /\ req[t].view \in 1..lastView
    /\ \A v \in views : v.id = req[t].view => v.firm = req[t].firm

ViewInv ==
  /\ \A v \in views : v.id <= lastView
  /\ \A v, w \in views : v.id = w.id => v = w
  /\ \A t \in Threads : ViewInvOf(t)
  /\ ReportsHaveViews

LEMMA ViewStep == TypeInv /\ ViewInv /\ [Next]_vars => ViewInv'
<1> SUFFICES ASSUME TypeInv, ViewInv, [Next]_vars PROVE ViewInv'
  OBVIOUS
<1>t. TypeOK
  BY DEF TypeInv
<1>0. /\ lastView \in Nat
      /\ \A v \in views : v.id \in Nat
  BY <1>t, ControlAssumption DEF TypeOK, View
<1>1. \/ UNCHANGED <<views, lastView>>
      \/ \E t \in Threads : Commit(t) /\ (ViewWritten(t) \/ ViewDeleted(t))
  BY WhoWrites DEF Commit, Written, ProfileWritten, ReportWritten, rows
<1>2. /\ lastView' \in Nat /\ lastView <= lastView'
      /\ \A v \in views' : v \in views \/ (v.id = lastView + 1 /\ v.id = lastView')
      /\ \A v, w \in views' : v.id = w.id => v = w
  <2>1. ASSUME NEW t \in Threads, ViewWritten(t), lastView' = lastView + 1
        PROVE  /\ lastView' \in Nat /\ lastView <= lastView'
               /\ \A v \in views' :
                    v \in views \/ (v.id = lastView + 1 /\ v.id = lastView')
               /\ \A v, w \in views' : v.id = w.id => v = w
    <3> DEFINE new == [id |-> lastView + 1, firm |-> req[t].firm,
                       name |-> req[t].name, by |-> req[t].email]
    <3>1. views' = views \cup {new} /\ new.id = lastView + 1
      BY <1>0, <2>1 DEF ViewWritten
    <3> HIDE DEF new
    <3>2. \A v \in views : v.id < lastView + 1
      BY <1>0 DEF ViewInv
    <3> QED
      BY <1>0, <2>1, <3>1, <3>2 DEF ViewInv
  <2>2. CASE views' \subseteq views /\ lastView' = lastView
    BY <1>0, <2>2 DEF ViewInv
  <2> QED
    BY <1>0, <1>1, <2>1, <2>2 DEF ViewWritten, ViewDeleted
<1>3. \A v \in views' : v.id <= lastView'
  BY <1>0, <1>2 DEF ViewInv
<1>4. ASSUME NEW t \in Threads
      PROVE  ViewInvOf(t)'
  <2>1. CASE req'[t] = req[t]
    BY <1>0, <1>2, <2>1 DEF ViewInv, ViewInvOf
  <2>2. ASSUME NEW k \in Keys, NEW f \in Requested,
               \/ BeginSaveProfile(t, k, f)
               \/ \E n \in ViewNames : BeginSaveView(t, k, f, n)
        PROVE  ViewInvOf(t)'
    <3>1. ASSUME NEW op \in {"save_profile", "save_view"}, NEW name, NEW seen,
                 Begin(t, k, f, op, name, 0, seen)
          PROVE  ViewInvOf(t)'
      BY <1>t, <3>1 DEF Begin, TypeOK, ViewInvOf
    <3> QED
      BY <2>2, <3>1 DEF BeginSaveProfile, BeginSaveView
  <2>3. ASSUME NEW k \in Keys, NEW f \in Requested, NEW id \in 1..MaxViews,
               BeginDeleteView(t, k, f, id) \/ BeginSaveReport(t, k, f, id)
        PROVE  ViewInvOf(t)'
    <3>1. /\ req'[t].view = id
          /\ Owned(req'[t].firm, id)
          /\ UNCHANGED <<views, lastView>>
      BY <1>t, <2>3 DEF BeginDeleteView, BeginSaveReport, Begin, TypeOK, rows
    <3> QED
      BY <1>0, <3>1 DEF ViewInv, ViewInvOf, Owned
  <2> QED
    BY <1>t, <2>1, <2>2, <2>3, WhoAsks DEF ViewInvOf
<1>5. ReportsHaveViews'
  <2>1. CASE UNCHANGED <<views, reports>>
    BY <2>1 DEF ViewInv, ReportsHaveViews, Owned
  <2>2. ASSUME NEW t \in Threads, ViewWritten(t)
        PROVE  ReportsHaveViews'
    BY <2>2 DEF ViewInv, ReportsHaveViews, Owned, ViewWritten
  <2>3. ASSUME NEW t \in Threads, ViewDeleted(t)
        PROVE  ReportsHaveViews'
    BY <2>3 DEF ViewInv, ReportsHaveViews, Owned, ViewDeleted
  <2>4. ASSUME NEW t \in Threads, Commit(t), ReportWritten(t)
        PROVE  ReportsHaveViews'
    <3>1. /\ req[t] # Idle /\ req[t].op = "save_report"
          /\ views' = views
          /\ reports' = [reports EXCEPT ![req[t].firm] = req[t].view]
          /\ \E v \in views : v.id = req[t].view
      BY <2>4 DEF Commit, ReportWritten
    <3>2. Owned(req[t].firm, req[t].view)
      BY <3>1 DEF ViewInv, ViewInvOf, Owned
    <3> QED
      BY <1>t, <3>1, <3>2 DEF ViewInv, ReportsHaveViews, Owned, TypeOK
  <2> QED
    BY <2>1, <2>2, <2>3, <2>4, WhoWrites DEF Commit, Written, ProfileWritten, rows
<1> QED
  BY <1>2, <1>3, <1>4, <1>5 DEF ViewInv

\* A report never names a view that is gone, or another firm's.
THEOREM ReportsHaveViewsAlways == Spec => []ReportsHaveViews
<1>1. Init => ViewInv
  BY DEF Init, ViewInv, ViewInvOf, ReportsHaveViews
<1>2. ViewInv => ReportsHaveViews
  BY DEF ViewInv
<1> QED
  BY <1>1, <1>2, ViewStep, TypeCorrect, PTL DEF Spec, TypeInv

=============================================================================
