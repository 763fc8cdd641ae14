----------------------------- MODULE ControlPlane ---------------------------
(***************************************************************************)
(* The control database and what may change it: the bootstrap and key      *)
(* commands (src/control/bootstrap.py, keys.py, service.py), and the admin *)
(* API's requests (src/api/admin.py) with their two layers of isolation    *)
(* (src/control/auth.py, src/api/deps.py).                                 *)
(*                                                                         *)
(* A request reads, decides, and writes when its session commits; another  *)
(* may commit between.  The database is Postgres: a statement sees what is *)
(* committed, constraints are those of src/control/models.py, and a row id *)
(* is never used twice.  The reads of a request are one step.              *)
(*                                                                         *)
(* A firm has one profile name and one report name: queries and            *)
(* constraints take a name as they take a firm.                            *)
(***************************************************************************)
EXTENDS Integers, Sequences, FiniteSets

CONSTANTS
  Firms, Emails, Threads, ViewNames,
  Keys,         \* keys that can be minted: a bound
  NoFirm, Nobody,
  MaxViews, MaxVersions   \* bounds: views made, versions of a profile

ASSUME ControlAssumption ==
  /\ NoFirm \notin Firms
  /\ Nobody \notin Emails
  /\ MaxViews \in Nat /\ MaxVersions \in Nat

VARIABLES
  serves,     \* RISK_GRID_FIRM: the firm the API is started for, or NoFirm
  firms,      \* firms there are
  users,      \* each email's user
  keys,       \* API keys
  profiles,   \* each firm's profile: its versions, oldest first
  views,      \* saved views: [id, firm, name, by]
  lastView,   \* the last id given to a view
  reports,    \* each firm's report: the view it sends, 0: no report
  audit,      \* the audit log's entries of requests
  req         \* each thread's request

rows == <<profiles, views, lastView, reports, audit>>
vars == <<serves, firms, users, keys, profiles, views, lastView, reports, audit, req>>

Roles   == {"platform_admin", "firm_admin", "firm_user"}
\* User.validate: a platform admin, and nobody else, belongs to no firm.
User    == {u \in [role : Roles, firm : Firms \cup {NoFirm}] :
              u.role = "platform_admin" <=> u.firm = NoFirm}
NoUser  == [role |-> "none", firm |-> NoFirm]
Key     == [email : Emails \cup {Nobody}, state : {"unused", "active", "revoked"}]
\* IngestionProfile: a version knows whether it is the one in use; its number is
\* its place. Who saved it is history, the table has no such column: it also
\* stands for the content, which two savers do not share.
Version == [active : BOOLEAN, by : Emails]
View    == [id : 1..MaxViews, firm : Firms, name : ViewNames, by : Emails]
Entry   == [actor : Emails, action : {"profile.save", "report.save"}, firm : Firms, target : Nat]
Ops     == {"save_profile", "save_view", "delete_view", "save_report"}
Request == {r \in [op : Ops, email : Emails, key : Keys, firm : Firms,
                   name : ViewNames \cup {Nobody}, view : 0..MaxViews, seen : Nat] :
              r.op = "save_view" => r.name \in ViewNames}
Idle    == [op |-> "none"]

Platform(user)   == user.role = "platform_admin"
MayRead(user, f) == Platform(user) \/ user.firm = f
MayAdminister(user, f) == Platform(user) \/ (user.firm = f /\ user.role = "firm_admin")

Init ==
  /\ serves \in Firms \cup {NoFirm}
  /\ firms = {} /\ users = [e \in Emails |-> NoUser]
  /\ keys = [k \in Keys |-> [email |-> Nobody, state |-> "unused"]]
  /\ profiles = [f \in Firms |-> <<>>]
  /\ views = {} /\ lastView = 0
  /\ reports = [f \in Firms |-> 0]
  /\ audit = {}
  /\ req = [t \in Threads |-> Idle]

(***************************************************************************)
(* Commands, each one transaction                                          *)
(***************************************************************************)
Mint(email) ==
  \E k \in Keys :
    /\ keys[k].state = "unused"
    /\ keys' = [keys EXCEPT ![k] = [email |-> email, state |-> "active"]]

\* Seeded fault: a platform admin is a user of the firm that is named.
BootstrapInFirm(email, role, f) ==
  /\ firms' = firms \cup {f}
  /\ IF users[email] = NoUser
     THEN users' = [users EXCEPT ![email] = [role |-> role, firm |-> f]] /\ Mint(email)
     ELSE UNCHANGED <<users, keys>>
  /\ UNCHANGED <<serves, rows, req>>

\* control.bootstrap: a platform admin belongs to no firm, even though one is
\* named. An email that is taken gets no second key, but the firm stays.
Bootstrap(email, role, f) ==
  /\ firms' = firms \cup {f}
  /\ IF users[email] = NoUser
     THEN /\ users' = [users EXCEPT ![email] =
                         [role |-> role, firm |-> IF role = "platform_admin" THEN NoFirm ELSE f]]
          /\ Mint(email)
     ELSE UNCHANGED <<users, keys>>
  /\ UNCHANGED <<serves, rows, req>>

\* control.keys issue.
IssueKey(email) ==
  /\ users[email] # NoUser
  /\ Mint(email)
  /\ UNCHANGED <<serves, firms, users, rows, req>>

\* control.keys revoke: a key revoked already stays as it is; one whose row a
\* request has locked is revoked when that request ends.
RevokeKey(k) ==
  /\ keys[k].state = "active"
  /\ \A s \in Threads : req[s] # Idle => req[s].key # k
  /\ keys' = [keys EXCEPT ![k].state = "revoked"]
  /\ UNCHANGED <<serves, firms, users, rows, req>>

(***************************************************************************)
(* Requests                                                                *)
(***************************************************************************)
\* Seeded fault: the process takes requests for any firm.
FirmUncontained(user, requested) ==
  LET f == IF requested # NoFirm THEN requested
           ELSE IF serves # NoFirm THEN serves ELSE user.firm
  IN  IF f \in Firms /\ MayRead(user, f) THEN f ELSE NoFirm

\* Seeded fault: the firm asked for is the firm.
FirmAsAsked(user, requested) ==
  LET f == IF requested # NoFirm THEN requested ELSE IF serves # NoFirm THEN serves ELSE user.firm
  IN  IF f \in Firms /\ serves \in {f, NoFirm} THEN f ELSE NoFirm

\* resolve_firm: the firm asked for, or served, or the caller's own; NoFirm
\* when the caller may not read it or the process does not serve it.
FirmFor(user, requested) ==
  LET f == IF requested # NoFirm THEN requested
           ELSE IF serves # NoFirm THEN serves ELSE user.firm
  IN  IF f \in Firms /\ MayRead(user, f) /\ serves \in {f, NoFirm} THEN f ELSE NoFirm

\* A request comes in with key k: authenticate, resolve, administer, and the
\* reads of its handler, which leave it with what it goes by. authenticate
\* writes last_used_at: the key's row is locked until the request ends. Reading
\* the key and locking it are one step here; in the code a key revoked between
\* the two serves this one request more.
Begin(t, k, requested, op, name, view, seen) ==
  LET user == users[keys[k].email]
      f    == FirmFor(user, requested) IN
  /\ req[t] = Idle
  /\ keys[k].state = "active"
  /\ \A s \in Threads : req[s] # Idle => req[s].key # k
  /\ f # NoFirm
  /\ op # "save_view" => MayAdminister(user, f)
  /\ req' = [req EXCEPT ![t] = [op |-> op, email |-> keys[k].email, key |-> k, firm |-> f,
                                name |-> name, view |-> view, seen |-> seen[f]]]
  /\ UNCHANGED <<serves, firms, users, keys, rows>>

\* save_profile: the versions there are.
BeginSaveProfile(t, k, requested) ==
  Begin(t, k, requested, "save_profile", Nobody, 0, [f \in Firms |-> Len(profiles[f])])

\* save_view: the view of that name, 0 when it is new.
BeginSaveView(t, k, requested, name) ==
  \E found \in [Firms -> 0..MaxViews] :
    /\ \A f \in Firms : LET ids == {v.id : v \in {u \in views : u.firm = f /\ u.name = name}}
                        IN  IF ids = {} THEN found[f] = 0 ELSE found[f] \in ids
    /\ Begin(t, k, requested, "save_view", name, 0, found)

Owned(f, id) == \E v \in views : v.id = id /\ v.firm = f

\* delete_view: another firm's view is a 404, one in use a 409.
BeginDeleteView(t, k, requested, id) ==
  /\ Begin(t, k, requested, "delete_view", Nobody, id, [f \in Firms |-> 0])
  /\ Owned(req'[t].firm, id)
  /\ \A f \in Firms : reports[f] # id

\* save_report: another firm's view is a 404; the report there is, or none.
BeginSaveReport(t, k, requested, id) ==
  /\ Begin(t, k, requested, "save_report", Nobody, id,
           [f \in Firms |-> IF reports[f] = 0 THEN 0 ELSE 1])
  /\ Owned(req'[t].firm, id)

Audited(t, action, target) ==
  audit' = audit \cup {[actor |-> req[t].email, action |-> action, firm |-> req[t].firm, target |-> target]}

End(t) == req' = [req EXCEPT ![t] = Idle] /\ UNCHANGED <<serves, firms, users, keys>>

\* Seeded fault: nothing keeps two profiles of one version apart.
ProfileWrittenTwice(t) ==
  LET r == req[t]
      n == Len(profiles[r.firm]) IN
  /\ r.op = "save_profile" /\ r.firm \in firms
  /\ n < MaxVersions
  /\ profiles' = [profiles EXCEPT ![r.firm] =
       Append([i \in 1..n |-> IF i <= r.seen THEN [@[i] EXCEPT !.active = FALSE] ELSE @[i]],
              [active |-> TRUE, by |-> r.email])]
  /\ Audited(t, "profile.save", r.seen + 1)
  /\ UNCHANGED <<views, lastView, reports>>

\* Seeded fault: a version saved again replaces the one there is.
ProfileReplaced(t) ==
  LET r == req[t] IN
  /\ r.op = "save_profile" /\ r.firm \in firms
  /\ r.seen < MaxVersions
  /\ profiles' = [profiles EXCEPT ![r.firm] =
       Append([i \in 1..r.seen |-> [@[i] EXCEPT !.active = FALSE]], [active |-> TRUE, by |-> r.email])]
  /\ Audited(t, "profile.save", r.seen + 1)
  /\ UNCHANGED <<views, lastView, reports>>

\* save_profile: the next version of those that were seen, none of which
\* stays active. uq_profile_firm_name_version: it must not be there.
ProfileWritten(t) ==
  LET r == req[t] IN
  /\ r.op = "save_profile" /\ r.firm \in firms
  /\ Len(profiles[r.firm]) = r.seen /\ r.seen < MaxVersions
  /\ profiles' = [profiles EXCEPT ![r.firm] =
       Append([i \in 1..r.seen |-> [@[i] EXCEPT !.active = FALSE]], [active |-> TRUE, by |-> r.email])]
  /\ Audited(t, "profile.save", r.seen + 1)
  /\ UNCHANGED <<views, lastView, reports>>

\* save_view: uq_view_firm_name for a new one; an old one must still be there.
ViewWritten(t) ==
  LET r == req[t] IN
  /\ r.op = "save_view" /\ r.firm \in firms
  /\ IF r.seen = 0
     THEN /\ \A v \in views : ~(v.firm = r.firm /\ v.name = r.name)
          /\ lastView < MaxViews
          /\ lastView' = lastView + 1
          /\ views' = views \cup {[id |-> lastView + 1, firm |-> r.firm, name |-> r.name, by |-> r.email]}
     ELSE Owned(r.firm, r.seen) /\ UNCHANGED <<views, lastView>>
  /\ UNCHANGED <<profiles, reports, audit>>

\* Seeded fault: no foreign key: a report saved meanwhile loses its view.
ViewDeletedAnyway(t) ==
  LET r == req[t] IN
  /\ r.op = "delete_view"
  /\ views' = {v \in views : v.id # r.view}
  /\ UNCHANGED <<profiles, lastView, reports, audit>>

\* delete_view: the reports' foreign key.
ViewDeleted(t) ==
  LET r == req[t] IN
  /\ r.op = "delete_view"
  /\ \A f \in Firms : reports[f] # r.view
  /\ views' = {v \in views : v.id # r.view}
  /\ UNCHANGED <<profiles, lastView, reports, audit>>

\* save_report: the foreign key; uq_report_firm_name for a new one. The view is
\* written even if it is the one that was loaded, where the ORM writes nothing
\* and leaves what another request has put there meanwhile.
ReportWritten(t) ==
  LET r == req[t] IN
  /\ r.op = "save_report" /\ r.firm \in firms
  /\ \E v \in views : v.id = r.view
  /\ r.seen = 0 => reports[r.firm] = 0
  /\ reports' = [reports EXCEPT ![r.firm] = r.view]
  /\ Audited(t, "report.save", 0)
  /\ UNCHANGED <<profiles, views, lastView>>

Written(t) == ProfileWritten(t) \/ ViewWritten(t) \/ ViewDeleted(t) \/ ReportWritten(t)

\* The session flushes and commits.
Commit(t) == req[t] # Idle /\ Written(t) /\ End(t)

\* Seeded fault: the audit entry is committed before the row.
RollbackAudited(t) ==
  /\ req[t] # Idle
  /\ IF req[t].op = "save_profile" THEN Audited(t, "profile.save", req[t].seen + 1) ELSE UNCHANGED audit
  /\ UNCHANGED <<profiles, views, lastView, reports>>
  /\ End(t)

\* A constraint fails, a row is gone, or the process stops: all is rolled back.
Rollback(t) == req[t] # Idle /\ UNCHANGED rows /\ End(t)

Requested == Firms \cup {NoFirm}

Next ==
  \/ \E e \in Emails, role \in Roles, f \in Firms : Bootstrap(e, role, f)
  \/ \E e \in Emails : IssueKey(e)
  \/ \E k \in Keys : RevokeKey(k)
  \/ \E t \in Threads :
       \/ \E k \in Keys, f \in Requested :
            \/ BeginSaveProfile(t, k, f)
            \/ \E n \in ViewNames : BeginSaveView(t, k, f, n)
            \/ \E id \in 1..MaxViews : BeginDeleteView(t, k, f, id) \/ BeginSaveReport(t, k, f, id)
       \/ Commit(t)
       \/ Rollback(t)

Spec == Init /\ [][Next]_vars

-----------------------------------------------------------------------------
TypeOK ==
  /\ serves \in Firms \cup {NoFirm}
  /\ firms \subseteq Firms
  /\ users \in [Emails -> User \cup {NoUser}]
  /\ keys \in [Keys -> Key]
  /\ profiles \in [Firms -> Seq(Version)]
  /\ views \subseteq View /\ lastView \in 0..MaxViews
  /\ reports \in [Firms -> 0..MaxViews]
  /\ audit \subseteq Entry
  /\ req \in [Threads -> Request \cup {Idle}]

\* "Create the next version of a profile" (save_profile), the one the worker
\* then uses: a firm has one active version, and it is the newest, however
\* many administrators save at once.
OneActiveProfile ==
  \A f \in Firms : \A i \in DOMAIN profiles[f] : profiles[f][i].active <=> i = Len(profiles[f])

\* "Never edits in place" (save_profile): a version that a batch may have been
\* built with stays what it was, but for being retired.
ProfilesAreHistory ==
  [][\A f \in Firms : \A i \in DOMAIN profiles[f] :
       /\ i \in DOMAIN profiles'[f]
       /\ profiles'[f][i].by = profiles[f][i].by
       /\ profiles'[f][i].active => profiles[f][i].active]_vars

\* A report's view is there, and is its firm's own: also when the view is
\* deleted while a report on it is being saved.
ReportsHaveViews ==
  \A f \in Firms : reports[f] # 0 => Owned(f, reports[f])

\* Who may write a firm's rows: "a principal belongs to exactly one firm (or
\* is a platform admin), and every firm-scoped call checks it" (auth.py).
MayWrite(email, f) == users[email] # NoUser /\ MayRead(users[email], f)

\* Everything in the database that a request wrote for a firm was written by
\* the firm's own people or a platform admin; profiles and reports by admins.
OwnFirmOnly ==
  /\ \A v \in views : MayWrite(v.by, v.firm)
  /\ \A a \in audit : MayWrite(a.actor, a.firm) /\ MayAdminister(users[a.actor], a.firm)
  /\ \A f \in Firms : \A i \in DOMAIN profiles[f] :
       MayWrite(profiles[f][i].by, f) /\ MayAdminister(users[profiles[f][i].by], f)

\* "A query container is started with one firm's id and refuses anything else,
\* so layer 1 failing is not sufficient" (auth.py): where the API serves one
\* firm no other ever gets a row, whoever asks.
Contained ==
  serves # NoFirm =>
    /\ \A f \in Firms \ {serves} : profiles[f] = <<>> /\ reports[f] = 0
    /\ \A v \in views : v.firm = serves

\* The audit log of profiles says what happened, and no more: an entry for
\* every version, by who saved it, and none of a save that was rolled back.
AuditIsTrue ==
  \A f \in Firms, e \in Emails, i \in 1..MaxVersions :
    [actor |-> e, action |-> "profile.save", firm |-> f, target |-> i] \in audit
      <=> i \in DOMAIN profiles[f] /\ profiles[f][i].by = e
=============================================================================
