------------------------------- MODULE Accounts -------------------------------
(***************************************************************************)
(* The accounts of the dashboard (Services/AuthService.cs, Program.cs and  *)
(* the users and roles tabs of Settings.razor).                            *)
(*                                                                         *)
(* An administrator's page works on what it read: lists of users and of    *)
(* roles, and the boxes of the role selected, which arrive some time after *)
(* the selection.  A save, a renaming and a deletion of a role are         *)
(* transactions of two statements at READ COMMITTED: rows the first one    *)
(* did not see it does not touch.  Passwords are left out: whether a       *)
(* password fits is open.                                                  *)
(***************************************************************************)
EXTENDS Integers, FiniteSets

CONSTANTS
  Visitors, Admins,     \* who registers, and open settings pages of administrators
  Names, Emails, Pages,
  NewRoles,             \* names of roles typed in
  MaxUsers, MaxActs     \* bounds: accounts ever made, actions begun

VARIABLES
  users,                \* id -> row
  ids,                  \* ids handed out
  perms,                \* user_role_permissions: pairs of a role and a page
  work,                 \* what a visitor or a page is in the middle of
  page,                 \* administrator -> what the page shows
  acts
vars == <<users, ids, perms, work, page, acts>>

Idle == [do |-> "idle"]
RowsOf(role) == {r \in perms : r[1] = role}
PagesOf(role) == {r[2] : r \in RowsOf(role)}
Allowing(role, set) == {<<role, p>> : p \in set}
GetRoles(us) == {us[i].role : i \in DOMAIN us} \cup {"user"}
RoleOf(us) == [i \in DOMAIN us |-> us[i].role]
Moved(us, old, new) == [i \in DOMAIN us |-> IF us[i].role = old THEN [us[i] EXCEPT !.role = new] ELSE us[i]]
Free(t) == work[t] = Idle
Act(a) == Free(a) /\ acts < MaxActs /\ acts' = acts + 1
Rest(t) == work' = [work EXCEPT ![t] = Idle]

-----------------------------------------------------------------------------
\* Registration: the checks, a hash that takes a quarter of a second, the insert.
RegisterCheck(v, n, e) ==
  /\ Act(v) /\ ids < MaxUsers
  /\ \A i \in DOMAIN users : users[i].name # n /\ users[i].email # e
  /\ work' = [work EXCEPT ![v] = [do |-> "register", name |-> n, email |-> e]]
  /\ UNCHANGED <<users, ids, perms, page>>
\* Mutant: a table without UNIQUE.
Taken(n) == \E i \in DOMAIN users : users[i].name = n
RegisterInsert(v) ==
  /\ work[v].do = "register"
  /\ ids' = ids + 1
  /\ IF Taken(work[v].name) THEN UNCHANGED users
     ELSE users' = [i \in DOMAIN users \cup {ids + 1} |->
                      IF i \in DOMAIN users THEN users[i]
                      ELSE [name |-> work[v].name, email |-> work[v].email, role |-> "user", ok |-> FALSE]]
  /\ Rest(v) /\ UNCHANGED <<perms, page, acts>>

(***************************************************************************)
(* The page of an administrator.                                           *)
(***************************************************************************)
\* The list is reread after each action on an account, the roles with the tab.
Refreshed(a, us) == [page EXCEPT ![a].users = RoleOf(us)]
Shows(a, us, role) ==
  [page EXCEPT ![a] = [users |-> RoleOf(us), roles |-> GetRoles(us), role |-> role,
                       boxes |-> page[a].boxes, loading |-> page[a].loading \cup ({role} \ {""})]]
Activate(a) ==
  /\ Act(a)
  /\ \E r \in GetRoles(users) :
       page' = IF page[a].role = "" THEN Shows(a, users, r)
               ELSE [Shows(a, users, page[a].role) EXCEPT ![a].loading = page[a].loading]
  /\ UNCHANGED <<users, ids, perms, work>>
SelectRole(a, r) ==
  /\ Act(a) /\ r \in page[a].roles
  /\ page' = [page EXCEPT ![a].role = r, ![a].loading = @ \cup {r}]
  /\ UNCHANGED <<users, ids, perms, work>>
\* Answers to two selections may come in either order.
Loaded(a, r) ==
  /\ r \in page[a].loading
  /\ page' = [page EXCEPT ![a].boxes = PagesOf(r), ![a].loading = @ \ {r}]
  /\ UNCHANGED <<users, ids, perms, work, acts>>
TogglePagePerms(a, set) ==
  /\ Act(a) /\ page[a].role # ""
  /\ page' = [page EXCEPT ![a].boxes = set]
  /\ UNCHANGED <<users, ids, perms, work>>

OnUser(a, i, row) ==
  /\ Act(a) /\ i \in DOMAIN page[a].users
  /\ users' = IF i \in DOMAIN users THEN [users EXCEPT ![i] = row] ELSE users
  /\ page' = Refreshed(a, users') /\ UNCHANGED <<ids, perms, work>>
ApproveUser(a, i) ==
  /\ i \in DOMAIN page[a].users /\ page[a].users[i] # "admin"
  /\ OnUser(a, i, [users[i] EXCEPT !.ok = TRUE])
\* Mutant: the role the page shows is asked, not the row's.
DroppableAsShown(a, i) == i \in DOMAIN users /\ page[a].users[i] # "admin"
Droppable(a, i) == i \in DOMAIN users /\ users[i].role # "admin"
RejectUser(a, i) ==
  /\ i \in DOMAIN page[a].users /\ page[a].users[i] # "admin"
  /\ OnUser(a, i, IF Droppable(a, i) THEN [users[i] EXCEPT !.ok = FALSE] ELSE users[i])
ExecuteDeleteUser(a, i) ==
  /\ Act(a) /\ i \in DOMAIN page[a].users /\ page[a].users[i] # "admin"
  /\ users' = IF Droppable(a, i) THEN [j \in DOMAIN users \ {i} |-> users[j]] ELSE users
  /\ page' = Refreshed(a, users') /\ UNCHANGED <<ids, perms, work>>
ChangeUserRole(a, i, r) ==
  /\ r \in page[a].roles /\ i \in DOMAIN page[a].users /\ r # page[a].users[i]
  /\ OnUser(a, i, [users[i] EXCEPT !.role = r])

(***************************************************************************)
(* Roles: the first statement, then the second with the commit.            *)
(***************************************************************************)
Begin(a, what, role, to) ==
  /\ Act(a) /\ role # ""
  /\ work' = [work EXCEPT ![a] = [do |-> what, role |-> role, to |-> to, seen |-> RowsOf(role)]]
  /\ UNCHANGED <<users, ids, perms, page>>
SaveRolePerms(a) == Begin(a, "save", page[a].role, page[a].boxes)
AddRole(a, n) == n \notin page[a].roles /\ Begin(a, "add", n, {})
ExecuteRenameRole(a, n) == n # "admin" /\ n # page[a].role /\ Begin(a, "rename", page[a].role, n)
ExecuteDeleteRole(a) == page[a].role # "admin" /\ Begin(a, "delete", page[a].role, "user")

\* A row of the same key from another transaction fails the insert, and with it all.
SetRolePermissions(a) ==
  LET w == work[a]
      kept == perms \ w.seen
      new == Allowing(w.role, w.to)
  IN /\ w.do \in {"save", "add"}
     /\ perms' = IF kept \cap new = {} THEN kept \cup new ELSE perms
     /\ page' = IF w.do = "save" THEN page
                ELSE [Shows(a, users, w.role) EXCEPT ![a].roles = @ \cup {w.role}]
     /\ Rest(a) /\ UNCHANGED <<users, ids, acts>>
\* Mutant: the users move, the pages stay.
UsersOnly(a) == {}
Renamed(a) == work[a].seen \cap perms
RenameRole(a) ==
  LET w == work[a]
      there == Allowing(w.to, {r[2] : r \in Renamed(a)})
  IN /\ w.do = "rename"
     /\ IF there \cap perms # {} THEN UNCHANGED <<users, perms, page>>
        ELSE /\ perms' = (perms \ Renamed(a)) \cup there
             /\ users' = Moved(users, w.role, w.to)
             /\ page' = Shows(a, users', w.to)
     /\ Rest(a) /\ UNCHANGED <<ids, acts>>
DeleteRole(a) ==
  LET w == work[a]
  IN /\ w.do = "delete"
     /\ perms' = perms \ w.seen
     /\ users' = Moved(users, w.role, "user")
     /\ \E r \in GetRoles(users') : page' = Shows(a, users', r)
     /\ Rest(a) /\ UNCHANGED <<ids, acts>>

\* Pages that were opened before and show the tab of the roles.
Init ==
  /\ \E r \in NewRoles :
       /\ users = << [name |-> "admin", email |-> "none", role |-> "admin", ok |-> TRUE],
                     [name |-> "second", email |-> "other", role |-> r, ok |-> TRUE] >>
       /\ perms \in SUBSET (Allowing(r, Pages) \cup Allowing("user", Pages))
  /\ ids = 2 /\ acts = 0
  /\ work = [t \in Visitors \cup Admins |-> Idle]
  /\ page = [a \in Admins |-> [users |-> RoleOf(users), roles |-> GetRoles(users), role |-> "user",
                               boxes |-> PagesOf("user"), loading |-> {}]]

Next ==
  \/ \E v \in Visitors : RegisterInsert(v) \/ \E n \in Names, e \in Emails : RegisterCheck(v, n, e)
  \/ \E a \in Admins :
       \/ Activate(a) \/ SaveRolePerms(a) \/ ExecuteDeleteRole(a)
       \/ SetRolePermissions(a) \/ RenameRole(a) \/ DeleteRole(a)
       \/ \E set \in SUBSET Pages : TogglePagePerms(a, set)
       \/ \E n \in NewRoles : AddRole(a, n) \/ ExecuteRenameRole(a, n)
       \/ \E r \in page[a].roles : SelectRole(a, r)
       \/ \E r \in page[a].loading : Loaded(a, r)
       \/ \E i \in DOMAIN page[a].users :
            \/ ApproveUser(a, i) \/ RejectUser(a, i) \/ ExecuteDeleteUser(a, i)
            \/ \E r \in page[a].roles : ChangeUserRole(a, i, r)
Spec == Init /\ [][Next]_vars

(***************************************************************************)
(* Properties.                                                             *)
(***************************************************************************)
\* Whatever an older page shows: an administrator's account keeps its row and its
\* approval, and a registration adds a row of an unused name, not approved.
RowsKeptStep ==
  /\ \A i \in DOMAIN users : users[i].role = "admin" =>
       i \in DOMAIN users' /\ (users[i].ok => users'[i].ok)
  /\ \A i \in DOMAIN users' \ DOMAIN users :
       ~users'[i].ok /\ \A k \in DOMAIN users : users'[k].name # users'[i].name
\* A user loses a page by a save of its role, by the deletion of its role or by a change
\* of the role: not by a registration, an approval, a save of another role, nor by a
\* renaming, also onto a role that exists.  A renaming takes pages only when the rows
\* changed under it, or when it is that of the administrators.
Has(us, ps, i) == IF us[i].role = "admin" THEN Pages ELSE {r[2] : r \in {x \in ps : x[1] = us[i].role}}
Overtaken(a) == work[a].seen # RowsOf(work[a].role)
Takes(a, i) ==
  \/ work[a].do \in {"save", "add", "delete"} /\ work[a].role = users[i].role
  \/ work[a].do = "rename" /\ work[a].role = users[i].role /\ (Overtaken(a) \/ work[a].role = "admin")
PagesKeptStep ==
  \A i \in DOMAIN users \cap DOMAIN users' :
    \/ Has(users, perms, i) \subseteq Has(users', perms', i)
    \/ \E a \in Admins : Takes(a, i) /\ work'[a] = Idle
    \/ perms' = perms /\ acts' # acts /\ users'[i].role # users[i].role
AccountsKeptStep == RowsKeptStep /\ PagesKeptStep
AccountsKept == [][AccountsKeptStep]_vars

(***************************************************************************)
(* Why it holds: a transaction's first statement saw rows of its own role. *)
(***************************************************************************)
Shape(u) == [name |-> u.name, email |-> u.email, role |-> u.role, ok |-> u.ok]
WorkSound ==
  /\ acts \in Int
  /\ \A i \in DOMAIN users : users[i] = Shape(users[i]) /\ users[i].ok \in BOOLEAN
  /\ DOMAIN work = Visitors \cup Admins
  /\ \A a \in Admins : work[a].do \in {"save", "add", "rename", "delete"} =>
       \A r \in work[a].seen : r[1] = work[a].role
  /\ \A a \in Admins : work[a].do = "rename" => work[a].to # "admin"
===============================================================================
