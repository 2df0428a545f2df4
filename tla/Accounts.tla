------------------------------ MODULE Accounts ------------------------------
(***************************************************************************)
(* The tables an administrator edits (routes/admin.ts): users, groups, who *)
(* is in which group and who put them there, and invitations.  One action  *)
(* per handler.  A handler runs in the transaction of its request, which   *)
(* on SQLite holds the only connection from its first statement to its     *)
(* last: an action is a whole handler, and a refused one changes nothing.  *)
(***************************************************************************)
EXTENDS AuthFactors, FiniteSets

CONSTANTS
  UserIds, GroupIds, InvitationIds,  \* the ids randomUUID() may give
  Usernames,
  DNs,                               \* entries of the LDAP directory
  None,                              \* no row, or no value in a column
  UserUpdates,                       \* what an administrator may save
  ManyUsers,                         \* the sets of users one may name
  GroupUpserts,
  InvitationUpserts,
  ChangeBound                        \* how often one saves something

ASSUME AccountsAssumption ==
  /\ None \notin UserIds \cup GroupIds \cup InvitationIds \cup Usernames \cup DNs
  /\ None \notin {"admin", "sync"}
  /\ ChangeBound \in Nat

VARIABLES
  users,        \* [UserIds -> row, or None]
  groups,       \* [GroupIds -> row, or None]
  member,       \* [UserIds \X GroupIds -> None, or who created the row]
  invitations,  \* [InvitationIds -> row, or None]
  changes

accountVars == <<users, groups, member, invitations, changes>>

Present(table) == {x \in DOMAIN table : table[x] # None}

(* Random ids do not repeat: an id is new that no row has and nothing (a   *)
(* cycle, a request) still holds.                                          *)
freshId(table, held) == CHOOSE x \in DOMAIN table \ held : table[x] = None

(* Bound: they do not run out.                                             *)
idsSuffice(table, held) == \E x \in DOMAIN table \ held : table[x] = None

UserRecord ==
  [username : Usernames, approved : BOOLEAN, expired : BOOLEAN, dn : DNs \cup {None}]
GroupRecord == [name : Groups, autoAssign : BOOLEAN, dn : DNs \cup {None}]

ASSUME RowsAssumption ==
  /\ None \notin UserRecord \cup GroupRecord
  /\ \A update \in UserUpdates :
       update.username \in Usernames /\ {update.approved, update.expired} \subseteq BOOLEAN
  /\ \A upsert \in GroupUpserts : upsert.name \in Groups /\ upsert.autoAssign \in BOOLEAN

AccountsTypeOK ==
  /\ \A u \in Present(users) : users[u] \in UserRecord
  /\ \A g \in Present(groups) : groups[g] \in GroupRecord
  /\ \A u \in UserIds, g \in GroupIds :
       member[<<u, g>>] # None =>
         /\ member[<<u, g>>] \in {"admin", "sync"}
         /\ u \in Present(users) /\ g \in Present(groups)
  /\ DOMAIN invitations = InvitationIds
  /\ \A i \in Present(invitations) :
       invitations[i] \in [username : Usernames \cup {None}, groups : SUBSET Present(groups)]
  /\ changes \in 0..ChangeBound

(* Tables a server may find when it starts.                                *)
AccountsInit ==
  /\ users \in [UserIds -> UserRecord \cup {None}]
  /\ groups \in [GroupIds -> GroupRecord \cup {None}]
  /\ member \in [UserIds \X GroupIds -> {"admin", "sync", None}]
  /\ invitations \in [InvitationIds -> [username : Usernames \cup {None}, groups : SUBSET GroupIds]
                                         \cup {None}]
  /\ changes = 0
  /\ AccountsTypeOK
  /\ \A u \in UserIds, g \in GroupIds : member[<<u, g>>] = "sync" => users[u].dn # None
  /\ \A u, v \in Present(users) : users[u].username = users[v].username => u = v
  /\ \A g, h \in Present(groups) : groups[g].name = groups[h].name => g = h

(* Names are unique columns; users are looked up by name without case.     *)
usernameTaken(name, by) == \E u \in Present(users) \ {by} : users[u].username = name
groupNameTaken(name, by) == \E g \in Present(groups) \ {by} : groups[g].name = name
groupsNamed(names) == {g \in Present(groups) : groups[g].name \in names}

(* The administrators: the members of the group of that name.              *)
admins == {u \in UserIds : \E g \in groupsNamed({ADMIN_GROUP}) : member[<<u, g>>] # None}

(* The rows of user_group once exactly those members that holds says are   *)
(* wanted, of those that are asked about: a row that is there keeps its    *)
(* creator (mergeKeys leaves createdBy out), a new one is by's.            *)
membership(asked, holds, by) ==
  [m \in UserIds \X GroupIds |->
     IF m \notin asked THEN member[m] ELSE IF m \notin holds THEN None
     ELSE IF member[m] # None THEN member[m] ELSE by]

membersKept(us, gs) ==   \* only those of a deleted group are
  [m \in UserIds \X GroupIds |-> IF m[2] \in gs THEN None ELSE member[m]]

(* Foreign keys cascade: a row's memberships go with it.                   *)
membersWithout(us, gs) ==
  [m \in UserIds \X GroupIds |-> IF m[1] \in us \/ m[2] \in gs THEN None ELSE member[m]]

usersWithout(us) == [u \in UserIds |-> IF u \in us THEN None ELSE users[u]]

(* checkAdmin: some administrator is signed in to save something.          *)
AdminSaves(me) == changes < ChangeBound /\ me \in admins /\ changes' = changes + 1

-----------------------------------------------------------------------------
(* PATCH /user.                                                            *)
UserPatched(me, update) ==
  /\ AdminSaves(me)
  /\ update.id \in Present(users)
  /\ Cardinality(groupsNamed(update.groups)) = Cardinality(update.groups)
  /\ ~usernameTaken(update.username, update.id)
  /\ users' = [users EXCEPT ![update.id].username = update.username,
                            ![update.id].approved = update.approved,
                            ![update.id].expired = update.expired]
  /\ member' = membership({update.id} \X GroupIds,
                          {update.id} \X groupsNamed(update.groups), "admin")
  /\ UNCHANGED <<groups, invitations>>

(* PATCH /users/approve.                                                   *)
UsersApproved(me, us) ==
  /\ AdminSaves(me)
  /\ users' = [u \in UserIds |-> IF u \in us \cap Present(users)
                                  THEN [users[u] EXCEPT !.approved = TRUE] ELSE users[u]]
  /\ UNCHANGED <<groups, member, invitations>>

(* DELETE /user/:id and POST /users/delete: not oneself.                   *)
UsersDeleted(me, us) ==
  /\ AdminSaves(me) /\ us \cap Present(users) # {} /\ me \notin us
  /\ users' = usersWithout(us \cap Present(users))
  /\ member' = membersWithout(us, {})
  /\ UNCHANGED <<groups, invitations>>

(* DELETE /user, by anyone who is signed in, and the last administrator    *)
(* too.                                                                    *)
AccountDeleted(me) ==
  /\ changes < ChangeBound /\ changes' = changes + 1
  /\ me \in Present(users)
  /\ users' = usersWithout({me})
  /\ member' = membersWithout({me}, {})
  /\ UNCHANGED <<groups, invitations>>

(* POST /group, of a group that is there (id) or a new one (None).  The    *)
(* administrators keep one member at least and are not assigned to anyone. *)
GroupSaved(me, upsert, held) ==
  /\ AdminSaves(me)
  /\ ~groupNameTaken(upsert.name, upsert.id)
  /\ upsert.name = ADMIN_GROUP => upsert.users # {} /\ ~upsert.autoAssign
  /\ upsert.users \subseteq Present(users)
  /\ IF upsert.id = None THEN idsSuffice(groups, held) ELSE upsert.id \in Present(groups)
  /\ LET id == IF upsert.id = None THEN freshId(groups, held) ELSE upsert.id
         dn == IF upsert.id = None THEN None ELSE groups[id].dn
     IN /\ groups' = [groups EXCEPT ![id] = [name |-> upsert.name, dn |-> dn,
                                             autoAssign |-> upsert.autoAssign]]
        /\ member' = membership(UserIds \X {id}, upsert.users \X {id}, "admin")
  /\ UNCHANGED <<users, invitations>>

(* DELETE /group/:id.                                                      *)
GroupDeleted(me, id) ==
  /\ AdminSaves(me)
  /\ id \in Present(groups) /\ groups[id].name # ADMIN_GROUP
  /\ groups' = [groups EXCEPT ![id] = None]
  /\ member' = membersWithout({}, {id})
  /\ invitations' = [i \in InvitationIds |->
                       IF i \in Present(invitations)
                       THEN [invitations[i] EXCEPT !.groups = @ \ {id}]
                       ELSE invitations[i]]
  /\ UNCHANGED users

(* POST /invitation.  An update names the invitation and keeps its         *)
(* challenge; of one that is gone only its foreign keys would notice.      *)
InvitationSaved(me, upsert, held) ==
  /\ AdminSaves(me)
  /\ IF upsert.id = None THEN idsSuffice(invitations, held)
     ELSE upsert.id \in Present(invitations) \/ groupsNamed(upsert.groups) = {}
  /\ LET id == IF upsert.id = None THEN freshId(invitations, held) ELSE upsert.id
     IN invitations' = IF upsert.id # None /\ id \notin Present(invitations) THEN invitations
                       ELSE [invitations EXCEPT ![id] =
                               [username |-> upsert.username, groups |-> groupsNamed(upsert.groups)]]
  /\ UNCHANGED <<users, groups, member>>

(* DELETE /invitation/:id, and expiry, after which getInvitation does not  *)
(* find it.                                                                *)
InvitationDeleted(me, id) ==
  /\ AdminSaves(me)
  /\ id \in Present(invitations)
  /\ invitations' = [invitations EXCEPT ![id] = None]
  /\ UNCHANGED <<users, groups, member>>

AccountsSaved(me, held) ==
  \/ \E update \in UserUpdates : UserPatched(me, update)
  \/ \E us \in ManyUsers : UsersApproved(me, us) \/ UsersDeleted(me, us)
  \/ \E upsert \in GroupUpserts : GroupSaved(me, upsert, held)
  \/ \E id \in GroupIds : GroupDeleted(me, id)

InvitationsSaved(me, held) ==
  \/ \E upsert \in InvitationUpserts : InvitationSaved(me, upsert, held)
  \/ \E id \in InvitationIds : InvitationDeleted(me, id)
=============================================================================
