------------------------------ MODULE LdapSync ------------------------------
(***************************************************************************)
(* The synchronisation with an external LDAP directory (ldap/sync.ts).  A  *)
(* cycle reads the people and then the groups of the directory and works   *)
(* through its five steps in statements of its own, outside any            *)
(* transaction: between two of them administrators save things, the        *)
(* directory changes, and the timer starts another cycle, whether or not   *)
(* this one has ended.                                                     *)
(***************************************************************************)
EXTENDS Accounts

CONSTANTS
  Cycles,               \* 1..n, as many as can be under way at once
  ADMIN_USER,           \* the name of the initial administrator
  DirectoryStates,      \* what the directory may hold
  SyncConfigs,          \* LDAP_SYNC_KEEP_DISABLED_USERS, LDAP_SYNC_LINK_EXISTING_USERS
  CycleBound,
  MishapBound           \* changes of the directory and of the tables, and failures, in all

(* Its dn identifies an entry: a directory has no two entries of one dn.   *)
ASSUME SyncAssumption ==
  /\ \A d \in DirectoryStates :
       /\ \A e \in d.people : e.dn \in DNs /\ e.username \in Usernames
       /\ \A e \in d.groups : e.dn \in DNs /\ e.name \in Groups /\ e.members \subseteq DNs
       /\ \A e, f \in d.people : e.dn = f.dn => e = f
       /\ \A e, f \in d.groups : e.dn = f.dn => e = f
  /\ CycleBound \in Nat /\ MishapBound \in Nat

VARIABLES
  directory,            \* people and groups, as sets of entries
  syncConfig,
  cycle,
  started,              \* how many cycles began
  mishaps,              \* how often the directory changed or a statement failed
  appointed             \* who became one of those below while a cycle was under way

syncVars == <<directory, syncConfig, cycle, started, mishaps, appointed>>

(* What a cycle holds in its variables.  clean says that nothing else has  *)
(* happened since it began, and that none of its statements has failed;    *)
(* lost, which names it took from accounts and groups when it renamed      *)
(* them, and of which entries it deleted an account.                       *)
Idle ==
  [pc |-> "idle", clean |-> FALSE, people |-> {}, groups |-> {}, todo |-> {}, synced |-> {},
   entry |-> None, row |-> None, left |-> {}, wanted |-> {}, drop |-> {}, lost |-> {}]

underWay(c) == cycle[c].pc \notin {"idle", "done"}
at(c, pc) == cycle[c].pc = pc

SyncTypeOK ==
  /\ \A c \in Cycles :
       /\ cycle[c].synced \cup cycle[c].wanted \cup cycle[c].drop \subseteq UserIds
       /\ cycle[c].row \in UserIds \cup GroupIds \cup {None}
       /\ cycle[c].clean \in BOOLEAN
  /\ started \in 0..CycleBound /\ mishaps \in 0..MishapBound
  /\ appointed \subseteq UserIds

SyncInit ==
  /\ directory \in DirectoryStates
  /\ syncConfig \in SyncConfigs
  /\ cycle = [c \in Cycles |-> Idle]
  /\ started = 0 /\ mishaps = 0 /\ appointed = {}

linkedTo(dn) == {u \in Present(users) : users[u].dn = dn}
groupLinkedTo(dn) == {g \in Present(groups) : groups[g].dn = dn}

mishapLeft == mishaps + changes < MishapBound
Mishap == mishapLeft /\ mishaps' = mishaps + 1

(* Members by hand of the administrators' group (unless it is one of the   *)
(* directory's), and who has the name of the initial administrator.        *)
handAdmins ==
  {u \in UserIds : \E g \in groupsNamed({ADMIN_GROUP}) :
                     groups[g].dn = None /\ member[<<u, g>>] = "admin"}
initialAdmins == {u \in Present(users) : users[u].username = ADMIN_USER}

(* The ids the cycles hold in their variables.                             *)
held ==
  UNION {cycle[c].synced \cup cycle[c].wanted \cup cycle[c].drop
           \cup {cycle[c].row, cycle[c].entry} : c \in Cycles}

disturbed == [c \in Cycles |-> [cycle[c] EXCEPT !.clean = FALSE]]

Others == <<groups, invitations, changes, directory, syncConfig, started, mishaps, appointed>>

(* A step of one cycle that changes no table.                              *)
ReadStep(c, new) ==
  cycle' = [cycle EXCEPT ![c] = new] /\ UNCHANGED <<users, member>> /\ UNCHANGED Others

(* Where a cycle goes on from the end of a turn of one of its loops, of     *)
(* people, groups, members, removals and revocations: the next turn, or    *)
(* what comes after the loop.                                              *)
finished(s) == [Idle EXCEPT !.pc = "done", !.clean = s.clean, !.lost = s.lost]

groupLoop(s) ==
  [s EXCEPT !.pc = IF s.todo = {} THEN "removals" ELSE "group", !.entry = None, !.row = None,
            !.wanted = {}, !.drop = {}, !.left = {}]

personLoop(s) ==
  IF s.todo # {} THEN [s EXCEPT !.pc = "person", !.entry = None, !.row = None]
  ELSE groupLoop([s EXCEPT !.todo = s.groups])

memberLoop(s) ==
  IF s.wanted \cup s.drop = {} THEN groupLoop(s) ELSE [s EXCEPT !.pc = "add"]

removalLoop(s) == [s EXCEPT !.pc = IF s.drop = {} THEN "admins" ELSE "remove"]

revokeLoop(s) == IF s.drop = {} THEN finished(s) ELSE [s EXCEPT !.pc = "revoke"]

-----------------------------------------------------------------------------
(* Steps 1 to 3: bind and search for the people, then for the groups.      *)
CycleStarted(c) ==
  /\ ~underWay(c) /\ \A other \in 1..(c - 1) : underWay(other)
  /\ started < CycleBound
  /\ started' = started + 1
  /\ cycle' = [disturbed EXCEPT ![c] =
                 [Idle EXCEPT !.pc = "search", !.people = directory.people,
                              !.clean = \A other \in Cycles \ {c} : ~underWay(other)]]
  /\ appointed' = {u \in appointed : \E other \in Cycles : underWay(other)}
  /\ UNCHANGED <<accountVars, directory, syncConfig, mishaps>>

GroupsFetched(c) ==
  /\ at(c, "search")
  /\ ReadStep(c, personLoop([cycle[c] EXCEPT !.groups = directory.groups,
                                             !.todo = cycle[c].people]))

-----------------------------------------------------------------------------
(* Step 4, syncSingleUser.  next is the cycle after an entry of which the  *)
(* users us have been synchronised, renamed as well if names were lost.    *)
renamed(c, us, names) ==
  personLoop([cycle[c] EXCEPT !.synced = @ \cup us, !.lost = @ \cup names])

next(c, us) == renamed(c, us, {})

nameLost(u, name) == {users[v].username : v \in {u} \cap Present(users)} \ {name}

PersonSought(c) ==
  \E e \in cycle[c].todo :
    /\ at(c, "person")
    /\ LET taken == [cycle[c] EXCEPT !.todo = @ \ {e}, !.entry = e]
       IN \/ /\ linkedTo(e.dn) = {}
             /\ ReadStep(c, [taken EXCEPT !.pc = "name"])
          \/ \E u \in linkedTo(e.dn) : ReadStep(c, [taken EXCEPT !.pc = "update", !.row = u])

(* Mistaken: the account is not counted as found in the directory.         *)
PersonUpdatedUncounted(c) ==
  LET e == cycle[c].entry
      u == cycle[c].row
  IN /\ at(c, "update")
     /\ ~usernameTaken(e.username, u)
     /\ users' = IF u \in Present(users)
                 THEN [users EXCEPT ![u].username = e.username, ![u].approved = TRUE] ELSE users
     /\ cycle' = [cycle EXCEPT ![c] = renamed(c, {}, nameLost(u, e.username))]
     /\ UNCHANGED member /\ UNCHANGED Others

(* Of a row deleted since, the update changes nothing and is not noticed.  *)
PersonUpdated(c) ==
  LET e == cycle[c].entry
      u == cycle[c].row
  IN /\ at(c, "update")
     /\ ~usernameTaken(e.username, u)
     /\ users' = IF u \in Present(users)
                 THEN [users EXCEPT ![u].username = e.username, ![u].approved = TRUE] ELSE users
     /\ cycle' = [cycle EXCEPT ![c] = renamed(c, {u}, nameLost(u, e.username))]
     /\ UNCHANGED member /\ UNCHANGED Others

(* A name that is taken by an account of another entry counts as found; by *)
(* a local account, the entry is left out unless it may be linked.         *)
NameSought(c) ==
  LET e == cycle[c].entry
      owner == {u \in Present(users) : users[u].username = e.username}
  IN /\ at(c, "name")
     /\ \/ owner = {} /\ ReadStep(c, [cycle[c] EXCEPT !.pc = "insert"])
        \/ \E u \in owner :
             \/ users[u].dn # None /\ ReadStep(c, next(c, {u}))
             \/ /\ users[u].dn = None /\ syncConfig.link /\ e.username # ADMIN_USER
                /\ ReadStep(c, [cycle[c] EXCEPT !.pc = "mayLink", !.row = u])
             \/ /\ users[u].dn = None /\ ~(syncConfig.link /\ e.username # ADMIN_USER)
                /\ ReadStep(c, next(c, {}))

(* Mistaken: userIsAdmin is not asked.                                     *)
LinkAllowedToAnyone(c) ==
  /\ at(c, "mayLink")
  /\ ReadStep(c, [cycle[c] EXCEPT !.pc = "link"])

LinkAllowed(c) ==
  /\ at(c, "mayLink")
  /\ IF cycle[c].row \in admins THEN ReadStep(c, next(c, {}))
     ELSE ReadStep(c, [cycle[c] EXCEPT !.pc = "link"])

PersonLinked(c) ==
  LET u == cycle[c].row
  IN /\ at(c, "link")
     /\ users' = IF u \in Present(users)
                 THEN [users EXCEPT ![u].dn = cycle[c].entry.dn, ![u].approved = TRUE] ELSE users
     /\ cycle' = [cycle EXCEPT ![c] = next(c, {u})]
     /\ UNCHANGED member /\ UNCHANGED Others

PersonInserted(c) ==
  LET e == cycle[c].entry
      u == freshId(users, held)
  IN /\ at(c, "insert") /\ idsSuffice(users, held)
     /\ ~usernameTaken(e.username, None)
     /\ users' = [users EXCEPT ![u] = [username |-> e.username, approved |-> TRUE,
                                       expired |-> FALSE, dn |-> e.dn]]
     /\ cycle' = [cycle EXCEPT ![c] = next(c, {u})]
     /\ UNCHANGED member /\ UNCHANGED Others

(* A statement fails: always, where it would give a name twice.  The entry *)
(* is left out of the cycle.                                               *)
PersonRefused(c) ==
  /\ cycle[c].pc \in {"update", "insert"}
  /\ usernameTaken(cycle[c].entry.username, cycle[c].row)
  /\ ReadStep(c, [next(c, {}) EXCEPT !.clean = FALSE])

PersonFailed(c) ==
  /\ cycle[c].pc \in {"update", "name", "mayLink", "link", "insert"}
  /\ Mishap
  /\ cycle' = [cycle EXCEPT ![c] = [next(c, {}) EXCEPT !.clean = FALSE]]
  /\ UNCHANGED <<accountVars, directory, syncConfig, started, appointed>>

-----------------------------------------------------------------------------
(* Step 5, syncSingleGroup: the group, the users its members are, and the  *)
(* memberships one by one.                                                 *)
GroupSought(c) ==
  \E e \in cycle[c].todo :
    /\ at(c, "group")
    /\ LET taken == [cycle[c] EXCEPT !.todo = @ \ {e}, !.entry = e, !.pc = "groupSave"]
       IN \/ groupLinkedTo(e.dn) = {} /\ ReadStep(c, taken)
          \/ \E g \in groupLinkedTo(e.dn) : ReadStep(c, [taken EXCEPT !.row = g])

(* A group whose name another has is left out.                             *)
GroupSynced(c) ==
  LET e == cycle[c].entry
      g == IF cycle[c].row = None THEN freshId(groups, held) ELSE cycle[c].row
  IN /\ at(c, "groupSave")
     /\ cycle[c].row = None => idsSuffice(groups, held)
     /\ IF groupNameTaken(e.name, cycle[c].row) THEN
          /\ cycle' = [cycle EXCEPT ![c] = [groupLoop(cycle[c]) EXCEPT !.clean = FALSE]]
          /\ UNCHANGED groups
        ELSE
          /\ groups' =
               IF cycle[c].row = None
               THEN [groups EXCEPT ![g] = [name |-> e.name, autoAssign |-> FALSE, dn |-> e.dn]]
               ELSE IF g \in Present(groups) THEN [groups EXCEPT ![g].name = e.name]
               ELSE groups
          /\ cycle' = [cycle EXCEPT ![c] =
               [cycle[c] EXCEPT !.pc = "members", !.row = g, !.left = e.members,
                 !.lost = @ \cup ({groups[h].name : h \in {g} \cap Present(groups)} \ {e.name})]]
     /\ UNCHANGED <<users, member, invitations, changes>>
     /\ UNCHANGED <<directory, syncConfig, started, mishaps, appointed>>

MemberSought(c) ==
  \E dn \in cycle[c].left :
    /\ at(c, "members")
    /\ LET sought == [cycle[c] EXCEPT !.left = @ \ {dn}]
       IN \/ linkedTo(dn) = {} /\ ReadStep(c, sought)
          \/ \E u \in linkedTo(dn) : ReadStep(c, [sought EXCEPT !.wanted = @ \cup {u}])

MembersCompared(c) ==
  LET there == {u \in UserIds : member[<<u, cycle[c].row>>] # None}
  IN /\ at(c, "members") /\ cycle[c].left = {}
     /\ ReadStep(c, memberLoop([cycle[c] EXCEPT !.wanted = @ \ there,
                                                !.drop = there \ cycle[c].wanted]))

(* The foreign keys refuse a user or a group deleted since, which ends the *)
(* group.                                                                  *)
mayJoin(u, g) == u \in Present(users) /\ g \in Present(groups)
joined(u, g) == [member EXCEPT ![<<u, g>>] = IF @ = None THEN "sync" ELSE @]

MemberAdded(c) ==
  \E u \in cycle[c].wanted :
    /\ at(c, "add")
    /\ IF mayJoin(u, cycle[c].row)
       THEN /\ member' = joined(u, cycle[c].row)
            /\ cycle' = [cycle EXCEPT ![c] = memberLoop([cycle[c] EXCEPT !.wanted = @ \ {u}])]
       ELSE cycle' = [cycle EXCEPT ![c] = groupLoop(cycle[c])] /\ UNCHANGED member
    /\ UNCHANGED users /\ UNCHANGED Others

MemberDropped(c) ==
  \E u \in cycle[c].drop :
    /\ at(c, "add") /\ cycle[c].wanted = {}
    /\ member' = [member EXCEPT ![<<u, cycle[c].row>>] = None]
    /\ cycle' = [cycle EXCEPT ![c] = memberLoop([cycle[c] EXCEPT !.drop = @ \ {u}])]
    /\ UNCHANGED users /\ UNCHANGED Others

-----------------------------------------------------------------------------
(* Step 6, handleRemovedUsers: the linked users not synchronised are       *)
(* disabled or deleted, one by one.                                        *)
RemovalsListed(c) ==
  /\ at(c, "removals")
  /\ ReadStep(c, removalLoop([cycle[c] EXCEPT !.drop =
       {u \in Present(users) : users[u].dn # None} \ cycle[c].synced]))

UserRemoved(c) ==
  \E u \in cycle[c].drop :
    /\ at(c, "remove")
    /\ IF syncConfig.keep /\ u \in Present(users)
       THEN /\ users' = [users EXCEPT ![u].approved = FALSE, ![u].expired = TRUE]
            /\ UNCHANGED member
       ELSE users' = usersWithout({u}) /\ member' = membersWithout({u}, {})
    /\ cycle' = [cycle EXCEPT ![c] =
         removalLoop([cycle[c] EXCEPT !.drop = @ \ {u},
           !.lost = @ \cup {users[v].dn : v \in IF syncConfig.keep THEN {} ELSE {u} \cap Present(users)}])]
    /\ UNCHANGED Others

-----------------------------------------------------------------------------
(* Step 7, assignAdminGroupToAdminLDAPUsers: whoever the directory has in  *)
(* the admin group joins VoidAuth's; memberships the sync gave to others   *)
(* are taken back.  synced now collects those who joined.                  *)
AdminGroupSought(c) ==
  /\ at(c, "admins")
  /\ \/ groupsNamed({ADMIN_GROUP}) = {} /\ ReadStep(c, finished(cycle[c]))
     \/ \E g \in groupsNamed({ADMIN_GROUP}) :
          ReadStep(c, [cycle[c] EXCEPT !.pc = "admin", !.row = g, !.synced = {},
                                       !.todo = {e \in cycle[c].people : e.admin}])

AdminSought(c) ==
  \E e \in cycle[c].todo :
    /\ at(c, "admin") /\ cycle[c].entry = None
    /\ LET sought == [cycle[c] EXCEPT !.todo = @ \ {e}]
       IN \/ linkedTo(e.dn) = {} /\ ReadStep(c, sought)
          \/ \E u \in linkedTo(e.dn) : ReadStep(c, [sought EXCEPT !.entry = u])

(* A foreign key that refuses ends the cycle here.                         *)
AdminAdded(c) ==
  LET u == cycle[c].entry
  IN /\ at(c, "admin") /\ u # None
     /\ IF mayJoin(u, cycle[c].row)
        THEN /\ member' = joined(u, cycle[c].row)
             /\ cycle' = [cycle EXCEPT ![c].entry = None, ![c].synced = @ \cup {u}]
        ELSE cycle' = [cycle EXCEPT ![c] = Idle] /\ UNCHANGED member
     /\ UNCHANGED users /\ UNCHANGED Others

(* Mistaken: every membership the directory does not know is taken back.   *)
AdminsListedAll(c) ==
  /\ at(c, "admin") /\ cycle[c].todo = {} /\ cycle[c].entry = None
  /\ ReadStep(c, revokeLoop([cycle[c] EXCEPT !.drop =
       {u \in UserIds : member[<<u, cycle[c].row>>] # None} \ cycle[c].synced]))

AdminsListed(c) ==
  /\ at(c, "admin") /\ cycle[c].todo = {} /\ cycle[c].entry = None
  /\ ReadStep(c, revokeLoop([cycle[c] EXCEPT !.drop =
       {u \in UserIds : member[<<u, cycle[c].row>>] = "sync"} \ cycle[c].synced]))

AdminRevoked(c) ==
  \E u \in cycle[c].drop :
    /\ at(c, "revoke")
    /\ member' = [member EXCEPT ![<<u, cycle[c].row>>] = None]
    /\ cycle' = [cycle EXCEPT ![c] = revokeLoop([cycle[c] EXCEPT !.drop = @ \ {u}])]
    /\ UNCHANGED users /\ UNCHANGED Others

(* A search, or a statement outside the loops that catch it, fails: the    *)
(* rest of the cycle is given up.                                          *)
CycleFailed(c) ==
  /\ cycle[c].pc \in {"search", "removals", "remove", "admins", "admin", "revoke"}
  /\ Mishap
  /\ cycle' = [cycle EXCEPT ![c] = Idle]
  /\ UNCHANGED <<accountVars, directory, syncConfig, started, appointed>>

-----------------------------------------------------------------------------
CycleStep(c) ==
  \/ CycleStarted(c) \/ GroupsFetched(c)
  \/ PersonSought(c) \/ PersonUpdated(c) \/ NameSought(c) \/ LinkAllowed(c) \/ PersonLinked(c)
  \/ PersonInserted(c) \/ PersonRefused(c) \/ PersonFailed(c)
  \/ GroupSought(c) \/ GroupSynced(c) \/ MemberSought(c) \/ MembersCompared(c)
  \/ MemberAdded(c) \/ MemberDropped(c)
  \/ RemovalsListed(c) \/ UserRemoved(c)
  \/ AdminGroupSought(c) \/ AdminSought(c) \/ AdminAdded(c) \/ AdminsListed(c)
  \/ AdminRevoked(c) \/ CycleFailed(c)

(* The directory changes.                                                  *)
DirectoryChanged ==
  /\ Mishap
  /\ directory' \in DirectoryStates \ {directory}
  /\ cycle' = disturbed
  /\ UNCHANGED <<accountVars, syncConfig, started, appointed>>

(* An administrator saves something.                                       *)
AdminMeanwhile ==
  /\ mishapLeft
  /\ \E me \in UserIds : AccountsSaved(me, held)
  /\ cycle' = disturbed
  /\ appointed' = appointed \cup (handAdmins' \ handAdmins) \cup (initialAdmins' \ initialAdmins)
  /\ UNCHANGED <<directory, syncConfig, started, mishaps>>

SyncNext == (\E c \in Cycles : CycleStep(c)) \/ DirectoryChanged \/ AdminMeanwhile

SyncSpec == AccountsInit /\ SyncInit /\ [][SyncNext]_<<accountVars, syncVars>>

-----------------------------------------------------------------------------
(***************************************************************************)
(* What a cycle may not touch, however it interleaves with other cycles    *)
(* and with administrators: an account that is not linked stays as it is,  *)
(* or is linked where the setting allows it, and never if it is the        *)
(* initial administrator's or of an administrator; and who was made an     *)
(* administrator by hand remains one (syncSingleUser, handleRemovedUsers,  *)
(* assignAdminGroupToAdminLDAPUsers).  Who becomes either of these while a *)
(* cycle is under way does so too late for its tests and is excepted.      *)
(***************************************************************************)
byHand(u) == u \in handAdmins \ appointed

localKept(u) ==
  users'[u] = users[u]
  \/ /\ syncConfig.link /\ u \notin initialAdmins \ appointed /\ ~byHand(u)
     /\ users'[u] = [users[u] EXCEPT !.dn = users'[u].dn, !.approved = TRUE]

handKept(u) ==
  u \in Present(users)' =>
    \E g \in groupsNamed({ADMIN_GROUP}) : member'[<<u, g>>] = "admin"

cycleKeeps ==
  changes' = changes =>
    /\ \A u \in Present(users) : users[u].dn = None => localKept(u)
    /\ \A u \in Present(users) : byHand(u) => handKept(u)

LocalAccountsUntouched == [][cycleKeeps]_<<accountVars, syncVars>>

(***************************************************************************)
(* Without that exception, and as docs/LDAP-Sync.md:87 has it ("Accounts   *)
(* in the built-in admin group are never linked"): no step links a local   *)
(* account that is in the group then.  It does not hold, as the update     *)
(* that links (sync.ts:407) no longer looks at the group, which was read   *)
(* by a statement before it (sync.ts:399).                                 *)
(***************************************************************************)
newlyLinked(u) == users[u].dn = None /\ u \in Present(users)' /\ users'[u].dn # None

AdminsNeverLinked == [][\A u \in Present(users) \cap admins : ~newlyLinked(u)]_users

(***************************************************************************)
(* One cycle that nothing disturbs, and in which nothing fails, repairs    *)
(* whatever cycles that overlapped or were cut short have left: everyone   *)
(* in the directory has an approved account under the name the directory   *)
(* gives, and is in exactly the groups it says; whoever is no longer there *)
(* is gone or disabled; the memberships the sync gave in the group of the  *)
(* administrators are those of the directory's, who are all members.       *)
(* An entry whose name belongs to the account of another entry, or to a    *)
(* local account that may not be linked, is left without one, even if the  *)
(* other entry gives the name up later in the cycle.  Of two accounts of   *)
(* one entry, which cycles that overlap can leave, the one that the groups *)
(* were given may be the one that is deleted.  A group of the directory    *)
(* that has the name of the administrators' is theirs as well as its own.  *)
(***************************************************************************)
lostInCycle == UNION {cycle[c].lost : c \in {d \in Cycles : at(d, "done") /\ cycle[d].clean}}

adminsByDirectory ==
  ADMIN_GROUP \in lostInCycle \/ \E g \in groupsNamed({ADMIN_GROUP}) : groups[g].dn # None

personMirrored(e) ==
  \/ e.username \in lostInCycle
  \/ \E u \in Present(users) :
       /\ users[u].username = e.username
       /\ CASE users[u].dn = e.dn -> users[u].approved
            [] users[u].dn = None ->
                 ~syncConfig.link \/ e.username = ADMIN_USER \/ u \in admins \/ adminsByDirectory
            [] OTHER -> TRUE

removedMirrored(u) ==
  /\ users[u].dn # None
  /\ \A e \in directory.people : users[u].dn # e.dn /\ users[u].username # e.username
  => syncConfig.keep /\ ~users[u].approved /\ users[u].expired

groupMirrored(e) ==
  \A g \in groupLinkedTo(e.dn) :
    groups[g].name = e.name /\ e.name # ADMIN_GROUP =>
      /\ \A u \in UserIds : member[<<u, g>>] # None => users[u].dn \in e.members
      /\ \A dn \in e.members \ lostInCycle :
           linkedTo(dn) # {} => \E u \in linkedTo(dn) : member[<<u, g>>] # None

adminsMirrored ==
  \A g \in groupsNamed({ADMIN_GROUP}) :
    /\ \A u \in UserIds :
         member[<<u, g>>] = "sync" => \E e \in directory.people : e.dn = users[u].dn /\ e.admin
    /\ \A e \in directory.people :
         e.admin /\ linkedTo(e.dn) # {} => \E u \in linkedTo(e.dn) : member[<<u, g>>] # None

DirectoryMirrored ==
  (\E c \in Cycles : at(c, "done") /\ cycle[c].clean) =>
    /\ \A e \in directory.people : personMirrored(e)
    /\ \A u \in Present(users) : removedMirrored(u)
    /\ \A e \in directory.groups : groupMirrored(e)
    /\ adminsMirrored
=============================================================================
