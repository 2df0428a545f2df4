-------------------------- MODULE LdapMirrorProofs --------------------------
(* What a cycle of the synchronisation that nothing disturbs makes of the  *)
(* tables, for any directory, accounts, groups, memberships and settings:  *)
(* they are as the directory says, whatever cycles before it have left.    *)
EXTENDS AdministrationProofs

-----------------------------------------------------------------------------
(***************************************************************************)
(* Types.  Every row of a table and every variable of a cycle holds what   *)
(* it is meant to: of a cycle, entries of what it has read, and ids of     *)
(* rows.  And the sync made no one a member who is not linked, nor is it   *)
(* about to: whom a cycle is adding was linked when it was found.          *)
(***************************************************************************)
PersonTurns == {"name", "update", "mayLink", "link", "insert"}
GroupTurns == {"groupSave", "members", "add"}
PeoplePhases == {"person"} \cup PersonTurns

EveryPerson == UNION {d.people : d \in DirectoryStates}
EveryTeam == UNION {d.groups : d \in DirectoryStates}

Holds(s) ==
  /\ s = [f \in CycleFields |-> s[f]]
  /\ s.clean \in BOOLEAN
  /\ s.people \subseteq EveryPerson /\ s.groups \subseteq EveryTeam
  /\ s.synced \cup s.wanted \cup s.drop \subseteq UserIds
  /\ s.row \in UserIds \cup GroupIds \cup {None}

Well(s) ==
  /\ Holds(s)
  /\ s.pc \in PeoplePhases => s.todo \subseteq s.people
  /\ s.pc \in PersonTurns => s.entry \in s.people
  /\ s.pc = "group" \/ s.pc \in GroupTurns => s.todo \subseteq s.groups
  /\ s.pc \in GroupTurns => s.entry \in s.groups
  /\ s.pc \in {"update", "mayLink", "link"} => s.row \in UserIds
  /\ s.pc = "group" => s.row = None
  /\ s.pc = "groupSave" => s.row \in GroupIds \cup {None}
  /\ s.pc = "members" => s.left \subseteq s.entry.members
  /\ s.pc \in {"members", "add", "admin", "revoke"} => s.row \in GroupIds
  /\ s.pc \in {"group", "groupSave"} => s.wanted = {}
  /\ s.pc \in {"removals", "remove", "admins"} => s.entry = None
  /\ s.pc = "admin" => s.entry \in UserIds \cup {None} /\ s.todo \subseteq s.people

Gives(s, us) ==
  /\ s.pc \in {"members", "add"} => \A u \in s.wanted : Linked(u, us)
  /\ s.pc = "admin" => Linked(s.entry, us)

Granted(us, mem) ==
  \A u \in UserIds, g \in GroupIds : mem[<<u, g>>] = "sync" => Linked(u, us)

WellInv ==
  /\ AccountsTypeOK /\ SyncTypeOK
  /\ \A c \in Cycles : Well(cycle[c]) /\ Gives(cycle[c], users)
  /\ Granted(users, member)

LEMMA EntriesTyped ==
  /\ \A e \in EveryPerson : e.dn \in DNs /\ e.username \in Usernames
  /\ \A e \in EveryTeam : e.dn \in DNs /\ e.name \in Groups /\ e.members \subseteq DNs
BY SyncAssumption DEF EveryPerson, EveryTeam

(* The loops.                                                              *)
LEMMA GroupLoopWell ==
  ASSUME NEW s, Holds(s), s.todo \subseteq s.groups, NEW us
  PROVE  Well(groupLoop(s)) /\ Gives(groupLoop(s), us)
<1> DEFINE t == groupLoop(s)
<1>1. s = [f \in CycleFields |-> s[f]]
  BY DEF Holds
<1>2. /\ t = [f \in CycleFields |-> t[f]]
      /\ t.clean = s.clean /\ t.people = s.people /\ t.groups = s.groups /\ t.todo = s.todo
      /\ t.synced = s.synced /\ t.wanted = {} /\ t.drop = {} /\ t.row = None /\ t.entry = None
      /\ t.pc \in {"removals", "group"}
  BY <1>1 DEF groupLoop, CycleFields
<1> HIDE DEF t
<1>3. Holds(t)
  BY <1>2 DEF Holds
<1>4. QED BY <1>2, <1>3 DEF Well, Gives, PeoplePhases, PersonTurns, GroupTurns, t

LEMMA PersonLoopWell ==
  ASSUME NEW s, Holds(s), s.todo \subseteq s.people, NEW us
  PROVE  Well(personLoop(s)) /\ Gives(personLoop(s), us)
<1>1. s = [f \in CycleFields |-> s[f]]
  BY DEF Holds
<1>2. CASE s.todo # {}
  <2> DEFINE t == personLoop(s)
  <2>1. /\ t = [f \in CycleFields |-> t[f]]
        /\ t.clean = s.clean /\ t.people = s.people /\ t.groups = s.groups /\ t.todo = s.todo
        /\ t.synced = s.synced /\ t.wanted = s.wanted /\ t.drop = s.drop /\ t.row = None
        /\ t.pc = "person"
    BY <1>1, <1>2 DEF personLoop, CycleFields
  <2> HIDE DEF t
  <2>2. Holds(t)
    BY <2>1 DEF Holds
  <2>3. QED BY <2>1, <2>2 DEF Well, Gives, PeoplePhases, PersonTurns, GroupTurns, t
<1>3. CASE s.todo = {}
  <2> DEFINE t == [s EXCEPT !.todo = s.groups]
  <2>1. /\ t = [f \in CycleFields |-> t[f]]
        /\ t.clean = s.clean /\ t.people = s.people /\ t.groups = s.groups /\ t.todo = s.groups
        /\ t.synced = s.synced /\ t.wanted = s.wanted /\ t.drop = s.drop /\ t.row = s.row
    BY <1>1 DEF CycleFields
  <2> HIDE DEF t
  <2>2. Holds(t) /\ t.todo \subseteq t.groups
    BY <2>1 DEF Holds
  <2>3. personLoop(s) = groupLoop(t)
    BY <1>3 DEF personLoop, t
  <2>4. QED BY <2>2, <2>3, GroupLoopWell
<1>4. QED BY <1>2, <1>3

LEMMA MemberLoopWell ==
  ASSUME NEW s, Holds(s), s.todo \subseteq s.groups, s.entry \in s.groups, s.row \in GroupIds,
         NEW us, \A u \in s.wanted : Linked(u, us)
  PROVE  Well(memberLoop(s)) /\ Gives(memberLoop(s), us)
<1>1. CASE s.wanted \cup s.drop = {}
  BY <1>1, GroupLoopWell DEF memberLoop
<1>2. CASE s.wanted \cup s.drop # {}
  <2> DEFINE t == memberLoop(s)
  <2>1. s = [f \in CycleFields |-> s[f]]
    BY DEF Holds
  <2>2. /\ t = [f \in CycleFields |-> t[f]]
        /\ t.clean = s.clean /\ t.people = s.people /\ t.groups = s.groups /\ t.todo = s.todo
        /\ t.synced = s.synced /\ t.wanted = s.wanted /\ t.drop = s.drop /\ t.row = s.row
        /\ t.entry = s.entry /\ t.pc = "add"
    BY <1>2, <2>1 DEF memberLoop, CycleFields
  <2> HIDE DEF t
  <2>3. Holds(t)
    BY <2>2 DEF Holds
  <2>4. QED BY <2>2, <2>3 DEF Well, Gives, PeoplePhases, PersonTurns, GroupTurns, t
<1>3. QED BY <1>1, <1>2

LEMMA RemovalLoopWell ==
  ASSUME NEW s, Holds(s), s.entry = None, NEW us
  PROVE  Well(removalLoop(s)) /\ Gives(removalLoop(s), us)
<1> DEFINE t == removalLoop(s)
<1>1. s = [f \in CycleFields |-> s[f]]
  BY DEF Holds
<1>2. /\ t = [f \in CycleFields |-> t[f]]
      /\ t.clean = s.clean /\ t.people = s.people /\ t.groups = s.groups
      /\ t.synced = s.synced /\ t.wanted = s.wanted /\ t.drop = s.drop /\ t.row = s.row
      /\ t.entry = None /\ t.pc \in {"admins", "remove"}
  BY <1>1 DEF removalLoop, CycleFields
<1> HIDE DEF t
<1>3. Holds(t)
  BY <1>2 DEF Holds
<1>4. QED BY <1>2, <1>3 DEF Well, Gives, PeoplePhases, PersonTurns, GroupTurns, t

LEMMA FinishedWell ==
  ASSUME NEW s, Holds(s), NEW us
  PROVE  /\ Well(finished(s)) /\ Gives(finished(s), us)
         /\ Well(Idle) /\ Gives(Idle, us)
<1>1. Holds(finished(s)) /\ finished(s).pc = "done" /\ Holds(Idle) /\ Idle.pc = "idle"
  BY DEF Holds, Idle, finished, CycleFields
<1>2. QED BY <1>1 DEF Well, Gives, PeoplePhases, PersonTurns, GroupTurns

LEMMA RevokeLoopWell ==
  ASSUME NEW s, Holds(s), s.row \in GroupIds, NEW us
  PROVE  Well(revokeLoop(s)) /\ Gives(revokeLoop(s), us)
<1>1. CASE s.drop = {}
  BY <1>1, FinishedWell DEF revokeLoop
<1>2. CASE s.drop # {}
  <2> DEFINE t == revokeLoop(s)
  <2>1. s = [f \in CycleFields |-> s[f]]
    BY DEF Holds
  <2>2. /\ t = [f \in CycleFields |-> t[f]]
        /\ t.clean = s.clean /\ t.people = s.people /\ t.groups = s.groups
        /\ t.synced = s.synced /\ t.wanted = s.wanted /\ t.drop = s.drop /\ t.row = s.row
        /\ t.pc = "revoke"
    BY <1>2, <2>1 DEF revokeLoop, CycleFields
  <2> HIDE DEF t
  <2>3. Holds(t)
    BY <2>2 DEF Holds
  <2>4. QED BY <2>2, <2>3 DEF Well, Gives, PeoplePhases, PersonTurns, GroupTurns, t
<1>3. QED BY <1>1, <1>2

LEMMA StopsBeingClean ==
  ASSUME NEW s, Well(s), NEW us, Gives(s, us)
  PROVE  Well([s EXCEPT !.clean = FALSE]) /\ Gives([s EXCEPT !.clean = FALSE], us)
<1> DEFINE t == [s EXCEPT !.clean = FALSE]
<1>1. s = [f \in CycleFields |-> s[f]]
  BY DEF Well, Holds
<1>2. /\ t = [f \in CycleFields |-> t[f]]
      /\ t.clean = FALSE /\ t.people = s.people /\ t.groups = s.groups /\ t.todo = s.todo
      /\ t.synced = s.synced /\ t.wanted = s.wanted /\ t.drop = s.drop /\ t.row = s.row
      /\ t.entry = s.entry /\ t.pc = s.pc /\ t.left = s.left
  BY <1>1 DEF CycleFields
<1> HIDE DEF t
<1>3. Holds(t)
  BY <1>2 DEF Holds, Well
<1>4. QED BY <1>2, <1>3 DEF Well, Gives, t

LEMMA RenamedWell ==
  ASSUME NEW c \in Cycles, Well(cycle[c]), cycle[c].pc \in PeoplePhases,
         NEW us \in SUBSET UserIds, NEW names, NEW rows
  PROVE  Well(renamed(c, us, names)) /\ Gives(renamed(c, us, names), rows)
<1> DEFINE s == cycle[c]
           t == [s EXCEPT !.synced = @ \cup us, !.lost = @ \cup names]
<1>1. s = [f \in CycleFields |-> s[f]] /\ Holds(s) /\ s.todo \subseteq s.people
  BY DEF Well, Holds
<1> HIDE DEF s
<1>2. /\ t = [f \in CycleFields |-> t[f]]
      /\ t.clean = s.clean /\ t.people = s.people /\ t.groups = s.groups /\ t.todo = s.todo
      /\ t.synced = s.synced \cup us /\ t.wanted = s.wanted /\ t.drop = s.drop /\ t.row = s.row
  BY <1>1 DEF CycleFields
<1> HIDE DEF t
<1>3. Holds(t) /\ t.todo \subseteq t.people
  BY <1>1, <1>2 DEF Holds
<1>4. QED BY <1>3, PersonLoopWell DEF renamed, t, s

LEMMA NextWell ==
  ASSUME NEW c \in Cycles, Well(cycle[c]), cycle[c].pc \in PeoplePhases,
         NEW us \in SUBSET UserIds, NEW rows
  PROVE  /\ Well(next(c, us)) /\ Gives(next(c, us), rows)
         /\ Well([next(c, us) EXCEPT !.clean = FALSE])
         /\ Gives([next(c, us) EXCEPT !.clean = FALSE], rows)
BY RenamedWell, StopsBeingClean DEF next

(* One cycle goes on as s, and whom the sync knows as linked is so still.  *)
LEMMA CycleWell ==
  ASSUME SyncInv, WellInv, NEW c \in Cycles, NEW s, cycle' = [cycle EXCEPT ![c] = s],
         Well(s), Gives(s, users'), AccountsTypeOK', Granted(users', member'),
         \A u : Linked(u, users) => Linked(u, users'),
         UNCHANGED <<started, appointed>>, mishaps' \in 0..MishapBound
  PROVE  WellInv'
<1>1. cycle'[c] = s /\ \A d \in Cycles \ {c} : cycle'[d] = cycle[d]
  BY DEF SyncInv, CyclesHold
<1>2. \A d \in Cycles : Gives(cycle[d], users) => Gives(cycle[d], users')
  BY DEF Gives
<1>3. \A d \in Cycles : Well(cycle'[d]) /\ Gives(cycle'[d], users')
  BY <1>1, <1>2 DEF WellInv
<1>4. SyncTypeOK'
  BY <1>3 DEF WellInv, SyncTypeOK, Well, Holds
<1>5. QED BY <1>3, <1>4 DEF WellInv

LEMMA AccountsSame ==
  ASSUME AccountsTypeOK, UNCHANGED accountVars
  PROVE  AccountsTypeOK'
BY DEF AccountsTypeOK, accountVars, Present

LEMMA WellReads ==
  ASSUME SyncInv, WellInv, NEW c \in Cycles, NEW s, ReadStep(c, s), Well(s), Gives(s, users)
  PROVE  WellInv'
<1>1. /\ UNCHANGED <<accountVars, started, mishaps, appointed>>
      /\ cycle' = [cycle EXCEPT ![c] = s]
  BY DEF ReadStep, Others, accountVars
<1>2. AccountsTypeOK' /\ Granted(users', member')
  BY <1>1, AccountsSame DEF WellInv, accountVars
<1>3. mishaps' \in 0..MishapBound
  BY <1>1 DEF WellInv, SyncTypeOK
<1>4. Gives(s, users') /\ \A u : Linked(u, users) => Linked(u, users')
  BY <1>1 DEF accountVars
<1>5. QED BY <1>1, <1>2, <1>3, <1>4, CycleWell

LEMMA FetchWell ==
  ASSUME SyncInv, WellInv, NEW c \in Cycles, GroupsFetched(c)
  PROVE  WellInv'
<1> DEFINE s == [cycle[c] EXCEPT !.groups = directory.groups, !.todo = cycle[c].people]
<1>1. Holds(cycle[c]) /\ directory.groups \subseteq EveryTeam
  BY DEF WellInv, Well, SyncInv, EveryTeam
<1>2. cycle[c] = [f \in CycleFields |-> cycle[c][f]]
  BY <1>1 DEF Holds
<1>3. Holds(s) /\ s.todo \subseteq s.people
  BY <1>1, <1>2 DEF Holds, CycleFields
<1> HIDE DEF s
<1>4. ReadStep(c, personLoop(s))
  BY DEF GroupsFetched, s
<1>5. QED BY <1>3, <1>4, PersonLoopWell, WellReads

LEMMA PersonReadsWell ==
  ASSUME SyncInv, WellInv, NEW c \in Cycles,
         PersonSought(c) \/ NameSought(c) \/ LinkAllowed(c) \/ PersonRefused(c)
  PROVE  WellInv'
<1>1. /\ cycle[c] = [f \in CycleFields |-> cycle[c][f]] /\ Well(cycle[c]) /\ Holds(cycle[c])
      /\ Present(users) \subseteq UserIds
  BY DEF WellInv, Well, Holds, SyncInv, TablesHold, Present
<1>2. ASSUME NEW us \in SUBSET UserIds, ReadStep(c, next(c, us)), cycle[c].pc \in PeoplePhases
      PROVE  WellInv'
  BY <1>1, <1>2, NextWell, WellReads
<1>3. CASE PersonSought(c)
  <2>1. PICK e \in cycle[c].todo :
          /\ cycle[c].pc = "person"
          /\ LET taken == [cycle[c] EXCEPT !.todo = @ \ {e}, !.entry = e]
             IN \/ ReadStep(c, [taken EXCEPT !.pc = "name"])
                \/ \E u \in linkedTo(e.dn) : ReadStep(c, [taken EXCEPT !.pc = "update", !.row = u])
    BY <1>3 DEF PersonSought, at
  <2> DEFINE taken == [cycle[c] EXCEPT !.todo = @ \ {e}, !.entry = e]
  <2>2. cycle[c].todo \subseteq cycle[c].people /\ e \in cycle[c].people
    BY <1>1, <2>1 DEF Well, PeoplePhases
  <2>3. ASSUME ReadStep(c, [taken EXCEPT !.pc = "name"])
        PROVE  WellInv'
    <3> DEFINE s == [taken EXCEPT !.pc = "name"]
    <3>1. Holds(s) /\ s.pc = "name" /\ s.todo \subseteq s.people /\ s.entry \in s.people
      BY <1>1, <2>2 DEF Holds, CycleFields
    <3> HIDE DEF s
    <3>2. Well(s) /\ Gives(s, users)
      BY <3>1 DEF Well, Gives, GroupTurns
    <3>3. QED BY <2>3, <3>2, WellReads DEF s
  <2>4. ASSUME NEW u \in linkedTo(e.dn), ReadStep(c, [taken EXCEPT !.pc = "update", !.row = u])
        PROVE  WellInv'
    <3> DEFINE s == [taken EXCEPT !.pc = "update", !.row = u]
    <3>1. u \in UserIds
      BY <1>1 DEF linkedTo
    <3>2. /\ Holds(s) /\ s.pc = "update" /\ s.todo \subseteq s.people /\ s.entry \in s.people
          /\ s.row \in UserIds
      BY <1>1, <2>2, <3>1 DEF Holds, CycleFields
    <3> HIDE DEF s
    <3>3. Well(s) /\ Gives(s, users)
      BY <3>2 DEF Well, Gives, GroupTurns
    <3>4. QED BY <2>4, <3>3, WellReads DEF s
  <2>5. QED BY <2>1, <2>3, <2>4
<1>4. CASE NameSought(c)
  <2>1. cycle[c].pc = "name" /\ cycle[c].pc \in PeoplePhases
    BY <1>4 DEF NameSought, at, PeoplePhases, PersonTurns
  <2>2. ASSUME ReadStep(c, [cycle[c] EXCEPT !.pc = "insert"])
        PROVE  WellInv'
    <3> DEFINE s == [cycle[c] EXCEPT !.pc = "insert"]
    <3>1. Holds(s) /\ s.pc = "insert" /\ s.todo \subseteq s.people /\ s.entry \in s.people
      BY <1>1, <2>1 DEF Well, Holds, CycleFields, PeoplePhases, PersonTurns
    <3> HIDE DEF s
    <3>2. Well(s) /\ Gives(s, users)
      BY <3>1 DEF Well, Gives, GroupTurns
    <3>3. QED BY <2>2, <3>2, WellReads DEF s
  <2>3. ASSUME NEW u \in Present(users), ReadStep(c, [cycle[c] EXCEPT !.pc = "mayLink", !.row = u])
        PROVE  WellInv'
    <3> DEFINE s == [cycle[c] EXCEPT !.pc = "mayLink", !.row = u]
    <3>1. /\ Holds(s) /\ s.pc = "mayLink" /\ s.todo \subseteq s.people /\ s.entry \in s.people
          /\ s.row \in UserIds
      BY <1>1, <2>1 DEF Well, Holds, CycleFields, PeoplePhases, PersonTurns
    <3> HIDE DEF s
    <3>2. Well(s) /\ Gives(s, users)
      BY <3>1 DEF Well, Gives, GroupTurns
    <3>3. QED BY <2>3, <3>2, WellReads DEF s
  <2>4. ASSUME NEW u \in Present(users), ReadStep(c, next(c, {u})) \/ ReadStep(c, next(c, {}))
        PROVE  WellInv'
    BY <1>1, <1>2, <2>1, <2>4
  <2>5. QED BY <1>4, <2>2, <2>3, <2>4 DEF NameSought
<1>5. CASE LinkAllowed(c)
  <2>1. cycle[c].pc = "mayLink" /\ cycle[c].pc \in PeoplePhases
    BY <1>5 DEF LinkAllowed, at, PeoplePhases, PersonTurns
  <2>2. ASSUME ReadStep(c, [cycle[c] EXCEPT !.pc = "link"])
        PROVE  WellInv'
    <3> DEFINE s == [cycle[c] EXCEPT !.pc = "link"]
    <3>1. /\ Holds(s) /\ s.pc = "link" /\ s.todo \subseteq s.people /\ s.entry \in s.people
          /\ s.row \in UserIds
      BY <1>1, <2>1 DEF Well, Holds, CycleFields, PeoplePhases, PersonTurns
    <3> HIDE DEF s
    <3>2. Well(s) /\ Gives(s, users)
      BY <3>1 DEF Well, Gives, GroupTurns
    <3>3. QED BY <2>2, <3>2, WellReads DEF s
  <2>3. {} \in SUBSET UserIds
    OBVIOUS
  <2>4. QED BY <1>2, <1>5, <2>1, <2>2, <2>3 DEF LinkAllowed
<1>6. CASE PersonRefused(c)
  <2>1. cycle[c].pc \in PeoplePhases /\ ReadStep(c, [next(c, {}) EXCEPT !.clean = FALSE])
    BY <1>6 DEF PersonRefused, PeoplePhases, PersonTurns
  <2>2. QED BY <1>1, <2>1, NextWell, WellReads
<1>7. QED BY <1>3, <1>4, <1>5, <1>6

LEMMA GroupReadsWell ==
  ASSUME SyncInv, WellInv, NEW c \in Cycles,
         GroupSought(c) \/ MemberSought(c) \/ MembersCompared(c)
  PROVE  WellInv'
<1>1. /\ cycle[c] = [f \in CycleFields |-> cycle[c][f]] /\ Well(cycle[c]) /\ Holds(cycle[c])
      /\ Present(users) \subseteq UserIds /\ Present(groups) \subseteq GroupIds
      /\ Gives(cycle[c], users)
  BY DEF WellInv, Well, Holds, SyncInv, TablesHold, Present
<1>2. None \notin DNs
  BY AccountsAssumption
<1>3. CASE GroupSought(c)
  <2>1. PICK e \in cycle[c].todo :
          /\ cycle[c].pc = "group"
          /\ LET taken == [cycle[c] EXCEPT !.todo = @ \ {e}, !.entry = e, !.pc = "groupSave"]
             IN \/ ReadStep(c, taken)
                \/ \E g \in groupLinkedTo(e.dn) : ReadStep(c, [taken EXCEPT !.row = g])
    BY <1>3 DEF GroupSought, at
  <2> DEFINE taken == [cycle[c] EXCEPT !.todo = @ \ {e}, !.entry = e, !.pc = "groupSave"]
  <2>2. /\ cycle[c].todo \subseteq cycle[c].groups /\ e \in cycle[c].groups
        /\ cycle[c].wanted = {} /\ cycle[c].row = None
    BY <1>1, <2>1 DEF Well
  <2>3. /\ Holds(taken) /\ taken.pc = "groupSave" /\ taken.todo \subseteq taken.groups
        /\ taken.entry \in taken.groups /\ taken.wanted = {} /\ taken.row = None
        /\ taken = [f \in CycleFields |-> taken[f]]
    BY <1>1, <2>2 DEF Holds, CycleFields
  <2> HIDE DEF taken
  <2>4. CASE ReadStep(c, taken)
    <3>1. Well(taken) /\ Gives(taken, users)
      BY <2>3 DEF Well, Gives, PeoplePhases, PersonTurns
    <3>2. QED BY <2>4, <3>1, WellReads
  <2>5. ASSUME NEW g \in groupLinkedTo(e.dn), ReadStep(c, [taken EXCEPT !.row = g])
        PROVE  WellInv'
    <3> DEFINE s == [taken EXCEPT !.row = g]
    <3>1. g \in GroupIds
      BY <1>1 DEF groupLinkedTo
    <3>2. /\ Holds(s) /\ s.pc = "groupSave" /\ s.todo \subseteq s.groups
          /\ s.entry \in s.groups /\ s.wanted = {} /\ s.row \in GroupIds
      BY <2>3, <3>1 DEF Holds, CycleFields
    <3> HIDE DEF s
    <3>3. Well(s) /\ Gives(s, users)
      BY <3>2 DEF Well, Gives, PeoplePhases, PersonTurns
    <3>4. QED BY <2>5, <3>3, WellReads DEF s
  <2>6. QED BY <2>1, <2>4, <2>5 DEF taken
<1>4. CASE MemberSought(c)
  <2>1. PICK dn \in cycle[c].left :
          /\ cycle[c].pc = "members"
          /\ LET sought == [cycle[c] EXCEPT !.left = @ \ {dn}]
             IN \/ linkedTo(dn) = {} /\ ReadStep(c, sought)
                \/ \E u \in linkedTo(dn) : ReadStep(c, [sought EXCEPT !.wanted = @ \cup {u}])
    BY <1>4 DEF MemberSought, at
  <2>2. ASSUME NEW us \in SUBSET UserIds, \A u \in us : Linked(u, users),
               NEW s, s = [f \in CycleFields |-> CASE f = "left" -> cycle[c].left \ {dn}
                                                   [] f = "wanted" -> cycle[c].wanted \cup us
                                                   [] OTHER -> cycle[c][f]],
               ReadStep(c, s)
        PROVE  WellInv'
    <3>1. /\ s = [f \in CycleFields |-> s[f]]
          /\ s.clean = cycle[c].clean /\ s.people = cycle[c].people /\ s.groups = cycle[c].groups
          /\ s.synced = cycle[c].synced /\ s.wanted = cycle[c].wanted \cup us
          /\ s.drop = cycle[c].drop /\ s.row = cycle[c].row /\ s.pc = "members"
          /\ s.todo = cycle[c].todo /\ s.entry = cycle[c].entry
          /\ s.left = cycle[c].left \ {dn}
      BY <2>1, <2>2 DEF CycleFields
    <3>2. Holds(s)
      BY <1>1, <3>1 DEF Holds
    <3>3. Well(s) /\ Gives(s, users)
      BY <1>1, <2>1, <2>2, <3>1, <3>2 DEF Well, Gives, PeoplePhases, PersonTurns, GroupTurns
    <3>4. QED BY <2>2, <3>3, WellReads
  <2>3. CASE ReadStep(c, [cycle[c] EXCEPT !.left = @ \ {dn}])
    <3> DEFINE s == [cycle[c] EXCEPT !.left = @ \ {dn}]
    <3>1. s = [f \in CycleFields |-> CASE f = "left" -> cycle[c].left \ {dn}
                                       [] f = "wanted" -> cycle[c].wanted \cup {}
                                       [] OTHER -> cycle[c][f]]
      BY <1>1 DEF CycleFields
    <3> HIDE DEF s
    <3>2. QED BY <2>2, <2>3, <3>1 DEF s
  <2>4. ASSUME NEW u \in linkedTo(dn),
               ReadStep(c, [[cycle[c] EXCEPT !.left = @ \ {dn}] EXCEPT !.wanted = @ \cup {u}])
        PROVE  WellInv'
    <3> DEFINE s == [[cycle[c] EXCEPT !.left = @ \ {dn}] EXCEPT !.wanted = @ \cup {u}]
    <3>1. s = [f \in CycleFields |-> CASE f = "left" -> cycle[c].left \ {dn}
                                       [] f = "wanted" -> cycle[c].wanted \cup {u}
                                       [] OTHER -> cycle[c][f]]
      BY <1>1 DEF CycleFields
    <3> HIDE DEF s
    <3>2. dn \in DNs
      BY <1>1, <2>1, EntriesTyped DEF Well, Holds, GroupTurns
    <3>3. {u} \in SUBSET UserIds /\ Linked(u, users)
      BY <1>1, <1>2, <2>4, <3>2 DEF linkedTo, Linked
    <3>4. QED BY <2>2, <2>4, <3>1, <3>3 DEF s
  <2>5. QED BY <2>1, <2>3, <2>4
<1>5. CASE MembersCompared(c)
  <2> DEFINE there == {u \in UserIds : member[<<u, cycle[c].row>>] # None}
             s == [cycle[c] EXCEPT !.wanted = @ \ there, !.drop = there \ cycle[c].wanted]
  <2>1. ReadStep(c, memberLoop(s)) /\ cycle[c].pc = "members" /\ there \subseteq UserIds
    BY <1>5 DEF MembersCompared, at
  <2> HIDE DEF there
  <2>2. /\ Holds(s) /\ s.todo \subseteq s.groups /\ s.entry \in s.groups /\ s.row \in GroupIds
        /\ \A u \in s.wanted : Linked(u, users)
    BY <1>1, <2>1 DEF Holds, Well, Gives, CycleFields, GroupTurns
  <2> HIDE DEF s
  <2>3. QED BY <2>1, <2>2, MemberLoopWell, WellReads
<1>6. QED BY <1>3, <1>4, <1>5

LEMMA RemovalReadsWell ==
  ASSUME SyncInv, WellInv, NEW c \in Cycles, RemovalsListed(c)
  PROVE  WellInv'
<1> DEFINE gone == {u \in Present(users) : users[u].dn # None} \ cycle[c].synced
           s == [cycle[c] EXCEPT !.drop = gone]
<1>1. /\ cycle[c] = [f \in CycleFields |-> cycle[c][f]] /\ Well(cycle[c]) /\ Holds(cycle[c])
      /\ gone \subseteq UserIds
  BY DEF WellInv, Well, Holds, SyncInv, TablesHold, Present
<1>2. ReadStep(c, removalLoop(s)) /\ cycle[c].pc = "removals"
  BY DEF RemovalsListed, at
<1> HIDE DEF gone
<1>3. Holds(s) /\ s.entry = None
  BY <1>1, <1>2 DEF Well, Holds, CycleFields
<1> HIDE DEF s
<1>4. QED BY <1>2, <1>3, RemovalLoopWell, WellReads

LEMMA AdminReadsWell ==
  ASSUME SyncInv, WellInv, NEW c \in Cycles,
         AdminGroupSought(c) \/ AdminSought(c) \/ AdminsListed(c)
  PROVE  WellInv'
<1>1. /\ cycle[c] = [f \in CycleFields |-> cycle[c][f]] /\ Well(cycle[c]) /\ Holds(cycle[c])
      /\ Present(users) \subseteq UserIds /\ Present(groups) \subseteq GroupIds
      /\ Gives(cycle[c], users)
  BY DEF WellInv, Well, Holds, SyncInv, TablesHold, Present
<1>2. None \notin DNs /\ None \notin UserIds
  BY AccountsAssumption
<1>3. CASE AdminGroupSought(c)
  <2>1. ASSUME NEW g \in groupsNamed({ADMIN_GROUP}),
               ReadStep(c, [cycle[c] EXCEPT !.pc = "admin", !.row = g, !.synced = {},
                                            !.todo = {e \in cycle[c].people : e.admin}]),
               cycle[c].pc = "admins"
        PROVE  WellInv'
    <3> DEFINE s == [cycle[c] EXCEPT !.pc = "admin", !.row = g, !.synced = {},
                                     !.todo = {e \in cycle[c].people : e.admin}]
    <3>1. g \in GroupIds
      BY <1>1 DEF groupsNamed
    <3>2. /\ Holds(s) /\ s.pc = "admin" /\ s.row \in GroupIds /\ s.entry = None
          /\ s.todo \subseteq s.people
      BY <1>1, <2>1, <3>1 DEF Well, Holds, CycleFields
    <3>3. Linked(None, users)
      BY <1>2 DEF Linked, SyncInv, TablesHold
    <3> HIDE DEF s
    <3>4. Well(s) /\ Gives(s, users)
      BY <3>2, <3>3 DEF Well, Gives, PeoplePhases, PersonTurns, GroupTurns
    <3>5. QED BY <2>1, <3>4, WellReads DEF s
  <2>2. CASE ReadStep(c, finished(cycle[c]))
    BY <1>1, <2>2, FinishedWell, WellReads
  <2>3. QED BY <1>3, <2>1, <2>2 DEF AdminGroupSought, at
<1>4. CASE AdminSought(c)
  <2>1. PICK e \in cycle[c].todo :
          /\ cycle[c].pc = "admin"
          /\ LET sought == [cycle[c] EXCEPT !.todo = @ \ {e}]
             IN \/ linkedTo(e.dn) = {} /\ ReadStep(c, sought)
                \/ \E u \in linkedTo(e.dn) : ReadStep(c, [sought EXCEPT !.entry = u])
    BY <1>4 DEF AdminSought, at
  <2> DEFINE sought == [cycle[c] EXCEPT !.todo = @ \ {e}]
  <2>2. /\ sought = [f \in CycleFields |-> sought[f]]
        /\ Holds(sought) /\ sought.pc = "admin" /\ sought.row \in GroupIds
        /\ sought.entry = cycle[c].entry /\ sought.entry \in UserIds \cup {None}
        /\ Linked(sought.entry, users) /\ sought.todo \subseteq sought.people
    BY <1>1, <2>1 DEF Well, Holds, Gives, CycleFields
  <2> HIDE DEF sought
  <2>3. CASE ReadStep(c, sought)
    <3>1. Well(sought) /\ Gives(sought, users)
      BY <2>2 DEF Well, Gives, PeoplePhases, PersonTurns, GroupTurns
    <3>2. QED BY <2>3, <3>1, WellReads
  <2>4. ASSUME NEW u \in linkedTo(e.dn), linkedTo(e.dn) # {}, ReadStep(c, [sought EXCEPT !.entry = u])
        PROVE  WellInv'
    <3> DEFINE s == [sought EXCEPT !.entry = u]
    <3>1. u \in UserIds
      BY <1>1 DEF linkedTo
    <3>2. /\ Holds(s) /\ s.pc = "admin" /\ s.row \in GroupIds /\ s.entry = u
          /\ s.todo \subseteq s.people
      BY <2>2, <3>1 DEF Holds, CycleFields
    <3>3. e.dn \in DNs
      BY <1>1, <2>1, EntriesTyped DEF Well, Holds
    <3>4. Linked(u, users)
      BY <1>2, <3>3 DEF linkedTo, Linked
    <3> HIDE DEF s
    <3>5. Well(s) /\ Gives(s, users)
      BY <3>1, <3>2, <3>4 DEF Well, Gives, PeoplePhases, PersonTurns, GroupTurns
    <3>6. QED BY <2>4, <3>5, WellReads DEF s
  <2>5. QED BY <2>1, <2>3, <2>4 DEF sought
<1>5. CASE AdminsListed(c)
  <2> DEFINE bySync == {u \in UserIds : member[<<u, cycle[c].row>>] = "sync"} \ cycle[c].synced
             s == [cycle[c] EXCEPT !.drop = bySync]
  <2>1. ReadStep(c, revokeLoop(s)) /\ cycle[c].pc = "admin" /\ bySync \subseteq UserIds
    BY <1>5 DEF AdminsListed, at
  <2> HIDE DEF bySync
  <2>2. Holds(s) /\ s.row \in GroupIds
    BY <1>1, <2>1 DEF Well, Holds, CycleFields
  <2> HIDE DEF s
  <2>3. QED BY <2>1, <2>2, RevokeLoopWell, WellReads
<1>6. QED BY <1>3, <1>4, <1>5

(* A user is written, a linked one.                                        *)
LEMMA UserSavedWell ==
  ASSUME SyncInv, WellInv, NEW u \in UserIds, NEW row \in UserRecord, row.dn # None,
         users' = [users EXCEPT ![u] = row],
         UNCHANGED <<groups, member, invitations, changes>>
  PROVE  AccountsTypeOK' /\ Granted(users', member') /\ \A x : Linked(x, users) => Linked(x, users')
<1>1. /\ users'[u] = row /\ \A v \in UserIds \ {u} : users'[v] = users[v]
      /\ DOMAIN users = UserIds /\ DOMAIN users' = UserIds
  BY DEF SyncInv, TablesHold
<1>2. row # None
  BY RowsAssumption
<1>3. Present(users)' = Present(users) \cup {u}
  BY <1>1, <1>2 DEF Present
<1>4. \A v \in Present(users)' : users'[v] \in UserRecord
  BY <1>1, <1>3 DEF WellInv, AccountsTypeOK, Present
<1>5. AccountsTypeOK'
  BY <1>3, <1>4 DEF WellInv, AccountsTypeOK, Present
<1>6. \A x : Linked(x, users) => Linked(x, users')
  BY <1>1 DEF Linked
<1>7. QED BY <1>5, <1>6 DEF WellInv, Granted

LEMMA PersonStepsWell ==
  ASSUME SyncInv, WellInv, NEW c \in Cycles,
         PersonUpdated(c) \/ PersonLinked(c) \/ PersonInserted(c) \/ PersonFailed(c)
  PROVE  WellInv'
<1>1. /\ Well(cycle[c]) /\ Holds(cycle[c]) /\ cycle[c].pc \in PersonTurns
      /\ FoundOut(cycle[c], users, groups, member, appointed, syncConfig.link)
  BY DEF WellInv, Well, PersonUpdated, PersonLinked, PersonInserted, PersonFailed, at, PersonTurns,
     SyncInv, CyclesHold
<1>2. cycle[c].pc \in PeoplePhases /\ cycle[c].entry \in EveryPerson
  BY <1>1 DEF Well, Holds, PeoplePhases
<1> DEFINE e == cycle[c].entry
<1>3. e.dn \in DNs /\ e.username \in Usernames /\ e.dn # None
  BY <1>2, EntriesTyped, AccountsAssumption
<1>4. ASSUME NEW u \in UserIds, NEW row \in UserRecord, row.dn # None,
             users' = [users EXCEPT ![u] = row], UNCHANGED member, UNCHANGED Others,
             NEW names, cycle' = [cycle EXCEPT ![c] = renamed(c, {u}, names)]
      PROVE  WellInv'
  <2>1. /\ AccountsTypeOK' /\ Granted(users', member')
        /\ \A x : Linked(x, users) => Linked(x, users')
    BY <1>4, UserSavedWell DEF Others
  <2>2. Well(renamed(c, {u}, names)) /\ Gives(renamed(c, {u}, names), users')
    BY <1>1, <1>2, <1>4, RenamedWell
  <2>3. UNCHANGED <<started, appointed>> /\ mishaps' \in 0..MishapBound
    BY <1>4 DEF Others, WellInv, SyncTypeOK
  <2>4. QED BY <1>4, <2>1, <2>2, <2>3, CycleWell
<1>5. ASSUME NEW u \in UserIds, UNCHANGED accountVars, UNCHANGED <<started, appointed>>,
             mishaps' \in 0..MishapBound, NEW s, cycle' = [cycle EXCEPT ![c] = s],
             Well(s), Gives(s, users)
      PROVE  WellInv'
  <2>1. AccountsTypeOK' /\ Granted(users', member') /\ Gives(s, users')
        /\ \A x : Linked(x, users) => Linked(x, users')
    BY <1>5, AccountsSame DEF WellInv, accountVars
  <2>2. QED BY <1>5, <2>1, CycleWell
<1>6. ASSUME NEW u \in UserIds, NEW names, cycle' = [cycle EXCEPT ![c] = renamed(c, {u}, names)],
             UNCHANGED users, UNCHANGED member, UNCHANGED Others
      PROVE  WellInv'
  <2>1. Well(renamed(c, {u}, names)) /\ Gives(renamed(c, {u}, names), users)
    BY <1>1, <1>2, <1>6, RenamedWell
  <2>2. UNCHANGED accountVars /\ UNCHANGED <<started, appointed>> /\ mishaps' \in 0..MishapBound
    BY <1>6 DEF Others, WellInv, SyncTypeOK, accountVars
  <2>3. QED BY <1>5, <1>6, <2>1, <2>2
<1>7. \A u \in Present(users) : u \in UserIds /\ users[u] \in UserRecord
  BY DEF WellInv, AccountsTypeOK, Present, SyncInv, TablesHold
<1>8. CASE PersonUpdated(c)
  <2> DEFINE u == cycle[c].row
             row == [users[u] EXCEPT !.username = e.username, !.approved = TRUE]
  <2>1. /\ u \in UserIds /\ Linked(u, users) /\ UNCHANGED member /\ UNCHANGED Others
        /\ \E names : cycle' = [cycle EXCEPT ![c] = renamed(c, {u}, names)]
    BY <1>1, <1>8 DEF PersonUpdated, at, Well, FoundOut
  <2>2. CASE u \in Present(users)
    <3>1. users[u] \in UserRecord /\ users[u].dn # None
      BY <1>7, <2>1, <2>2 DEF Linked, Present
    <3>2. row \in UserRecord /\ row.dn # None
      BY <1>3, <3>1 DEF UserRecord
    <3>3. users' = [users EXCEPT ![u] = row]
      <4>1. users' = [users EXCEPT ![u].username = e.username, ![u].approved = TRUE]
        BY <1>8, <2>2 DEF PersonUpdated
      <4>2. QED BY <2>1, <3>1, <4>1 DEF UserRecord, SyncInv, TablesHold
    <3> HIDE DEF row
    <3>4. QED BY <1>4, <2>1, <3>2, <3>3
  <2>3. CASE u \notin Present(users)
    BY <1>6, <1>8, <2>1, <2>3 DEF PersonUpdated
  <2>4. QED BY <2>2, <2>3
<1>9. CASE PersonLinked(c)
  <2> DEFINE u == cycle[c].row
             row == [users[u] EXCEPT !.dn = e.dn, !.approved = TRUE]
  <2>1. /\ u \in UserIds /\ UNCHANGED member /\ UNCHANGED Others
        /\ cycle' = [cycle EXCEPT ![c] = renamed(c, {u}, {})]
    BY <1>1, <1>9 DEF PersonLinked, at, Well, next
  <2>2. CASE u \in Present(users)
    <3>1. users[u] \in UserRecord
      BY <1>7, <2>2
    <3>2. row \in UserRecord /\ row.dn # None
      BY <1>3, <3>1 DEF UserRecord
    <3>3. users' = [users EXCEPT ![u] = row]
      <4>1. users' = [users EXCEPT ![u].dn = e.dn, ![u].approved = TRUE]
        BY <1>9, <2>2 DEF PersonLinked
      <4>2. QED BY <2>1, <3>1, <4>1 DEF UserRecord, SyncInv, TablesHold
    <3> HIDE DEF row
    <3>4. QED BY <1>4, <2>1, <3>2, <3>3
  <2>3. CASE u \notin Present(users)
    BY <1>6, <1>9, <2>1, <2>3 DEF PersonLinked
  <2>4. QED BY <2>2, <2>3
<1>10. CASE PersonInserted(c)
  <2> DEFINE u == freshId(users, held)
             row == [username |-> e.username, approved |-> TRUE, expired |-> FALSE, dn |-> e.dn]
  <2>1. u \in UserIds
    <3>1. \E x \in DOMAIN users \ held : users[x] = None
      BY <1>10 DEF PersonInserted, idsSuffice
    <3>2. QED BY <3>1 DEF freshId, SyncInv, TablesHold
  <2>2. row \in UserRecord /\ row.dn # None
    BY <1>3 DEF UserRecord
  <2>3. /\ users' = [users EXCEPT ![u] = row] /\ UNCHANGED member /\ UNCHANGED Others
        /\ cycle' = [cycle EXCEPT ![c] = renamed(c, {u}, {})]
    BY <1>10 DEF PersonInserted, next
  <2> HIDE DEF u, row
  <2>4. QED BY <1>4, <2>1, <2>2, <2>3
<1>11. CASE PersonFailed(c)
  <2> DEFINE s == [next(c, {}) EXCEPT !.clean = FALSE]
  <2>1. /\ UNCHANGED accountVars /\ UNCHANGED <<started, appointed>>
        /\ mishaps + changes < MishapBound /\ mishaps' = mishaps + 1
        /\ cycle' = [cycle EXCEPT ![c] = s]
    BY <1>11 DEF PersonFailed, Mishap, mishapLeft
  <2>2. mishaps' \in 0..MishapBound
    BY <2>1, SyncAssumption, AccountsAssumption DEF WellInv, SyncTypeOK, AccountsTypeOK
  <2>3. Well(s) /\ Gives(s, users)
    <3>1. {} \in SUBSET UserIds
      OBVIOUS
    <3>2. QED BY <1>1, <1>2, <3>1, NextWell
  <2> HIDE DEF s
  <2>4. /\ AccountsTypeOK' /\ Granted(users', member') /\ Gives(s, users')
        /\ \A x : Linked(x, users) => Linked(x, users')
    BY <2>1, <2>3, AccountsSame DEF WellInv, accountVars
  <2>5. QED BY <2>1, <2>2, <2>3, <2>4, CycleWell
<1>12. QED BY <1>8, <1>9, <1>10, <1>11

(* A membership is written.                                                *)
LEMMA MemberSavedWell ==
  ASSUME SyncInv, WellInv, NEW u \in UserIds, NEW g \in GroupIds,
         \/ member' = joined(u, g) /\ mayJoin(u, g) /\ Linked(u, users)
         \/ member' = [member EXCEPT ![<<u, g>>] = None],
         UNCHANGED <<users, groups, invitations, changes>>
  PROVE  AccountsTypeOK' /\ Granted(users', member')
<1>1. ASSUME NEW v \in UserIds, NEW h \in GroupIds
      PROVE  \/ member'[<<v, h>>] \in {member[<<v, h>>], None}
             \/ member'[<<v, h>>] = "sync" /\ v = u /\ h = g /\ mayJoin(u, g) /\ Linked(u, users)
  BY DEF joined, SyncInv, TablesHold
<1>2. None # "sync"
  BY AccountsAssumption
<1>3. AccountsTypeOK'
  BY <1>1 DEF WellInv, AccountsTypeOK, Present, mayJoin
<1>4. QED BY <1>1, <1>2, <1>3 DEF WellInv, Granted

LEMMA MemberStepsWell ==
  ASSUME SyncInv, WellInv, NEW c \in Cycles,
         MemberAdded(c) \/ MemberDropped(c) \/ AdminAdded(c) \/ AdminRevoked(c)
  PROVE  WellInv'
<1>1. /\ cycle[c] = [f \in CycleFields |-> cycle[c][f]] /\ Well(cycle[c]) /\ Holds(cycle[c])
      /\ Gives(cycle[c], users)
  BY DEF WellInv, Well, Holds
<1>2. UNCHANGED users /\ UNCHANGED Others /\ mishaps' \in 0..MishapBound
  BY DEF MemberAdded, MemberDropped, AdminAdded, AdminRevoked, Others, WellInv, SyncTypeOK
<1>3. ASSUME NEW s, cycle' = [cycle EXCEPT ![c] = s], Well(s), Gives(s, users),
             AccountsTypeOK', Granted(users', member')
      PROVE  WellInv'
  BY <1>2, <1>3, CycleWell DEF Others
<1>4. ASSUME UNCHANGED member
      PROVE  AccountsTypeOK' /\ Granted(users', member')
  <2>1. UNCHANGED accountVars
    BY <1>2, <1>4 DEF Others, accountVars
  <2>2. QED BY <2>1, AccountsSame DEF WellInv, accountVars
<1>5. ASSUME NEW u \in UserIds, NEW g \in GroupIds,
             \/ member' = joined(u, g) /\ mayJoin(u, g) /\ Linked(u, users)
             \/ member' = [member EXCEPT ![<<u, g>>] = None]
      PROVE  AccountsTypeOK' /\ Granted(users', member')
  BY <1>2, <1>5, MemberSavedWell DEF Others
<1>6. CASE MemberAdded(c)
  <2>1. PICK u \in cycle[c].wanted :
          /\ cycle[c].pc = "add"
          /\ IF mayJoin(u, cycle[c].row)
             THEN /\ member' = joined(u, cycle[c].row)
                  /\ cycle' = [cycle EXCEPT ![c] = memberLoop([cycle[c] EXCEPT !.wanted = @ \ {u}])]
             ELSE cycle' = [cycle EXCEPT ![c] = groupLoop(cycle[c])] /\ UNCHANGED member
    BY <1>6 DEF MemberAdded, at
  <2>2. /\ u \in UserIds /\ cycle[c].row \in GroupIds /\ \A v \in cycle[c].wanted : Linked(v, users)
        /\ cycle[c].todo \subseteq cycle[c].groups /\ cycle[c].entry \in cycle[c].groups
    BY <1>1, <2>1 DEF Well, Holds, Gives, GroupTurns
  <2>3. CASE mayJoin(u, cycle[c].row)
    <3> DEFINE s == [cycle[c] EXCEPT !.wanted = @ \ {u}]
    <3>1. /\ Holds(s) /\ s.todo \subseteq s.groups /\ s.entry \in s.groups /\ s.row \in GroupIds
          /\ \A v \in s.wanted : Linked(v, users)
      BY <1>1, <2>2 DEF Holds, CycleFields
    <3>2. cycle' = [cycle EXCEPT ![c] = memberLoop(s)] /\ member' = joined(u, cycle[c].row)
      BY <2>1, <2>3
    <3> HIDE DEF s
    <3>3. Well(memberLoop(s)) /\ Gives(memberLoop(s), users)
      BY <3>1, MemberLoopWell
    <3>4. AccountsTypeOK' /\ Granted(users', member')
      BY <1>5, <2>1, <2>2, <2>3, <3>2
    <3>5. QED BY <1>3, <3>2, <3>3, <3>4
  <2>4. CASE ~mayJoin(u, cycle[c].row)
    <3>1. Well(groupLoop(cycle[c])) /\ Gives(groupLoop(cycle[c]), users)
      BY <1>1, <2>2, GroupLoopWell
    <3>2. QED BY <1>3, <1>4, <2>1, <2>4, <3>1
  <2>5. QED BY <2>3, <2>4
<1>7. CASE MemberDropped(c)
  <2>1. PICK u \in cycle[c].drop :
          /\ cycle[c].pc = "add" /\ cycle[c].wanted = {}
          /\ member' = [member EXCEPT ![<<u, cycle[c].row>>] = None]
          /\ cycle' = [cycle EXCEPT ![c] = memberLoop([cycle[c] EXCEPT !.drop = @ \ {u}])]
    BY <1>7 DEF MemberDropped, at
  <2> DEFINE s == [cycle[c] EXCEPT !.drop = @ \ {u}]
  <2>2. /\ u \in UserIds /\ cycle[c].row \in GroupIds
        /\ cycle[c].todo \subseteq cycle[c].groups /\ cycle[c].entry \in cycle[c].groups
    BY <1>1, <2>1 DEF Well, Holds, GroupTurns
  <2>3. /\ Holds(s) /\ s.todo \subseteq s.groups /\ s.entry \in s.groups /\ s.row \in GroupIds
        /\ \A v \in s.wanted : Linked(v, users)
    BY <1>1, <2>1, <2>2 DEF Holds, CycleFields
  <2>4. cycle' = [cycle EXCEPT ![c] = memberLoop(s)]
    BY <2>1
  <2> HIDE DEF s
  <2>5. Well(memberLoop(s)) /\ Gives(memberLoop(s), users)
    BY <2>3, MemberLoopWell
  <2>6. AccountsTypeOK' /\ Granted(users', member')
    BY <1>5, <2>1, <2>2
  <2>7. QED BY <1>3, <2>4, <2>5, <2>6
<1>8. CASE AdminAdded(c)
  <2> DEFINE u == cycle[c].entry
             s == [cycle[c] EXCEPT !.entry = None, !.synced = @ \cup {u}]
  <2>1. cycle[c].pc = "admin" /\ u \in UserIds /\ cycle[c].row \in GroupIds /\ Linked(u, users)
        /\ cycle[c].todo \subseteq cycle[c].people
    BY <1>1, <1>8 DEF AdminAdded, at, Well, Gives
  <2>2. CASE /\ mayJoin(u, cycle[c].row) /\ member' = joined(u, cycle[c].row)
             /\ cycle' = [cycle EXCEPT ![c].entry = None, ![c].synced = @ \cup {u}]
    <3>1. cycle' = [cycle EXCEPT ![c] = s]
      BY <2>2 DEF SyncInv, CyclesHold
    <3>2. /\ Holds(s) /\ s.pc = "admin" /\ s.row \in GroupIds /\ s.entry = None
          /\ s.todo \subseteq s.people
      BY <1>1, <2>1 DEF Holds, CycleFields
    <3> HIDE DEF s
    <3>3. Linked(None, users)
      BY AccountsAssumption DEF Linked, SyncInv, TablesHold
    <3>4. Well(s) /\ Gives(s, users)
      BY <3>2, <3>3 DEF Well, Gives, PeoplePhases, PersonTurns, GroupTurns
    <3>5. AccountsTypeOK' /\ Granted(users', member')
      BY <1>5, <2>1, <2>2
    <3>6. QED BY <1>3, <3>1, <3>4, <3>5
  <2>3. CASE cycle' = [cycle EXCEPT ![c] = Idle] /\ UNCHANGED member
    BY <1>1, <1>3, <1>4, <2>3, FinishedWell
  <2>4. QED BY <1>8, <2>2, <2>3 DEF AdminAdded
<1>9. CASE AdminRevoked(c)
  <2>1. PICK u \in cycle[c].drop :
          /\ cycle[c].pc = "revoke"
          /\ member' = [member EXCEPT ![<<u, cycle[c].row>>] = None]
          /\ cycle' = [cycle EXCEPT ![c] = revokeLoop([cycle[c] EXCEPT !.drop = @ \ {u}])]
    BY <1>9 DEF AdminRevoked, at
  <2> DEFINE s == [cycle[c] EXCEPT !.drop = @ \ {u}]
  <2>2. u \in UserIds /\ cycle[c].row \in GroupIds
    BY <1>1, <2>1 DEF Well, Holds
  <2>3. Holds(s) /\ s.row \in GroupIds
    BY <1>1, <2>2 DEF Holds, CycleFields
  <2>4. cycle' = [cycle EXCEPT ![c] = revokeLoop(s)]
    BY <2>1
  <2> HIDE DEF s
  <2>5. Well(revokeLoop(s)) /\ Gives(revokeLoop(s), users)
    BY <2>3, RevokeLoopWell
  <2>6. AccountsTypeOK' /\ Granted(users', member')
    BY <1>5, <2>1, <2>2
  <2>7. QED BY <1>3, <2>4, <2>5, <2>6
<1>10. QED BY <1>6, <1>7, <1>8, <1>9

(* Step 5 for a group, and step 6 for a user.                              *)
LEMMA GroupStepsWell ==
  ASSUME SyncInv, WellInv, NEW c \in Cycles, GroupSynced(c)
  PROVE  WellInv'
<1> DEFINE e == cycle[c].entry
           g == IF cycle[c].row = None THEN freshId(groups, held) ELSE cycle[c].row
           gone == {groups[h].name : h \in {g} \cap Present(groups)} \ {e.name}
<1>1. /\ cycle[c] = [f \in CycleFields |-> cycle[c][f]] /\ Well(cycle[c]) /\ Holds(cycle[c])
      /\ cycle[c].pc = "groupSave" /\ e \in EveryTeam /\ cycle[c].wanted = {}
      /\ cycle[c].todo \subseteq cycle[c].groups /\ e \in cycle[c].groups
  BY DEF WellInv, Well, Holds, GroupSynced, at, GroupTurns
<1>2. /\ UNCHANGED <<users, member, invitations, changes, started, appointed>>
      /\ mishaps' \in 0..MishapBound
  BY DEF GroupSynced, WellInv, SyncTypeOK
<1>3. Granted(users', member') /\ \A x : Linked(x, users) => Linked(x, users')
  BY <1>2 DEF WellInv
<1>4. e.dn \in DNs /\ e.name \in Groups
  BY <1>1, EntriesTyped
<1>5. g \in GroupIds
  <2>1. CASE cycle[c].row = None
    <3>1. \E x \in DOMAIN groups \ held : groups[x] = None
      BY <2>1 DEF GroupSynced, idsSuffice
    <3>2. QED BY <2>1, <3>1 DEF freshId, SyncInv, TablesHold
  <2>2. QED BY <1>1, <2>1 DEF Well
<1>6. CASE groupNameTaken(e.name, cycle[c].row)
  <2>1. UNCHANGED groups /\ cycle' = [cycle EXCEPT ![c] = [groupLoop(cycle[c]) EXCEPT !.clean = FALSE]]
    BY <1>6 DEF GroupSynced
  <2>2. AccountsTypeOK'
    BY <1>2, <2>1, AccountsSame DEF WellInv, accountVars
  <2>3. Well(groupLoop(cycle[c])) /\ Gives(groupLoop(cycle[c]), users')
    BY <1>1, GroupLoopWell
  <2>4. /\ Well([groupLoop(cycle[c]) EXCEPT !.clean = FALSE])
        /\ Gives([groupLoop(cycle[c]) EXCEPT !.clean = FALSE], users')
    BY <2>3, StopsBeingClean
  <2>5. QED BY <1>2, <1>3, <2>1, <2>2, <2>4, CycleWell
<1>7. CASE ~groupNameTaken(e.name, cycle[c].row)
  <2> DEFINE s == [cycle[c] EXCEPT !.pc = "members", !.row = g, !.left = e.members,
                                   !.lost = @ \cup gone]
  <2>1. cycle' = [cycle EXCEPT ![c] = s]
    BY <1>7 DEF GroupSynced
  <2>2. /\ groups' = [groups EXCEPT ![g] = groups'[g]]
        /\ g \in Present(groups) \/ cycle[c].row = None => groups'[g] \in GroupRecord
        /\ g \in Present(groups) \/ cycle[c].row = None \/ UNCHANGED groups
    <3>1. CASE cycle[c].row = None
      <4>1. groups' = [groups EXCEPT ![g] = [name |-> e.name, autoAssign |-> FALSE, dn |-> e.dn]]
        BY <1>7, <3>1 DEF GroupSynced
      <4>2. [name |-> e.name, autoAssign |-> FALSE, dn |-> e.dn] \in GroupRecord
        BY <1>4 DEF GroupRecord
      <4> HIDE DEF e, g
      <4>3. QED BY <1>5, <3>1, <4>1, <4>2 DEF SyncInv, TablesHold
    <3>2. CASE cycle[c].row # None /\ g \in Present(groups)
      <4>1. groups[g] \in GroupRecord
        BY <3>2 DEF WellInv, AccountsTypeOK
      <4>2. groups' = [groups EXCEPT ![g].name = e.name]
        BY <1>7, <3>2 DEF GroupSynced
      <4>3. [groups[g] EXCEPT !.name = e.name] \in GroupRecord
        BY <1>4, <4>1 DEF GroupRecord
      <4> HIDE DEF e, g
      <4>4. QED BY <1>5, <3>2, <4>2, <4>3 DEF SyncInv, TablesHold
    <3>3. CASE cycle[c].row # None /\ g \notin Present(groups)
      <4>1. UNCHANGED groups
        BY <1>7, <3>3 DEF GroupSynced
      <4> HIDE DEF g
      <4>2. QED BY <1>5, <3>3, <4>1 DEF SyncInv, TablesHold
    <3>4. QED BY <3>1, <3>2, <3>3
  <2>3. /\ s = [f \in CycleFields |-> s[f]]
        /\ s.clean = cycle[c].clean /\ s.people = cycle[c].people /\ s.groups = cycle[c].groups
        /\ s.synced = cycle[c].synced /\ s.wanted = {} /\ s.drop = cycle[c].drop /\ s.row = g
        /\ s.pc = "members" /\ s.todo = cycle[c].todo /\ s.entry = e /\ s.left = e.members
    BY <1>1 DEF CycleFields
  <2> HIDE DEF g, s
  <2>4. AccountsTypeOK'
    <3>1. CASE UNCHANGED groups
      BY <1>2, <3>1, AccountsSame DEF WellInv, accountVars
    <3>2. CASE g \in Present(groups) \/ cycle[c].row = None
      <4>1. /\ groups'[g] \in GroupRecord /\ \A h \in GroupIds \ {g} : groups'[h] = groups[h]
            /\ DOMAIN groups = GroupIds /\ DOMAIN groups' = GroupIds
        BY <1>5, <2>2, <3>2 DEF SyncInv, TablesHold
      <4>2. Present(groups)' = Present(groups) \cup {g}
        BY <1>5, <4>1, RowsAssumption DEF Present
      <4>3. \A h \in Present(groups)' : groups'[h] \in GroupRecord
        BY <4>1, <4>2 DEF WellInv, AccountsTypeOK, Present
      <4>4. QED BY <1>2, <4>2, <4>3 DEF WellInv, AccountsTypeOK, Present
    <3>3. QED BY <2>2, <3>1, <3>2
  <2>5. Holds(s)
    BY <1>1, <1>5, <2>3 DEF Holds
  <2> HIDE DEF e
  <2>6. Well(s) /\ Gives(s, users')
    BY <1>1, <1>5, <2>3, <2>5 DEF Well, Gives, PeoplePhases, PersonTurns, GroupTurns, e
  <2>7. QED BY <1>2, <1>3, <2>1, <2>4, <2>6, CycleWell
<1>8. QED BY <1>6, <1>7

LEMMA RemovalStepsWell ==
  ASSUME SyncInv, WellInv, NEW c \in Cycles, UserRemoved(c)
  PROVE  WellInv'
<1>1. /\ cycle[c] = [f \in CycleFields |-> cycle[c][f]] /\ Well(cycle[c]) /\ Holds(cycle[c])
      /\ FoundOut(cycle[c], users, groups, member, appointed, syncConfig.link)
  BY DEF WellInv, Well, Holds, SyncInv, CyclesHold
<1>2. PICK u \in cycle[c].drop :
        /\ cycle[c].pc = "remove"
        /\ IF syncConfig.keep /\ u \in Present(users)
           THEN /\ users' = [users EXCEPT ![u].approved = FALSE, ![u].expired = TRUE]
                /\ UNCHANGED member
           ELSE users' = usersWithout({u}) /\ member' = membersWithout({u}, {})
        /\ cycle' = [cycle EXCEPT ![c] =
             removalLoop([cycle[c] EXCEPT !.drop = @ \ {u},
               !.lost = @ \cup {users[v].dn : v \in IF syncConfig.keep THEN {} ELSE {u} \cap Present(users)}])]
        /\ UNCHANGED Others
  BY DEF UserRemoved, at
<1> DEFINE gone == {users[v].dn : v \in IF syncConfig.keep THEN {} ELSE {u} \cap Present(users)}
           s == [cycle[c] EXCEPT !.drop = @ \ {u}, !.lost = @ \cup gone]
<1>3. u \in UserIds /\ cycle[c].entry = None /\ Linked(u, users)
  BY <1>1, <1>2 DEF Well, Holds, FoundOut
<1>4. cycle' = [cycle EXCEPT ![c] = removalLoop(s)]
  BY <1>2
<1> HIDE DEF gone
<1>5. Holds(s) /\ s.entry = None
  BY <1>1, <1>3 DEF Holds, CycleFields
<1> HIDE DEF s
<1>6. Well(removalLoop(s)) /\ Gives(removalLoop(s), users')
  BY <1>5, RemovalLoopWell
<1>7. AccountsTypeOK' /\ Granted(users', member') /\ \A x : Linked(x, users) => Linked(x, users')
  <2>1. CASE syncConfig.keep /\ u \in Present(users)
    <3> DEFINE row == [users[u] EXCEPT !.approved = FALSE, !.expired = TRUE]
    <3>1. users[u] \in UserRecord /\ users[u].dn # None
      BY <1>3, <2>1 DEF WellInv, AccountsTypeOK, Linked, Present
    <3>2. row \in UserRecord /\ row.dn # None
      BY <3>1 DEF UserRecord
    <3>3. users' = [users EXCEPT ![u] = row]
      BY <1>2, <1>3, <2>1, <3>1 DEF UserRecord, SyncInv, TablesHold
    <3> HIDE DEF row
    <3>4. QED BY <1>2, <1>3, <2>1, <3>2, <3>3, UserSavedWell DEF Others
  <2>2. CASE users' = usersWithout({u}) /\ member' = membersWithout({u}, {})
    <3>1. /\ DOMAIN users = UserIds /\ DOMAIN users' = UserIds
          /\ \A v \in UserIds : users'[v] = IF v = u THEN None ELSE users[v]
      BY <2>2 DEF usersWithout, SyncInv, TablesHold
    <3>2. Present(users)' = Present(users) \ {u}
      BY <3>1 DEF Present
    <3>3. \A v \in UserIds, g \in GroupIds :
            member'[<<v, g>>] = IF v = u THEN None ELSE member[<<v, g>>]
      BY <2>2 DEF membersWithout
    <3>4. UNCHANGED <<groups, invitations, changes>>
      BY <1>2 DEF Others
    <3>5. \A v \in Present(users)' : users'[v] \in UserRecord
      BY <3>1, <3>2 DEF WellInv, AccountsTypeOK, Present
    <3>6. AccountsTypeOK'
      BY <3>2, <3>3, <3>4, <3>5 DEF WellInv, AccountsTypeOK, Present
    <3>7. \A x : Linked(x, users) => Linked(x, users')
      BY <3>1 DEF Linked
    <3>8. None # "sync"
      BY AccountsAssumption
    <3>9. QED BY <3>3, <3>6, <3>7, <3>8 DEF WellInv, Granted
  <2>3. QED BY <1>2, <2>1, <2>2
<1>8. UNCHANGED <<started, appointed>> /\ mishaps' \in 0..MishapBound
  BY <1>2 DEF Others, WellInv, SyncTypeOK
<1>9. QED BY <1>4, <1>6, <1>7, <1>8, CycleWell

(* What happens beside a cycle, and its end and its beginning.             *)
LEMMA DisturbedWell ==
  ASSUME SyncInv, WellInv, \A x : Linked(x, users) => Linked(x, users')
  PROVE  \A c \in Cycles : Well(disturbed[c]) /\ Gives(disturbed[c], users')
<1>1. ASSUME NEW c \in Cycles
      PROVE  Well(disturbed[c]) /\ Gives(disturbed[c], users')
  <2>1. Well(cycle[c]) /\ Gives(cycle[c], users')
    BY DEF WellInv, Gives
  <2>2. QED BY <2>1, StopsBeingClean DEF disturbed
<1>2. QED BY <1>1

LEMMA EndStepsWell ==
  ASSUME SyncInv, WellInv, NEW c \in Cycles, CycleFailed(c)
  PROVE  WellInv'
<1>1. /\ UNCHANGED accountVars /\ UNCHANGED <<started, appointed>>
      /\ mishaps + changes < MishapBound /\ mishaps' = mishaps + 1
      /\ cycle' = [cycle EXCEPT ![c] = Idle]
  BY DEF CycleFailed, Mishap, mishapLeft
<1>2. mishaps' \in 0..MishapBound
  BY <1>1, SyncAssumption, AccountsAssumption DEF WellInv, SyncTypeOK, AccountsTypeOK
<1>3. /\ AccountsTypeOK' /\ Granted(users', member')
      /\ \A x : Linked(x, users) => Linked(x, users')
  BY <1>1, AccountsSame DEF WellInv, accountVars
<1>4. Well(Idle) /\ Gives(Idle, users')
  <2>1. Holds(Idle)
    BY DEF Holds, Idle, CycleFields
  <2>2. QED BY <2>1, FinishedWell
<1>5. QED BY <1>1, <1>2, <1>3, <1>4, CycleWell

LEMMA StartStepsWell ==
  ASSUME SyncInv, WellInv, NEW c \in Cycles, CycleStarted(c)
  PROVE  WellInv'
<1> DEFINE s == [Idle EXCEPT !.pc = "search", !.people = directory.people,
                             !.clean = \A other \in Cycles \ {c} : ~underWay(other)]
<1>1. /\ UNCHANGED accountVars /\ UNCHANGED mishaps
      /\ cycle' = [disturbed EXCEPT ![c] = s] /\ appointed' \subseteq appointed
      /\ started < CycleBound /\ started' = started + 1
  BY DEF CycleStarted
<1>2. Well(s) /\ Gives(s, users')
  <2>1. /\ s = [f \in CycleFields |-> s[f]] /\ s.people = directory.people /\ s.groups = {}
        /\ s.synced = {} /\ s.wanted = {} /\ s.drop = {} /\ s.row = None /\ s.pc = "search"
        /\ s.clean \in BOOLEAN
    BY DEF Idle, CycleFields
  <2>2. directory.people \subseteq EveryPerson
    BY DEF SyncInv, EveryPerson
  <2> HIDE DEF s
  <2>3. Holds(s)
    BY <2>1, <2>2 DEF Holds
  <2>4. QED BY <2>1, <2>3 DEF Well, Gives, PeoplePhases, PersonTurns, GroupTurns
<1> HIDE DEF s
<1>3. \A x : Linked(x, users) => Linked(x, users')
  BY <1>1 DEF accountVars
<1>4. \A d \in Cycles : Well(cycle'[d]) /\ Gives(cycle'[d], users')
  <2>1. cycle'[c] = s /\ \A d \in Cycles \ {c} : cycle'[d] = disturbed[d]
    BY <1>1 DEF disturbed
  <2>2. QED BY <1>2, <1>3, <2>1, DisturbedWell
<1>5. AccountsTypeOK' /\ Granted(users', member')
  BY <1>1, AccountsSame DEF WellInv, accountVars
<1>6. started' \in 0..CycleBound
  BY <1>1, SyncAssumption DEF WellInv, SyncTypeOK
<1>7. SyncTypeOK'
  BY <1>1, <1>4, <1>6 DEF WellInv, SyncTypeOK, Well, Holds
<1>8. QED BY <1>4, <1>5, <1>7 DEF WellInv

LEMMA DirectoryStepsWell ==
  ASSUME SyncInv, WellInv, DirectoryChanged
  PROVE  WellInv'
<1>1. /\ UNCHANGED accountVars /\ UNCHANGED <<started, appointed>> /\ cycle' = disturbed
      /\ mishaps + changes < MishapBound /\ mishaps' = mishaps + 1
  BY DEF DirectoryChanged, Mishap, mishapLeft
<1>2. mishaps' \in 0..MishapBound
  BY <1>1, SyncAssumption, AccountsAssumption DEF WellInv, SyncTypeOK, AccountsTypeOK
<1>3. \A x : Linked(x, users) => Linked(x, users')
  BY <1>1 DEF accountVars
<1>4. \A c \in Cycles : Well(cycle'[c]) /\ Gives(cycle'[c], users')
  BY <1>1, <1>3, DisturbedWell
<1>5. AccountsTypeOK' /\ Granted(users', member')
  BY <1>1, AccountsSame DEF WellInv, accountVars
<1>6. SyncTypeOK'
  BY <1>1, <1>2, <1>4 DEF WellInv, SyncTypeOK, Well, Holds
<1>7. QED BY <1>4, <1>5, <1>6 DEF WellInv

LEMMA SavedTyped ==
  ASSUME TablesHold, AccountsTypeOK, NEW me, AccountsSaved(me, held)
  PROVE  /\ AccountsTypeOK'
         /\ \A u \in UserIds, g \in GroupIds :
              member'[<<u, g>>] \in {member[<<u, g>>], "admin", None}
<1>1. None # "sync" /\ None # "admin" /\ changes \in 0..ChangeBound /\ ChangeBound \in Nat
  BY AccountsAssumption DEF AccountsTypeOK
<1>2. ASSUME NEW asked, NEW holds, member' = membership(asked, holds, "admin"),
             holds \subseteq Present(users)' \X Present(groups)',
             \A u \in UserIds, g \in GroupIds :
               <<u, g>> \notin asked /\ u \in Present(users) /\ g \in Present(groups)
                 => u \in Present(users)' /\ g \in Present(groups)'
      PROVE  \A u \in UserIds, g \in GroupIds :
               /\ member'[<<u, g>>] \in {member[<<u, g>>], "admin", None}
               /\ member'[<<u, g>>] # None =>
                    /\ member'[<<u, g>>] \in {"admin", "sync"}
                    /\ u \in Present(users)' /\ g \in Present(groups)'
  <2>1. SUFFICES ASSUME NEW u \in UserIds, NEW g \in GroupIds
                 PROVE  /\ member'[<<u, g>>] \in {member[<<u, g>>], "admin", None}
                        /\ member'[<<u, g>>] # None =>
                             /\ member'[<<u, g>>] \in {"admin", "sync"}
                             /\ u \in Present(users)' /\ g \in Present(groups)'
    OBVIOUS
  <2>2. member'[<<u, g>>] = IF <<u, g>> \notin asked THEN member[<<u, g>>]
                            ELSE IF <<u, g>> \notin holds THEN None
                            ELSE IF member[<<u, g>>] # None THEN member[<<u, g>>] ELSE "admin"
    BY <1>2 DEF membership
  <2>3. <<u, g>> \in holds => u \in Present(users)' /\ g \in Present(groups)'
    BY <1>2
  <2>4. member[<<u, g>>] # None =>
          /\ member[<<u, g>>] \in {"admin", "sync"}
          /\ u \in Present(users) /\ g \in Present(groups)
    BY DEF AccountsTypeOK
  <2>5. QED BY <1>2, <2>2, <2>3, <2>4
<1>3. ASSUME NEW update \in UserUpdates, UserPatched(me, update)
      PROVE  AccountsTypeOK' /\ \A u \in UserIds, g \in GroupIds :
                                  member'[<<u, g>>] \in {member[<<u, g>>], "admin", None}
  <2> DEFINE u == update.id
             row == [users[u] EXCEPT !.username = update.username, !.approved = update.approved,
                                     !.expired = update.expired]
             holds == {u} \X groupsNamed(update.groups)
  <2>1. u \in Present(users) /\ u \in UserIds /\ users[u] \in UserRecord
    BY <1>3 DEF UserPatched, TablesHold, Present, AccountsTypeOK
  <2>2. row \in UserRecord /\ row # None
    BY <1>3, <2>1, RowsAssumption DEF UserRecord
  <2>3. users' = [users EXCEPT ![u] = row]
    <3>1. users' = [users EXCEPT ![u].username = update.username, ![u].approved = update.approved,
                                 ![u].expired = update.expired]
      BY <1>3 DEF UserPatched
    <3>2. QED BY <2>1, <3>1 DEF TablesHold, UserRecord
  <2>4. UNCHANGED <<groups, invitations>> /\ changes' = changes + 1 /\ changes < ChangeBound
        /\ member' = membership({u} \X GroupIds, holds, "admin")
    BY <1>3 DEF UserPatched, AdminSaves
  <2>5. groupsNamed(update.groups) \subseteq Present(groups)
    BY DEF groupsNamed
  <2> HIDE DEF u, row
  <2>6. Present(users)' = Present(users) /\ Present(groups)' = Present(groups)
    BY <2>1, <2>2, <2>3, <2>4 DEF Present, TablesHold
  <2>7. holds \subseteq Present(users)' \X Present(groups)'
    BY <2>1, <2>5, <2>6
  <2> HIDE DEF holds
  <2>8. \A v \in Present(users)' : users'[v] \in UserRecord
    BY <2>1, <2>2, <2>3, <2>6 DEF TablesHold, AccountsTypeOK, Present
  <2>9. \A v \in UserIds, g \in GroupIds :
          /\ member'[<<v, g>>] \in {member[<<v, g>>], "admin", None}
          /\ member'[<<v, g>>] # None =>
               /\ member'[<<v, g>>] \in {"admin", "sync"}
               /\ v \in Present(users)' /\ g \in Present(groups)'
    BY <1>2, <2>4, <2>6, <2>7
  <2>10. changes' \in 0..ChangeBound
    BY <1>1, <2>4
  <2>11. QED BY <2>4, <2>6, <2>8, <2>9, <2>10 DEF AccountsTypeOK
<1>4. ASSUME NEW us, UsersApproved(me, us)
      PROVE  AccountsTypeOK' /\ \A u \in UserIds, g \in GroupIds :
                                  member'[<<u, g>>] \in {member[<<u, g>>], "admin", None}
  <2>1. UNCHANGED <<groups, member, invitations>> /\ changes' = changes + 1 /\ changes < ChangeBound
    BY <1>4 DEF UsersApproved, AdminSaves
  <2>2. ASSUME NEW u \in UserIds
        PROVE  /\ users'[u] # None <=> users[u] # None
               /\ users'[u] # None => users'[u] \in UserRecord
    <3>1. users'[u] = IF u \in us \cap Present(users) THEN [users[u] EXCEPT !.approved = TRUE]
                      ELSE users[u]
      BY <1>4 DEF UsersApproved
    <3>2. users[u] # None => users[u] \in UserRecord /\ [users[u] EXCEPT !.approved = TRUE] \in UserRecord
      <4>1. users[u] # None => users[u] \in UserRecord
        BY DEF AccountsTypeOK, Present, TablesHold
      <4>2. QED BY <4>1 DEF UserRecord
    <3>3. None \notin UserRecord
      BY RowsAssumption
    <3>4. QED BY <3>1, <3>2, <3>3 DEF Present
  <2>3. DOMAIN users = UserIds /\ DOMAIN users' = UserIds
    BY <1>4 DEF UsersApproved, TablesHold
  <2>4. Present(users)' = Present(users) /\ \A u \in Present(users)' : users'[u] \in UserRecord
    BY <2>2, <2>3 DEF Present
  <2>5. Present(groups)' = Present(groups)
    BY <2>1 DEF Present
  <2>6. changes' \in 0..ChangeBound
    BY <1>1, <2>1
  <2>7. QED BY <2>1, <2>4, <2>5, <2>6 DEF AccountsTypeOK, Present
<1>5. ASSUME NEW us, UsersDeleted(me, us)
      PROVE  AccountsTypeOK' /\ \A u \in UserIds, g \in GroupIds :
                                  member'[<<u, g>>] \in {member[<<u, g>>], "admin", None}
  <2>1. /\ UNCHANGED <<groups, invitations>> /\ changes' = changes + 1 /\ changes < ChangeBound
        /\ users' = usersWithout(us \cap Present(users)) /\ member' = membersWithout(us, {})
    BY <1>5 DEF UsersDeleted, AdminSaves
  <2>2. /\ DOMAIN users = UserIds /\ DOMAIN users' = UserIds
        /\ \A u \in UserIds : users'[u] = IF u \in us \cap Present(users) THEN None ELSE users[u]
    BY <2>1 DEF usersWithout, TablesHold
  <2>3. Present(users)' = Present(users) \ us /\ Present(groups)' = Present(groups)
    BY <2>1, <2>2 DEF Present
  <2>4. \A u \in UserIds, g \in GroupIds :
          member'[<<u, g>>] = IF u \in us THEN None ELSE member[<<u, g>>]
    BY <2>1 DEF membersWithout
  <2>5. \A u \in Present(users)' : users'[u] \in UserRecord
    BY <2>2, <2>3 DEF AccountsTypeOK, Present
  <2>6. changes' \in 0..ChangeBound
    BY <1>1, <2>1
  <2>7. QED BY <2>1, <2>3, <2>4, <2>5, <2>6 DEF AccountsTypeOK, Present
<1>6. ASSUME NEW upsert \in GroupUpserts, GroupSaved(me, upsert, held)
      PROVE  AccountsTypeOK' /\ \A u \in UserIds, g \in GroupIds :
                                  member'[<<u, g>>] \in {member[<<u, g>>], "admin", None}
  <2> DEFINE g == IF upsert.id = None THEN freshId(groups, held) ELSE upsert.id
             dn == IF upsert.id = None THEN None ELSE groups[g].dn
             row == [name |-> upsert.name, dn |-> dn, autoAssign |-> upsert.autoAssign]
             holds == upsert.users \X {g}
  <2>1. /\ groups' = [groups EXCEPT ![g] = row] /\ upsert.users \subseteq Present(users)
        /\ member' = membership(UserIds \X {g}, holds, "admin")
        /\ UNCHANGED <<users, invitations>> /\ changes' = changes + 1 /\ changes < ChangeBound
    BY <1>6 DEF GroupSaved, AdminSaves
  <2>2. g \in GroupIds /\ (upsert.id # None => g \in Present(groups))
    <3>1. CASE upsert.id = None
      <4>1. \E x \in DOMAIN groups \ held : groups[x] = None
        BY <1>6, <3>1 DEF GroupSaved, idsSuffice
      <4>2. g \in DOMAIN groups \ held
        BY <3>1, <4>1 DEF freshId
      <4>3. QED BY <3>1, <4>2 DEF TablesHold
    <3>2. CASE upsert.id # None
      BY <1>6, <3>2 DEF GroupSaved, Present, TablesHold
    <3>3. QED BY <3>1, <3>2
  <2>3. row \in GroupRecord /\ row # None
    <3>1. upsert.id # None => groups[g] \in GroupRecord
      BY <2>2 DEF AccountsTypeOK
    <3>2. upsert.name \in Groups /\ upsert.autoAssign \in BOOLEAN
      BY RowsAssumption
    <3> HIDE DEF g
    <3>3. row \in GroupRecord
      BY <3>1, <3>2 DEF GroupRecord
    <3>4. QED BY <3>3, RowsAssumption
  <2> HIDE DEF g, row
  <2>4. /\ DOMAIN groups = GroupIds /\ DOMAIN groups' = GroupIds /\ groups'[g] = row
        /\ \A h \in GroupIds \ {g} : groups'[h] = groups[h]
    BY <2>1, <2>2 DEF TablesHold
  <2>5. Present(groups)' = Present(groups) \cup {g} /\ Present(users)' = Present(users)
    BY <2>1, <2>2, <2>3, <2>4 DEF Present
  <2>6. \A h \in Present(groups)' : groups'[h] \in GroupRecord
    BY <2>3, <2>4, <2>5 DEF AccountsTypeOK, Present
  <2>7. holds \subseteq Present(users)' \X Present(groups)'
    BY <2>1, <2>5
  <2> HIDE DEF holds
  <2>8. \A u \in UserIds, h \in GroupIds :
          /\ member'[<<u, h>>] \in {member[<<u, h>>], "admin", None}
          /\ member'[<<u, h>>] # None =>
               /\ member'[<<u, h>>] \in {"admin", "sync"}
               /\ u \in Present(users)' /\ h \in Present(groups)'
    BY <1>2, <2>1, <2>5, <2>7
  <2>9. changes' \in 0..ChangeBound
    BY <1>1, <2>1
  <2>10. \A i \in Present(invitations)' :
           invitations'[i] \in [username : Usernames \cup {None}, groups : SUBSET Present(groups)']
    BY <2>1, <2>5 DEF AccountsTypeOK, Present
  <2>11. \A u \in Present(users)' : users'[u] \in UserRecord
    BY <2>1, <2>5 DEF AccountsTypeOK
  <2>12. QED BY <2>1, <2>6, <2>8, <2>9, <2>10, <2>11 DEF AccountsTypeOK
<1>7. ASSUME NEW id \in GroupIds, GroupDeleted(me, id)
      PROVE  AccountsTypeOK' /\ \A u \in UserIds, g \in GroupIds :
                                  member'[<<u, g>>] \in {member[<<u, g>>], "admin", None}
  <2>1. /\ groups' = [groups EXCEPT ![id] = None] /\ member' = membersWithout({}, {id})
        /\ UNCHANGED users /\ changes' = changes + 1 /\ changes < ChangeBound
        /\ invitations' = [i \in InvitationIds |->
                             IF i \in Present(invitations)
                             THEN [invitations[i] EXCEPT !.groups = @ \ {id}]
                             ELSE invitations[i]]
    BY <1>7 DEF GroupDeleted, AdminSaves
  <2>2. /\ Present(groups)' = Present(groups) \ {id} /\ Present(users)' = Present(users)
        /\ \A h \in Present(groups)' : groups'[h] \in GroupRecord
    BY <2>1 DEF Present, TablesHold, AccountsTypeOK
  <2>3. \A u \in UserIds, g \in GroupIds :
          member'[<<u, g>>] = IF g = id THEN None ELSE member[<<u, g>>]
    BY <2>1 DEF membersWithout
  <2>4. ASSUME NEW i \in Present(invitations)'
        PROVE  invitations'[i] \in [username : Usernames \cup {None}, groups : SUBSET Present(groups)']
    <3>1. i \in InvitationIds /\ invitations'[i] # None
      BY <2>1, <2>4 DEF Present
    <3>2. CASE i \in Present(invitations)
      <4>1. invitations[i] \in [username : Usernames \cup {None}, groups : SUBSET Present(groups)]
        BY <3>2 DEF AccountsTypeOK
      <4>2. invitations'[i] = [invitations[i] EXCEPT !.groups = @ \ {id}]
        BY <2>1, <3>1, <3>2
      <4>3. QED BY <2>2, <4>1, <4>2
    <3>3. i \in Present(invitations)
      BY <2>1, <3>1 DEF AccountsTypeOK, Present
    <3>4. QED BY <3>2, <3>3
  <2>5. changes' \in 0..ChangeBound
    BY <1>1, <2>1
  <2>6. \A u \in Present(users)' : users'[u] \in UserRecord
    BY <2>1, <2>2 DEF AccountsTypeOK
  <2>7. \A u \in UserIds, g \in GroupIds :
          member'[<<u, g>>] # None =>
            /\ member'[<<u, g>>] \in {"admin", "sync"}
            /\ u \in Present(users)' /\ g \in Present(groups)'
    BY <2>2, <2>3 DEF AccountsTypeOK
  <2>8. DOMAIN invitations' = InvitationIds
    BY <2>1
  <2>9. QED BY <2>2, <2>3, <2>4, <2>5, <2>6, <2>7, <2>8 DEF AccountsTypeOK
<1>8. QED BY <1>3, <1>4, <1>5, <1>6, <1>7 DEF AccountsSaved

LEMMA MeanwhileWell ==
  ASSUME SyncInv, WellInv, AdminMeanwhile
  PROVE  WellInv'
<1>1. PICK me : AccountsSaved(me, held)
  BY DEF AdminMeanwhile
<1>2. /\ cycle' = disturbed /\ UNCHANGED <<started, mishaps>>
      /\ appointed' = appointed \cup (handAdmins' \ handAdmins) \cup (initialAdmins' \ initialAdmins)
  BY DEF AdminMeanwhile
<1>3. UsersSaved /\ TablesHold
  BY <1>1, AdministratorsSave DEF SyncInv
<1>4. \A x : Linked(x, users) => Linked(x, users')
  BY <1>3 DEF UsersSaved, Linked, TablesHold
<1>5. AccountsTypeOK' /\ Granted(users', member')
  <2>1. None # "sync" /\ "admin" # "sync"
    BY AccountsAssumption
  <2>2. /\ AccountsTypeOK'
        /\ \A u \in UserIds, g \in GroupIds :
             member'[<<u, g>>] \in {member[<<u, g>>], "admin", None}
    BY <1>1, <1>3, SavedTyped DEF WellInv
  <2>3. QED BY <1>4, <2>1, <2>2 DEF WellInv, Granted
<1>6. \A c \in Cycles : Well(cycle'[c]) /\ Gives(cycle'[c], users')
  BY <1>2, <1>4, DisturbedWell
<1>7. appointed' \subseteq UserIds
  <2>1. handAdmins' \subseteq UserIds
    BY DEF handAdmins
  <2>2. initialAdmins' \subseteq UserIds
    BY <1>3 DEF initialAdmins, Present, UsersSaved
  <2>3. QED BY <1>2, <2>1, <2>2 DEF WellInv, SyncTypeOK
<1>8. SyncTypeOK'
  BY <1>2, <1>6, <1>7 DEF WellInv, SyncTypeOK, Well, Holds
<1>9. QED BY <1>5, <1>6, <1>8 DEF WellInv

LEMMA WellInductive ==
  ASSUME SyncInv, WellInv, [SyncNext]_<<accountVars, syncVars>>
  PROVE  WellInv'
<1>1. ASSUME NEW c \in Cycles, CycleStep(c)
      PROVE  WellInv'
  BY <1>1, StartStepsWell, FetchWell, PersonReadsWell, PersonStepsWell, GroupReadsWell,
     GroupStepsWell, MemberStepsWell, RemovalReadsWell, RemovalStepsWell, AdminReadsWell,
     EndStepsWell
  DEF CycleStep
<1>2. CASE UNCHANGED <<accountVars, syncVars>>
  <2>1. UNCHANGED accountVars /\ UNCHANGED <<cycle, started, mishaps, appointed>>
    BY <1>2 DEF syncVars
  <2>2. AccountsTypeOK' /\ Granted(users', member')
    BY <2>1, AccountsSame DEF WellInv, accountVars
  <2>3. SyncTypeOK' /\ \A c \in Cycles : Well(cycle'[c]) /\ Gives(cycle'[c], users')
    BY <2>1 DEF WellInv, SyncTypeOK, accountVars
  <2>4. QED BY <2>2, <2>3 DEF WellInv
<1>3. QED BY <1>1, <1>2, DirectoryStepsWell, MeanwhileWell DEF SyncNext

LEMMA SyncStarts == AccountsInit /\ SyncInit => SyncInv /\ WellInv
<1>1. SUFFICES ASSUME AccountsInit, SyncInit
               PROVE  SyncInv /\ WellInv
  OBVIOUS
<1>2. cycle = [c \in Cycles |-> Idle]
  BY <1>1 DEF SyncInit
<1>3. TablesHold
  <2>1. \A u \in Present(users) : users[u] = [f \in UserFields |-> users[u][f]]
    BY <1>1 DEF AccountsInit, AccountsTypeOK, UserRecord, UserFields
  <2>2. \A g \in Present(groups) : groups[g] = [f \in GroupFields |-> groups[g][f]]
    BY <1>1 DEF AccountsInit, AccountsTypeOK, GroupRecord, GroupFields
  <2>3. QED BY <1>1, <2>1, <2>2 DEF AccountsInit, TablesHold
<1>4. CyclesHold
  BY <1>2, IdleGoes, NothingFound DEF CyclesHold
<1>5. Well(Idle) /\ Gives(Idle, users)
  <2>1. Holds(Idle)
    BY DEF Holds, Idle, CycleFields
  <2>2. QED BY <2>1, FinishedWell
<1>6. Granted(users, member)
  BY <1>1 DEF AccountsInit, Granted, Linked
<1>7. SyncTypeOK
  <2>1. started = 0 /\ mishaps = 0 /\ appointed = {} /\ CycleBound \in Nat /\ MishapBound \in Nat
    BY <1>1, SyncAssumption DEF SyncInit
  <2>2. QED BY <1>2, <1>5, <2>1 DEF SyncTypeOK, Well, Holds
<1>8. QED BY <1>1, <1>2, <1>3, <1>4, <1>5, <1>6, <1>7 DEF SyncInit, SyncInv, AccountsInit, WellInv

(***************************************************************************)
(* The tables stay typed, whatever the administrators and the cycles under *)
(* way do to them, and the cycles hold ids of rows: a membership or a      *)
(* group of an invitation is never left behind by a row that was deleted.  *)
(***************************************************************************)
THEOREM SyncTypesHold == SyncSpec => [](AccountsTypeOK /\ SyncTypeOK)
<1>1. AccountsInit /\ SyncInit => SyncInv /\ WellInv
  BY SyncStarts
<1>2. SyncInv /\ WellInv /\ [SyncNext]_<<accountVars, syncVars>> => (SyncInv /\ WellInv)'
  BY SyncInductive, WellInductive
<1>3. SyncInv /\ WellInv => AccountsTypeOK /\ SyncTypeOK
  BY DEF WellInv
<1>4. QED BY <1>1, <1>2, <1>3, PTL DEF SyncSpec

-----------------------------------------------------------------------------
(***************************************************************************)
(* A cycle that nothing disturbs.  What it has dealt with so far is as the *)
(* directory says, and stays so until its end.  Again of a cycle s, of     *)
(* what the directory holds, d, of tables and of a configuration.          *)
(*                                                                         *)
(* Before it removes anyone it works on a part of the people and groups    *)
(* it has read, and those left are:                                        *)
(***************************************************************************)
CountingPhases == {"search", "group", "removals"} \cup PeoplePhases \cup GroupTurns

peopleLeft(s) ==
  IF s.pc = "person" THEN s.todo
  ELSE IF s.pc \in PersonTurns THEN s.todo \cup {s.entry} ELSE {}

groupsLeft(s) ==
  IF s.pc = "group" THEN s.todo
  ELSE IF s.pc \in GroupTurns THEN s.todo \cup {s.entry} ELSE {}

Reads(s, d) ==
  /\ s.pc # "done" => s.people = d.people
  /\ s.pc \notin {"search", "done"} => s.groups = d.groups

Has(x, dn, rows) == x \in DOMAIN rows /\ rows[x] # None /\ rows[x].dn = dn

(* Why an entry may be left without its name, if a local account has it.   *)
Administers(u, gs, mem) ==
  \E g \in GroupIds : gs[g] # None /\ gs[g].name = ADMIN_GROUP /\ mem[<<u, g>>] # None

AdminsByDirectory(lost, gs) ==
  \/ ADMIN_GROUP \in lost
  \/ \E g \in GroupIds : gs[g] # None /\ gs[g].name = ADMIN_GROUP /\ gs[g].dn # None

Spared(e, u, lost, gs, mem, conf) ==
  \/ ~conf.link \/ e.username = ADMIN_USER
  \/ Administers(u, gs, mem) \/ AdminsByDirectory(lost, gs)

(* Of a person: an account that stays has its name.                        *)
Owns(e, u, stay, lost, us, gs, mem, conf) ==
  /\ us[u] # None /\ us[u].username = e.username
  /\ \/ us[u].dn = e.dn /\ us[u].approved /\ u \in stay
     \/ us[u].dn \notin {e.dn, None} /\ u \in stay
     \/ us[u].dn = None /\ Spared(e, u, lost, gs, mem, conf)

PersonDone(e, stay, lost, us, gs, mem, conf) ==
  e.username \in lost \/ \E u \in UserIds : Owns(e, u, stay, lost, us, gs, mem, conf)

Known(row, d) == \E e \in d.people : row.dn = e.dn \/ row.username = e.username

(* Until removals are listed those stay that are counted, and the          *)
(* directory knows them; then whoever is not about to be removed.          *)
PeopleCounted(left, stay, lost, d, us, gs, mem, conf) ==
  /\ \A e \in d.people \ left : PersonDone(e, stay, lost, us, gs, mem, conf)
  /\ \A u \in stay : us[u] # None => Known(us[u], d)

PeopleSettled(drop, lost, d, us, gs, mem, conf) ==
  /\ \A e \in d.people : PersonDone(e, UserIds \ drop, lost, us, gs, mem, conf)
  /\ \A u \in UserIds :
       us[u] # None /\ us[u].dn # None =>
         Known(us[u], d) \/ u \in drop \/ (conf.keep /\ ~us[u].approved /\ us[u].expired)

PersonTurn(s, us) ==
  /\ s.pc \in PersonTurns \ {"update"} => \A u \in UserIds : ~Has(u, s.entry.dn, us)
  /\ s.pc = "update" => Has(s.row, s.entry.dn, us)
  /\ s.pc \in {"mayLink", "link"} =>
       Has(s.row, None, us) /\ us[s.row].username = s.entry.username

(* Of a group: its members are those the directory says.                   *)
GroupDone(e, lost, us, gs, mem) ==
  \A g \in GroupIds :
    Has(g, e.dn, gs) /\ gs[g].name = e.name /\ e.name # ADMIN_GROUP =>
      /\ \A u \in UserIds : mem[<<u, g>>] # None => us[u].dn \in e.members
      /\ \A dn \in e.members \ lost :
           (\E u \in UserIds : Has(u, dn, us)) =>
             \E u \in UserIds : Has(u, dn, us) /\ mem[<<u, g>>] # None

GroupsDone(left, lost, d, us, gs, mem) ==
  \A e \in d.groups \ left : GroupDone(e, lost, us, gs, mem)

(* The turn of a group: its row, the accounts found for its members, and   *)
(* while they are added and dropped those that are to be members.          *)
MembersFound(s, us) ==
  /\ \A u \in s.wanted : us[u] # None /\ us[u].dn \in s.entry.members
  /\ \A dn \in s.entry.members \ s.left :
       (\E u \in UserIds : Has(u, dn, us)) => \E u \in s.wanted : Has(u, dn, us)

MembersToBe(s, us, mem) ==
  /\ \A u \in s.wanted : us[u] # None /\ us[u].dn \in s.entry.members /\ u \notin s.drop
  /\ \A u \in UserIds :
       mem[<<u, s.row>>] # None => u \in s.drop \/ us[u].dn \in s.entry.members
  /\ \A dn \in s.entry.members :
       (\E u \in UserIds : Has(u, dn, us)) =>
         \E u \in UserIds :
           Has(u, dn, us) /\ (u \in s.wanted \/ (mem[<<u, s.row>>] # None /\ u \notin s.drop))

GroupTurn(s, us, gs, mem) ==
  /\ s.pc = "groupSave" => s.row = None \/ Has(s.row, s.entry.dn, gs)
  /\ s.pc \in {"members", "add"} => Has(s.row, s.entry.dn, gs) /\ gs[s.row].name = s.entry.name
  /\ s.pc = "members" => MembersFound(s, us)
  /\ s.pc = "add" => MembersToBe(s, us, mem)

(* The administrators: of the directory, and made by the sync in group g.  *)
Rules(u, d, us) == \E e \in d.people : e.admin /\ Has(u, e.dn, us)

AdminsFound(s, d, us, mem) ==
  /\ \A e \in s.todo : e.admin
  /\ s.entry # None => Rules(s.entry, d, us)
  /\ \A u \in s.synced : Rules(u, d, us) /\ mem[<<u, s.row>>] # None
  /\ \A e \in d.people \ s.todo :
       e.admin /\ (\E u \in UserIds : Has(u, e.dn, us)) =>
         \E u \in UserIds : Has(u, e.dn, us) /\ (u = s.entry \/ u \in s.synced)

AdminsToBe(g, drop, d, us, mem) ==
  /\ \A u \in UserIds : mem[<<u, g>>] = "sync" => u \in drop \/ Rules(u, d, us)
  /\ \A e \in d.people :
       e.admin /\ (\E u \in UserIds : Has(u, e.dn, us)) =>
         \E u \in UserIds : Has(u, e.dn, us) /\ mem[<<u, g>>] # None /\ u \notin drop

AdminTurn(s, d, us, gs, mem) ==
  /\ s.pc \in {"admin", "revoke"} => gs[s.row] # None /\ gs[s.row].name = ADMIN_GROUP
  /\ s.pc = "admin" => AdminsFound(s, d, us, mem)
  /\ s.pc = "revoke" =>
       AdminsToBe(s.row, s.drop, d, us, mem) /\ \A u \in s.drop : mem[<<u, s.row>>] = "sync"
  /\ s.pc = "done" =>
       \A g \in GroupIds :
         gs[g] # None /\ gs[g].name = ADMIN_GROUP => AdminsToBe(g, {}, d, us, mem)

Mirror(s, d, us, gs, mem, conf) ==
  /\ Reads(s, d)
  /\ s.pc = "search" => s.synced = {}
  /\ s.pc \in CountingPhases \ {"search"} =>
       PeopleCounted(peopleLeft(s), s.synced, s.lost, d, us, gs, mem, conf)
  /\ s.pc \notin CountingPhases =>
       PeopleSettled(IF s.pc = "remove" THEN s.drop ELSE {}, s.lost, d, us, gs, mem, conf)
  /\ s.pc \notin {"search"} \cup PeoplePhases =>
       GroupsDone(groupsLeft(s), s.lost, d, us, gs, mem)
  /\ PersonTurn(s, us) /\ GroupTurn(s, us, gs, mem) /\ AdminTurn(s, d, us, gs, mem)

MirrorInv ==
  \A c \in Cycles :
    cycle[c].clean =>
      /\ \A other \in Cycles \ {c} : ~underWay(other)
      /\ Mirror(cycle[c], directory, users, groups, member, syncConfig)

(* The tables change, or more names are lost: a person stays done, if its  *)
(* account stays as it is, or its name is lost, and so do its reasons not  *)
(* to be linked.                                                           *)
AccountsStay(stay, stay2, lost2, us, us2) ==
  \A u \in UserIds :
    us[u] # None /\ (us[u].dn = None \/ u \in stay) =>
      \/ us[u].username \in lost2
      \/ us2[u] = us[u] /\ (us[u].dn # None => u \in stay2)
      \/ /\ us2[u] # None /\ us2[u].username = us[u].username
         /\ us2[u].approved /\ us2[u].dn # None /\ u \in stay2
         /\ us[u].dn \in {us2[u].dn, None}

ReasonsStay(lost, lost2, us, gs, gs2, mem, mem2) ==
  /\ lost \subseteq lost2
  /\ AdminsByDirectory(lost, gs) => AdminsByDirectory(lost2, gs2)
  /\ \A u \in UserIds :
       us[u] # None /\ us[u].dn = None /\ Administers(u, gs, mem)
         => Administers(u, gs2, mem2) \/ AdminsByDirectory(lost2, gs2)

LEMMA PersonStaysDone ==
  ASSUME NEW e, NEW stay, NEW stay2, NEW lost, NEW lost2, NEW us, NEW us2, NEW gs, NEW gs2,
         NEW mem, NEW mem2, NEW conf,
         PersonDone(e, stay, lost, us, gs, mem, conf), e.dn # None,
         ReasonsStay(lost, lost2, us, gs, gs2, mem, mem2),
         AccountsStay(stay, stay2, lost2, us, us2)
  PROVE  PersonDone(e, stay2, lost2, us2, gs2, mem2, conf)
<1>1. CASE e.username \in lost
  BY <1>1 DEF PersonDone, ReasonsStay
<1>2. ASSUME NEW u \in UserIds, Owns(e, u, stay, lost, us, gs, mem, conf)
      PROVE  PersonDone(e, stay2, lost2, us2, gs2, mem2, conf)
  <2>1. us[u] # None /\ us[u].username = e.username /\ (us[u].dn = None \/ u \in stay)
    BY <1>2 DEF Owns
  <2>2. CASE us[u].username \in lost2
    BY <2>1, <2>2 DEF PersonDone
  <2>3. CASE us2[u] = us[u] /\ (us[u].dn # None => u \in stay2)
    <3>1. us[u].dn = None /\ Spared(e, u, lost, gs, mem, conf) => Spared(e, u, lost2, gs2, mem2, conf)
      BY <2>1 DEF Spared, ReasonsStay
    <3>2. /\ us2[u] # None /\ us2[u].username = e.username /\ us2[u].dn = us[u].dn
          /\ us2[u].approved = us[u].approved
      BY <2>1, <2>3
    <3>3. Owns(e, u, stay2, lost2, us2, gs2, mem2, conf)
      <4>1. CASE us[u].dn = None
        BY <1>2, <3>1, <3>2, <4>1 DEF Owns
      <4>2. CASE us[u].dn # None
        BY <1>2, <2>3, <3>2, <4>2 DEF Owns
      <4>3. QED BY <4>1, <4>2
    <3>4. QED BY <3>3 DEF PersonDone
  <2>4. CASE /\ us2[u] # None /\ us2[u].username = us[u].username
             /\ us2[u].approved /\ us2[u].dn # None /\ u \in stay2
             /\ us[u].dn \in {us2[u].dn, None}
    <3>1. Owns(e, u, stay2, lost2, us2, gs2, mem2, conf)
      BY <2>1, <2>4 DEF Owns
    <3>2. QED BY <3>1 DEF PersonDone
  <2>5. QED BY <2>1, <2>2, <2>3, <2>4 DEF AccountsStay
<1>3. QED BY <1>1, <1>2 DEF PersonDone

LEMMA GroupStaysDone ==
  ASSUME NEW e, NEW lost, NEW lost2, NEW us, NEW us2, NEW gs, NEW gs2, NEW mem, NEW mem2,
         GroupDone(e, lost, us, gs, mem), lost \subseteq lost2,
         \A g \in GroupIds : Has(g, e.dn, gs2) => Has(g, e.dn, gs) /\ gs2[g] = gs[g],
         \A dn, u : Has(u, dn, us2) => Has(u, dn, us),
         \A dn, u : Has(u, dn, us) => Has(u, dn, us2) \/ dn \in lost2,
         \A g \in GroupIds, u \in UserIds :
           Has(g, e.dn, gs2) /\ gs2[g].name = e.name /\ e.name # ADMIN_GROUP =>
             /\ mem2[<<u, g>>] # None => mem[<<u, g>>] # None /\ us2[u].dn = us[u].dn
             /\ mem[<<u, g>>] # None =>
                  mem2[<<u, g>>] # None \/ \A dn : Has(u, dn, us) => dn \in lost2
  PROVE  GroupDone(e, lost2, us2, gs2, mem2)
<1>1. SUFFICES ASSUME NEW g \in GroupIds, Has(g, e.dn, gs2), gs2[g].name = e.name,
                      e.name # ADMIN_GROUP
               PROVE  /\ \A u \in UserIds : mem2[<<u, g>>] # None => us2[u].dn \in e.members
                      /\ \A dn \in e.members \ lost2 :
                           (\E u \in UserIds : Has(u, dn, us2)) =>
                             \E u \in UserIds : Has(u, dn, us2) /\ mem2[<<u, g>>] # None
  BY DEF GroupDone
<1>2. Has(g, e.dn, gs) /\ gs[g].name = e.name
  BY <1>1
<1>3. /\ \A u \in UserIds : mem[<<u, g>>] # None => us[u].dn \in e.members
      /\ \A dn \in e.members \ lost :
           (\E u \in UserIds : Has(u, dn, us)) =>
             \E u \in UserIds : Has(u, dn, us) /\ mem[<<u, g>>] # None
  BY <1>1, <1>2 DEF GroupDone
<1>4. ASSUME NEW u \in UserIds, mem2[<<u, g>>] # None
      PROVE  us2[u].dn \in e.members
  BY <1>1, <1>3, <1>4
<1>5. ASSUME NEW dn \in e.members \ lost2, NEW v \in UserIds, Has(v, dn, us2)
      PROVE  \E u \in UserIds : Has(u, dn, us2) /\ mem2[<<u, g>>] # None
  <2>1. PICK u \in UserIds : Has(u, dn, us) /\ mem[<<u, g>>] # None
    BY <1>3, <1>5
  <2>2. mem2[<<u, g>>] # None /\ Has(u, dn, us2)
    BY <1>1, <1>5, <2>1
  <2>3. QED BY <2>2
<1>6. QED BY <1>4, <1>5

(* The loops.                                                              *)
LEMMA GroupLoopMirrors ==
  ASSUME NEW s, s = [f \in CycleFields |-> s[f]], NEW d, NEW us, NEW gs, NEW mem, NEW conf,
         s.people = d.people, s.groups = d.groups,
         PeopleCounted({}, s.synced, s.lost, d, us, gs, mem, conf),
         GroupsDone(s.todo, s.lost, d, us, gs, mem)
  PROVE  Mirror(groupLoop(s), d, us, gs, mem, conf) /\ groupLoop(s).clean = s.clean
<1> DEFINE t == groupLoop(s)
<1>1. /\ t.people = s.people /\ t.groups = s.groups /\ t.todo = s.todo /\ t.synced = s.synced
      /\ t.lost = s.lost /\ t.pc = (IF s.todo = {} THEN "removals" ELSE "group")
      /\ t.clean = s.clean
  BY DEF groupLoop, CycleFields
<1> HIDE DEF t
<1>2. t.pc \notin PeoplePhases \cup GroupTurns \cup {"search"} /\ t.pc \in CountingPhases
  BY <1>1 DEF PeoplePhases, PersonTurns, GroupTurns, CountingPhases
<1>3. peopleLeft(t) = {} /\ groupsLeft(t) = s.todo
  BY <1>1, <1>2 DEF peopleLeft, groupsLeft, PeoplePhases, GroupTurns
<1>4. Reads(t, d) /\ PersonTurn(t, us) /\ GroupTurn(t, us, gs, mem) /\ AdminTurn(t, d, us, gs, mem)
  BY <1>1 DEF Reads, PersonTurn, GroupTurn, AdminTurn, PersonTurns
<1>5. QED BY <1>1, <1>2, <1>3, <1>4 DEF Mirror, t

LEMMA PersonLoopMirrors ==
  ASSUME NEW s, s = [f \in CycleFields |-> s[f]], NEW d, NEW us, NEW gs, NEW mem, NEW conf,
         s.people = d.people, s.groups = d.groups,
         PeopleCounted(s.todo, s.synced, s.lost, d, us, gs, mem, conf)
  PROVE  Mirror(personLoop(s), d, us, gs, mem, conf) /\ personLoop(s).clean = s.clean
<1>1. CASE s.todo # {}
  <2> DEFINE t == personLoop(s)
  <2>1. /\ t.people = s.people /\ t.groups = s.groups /\ t.todo = s.todo /\ t.synced = s.synced
        /\ t.lost = s.lost /\ t.pc = "person" /\ t.clean = s.clean
    BY <1>1 DEF personLoop, CycleFields
  <2> HIDE DEF t
  <2>2. peopleLeft(t) = s.todo /\ t.pc \in PeoplePhases /\ t.pc \in CountingPhases
    BY <2>1 DEF peopleLeft, PeoplePhases, CountingPhases
  <2>3. Reads(t, d) /\ PersonTurn(t, us) /\ GroupTurn(t, us, gs, mem)
        /\ AdminTurn(t, d, us, gs, mem)
    BY <2>1 DEF Reads, PersonTurn, GroupTurn, AdminTurn, PersonTurns
  <2>4. QED BY <2>1, <2>2, <2>3 DEF Mirror, t
<1>2. CASE s.todo = {}
  <2> DEFINE t == [s EXCEPT !.todo = s.groups]
  <2>1. /\ t = [f \in CycleFields |-> t[f]] /\ t.people = s.people /\ t.groups = s.groups
        /\ t.todo = s.groups /\ t.synced = s.synced /\ t.lost = s.lost /\ t.clean = s.clean
    BY DEF CycleFields
  <2>2. personLoop(s) = groupLoop(t)
    BY <1>2 DEF personLoop
  <2> HIDE DEF t
  <2>3. GroupsDone(t.todo, t.lost, d, us, gs, mem)
    BY <2>1 DEF GroupsDone
  <2>4. QED BY <1>2, <2>1, <2>2, <2>3, GroupLoopMirrors
<1>3. QED BY <1>1, <1>2

LEMMA MemberLoopMirrors ==
  ASSUME NEW s, s = [f \in CycleFields |-> s[f]], NEW d, NEW us, NEW gs, NEW mem, NEW conf,
         s.people = d.people, s.groups = d.groups,
         PeopleCounted({}, s.synced, s.lost, d, us, gs, mem, conf),
         GroupsDone(s.todo \cup {s.entry}, s.lost, d, us, gs, mem),
         Has(s.row, s.entry.dn, gs), gs[s.row].name = s.entry.name,
         \A g \in GroupIds : gs[g] # None /\ gs[g].name = s.entry.name => g = s.row,
         MembersToBe(s, us, mem)
  PROVE  Mirror(memberLoop(s), d, us, gs, mem, conf) /\ memberLoop(s).clean = s.clean
<1>1. CASE s.wanted \cup s.drop = {}
  <2>1. GroupDone(s.entry, s.lost, us, gs, mem)
    <3>1. /\ \A u \in UserIds : mem[<<u, s.row>>] # None => us[u].dn \in s.entry.members
          /\ \A dn \in s.entry.members :
               (\E u \in UserIds : Has(u, dn, us)) =>
                 \E u \in UserIds : Has(u, dn, us) /\ mem[<<u, s.row>>] # None
      BY <1>1 DEF MembersToBe
    <3>2. \A g \in GroupIds : Has(g, s.entry.dn, gs) /\ gs[g].name = s.entry.name => g = s.row
      BY DEF Has
    <3>3. QED BY <3>1, <3>2 DEF GroupDone
  <2>2. GroupsDone(s.todo, s.lost, d, us, gs, mem)
    BY <2>1 DEF GroupsDone
  <2>3. memberLoop(s) = groupLoop(s)
    BY <1>1 DEF memberLoop
  <2>4. QED BY <2>2, <2>3, GroupLoopMirrors
<1>2. CASE s.wanted \cup s.drop # {}
  <2> DEFINE t == memberLoop(s)
  <2>1. /\ t.people = s.people /\ t.groups = s.groups /\ t.todo = s.todo /\ t.synced = s.synced
        /\ t.lost = s.lost /\ t.pc = "add" /\ t.entry = s.entry /\ t.row = s.row
        /\ t.wanted = s.wanted /\ t.drop = s.drop /\ t.clean = s.clean
    BY <1>2 DEF memberLoop, CycleFields
  <2> HIDE DEF t
  <2>2. /\ peopleLeft(t) = {} /\ groupsLeft(t) = s.todo \cup {s.entry}
        /\ t.pc \notin PeoplePhases \cup {"search"} /\ t.pc \in CountingPhases
    BY <2>1 DEF peopleLeft, groupsLeft, PeoplePhases, PersonTurns, GroupTurns, CountingPhases
  <2>3. MembersToBe(t, us, mem)
    BY <2>1 DEF MembersToBe
  <2>4. Reads(t, d) /\ PersonTurn(t, us) /\ GroupTurn(t, us, gs, mem) /\ AdminTurn(t, d, us, gs, mem)
    BY <2>1, <2>3 DEF Reads, PersonTurn, GroupTurn, AdminTurn, PersonTurns
  <2>5. QED BY <2>1, <2>2, <2>4 DEF Mirror, t
<1>3. QED BY <1>1, <1>2

LEMMA RemovalLoopMirrors ==
  ASSUME NEW s, s = [f \in CycleFields |-> s[f]], NEW d, NEW us, NEW gs, NEW mem, NEW conf,
         s.people = d.people, s.groups = d.groups,
         PeopleSettled(s.drop, s.lost, d, us, gs, mem, conf),
         GroupsDone({}, s.lost, d, us, gs, mem)
  PROVE  Mirror(removalLoop(s), d, us, gs, mem, conf) /\ removalLoop(s).clean = s.clean
<1> DEFINE t == removalLoop(s)
<1>1. /\ t.people = s.people /\ t.groups = s.groups /\ t.lost = s.lost /\ t.drop = s.drop
      /\ t.pc = (IF s.drop = {} THEN "admins" ELSE "remove") /\ t.clean = s.clean
  BY DEF removalLoop, CycleFields
<1> HIDE DEF t
<1>2. t.pc \notin CountingPhases /\ groupsLeft(t) = {}
  BY <1>1 DEF groupsLeft, PeoplePhases, PersonTurns, GroupTurns, CountingPhases
<1>3. (IF t.pc = "remove" THEN t.drop ELSE {}) = s.drop
  BY <1>1
<1>4. Reads(t, d) /\ PersonTurn(t, us) /\ GroupTurn(t, us, gs, mem) /\ AdminTurn(t, d, us, gs, mem)
  BY <1>1 DEF Reads, PersonTurn, GroupTurn, AdminTurn, PersonTurns
<1>5. t.pc # "search"
  BY <1>1
<1>6. QED BY <1>1, <1>2, <1>3, <1>4, <1>5 DEF Mirror, t

LEMMA FinishedMirrors ==
  ASSUME NEW s, NEW d, NEW us, NEW gs, NEW mem, NEW conf,
         PeopleSettled({}, s.lost, d, us, gs, mem, conf),
         GroupsDone({}, s.lost, d, us, gs, mem),
         \A g \in GroupIds :
           gs[g] # None /\ gs[g].name = ADMIN_GROUP => AdminsToBe(g, {}, d, us, mem)
  PROVE  Mirror(finished(s), d, us, gs, mem, conf) /\ finished(s).clean = s.clean
<1> DEFINE t == finished(s)
<1>1. t.pc = "done" /\ t.lost = s.lost /\ t.clean = s.clean
  BY DEF finished, Idle
<1> HIDE DEF t
<1>2. t.pc \notin CountingPhases /\ groupsLeft(t) = {}
  BY <1>1 DEF groupsLeft, PeoplePhases, PersonTurns, GroupTurns, CountingPhases
<1>3. Reads(t, d) /\ PersonTurn(t, us) /\ GroupTurn(t, us, gs, mem) /\ AdminTurn(t, d, us, gs, mem)
  BY <1>1 DEF Reads, PersonTurn, GroupTurn, AdminTurn, PersonTurns
<1>4. QED BY <1>1, <1>2, <1>3 DEF Mirror, t

LEMMA RevokeLoopMirrors ==
  ASSUME NEW s, s = [f \in CycleFields |-> s[f]], NEW d, NEW us, NEW gs, NEW mem, NEW conf,
         s.people = d.people, s.groups = d.groups,
         PeopleSettled({}, s.lost, d, us, gs, mem, conf),
         GroupsDone({}, s.lost, d, us, gs, mem),
         gs[s.row] # None, gs[s.row].name = ADMIN_GROUP,
         \A g \in GroupIds : gs[g] # None /\ gs[g].name = ADMIN_GROUP => g = s.row,
         AdminsToBe(s.row, s.drop, d, us, mem), \A u \in s.drop : mem[<<u, s.row>>] = "sync"
  PROVE  Mirror(revokeLoop(s), d, us, gs, mem, conf) /\ revokeLoop(s).clean = s.clean
<1>1. CASE s.drop = {}
  <2>1. \A g \in GroupIds : gs[g] # None /\ gs[g].name = ADMIN_GROUP => AdminsToBe(g, {}, d, us, mem)
    BY <1>1
  <2>2. QED BY <1>1, <2>1, FinishedMirrors DEF revokeLoop
<1>2. CASE s.drop # {}
  <2> DEFINE t == revokeLoop(s)
  <2>1. /\ t.people = s.people /\ t.groups = s.groups /\ t.lost = s.lost /\ t.drop = s.drop
        /\ t.row = s.row /\ t.pc = "revoke" /\ t.clean = s.clean
    BY <1>2 DEF revokeLoop, CycleFields
  <2> HIDE DEF t
  <2>2. t.pc \notin CountingPhases /\ groupsLeft(t) = {}
    BY <2>1 DEF groupsLeft, PeoplePhases, PersonTurns, GroupTurns, CountingPhases
  <2>3. Reads(t, d) /\ PersonTurn(t, us) /\ GroupTurn(t, us, gs, mem) /\ AdminTurn(t, d, us, gs, mem)
    BY <2>1 DEF Reads, PersonTurn, GroupTurn, AdminTurn, PersonTurns
  <2>4. QED BY <2>1, <2>2, <2>3 DEF Mirror, t
<1>3. QED BY <1>1, <1>2

(* One cycle goes on as s, as what it has dealt with still is as the       *)
(* directory says.                                                         *)
LEMMA CycleMirrors ==
  ASSUME SyncInv, MirrorInv, NEW c \in Cycles, cycle[c].pc \notin {"idle", "done"},
         NEW s, cycle' = [cycle EXCEPT ![c] = s],
         s.clean => cycle[c].clean /\ Mirror(s, directory', users', groups', member', syncConfig')
  PROVE  MirrorInv'
<1>1. cycle'[c] = s /\ \A d \in Cycles \ {c} : cycle'[d] = cycle[d]
  BY DEF SyncInv, CyclesHold
<1>2. ASSUME NEW d \in Cycles, cycle'[d].clean
      PROVE  d = c
  BY <1>1, <1>2 DEF MirrorInv, underWay
<1>3. s.clean => \A d \in Cycles \ {c} : ~underWay(d)
  BY DEF MirrorInv
<1>4. QED BY <1>1, <1>2, <1>3 DEF MirrorInv, underWay

(* What is known of a cycle that nothing has disturbed yet.                *)
LEMMA Undisturbed2 ==
  ASSUME SyncInv, WellInv, MirrorInv, NEW c \in Cycles, cycle[c].clean
  PROVE  /\ Mirror(cycle[c], directory, users, groups, member, syncConfig)
         /\ cycle[c] = [f \in CycleFields |-> cycle[c][f]] /\ Well(cycle[c])
         /\ \A e \in directory.people : e.dn # None
         /\ \A e, f \in directory.groups : e.dn = f.dn => e = f
         /\ DOMAIN users = UserIds /\ DOMAIN groups = GroupIds
         /\ cycle[c].synced \subseteq UserIds /\ cycle[c].wanted \subseteq UserIds
         /\ cycle[c].drop \subseteq UserIds
         /\ \A g, h \in GroupIds :
              groups[g] # None /\ groups[h] # None /\ groups[g].name = groups[h].name => g = h
<1>1. /\ \A e \in directory.people : e.dn # None
      /\ \A e, f \in directory.groups : e.dn = f.dn => e = f
  <2>1. directory \in DirectoryStates
    BY DEF SyncInv
  <2>2. \A e \in directory.people : e.dn \in DNs
    BY <2>1, SyncAssumption
  <2>3. \A e, f \in directory.groups : e.dn = f.dn => e = f
    BY <2>1, SyncAssumption
  <2>4. QED BY <2>2, <2>3, AccountsAssumption
<1>2. DOMAIN users = UserIds /\ DOMAIN groups = GroupIds
  BY DEF SyncInv, TablesHold
<1>3. \A g, h \in GroupIds :
        groups[g] # None /\ groups[h] # None /\ groups[g].name = groups[h].name => g = h
  BY <1>2 DEF SyncInv, TablesHold, Present
<1>4. /\ cycle[c] = [f \in CycleFields |-> cycle[c][f]] /\ Well(cycle[c])
      /\ cycle[c].synced \subseteq UserIds /\ cycle[c].wanted \subseteq UserIds
      /\ cycle[c].drop \subseteq UserIds
  BY DEF WellInv, Well, Holds
<1>5. Mirror(cycle[c], directory, users, groups, member, syncConfig)
  BY DEF MirrorInv
<1>6. QED BY <1>1, <1>2, <1>3, <1>4, <1>5

LEMMA MirrorReads ==
  ASSUME SyncInv, MirrorInv, NEW c \in Cycles, cycle[c].pc \notin {"idle", "done"},
         NEW s, ReadStep(c, s),
         s.clean => cycle[c].clean /\ Mirror(s, directory, users, groups, member, syncConfig)
  PROVE  MirrorInv'
<1>1. UNCHANGED <<users, groups, member, directory, syncConfig>>
      /\ cycle' = [cycle EXCEPT ![c] = s]
  BY DEF ReadStep, Others
<1>2. QED BY <1>1, CycleMirrors

LEMMA FetchMirrors ==
  ASSUME SyncInv, WellInv, MirrorInv, NEW c \in Cycles, GroupsFetched(c)
  PROVE  MirrorInv'
<1> DEFINE s == [cycle[c] EXCEPT !.groups = directory.groups, !.todo = cycle[c].people]
<1>1. cycle[c].pc = "search" /\ ReadStep(c, personLoop(s))
  BY DEF GroupsFetched, at
<1>2. cycle[c] = [f \in CycleFields |-> cycle[c][f]]
  BY DEF WellInv, Well, Holds
<1>3. /\ s = [f \in CycleFields |-> s[f]] /\ s.people = cycle[c].people
      /\ s.groups = directory.groups /\ s.todo = cycle[c].people /\ s.synced = cycle[c].synced
      /\ s.lost = cycle[c].lost /\ s.clean = cycle[c].clean /\ s.pc = "search"
  BY <1>1, <1>2 DEF CycleFields
<1> HIDE DEF s
<1>4. personLoop(s).clean = s.clean
  BY <1>3 DEF personLoop, groupLoop, CycleFields
<1>5. ASSUME cycle[c].clean
      PROVE  Mirror(personLoop(s), directory, users, groups, member, syncConfig)
  <2>1. Mirror(cycle[c], directory, users, groups, member, syncConfig)
    BY <1>5, Undisturbed2
  <2>2. s.people = directory.people /\ s.synced = {}
    BY <1>1, <1>3, <2>1 DEF Mirror, Reads
  <2>3. PeopleCounted(s.todo, s.synced, s.lost, directory, users, groups, member, syncConfig)
    BY <1>3, <2>2 DEF PeopleCounted
  <2>4. QED BY <1>3, <2>2, <2>3, PersonLoopMirrors
<1>6. QED BY <1>1, <1>3, <1>4, <1>5, MirrorReads

(* The turn of a person.                                                   *)
LEMMA PersonTurnMirrors ==
  ASSUME NEW s, NEW t, NEW d, NEW us, NEW gs, NEW mem, NEW conf,
         Mirror(s, d, us, gs, mem, conf), s.pc \in PeoplePhases, t.pc \in PeoplePhases,
         t.people = s.people, t.groups = s.groups, t.synced = s.synced, t.lost = s.lost,
         peopleLeft(t) = peopleLeft(s), PersonTurn(t, us)
  PROVE  Mirror(t, d, us, gs, mem, conf)
<1>1. /\ s.pc \in CountingPhases \ {"search"} /\ t.pc \in CountingPhases \ {"search"}
      /\ s.pc \notin {"done", "search"} /\ t.pc \notin {"done", "search"}
  BY DEF CountingPhases, PeoplePhases, PersonTurns
<1>2. PeopleCounted(peopleLeft(t), t.synced, t.lost, d, us, gs, mem, conf)
  BY <1>1 DEF Mirror
<1>3. Reads(t, d) /\ GroupTurn(t, us, gs, mem) /\ AdminTurn(t, d, us, gs, mem)
  BY <1>1 DEF Mirror, Reads, GroupTurn, AdminTurn, PeoplePhases, PersonTurns
<1>4. QED BY <1>1, <1>2, <1>3 DEF Mirror

LEMMA CountedOnce ==
  ASSUME NEW todo, NEW e, NEW stay, NEW lost, NEW d, NEW us, NEW gs, NEW mem, NEW conf,
         PeopleCounted(todo \cup {e}, stay, lost, d, us, gs, mem, conf),
         NEW more, \A u \in more : Known(us[u], d),
         PersonDone(e, stay \cup more, lost, us, gs, mem, conf)
  PROVE  PeopleCounted(todo, stay \cup more, lost, d, us, gs, mem, conf)
<1>1. ASSUME NEW f \in d.people \ todo
      PROVE  PersonDone(f, stay \cup more, lost, us, gs, mem, conf)
  <2>1. CASE f = e
    BY <2>1
  <2>2. CASE f # e
    <3>1. PersonDone(f, stay, lost, us, gs, mem, conf)
      BY <1>1, <2>2 DEF PeopleCounted
    <3>2. \A u : Owns(f, u, stay, lost, us, gs, mem, conf)
                   => Owns(f, u, stay \cup more, lost, us, gs, mem, conf)
      BY DEF Owns
    <3>3. QED BY <3>1, <3>2 DEF PersonDone
  <2>3. QED BY <2>1, <2>2
<1>2. QED BY <1>1 DEF PeopleCounted

LEMMA RenamedMirrors ==
  ASSUME NEW c, cycle[c] = [f \in CycleFields |-> cycle[c][f]],
         NEW d, NEW us, NEW gs, NEW mem, NEW conf, NEW more, NEW names,
         cycle[c].people = d.people, cycle[c].groups = d.groups,
         PeopleCounted(cycle[c].todo, cycle[c].synced \cup more, cycle[c].lost \cup names,
                       d, us, gs, mem, conf)
  PROVE  /\ Mirror(renamed(c, more, names), d, us, gs, mem, conf)
         /\ renamed(c, more, names).clean = cycle[c].clean
<1> DEFINE s == cycle[c]
           t == [s EXCEPT !.synced = @ \cup more, !.lost = @ \cup names]
<1> HIDE DEF s
<1>1. /\ t = [f \in CycleFields |-> t[f]] /\ t.people = s.people /\ t.groups = s.groups
      /\ t.todo = s.todo /\ t.synced = s.synced \cup more /\ t.lost = s.lost \cup names
      /\ t.clean = s.clean
  BY DEF CycleFields, s
<1> HIDE DEF t
<1>2. /\ t.people = d.people /\ t.groups = d.groups
      /\ PeopleCounted(t.todo, t.synced, t.lost, d, us, gs, mem, conf)
  BY <1>1 DEF s
<1>3. Mirror(personLoop(t), d, us, gs, mem, conf) /\ personLoop(t).clean = t.clean
  BY <1>1, <1>2, PersonLoopMirrors
<1>4. QED BY <1>1, <1>3 DEF renamed, t, s

LEMMA RenamedClean ==
  ASSUME NEW c, cycle[c] = [f \in CycleFields |-> cycle[c][f]], NEW more, NEW names
  PROVE  renamed(c, more, names).clean = cycle[c].clean
<1> DEFINE s == cycle[c]
           t == [s EXCEPT !.synced = @ \cup more, !.lost = @ \cup names]
<1> HIDE DEF s
<1>1. t = [f \in CycleFields |-> t[f]] /\ t.clean = s.clean
  BY DEF CycleFields, s
<1> HIDE DEF t
<1>2. personLoop(t).clean = t.clean
  BY <1>1 DEF personLoop, groupLoop, CycleFields
<1>3. QED BY <1>1, <1>2 DEF renamed, t, s

LEMMA PersonReadsMirror ==
  ASSUME SyncInv, WellInv, MirrorInv, NEW c \in Cycles,
         PersonSought(c) \/ NameSought(c) \/ LinkAllowed(c) \/ PersonRefused(c)
  PROVE  MirrorInv'
<1>1. /\ cycle[c] = [f \in CycleFields |-> cycle[c][f]] /\ Well(cycle[c])
      /\ DOMAIN users = UserIds /\ DOMAIN groups = GroupIds
  BY DEF WellInv, Well, Holds, SyncInv, TablesHold
<1> DEFINE Now(s) == Mirror(s, directory, users, groups, member, syncConfig)
<1>2. /\ cycle[c].pc \in PeoplePhases /\ cycle[c].pc \notin {"idle", "done", "search"}
      /\ ~PersonSought(c) => cycle[c].pc \in PersonTurns
  BY DEF PersonSought, NameSought, LinkAllowed, PersonRefused, at, PeoplePhases, PersonTurns
<1>3. ASSUME cycle[c].clean
      PROVE  /\ Now(cycle[c]) /\ PersonTurn(cycle[c], users)
             /\ cycle[c].people = directory.people /\ cycle[c].groups = directory.groups
             /\ PeopleCounted(peopleLeft(cycle[c]), cycle[c].synced, cycle[c].lost,
                              directory, users, groups, member, syncConfig)
             /\ \A e \in directory.people : e.dn # None
  BY <1>2, <1>3, Undisturbed2 DEF Mirror, Reads, CountingPhases
<1>4. ASSUME NEW t, t.clean = cycle[c].clean, t.pc \in PeoplePhases, t.people = cycle[c].people,
             t.groups = cycle[c].groups, t.synced = cycle[c].synced, t.lost = cycle[c].lost,
             peopleLeft(t) = peopleLeft(cycle[c]), cycle[c].clean => PersonTurn(t, users),
             ReadStep(c, t)
      PROVE  MirrorInv'
  <2>1. cycle[c].clean => Now(t)
    BY <1>2, <1>3, <1>4, PersonTurnMirrors
  <2> HIDE DEF Now
  <2>2. t.clean => cycle[c].clean /\ Now(t)
    BY <1>4, <2>1
  <2>3. QED BY <1>2, <1>4, <2>2, MirrorReads DEF Now
<1>5. ASSUME NEW more, cycle[c].pc \in PersonTurns,
             cycle[c].clean =>
               /\ PersonDone(cycle[c].entry, cycle[c].synced \cup more, cycle[c].lost,
                             users, groups, member, syncConfig)
               /\ \A u \in more : Known(users[u], directory),
             ReadStep(c, next(c, more))
      PROVE  MirrorInv'
  <2>1. next(c, more).clean = cycle[c].clean
    BY <1>1, RenamedClean DEF next
  <2>2. ASSUME cycle[c].clean
        PROVE  Now(next(c, more))
    <3>1. peopleLeft(cycle[c]) = cycle[c].todo \cup {cycle[c].entry}
      BY <1>5 DEF peopleLeft, PersonTurns
    <3>2. PeopleCounted(cycle[c].todo, cycle[c].synced \cup more, cycle[c].lost,
                        directory, users, groups, member, syncConfig)
      BY <1>3, <1>5, <2>2, <3>1, CountedOnce
    <3>3. cycle[c].lost \cup {} = cycle[c].lost
      OBVIOUS
    <3>4. PeopleCounted(cycle[c].todo, cycle[c].synced \cup more, cycle[c].lost \cup {},
                        directory, users, groups, member, syncConfig)
      BY <3>2, <3>3
    <3>5. QED BY <1>1, <1>3, <2>2, <3>4, RenamedMirrors DEF next
  <2> HIDE DEF Now
  <2>3. QED BY <1>2, <1>5, <2>1, <2>2, MirrorReads DEF Now
<1> HIDE DEF Now
<1>6. CASE PersonSought(c)
  <2>1. PICK e \in cycle[c].todo :
          /\ cycle[c].pc = "person"
          /\ LET taken == [cycle[c] EXCEPT !.todo = @ \ {e}, !.entry = e]
             IN \/ linkedTo(e.dn) = {} /\ ReadStep(c, [taken EXCEPT !.pc = "name"])
                \/ \E u \in linkedTo(e.dn) : ReadStep(c, [taken EXCEPT !.pc = "update", !.row = u])
    BY <1>6 DEF PersonSought, at
  <2> DEFINE taken == [cycle[c] EXCEPT !.todo = @ \ {e}, !.entry = e]
  <2>2. peopleLeft(cycle[c]) = (cycle[c].todo \ {e}) \cup {e}
    BY <2>1 DEF peopleLeft
  <2>3. ASSUME linkedTo(e.dn) = {}, ReadStep(c, [taken EXCEPT !.pc = "name"])
        PROVE  MirrorInv'
    <3> DEFINE t == [taken EXCEPT !.pc = "name"]
    <3>1. /\ t.clean = cycle[c].clean /\ t.pc = "name" /\ t.people = cycle[c].people
          /\ t.groups = cycle[c].groups /\ t.synced = cycle[c].synced /\ t.lost = cycle[c].lost
          /\ t.todo = cycle[c].todo \ {e} /\ t.entry = e
      BY <1>1 DEF CycleFields
    <3> HIDE DEF t
    <3>2. peopleLeft(t) = peopleLeft(cycle[c]) /\ t.pc \in PeoplePhases
      BY <2>2, <3>1 DEF peopleLeft, PeoplePhases, PersonTurns
    <3>3. PersonTurn(t, users)
      BY <2>3, <3>1 DEF PersonTurn, linkedTo, Present, Has
    <3>4. QED BY <1>4, <2>3, <3>1, <3>2, <3>3 DEF t
  <2>4. ASSUME NEW u \in linkedTo(e.dn), ReadStep(c, [taken EXCEPT !.pc = "update", !.row = u])
        PROVE  MirrorInv'
    <3> DEFINE t == [taken EXCEPT !.pc = "update", !.row = u]
    <3>1. /\ t.clean = cycle[c].clean /\ t.pc = "update" /\ t.people = cycle[c].people
          /\ t.groups = cycle[c].groups /\ t.synced = cycle[c].synced /\ t.lost = cycle[c].lost
          /\ t.todo = cycle[c].todo \ {e} /\ t.entry = e /\ t.row = u
      BY <1>1 DEF CycleFields
    <3> HIDE DEF t
    <3>2. peopleLeft(t) = peopleLeft(cycle[c]) /\ t.pc \in PeoplePhases
      BY <2>2, <3>1 DEF peopleLeft, PeoplePhases, PersonTurns
    <3>3. PersonTurn(t, users)
      BY <2>4, <3>1 DEF PersonTurn, linkedTo, Present, Has
    <3>4. QED BY <1>4, <2>4, <3>1, <3>2, <3>3 DEF t
  <2>5. QED BY <2>1, <2>3, <2>4
<1>7. CASE NameSought(c)
  <2> DEFINE e == cycle[c].entry
  <2>1. cycle[c].pc = "name" /\ cycle[c].pc \in PersonTurns /\ e \in cycle[c].people
    BY <1>1, <1>7 DEF NameSought, at, PersonTurns, Well
  <2>2. cycle[c].clean => (\A u \in UserIds : ~Has(u, e.dn, users)) /\ e \in directory.people
    BY <1>3, <2>1 DEF PersonTurn
  <2>3. ASSUME ReadStep(c, [cycle[c] EXCEPT !.pc = "insert"])
        PROVE  MirrorInv'
    <3> DEFINE t == [cycle[c] EXCEPT !.pc = "insert"]
    <3>1. /\ t.clean = cycle[c].clean /\ t.pc = "insert" /\ t.people = cycle[c].people
          /\ t.groups = cycle[c].groups /\ t.synced = cycle[c].synced /\ t.lost = cycle[c].lost
          /\ t.todo = cycle[c].todo /\ t.entry = e
      BY <1>1 DEF CycleFields
    <3> HIDE DEF t
    <3>2. peopleLeft(t) = peopleLeft(cycle[c]) /\ t.pc \in PeoplePhases
      BY <2>1, <3>1 DEF peopleLeft, PeoplePhases, PersonTurns
    <3>3. cycle[c].clean => PersonTurn(t, users)
      BY <2>2, <3>1 DEF PersonTurn
    <3>4. QED BY <1>4, <2>3, <3>1, <3>2, <3>3 DEF t
  <2>4. ASSUME NEW u \in Present(users), users[u].username = e.username, users[u].dn = None,
               ReadStep(c, [cycle[c] EXCEPT !.pc = "mayLink", !.row = u])
        PROVE  MirrorInv'
    <3> DEFINE t == [cycle[c] EXCEPT !.pc = "mayLink", !.row = u]
    <3>1. /\ t.clean = cycle[c].clean /\ t.pc = "mayLink" /\ t.people = cycle[c].people
          /\ t.groups = cycle[c].groups /\ t.synced = cycle[c].synced /\ t.lost = cycle[c].lost
          /\ t.todo = cycle[c].todo /\ t.entry = e /\ t.row = u
      BY <1>1 DEF CycleFields
    <3> HIDE DEF t
    <3>2. peopleLeft(t) = peopleLeft(cycle[c]) /\ t.pc \in PeoplePhases
      BY <2>1, <3>1 DEF peopleLeft, PeoplePhases, PersonTurns
    <3>3. cycle[c].clean => PersonTurn(t, users)
      BY <2>2, <2>4, <3>1 DEF PersonTurn, Present, Has
    <3>4. QED BY <1>4, <2>4, <3>1, <3>2, <3>3 DEF t
  <2>5. ASSUME NEW u \in Present(users), users[u].username = e.username, users[u].dn # None,
               ReadStep(c, next(c, {u}))
        PROVE  MirrorInv'
    <3>1. ASSUME cycle[c].clean
          PROVE  /\ PersonDone(e, cycle[c].synced \cup {u}, cycle[c].lost,
                               users, groups, member, syncConfig)
                 /\ Known(users[u], directory)
      <4>1. u \in UserIds /\ users[u] # None /\ users[u].dn # e.dn
        BY <1>1, <2>2, <2>5, <3>1 DEF Present, Has
      <4>2. Owns(e, u, cycle[c].synced \cup {u}, cycle[c].lost, users, groups, member, syncConfig)
        BY <2>5, <4>1 DEF Owns
      <4>3. Known(users[u], directory)
        BY <2>2, <2>5, <3>1 DEF Known
      <4>4. QED BY <4>1, <4>2, <4>3 DEF PersonDone
    <3>2. QED BY <1>5, <2>1, <2>5, <3>1
  <2>6. ASSUME NEW u \in Present(users), users[u].username = e.username, users[u].dn = None,
               ~(syncConfig.link /\ e.username # ADMIN_USER), ReadStep(c, next(c, {}))
        PROVE  MirrorInv'
    <3>1. PersonDone(e, cycle[c].synced \cup {}, cycle[c].lost, users, groups, member, syncConfig)
      <4>1. u \in UserIds /\ users[u] # None
        BY <1>1, <2>6 DEF Present
      <4>2. Owns(e, u, cycle[c].synced \cup {}, cycle[c].lost, users, groups, member, syncConfig)
        BY <2>6, <4>1 DEF Owns, Spared
      <4>3. QED BY <4>1, <4>2 DEF PersonDone
    <3>2. QED BY <1>5, <2>1, <2>6, <3>1
  <2>7. QED BY <1>7, <2>3, <2>4, <2>5, <2>6 DEF NameSought
<1>8. CASE LinkAllowed(c)
  <2> DEFINE e == cycle[c].entry
             u == cycle[c].row
  <2>1. cycle[c].pc = "mayLink" /\ cycle[c].pc \in PersonTurns
    BY <1>8 DEF LinkAllowed, at, PersonTurns
  <2>2. cycle[c].clean =>
          /\ \A v \in UserIds : ~Has(v, e.dn, users)
          /\ Has(u, None, users) /\ users[u].username = e.username
    BY <1>3, <2>1 DEF PersonTurn
  <2>3. ASSUME ReadStep(c, [cycle[c] EXCEPT !.pc = "link"])
        PROVE  MirrorInv'
    <3> DEFINE t == [cycle[c] EXCEPT !.pc = "link"]
    <3>1. /\ t.clean = cycle[c].clean /\ t.pc = "link" /\ t.people = cycle[c].people
          /\ t.groups = cycle[c].groups /\ t.synced = cycle[c].synced /\ t.lost = cycle[c].lost
          /\ t.todo = cycle[c].todo /\ t.entry = e /\ t.row = u
      BY <1>1 DEF CycleFields
    <3> HIDE DEF t
    <3>2. peopleLeft(t) = peopleLeft(cycle[c]) /\ t.pc \in PeoplePhases
      BY <2>1, <3>1 DEF peopleLeft, PeoplePhases, PersonTurns
    <3>3. cycle[c].clean => PersonTurn(t, users)
      BY <2>2, <3>1 DEF PersonTurn
    <3>4. QED BY <1>4, <2>3, <3>1, <3>2, <3>3 DEF t
  <2>4. ASSUME u \in admins, ReadStep(c, next(c, {}))
        PROVE  MirrorInv'
    <3>1. ASSUME cycle[c].clean
          PROVE  PersonDone(e, cycle[c].synced \cup {}, cycle[c].lost,
                            users, groups, member, syncConfig)
      <4>1. u \in UserIds /\ users[u] # None /\ users[u].dn = None /\ users[u].username = e.username
        BY <1>1, <2>2, <3>1 DEF Has
      <4>2. Administers(u, groups, member)
        BY <1>1, <2>4 DEF admins, groupsNamed, Present, Administers
      <4>3. Owns(e, u, cycle[c].synced \cup {}, cycle[c].lost, users, groups, member, syncConfig)
        BY <4>1, <4>2 DEF Owns, Spared
      <4>4. QED BY <4>1, <4>3 DEF PersonDone
    <3>2. QED BY <1>5, <2>1, <2>4, <3>1
  <2>5. QED BY <1>8, <2>3, <2>4 DEF LinkAllowed
<1>9. CASE PersonRefused(c)
  <2> DEFINE n == next(c, {})
             t == [n EXCEPT !.clean = FALSE]
  <2>1. n = [f \in CycleFields |-> n[f]]
    <3>1. {} \in SUBSET UserIds
      OBVIOUS
    <3>2. Well(next(c, {})) /\ Gives(next(c, {}), users)
      BY <1>1, <1>2, <3>1, NextWell
    <3>3. QED BY <3>2 DEF Well, Holds
  <2>2. ReadStep(c, t)
    BY <1>9 DEF PersonRefused
  <2> HIDE DEF n
  <2>3. ~t.clean
    BY <2>1 DEF CycleFields
  <2> HIDE DEF t
  <2>4. QED BY <1>2, <2>2, <2>3, MirrorReads
<1>10. QED BY <1>6, <1>7, <1>8, <1>9

(* The account of the entry whose turn it is, is written.                  *)
LEMMA PersonWritten ==
  ASSUME SyncInv, WellInv, MirrorInv, NEW c \in Cycles, cycle[c].pc \in PersonTurns,
         NEW u \in UserIds, NEW row, users' = [users EXCEPT ![u] = row], row # None,
         row.username = cycle[c].entry.username, row.dn = cycle[c].entry.dn, row.approved,
         UNCHANGED <<groups, member, directory, syncConfig>>,
         cycle[c].clean /\ users[u] # None => users[u].dn \in {row.dn, None},
         NEW names, users[u] # None => users[u].username \in names \cup {row.username},
         cycle' = [cycle EXCEPT ![c] = renamed(c, {u}, names)]
  PROVE  MirrorInv'
<1> DEFINE e == cycle[c].entry
           stay == cycle[c].synced
           lost == cycle[c].lost
<1>1. cycle[c] = [f \in CycleFields |-> cycle[c][f]] /\ e \in cycle[c].people
      /\ cycle[c].pc \notin {"idle", "done"}
  BY DEF WellInv, Well, Holds, PersonTurns
<1>2. renamed(c, {u}, names).clean = cycle[c].clean
  BY <1>1, RenamedClean
<1>3. ASSUME cycle[c].clean
      PROVE  Mirror(renamed(c, {u}, names), directory, users', groups, member, syncConfig)
  <2>1. /\ cycle[c].people = directory.people /\ cycle[c].groups = directory.groups
        /\ PeopleCounted(cycle[c].todo \cup {e}, stay, lost,
                         directory, users, groups, member, syncConfig)
        /\ \A f \in directory.people : f.dn # None
    <3>1. /\ peopleLeft(cycle[c]) = cycle[c].todo \cup {e}
          /\ cycle[c].pc \in CountingPhases \ {"search"}
      BY DEF peopleLeft, PersonTurns, CountingPhases, PeoplePhases
    <3>2. QED BY <1>3, <3>1, Undisturbed2 DEF Mirror, Reads, PersonTurns
  <2>2. /\ users'[u] = row /\ \A v \in UserIds \ {u} : users'[v] = users[v]
        /\ DOMAIN users' = UserIds
    BY DEF SyncInv, TablesHold
  <2>3. row.dn # None /\ e \in directory.people
    BY <1>1, <2>1
  <2>4. PersonDone(e, stay \cup {u}, lost \cup names, users', groups, member, syncConfig)
    <3>1. Owns(e, u, stay \cup {u}, lost \cup names, users', groups, member, syncConfig)
      BY <2>2 DEF Owns
    <3>2. QED BY <3>1 DEF PersonDone
  <2>5. ASSUME NEW f \in directory.people \ (cycle[c].todo \cup {e})
        PROVE  PersonDone(f, stay \cup {u}, lost \cup names, users', groups, member, syncConfig)
    <3>1. PersonDone(f, stay, lost, users, groups, member, syncConfig) /\ f.dn # None
      BY <2>1, <2>5 DEF PeopleCounted
    <3>2. ReasonsStay(lost, lost \cup names, users, groups, groups, member, member)
      BY DEF ReasonsStay, AdminsByDirectory
    <3>3. AccountsStay(stay, stay \cup {u}, lost \cup names, users, users')
      <4>1. SUFFICES ASSUME NEW v \in UserIds, users[v] # None, users[v].dn = None \/ v \in stay
                     PROVE
                     \/ users[v].username \in lost \cup names
                     \/ users'[v] = users[v] /\ (users[v].dn # None => v \in stay \cup {u})
                     \/ /\ users'[v] # None /\ users'[v].username = users[v].username
                        /\ users'[v].approved /\ users'[v].dn # None /\ v \in stay \cup {u}
                        /\ users[v].dn \in {users'[v].dn, None}
        BY DEF AccountsStay
      <4>2. CASE v = u
        BY <1>3, <2>2, <2>3, <4>1, <4>2
      <4>3. CASE v # u
        BY <2>2, <4>1, <4>3
      <4>4. QED BY <4>2, <4>3
    <3> HIDE DEF stay, lost, e
    <3>4. QED BY <3>1, <3>2, <3>3, PersonStaysDone
  <2>6. ASSUME NEW v \in stay \cup {u}, users'[v] # None
        PROVE  Known(users'[v], directory)
    <3>1. CASE v = u
      BY <2>2, <2>3, <3>1 DEF Known
    <3>2. CASE v # u
      <4>1. v \in stay /\ v \in UserIds
        BY <2>6, <3>2 DEF WellInv, Well, Holds
      <4>2. QED BY <2>1, <2>2, <2>6, <3>2, <4>1 DEF PeopleCounted
    <3>3. QED BY <3>1, <3>2
  <2>7. PeopleCounted(cycle[c].todo, stay \cup {u}, lost \cup names,
                      directory, users', groups, member, syncConfig)
    BY <2>4, <2>5, <2>6 DEF PeopleCounted
  <2>8. QED BY <1>1, <2>1, <2>7, RenamedMirrors
<1>4. QED BY <1>1, <1>2, <1>3, CycleMirrors

LEMMA PersonStepsMirror ==
  ASSUME SyncInv, WellInv, MirrorInv, NEW c \in Cycles,
         PersonUpdated(c) \/ PersonLinked(c) \/ PersonInserted(c) \/ PersonFailed(c)
  PROVE  MirrorInv'
<1> DEFINE e == cycle[c].entry
<1>1. /\ cycle[c] = [f \in CycleFields |-> cycle[c][f]] /\ Well(cycle[c])
      /\ cycle[c].pc \in PersonTurns /\ cycle[c].pc \notin {"idle", "done"}
      /\ cycle[c].pc \in PeoplePhases
  BY DEF WellInv, Well, Holds, PersonUpdated, PersonLinked, PersonInserted, PersonFailed, at,
     PersonTurns, PeoplePhases
<1>2. cycle[c].clean => PersonTurn(cycle[c], users)
  BY Undisturbed2 DEF Mirror
<1>3. \A u \in Present(users) : u \in UserIds /\ users[u] # None /\ users[u] \in UserRecord
  BY DEF WellInv, AccountsTypeOK, Present, SyncInv, TablesHold
<1>4. None \notin UserRecord
  BY RowsAssumption
<1>5. e.dn \in DNs /\ e.username \in Usernames
  BY <1>1, EntriesTyped DEF Well, Holds
<1>6. ASSUME NEW u, u \notin Present(users), cycle[c].pc \in {"update", "link"}, cycle[c].row = u,
             NEW names, UNCHANGED <<users, groups, member, directory, syncConfig>>,
             cycle' = [cycle EXCEPT ![c] = renamed(c, {u}, names)]
      PROVE  MirrorInv'
  <2>1. renamed(c, {u}, names).clean = cycle[c].clean
    BY <1>1, RenamedClean
  <2>2. ~cycle[c].clean
    BY <1>2, <1>6 DEF PersonTurn, Has, Present
  <2>3. QED BY <1>1, <1>6, <2>1, <2>2, CycleMirrors
<1>7. CASE PersonUpdated(c)
  <2> DEFINE u == cycle[c].row
             row == [users[u] EXCEPT !.username = e.username, !.approved = TRUE]
             names == nameLost(u, e.username)
  <2>1. /\ cycle[c].pc = "update" /\ UNCHANGED <<groups, member, directory, syncConfig>>
        /\ cycle' = [cycle EXCEPT ![c] = renamed(c, {u}, names)]
    BY <1>7 DEF PersonUpdated, at, Others
  <2>2. CASE u \in Present(users)
    <3>1. u \in UserIds /\ users[u] \in UserRecord /\ users[u] # None
      BY <1>3, <2>2
    <3>2. /\ row # None /\ row.username = e.username /\ row.dn = users[u].dn /\ row.approved
      <4>1. row \in UserRecord
        BY <1>5, <3>1 DEF UserRecord
      <4>2. row # None
        BY <1>4, <4>1
      <4>3. QED BY <3>1, <4>2 DEF UserRecord
    <3>3. users' = [users EXCEPT ![u] = row]
      <4>1. users' = [users EXCEPT ![u].username = e.username, ![u].approved = TRUE]
        BY <1>7, <2>2 DEF PersonUpdated
      <4>2. QED BY <3>1, <4>1 DEF UserRecord, SyncInv, TablesHold
    <3>4. users[u].username \in names \cup {row.username}
      BY <2>2, <3>2 DEF nameLost
    <3>5. cycle[c].clean => row.dn = e.dn
      BY <1>2, <2>1, <3>2 DEF PersonTurn, Has
    <3>6. CASE cycle[c].clean
      <4> HIDE DEF row, names
      <4>1. QED BY <1>1, <2>1, <3>1, <3>2, <3>3, <3>4, <3>5, <3>6, PersonWritten
    <3>7. CASE ~cycle[c].clean
      <4>1. renamed(c, {u}, names).clean = cycle[c].clean
        BY <1>1, RenamedClean
      <4> HIDE DEF names
      <4>2. QED BY <1>1, <2>1, <3>7, <4>1, CycleMirrors
    <3>8. QED BY <3>6, <3>7
  <2>3. CASE u \notin Present(users)
    <3>1. UNCHANGED users
      BY <1>7, <2>3 DEF PersonUpdated
    <3>2. QED BY <1>6, <2>1, <2>3, <3>1
  <2>4. QED BY <2>2, <2>3
<1>8. CASE PersonLinked(c)
  <2> DEFINE u == cycle[c].row
             row == [users[u] EXCEPT !.dn = e.dn, !.approved = TRUE]
  <2>1. /\ cycle[c].pc = "link" /\ UNCHANGED <<groups, member, directory, syncConfig>>
        /\ cycle' = [cycle EXCEPT ![c] = renamed(c, {u}, {})]
    BY <1>8 DEF PersonLinked, at, Others, next
  <2>2. CASE u \in Present(users)
    <3>1. u \in UserIds /\ users[u] \in UserRecord /\ users[u] # None
      BY <1>3, <2>2
    <3>2. /\ row # None /\ row.username = users[u].username /\ row.dn = e.dn /\ row.approved
      <4>1. row \in UserRecord
        BY <1>5, <3>1 DEF UserRecord
      <4>2. row # None
        BY <1>4, <4>1
      <4>3. QED BY <3>1, <4>2 DEF UserRecord
    <3>3. users' = [users EXCEPT ![u] = row]
      <4>1. users' = [users EXCEPT ![u].dn = e.dn, ![u].approved = TRUE]
        BY <1>8, <2>2 DEF PersonLinked
      <4>2. QED BY <3>1, <4>1 DEF UserRecord, SyncInv, TablesHold
    <3>4. cycle[c].clean => row.username = e.username /\ users[u].dn = None
      BY <1>2, <2>1, <3>2 DEF PersonTurn, Has
    <3>5. CASE cycle[c].clean
      <4>1. users[u].username \in {} \cup {row.username}
        BY <3>2
      <4> HIDE DEF row
      <4>2. QED BY <1>1, <2>1, <3>1, <3>2, <3>3, <3>4, <3>5, <4>1, PersonWritten
    <3>6. CASE ~cycle[c].clean
      <4>1. renamed(c, {u}, {}).clean = cycle[c].clean
        BY <1>1, RenamedClean
      <4>2. QED BY <1>1, <2>1, <3>6, <4>1, CycleMirrors
    <3>7. QED BY <3>5, <3>6
  <2>3. CASE u \notin Present(users)
    <3>1. UNCHANGED users
      BY <1>8, <2>3 DEF PersonLinked
    <3>2. QED BY <1>6, <2>1, <2>3, <3>1
  <2>4. QED BY <2>2, <2>3
<1>9. CASE PersonInserted(c)
  <2> DEFINE u == freshId(users, held)
             row == [username |-> e.username, approved |-> TRUE, expired |-> FALSE, dn |-> e.dn]
  <2>1. u \in UserIds /\ users[u] = None
    <3>1. \E x \in DOMAIN users \ held : users[x] = None
      BY <1>9 DEF PersonInserted, idsSuffice
    <3>2. QED BY <3>1 DEF freshId, SyncInv, TablesHold
  <2>2. row # None /\ row.username = e.username /\ row.dn = e.dn /\ row.approved
    <3>1. row \in UserRecord
      BY <1>5 DEF UserRecord
    <3>2. QED BY <1>4, <3>1
  <2>3. /\ users' = [users EXCEPT ![u] = row] /\ UNCHANGED <<groups, member, directory, syncConfig>>
        /\ cycle' = [cycle EXCEPT ![c] = renamed(c, {u}, {})]
    BY <1>9 DEF PersonInserted, Others, next
  <2> HIDE DEF u, row
  <2>4. QED BY <1>1, <2>1, <2>2, <2>3, PersonWritten
<1>10. CASE PersonFailed(c)
  <2> DEFINE n == next(c, {})
             t == [n EXCEPT !.clean = FALSE]
  <2>1. n = [f \in CycleFields |-> n[f]]
    <3>1. {} \in SUBSET UserIds
      OBVIOUS
    <3>2. Well(next(c, {})) /\ Gives(next(c, {}), users)
      BY <1>1, <3>1, NextWell
    <3>3. QED BY <3>2 DEF Well, Holds
  <2>2. cycle' = [cycle EXCEPT ![c] = t]
    BY <1>10 DEF PersonFailed
  <2> HIDE DEF n
  <2>3. ~t.clean
    BY <2>1 DEF CycleFields
  <2> HIDE DEF t
  <2>4. QED BY <1>1, <2>2, <2>3, CycleMirrors
<1>11. QED BY <1>7, <1>8, <1>9, <1>10

(* Groups or memberships change, or names are lost: the people stay.       *)
LEMMA PeopleStay ==
  ASSUME NEW d, \A e \in d.people : e.dn # None,
         NEW lost, NEW lost2, NEW us, NEW gs, NEW gs2, NEW mem, NEW mem2, NEW conf,
         ReasonsStay(lost, lost2, us, gs, gs2, mem, mem2)
  PROVE  /\ \A left, stay : PeopleCounted(left, stay, lost, d, us, gs, mem, conf)
                              => PeopleCounted(left, stay, lost2, d, us, gs2, mem2, conf)
         /\ \A drop : PeopleSettled(drop, lost, d, us, gs, mem, conf)
                        => PeopleSettled(drop, lost2, d, us, gs2, mem2, conf)
<1>1. ASSUME NEW e \in d.people, NEW stay, PersonDone(e, stay, lost, us, gs, mem, conf)
      PROVE  PersonDone(e, stay, lost2, us, gs2, mem2, conf)
  <2>1. AccountsStay(stay, stay, lost2, us, us)
    BY DEF AccountsStay
  <2>2. e.dn # None
    OBVIOUS
  <2>3. QED BY <1>1, <2>1, <2>2, PersonStaysDone
<1>2. \A left, stay : PeopleCounted(left, stay, lost, d, us, gs, mem, conf)
                        => PeopleCounted(left, stay, lost2, d, us, gs2, mem2, conf)
  BY <1>1 DEF PeopleCounted
<1>3. \A drop : PeopleSettled(drop, lost, d, us, gs, mem, conf)
                  => PeopleSettled(drop, lost2, d, us, gs2, mem2, conf)
  BY <1>1 DEF PeopleSettled
<1>4. QED BY <1>2, <1>3

(* The turn of a group.                                                    *)
GroupPhases == {"group"} \cup GroupTurns

LEMMA GroupTurnMirrors ==
  ASSUME NEW s, NEW t, NEW d, NEW us, NEW gs, NEW mem, NEW conf,
         PeopleCounted({}, s.synced, s.lost, d, us, gs, mem, conf),
         GroupsDone(groupsLeft(t), s.lost, d, us, gs, mem),
         s.people = d.people, s.groups = d.groups, t.pc \in GroupTurns,
         t.people = s.people, t.groups = s.groups, t.synced = s.synced, t.lost = s.lost,
         GroupTurn(t, us, gs, mem)
  PROVE  Mirror(t, d, us, gs, mem, conf)
<1>1. /\ t.pc \in CountingPhases \ {"search"} /\ t.pc \notin PeoplePhases \cup {"done", "search"}
      /\ peopleLeft(t) = {}
  BY DEF CountingPhases, PeoplePhases, PersonTurns, GroupTurns, peopleLeft
<1>2. Reads(t, d) /\ PersonTurn(t, us) /\ AdminTurn(t, d, us, gs, mem)
  BY <1>1 DEF Reads, PersonTurn, AdminTurn, PeoplePhases, PersonTurns, GroupTurns
<1>3. QED BY <1>1, <1>2 DEF Mirror

LEMMA GroupFacts ==
  ASSUME SyncInv, WellInv, MirrorInv, NEW c \in Cycles, cycle[c].clean,
         cycle[c].pc \in GroupPhases
  PROVE  /\ PeopleCounted({}, cycle[c].synced, cycle[c].lost, directory, users, groups, member,
                          syncConfig)
         /\ GroupsDone(groupsLeft(cycle[c]), cycle[c].lost, directory, users, groups, member)
         /\ GroupTurn(cycle[c], users, groups, member)
         /\ cycle[c].people = directory.people /\ cycle[c].groups = directory.groups
<1>1. /\ cycle[c].pc \in CountingPhases \ {"search"}
      /\ cycle[c].pc \notin PeoplePhases \cup {"done", "search"} /\ peopleLeft(cycle[c]) = {}
  BY DEF CountingPhases, PeoplePhases, PersonTurns, GroupTurns, GroupPhases, peopleLeft
<1>2. QED BY <1>1, Undisturbed2 DEF Mirror, Reads

LEMMA GroupReadsMirror ==
  ASSUME SyncInv, WellInv, MirrorInv, NEW c \in Cycles,
         GroupSought(c) \/ MemberSought(c) \/ MembersCompared(c)
  PROVE  MirrorInv'
<1>1. /\ cycle[c] = [f \in CycleFields |-> cycle[c][f]] /\ Well(cycle[c]) /\ Holds(cycle[c])
      /\ DOMAIN users = UserIds /\ DOMAIN groups = GroupIds
      /\ cycle[c].pc \in GroupPhases /\ cycle[c].pc \notin {"idle", "done"}
  BY DEF WellInv, Well, Holds, SyncInv, TablesHold, GroupSought, MemberSought, MembersCompared,
     at, GroupPhases, GroupTurns
<1>2. ASSUME NEW t, t.clean = cycle[c].clean, t.pc \in GroupTurns, t.people = cycle[c].people,
             t.groups = cycle[c].groups, t.synced = cycle[c].synced, t.lost = cycle[c].lost,
             groupsLeft(t) = groupsLeft(cycle[c]),
             cycle[c].clean => GroupTurn(t, users, groups, member), ReadStep(c, t)
      PROVE  MirrorInv'
  <2>1. ASSUME cycle[c].clean
        PROVE  Mirror(t, directory, users, groups, member, syncConfig)
    <3> DEFINE s == cycle[c]
    <3>1. /\ PeopleCounted({}, s.synced, s.lost, directory, users, groups, member, syncConfig)
          /\ GroupsDone(groupsLeft(t), s.lost, directory, users, groups, member)
          /\ s.people = directory.people /\ s.groups = directory.groups
          /\ GroupTurn(t, users, groups, member)
          /\ t.people = s.people /\ t.groups = s.groups /\ t.synced = s.synced /\ t.lost = s.lost
      BY <1>1, <1>2, <2>1, GroupFacts
    <3> HIDE DEF s
    <3>2. QED BY <1>2, <3>1, GroupTurnMirrors
  <2>2. QED BY <1>1, <1>2, <2>1, MirrorReads
<1>3. CASE GroupSought(c)
  <2>1. PICK e \in cycle[c].todo :
          /\ cycle[c].pc = "group"
          /\ LET taken == [cycle[c] EXCEPT !.todo = @ \ {e}, !.entry = e, !.pc = "groupSave"]
             IN \/ ReadStep(c, taken)
                \/ \E g \in groupLinkedTo(e.dn) : ReadStep(c, [taken EXCEPT !.row = g])
    BY <1>3 DEF GroupSought, at
  <2> DEFINE taken == [cycle[c] EXCEPT !.todo = @ \ {e}, !.entry = e, !.pc = "groupSave"]
  <2>2. /\ taken = [f \in CycleFields |-> taken[f]]
        /\ taken.clean = cycle[c].clean /\ taken.pc = "groupSave" /\ taken.people = cycle[c].people
        /\ taken.groups = cycle[c].groups /\ taken.synced = cycle[c].synced
        /\ taken.lost = cycle[c].lost /\ taken.todo = cycle[c].todo \ {e} /\ taken.entry = e
        /\ taken.row = None
    BY <1>1, <2>1 DEF CycleFields, Well
  <2> HIDE DEF taken
  <2>3. ASSUME NEW t, t = taken \/ \E g \in groupLinkedTo(e.dn) : t = [taken EXCEPT !.row = g],
               ReadStep(c, t)
        PROVE  MirrorInv'
    <3>1. /\ t.clean = cycle[c].clean /\ t.pc = "groupSave" /\ t.people = cycle[c].people
          /\ t.groups = cycle[c].groups /\ t.synced = cycle[c].synced /\ t.lost = cycle[c].lost
          /\ t.todo = cycle[c].todo \ {e} /\ t.entry = e
          /\ t.row = None \/ t.row \in groupLinkedTo(e.dn)
      BY <2>2, <2>3 DEF CycleFields
    <3>2. groupsLeft(t) = groupsLeft(cycle[c]) /\ t.pc \in GroupTurns
      BY <2>1, <3>1 DEF groupsLeft, GroupTurns
    <3>3. GroupTurn(t, users, groups, member)
      BY <3>1 DEF GroupTurn, groupLinkedTo, Present, Has
    <3>4. QED BY <1>2, <2>3, <3>1, <3>2, <3>3
  <2>4. QED BY <2>1, <2>3 DEF taken
<1>4. CASE MemberSought(c)
  <2>1. PICK dn \in cycle[c].left :
          /\ cycle[c].pc = "members"
          /\ LET sought == [cycle[c] EXCEPT !.left = @ \ {dn}]
             IN \/ linkedTo(dn) = {} /\ ReadStep(c, sought)
                \/ \E u \in linkedTo(dn) : ReadStep(c, [sought EXCEPT !.wanted = @ \cup {u}])
    BY <1>4 DEF MemberSought, at
  <2>2. dn \in cycle[c].entry.members
    BY <1>1, <2>1 DEF Well
  <2>3. ASSUME NEW us, \A u \in us : u \in UserIds /\ Has(u, dn, users),
               (\E u \in UserIds : Has(u, dn, users)) => us # {},
               NEW t, t = [f \in CycleFields |-> CASE f = "left" -> cycle[c].left \ {dn}
                                                   [] f = "wanted" -> cycle[c].wanted \cup us
                                                   [] OTHER -> cycle[c][f]],
               ReadStep(c, t)
        PROVE  MirrorInv'
    <3>1. /\ t.clean = cycle[c].clean /\ t.pc = "members" /\ t.people = cycle[c].people
          /\ t.groups = cycle[c].groups /\ t.synced = cycle[c].synced /\ t.lost = cycle[c].lost
          /\ t.todo = cycle[c].todo /\ t.entry = cycle[c].entry /\ t.row = cycle[c].row
          /\ t.left = cycle[c].left \ {dn} /\ t.wanted = cycle[c].wanted \cup us
      BY <2>1, <2>3 DEF CycleFields
    <3>2. groupsLeft(t) = groupsLeft(cycle[c]) /\ t.pc \in GroupTurns
      BY <2>1, <3>1 DEF groupsLeft, GroupTurns
    <3>3. ASSUME cycle[c].clean
          PROVE  GroupTurn(t, users, groups, member)
      <4>1. /\ GroupTurn(cycle[c], users, groups, member)
            /\ MembersFound(cycle[c], users)
        BY <1>1, <2>1, <3>3, GroupFacts DEF GroupTurn
      <4>2. \A u \in t.wanted : users[u] # None /\ users[u].dn \in t.entry.members
        BY <2>2, <2>3, <3>1, <4>1 DEF MembersFound, Has
      <4>3. ASSUME NEW x \in t.entry.members \ t.left, \E u \in UserIds : Has(u, x, users)
            PROVE  \E u \in t.wanted : Has(u, x, users)
        <5>1. CASE x = dn
          BY <2>3, <3>1, <4>3, <5>1
        <5>2. CASE x # dn
          BY <3>1, <4>1, <4>3, <5>2 DEF MembersFound
        <5>3. QED BY <5>1, <5>2
      <4>4. MembersFound(t, users)
        BY <4>2, <4>3 DEF MembersFound
      <4>5. QED BY <2>1, <3>1, <4>1, <4>4 DEF GroupTurn
    <3>4. QED BY <1>2, <2>3, <3>1, <3>2, <3>3
  <2>4. ASSUME linkedTo(dn) = {}, ReadStep(c, [cycle[c] EXCEPT !.left = @ \ {dn}])
        PROVE  MirrorInv'
    <3> DEFINE t == [cycle[c] EXCEPT !.left = @ \ {dn}]
    <3>1. t = [f \in CycleFields |-> CASE f = "left" -> cycle[c].left \ {dn}
                                       [] f = "wanted" -> cycle[c].wanted \cup {}
                                       [] OTHER -> cycle[c][f]]
      BY <1>1 DEF CycleFields
    <3> HIDE DEF t
    <3>2. ~\E u \in UserIds : Has(u, dn, users)
      BY <2>4 DEF linkedTo, Present, Has
    <3>3. QED BY <2>3, <2>4, <3>1, <3>2 DEF t
  <2>5. ASSUME NEW u \in linkedTo(dn),
               ReadStep(c, [[cycle[c] EXCEPT !.left = @ \ {dn}] EXCEPT !.wanted = @ \cup {u}])
        PROVE  MirrorInv'
    <3> DEFINE t == [[cycle[c] EXCEPT !.left = @ \ {dn}] EXCEPT !.wanted = @ \cup {u}]
    <3>1. t = [f \in CycleFields |-> CASE f = "left" -> cycle[c].left \ {dn}
                                       [] f = "wanted" -> cycle[c].wanted \cup {u}
                                       [] OTHER -> cycle[c][f]]
      BY <1>1 DEF CycleFields
    <3> HIDE DEF t
    <3>2. \A v \in {u} : v \in UserIds /\ Has(v, dn, users)
      BY <1>1, <2>5 DEF linkedTo, Present, Has
    <3>3. QED BY <2>3, <2>5, <3>1, <3>2 DEF t
  <2>6. QED BY <2>1, <2>4, <2>5
<1>5. CASE MembersCompared(c)
  <2> DEFINE there == {u \in UserIds : member[<<u, cycle[c].row>>] # None}
             s == [cycle[c] EXCEPT !.wanted = @ \ there, !.drop = there \ cycle[c].wanted]
  <2>1. ReadStep(c, memberLoop(s)) /\ cycle[c].pc = "members" /\ cycle[c].left = {}
    BY <1>5 DEF MembersCompared, at
  <2>2. /\ \A u \in there : u \in UserIds /\ member[<<u, cycle[c].row>>] # None
        /\ \A u \in UserIds : member[<<u, cycle[c].row>>] # None => u \in there
    OBVIOUS
  <2> HIDE DEF there
  <2>3. /\ s = [f \in CycleFields |-> s[f]] /\ s.people = cycle[c].people
        /\ s.groups = cycle[c].groups /\ s.todo = cycle[c].todo /\ s.synced = cycle[c].synced
        /\ s.lost = cycle[c].lost /\ s.clean = cycle[c].clean /\ s.row = cycle[c].row
        /\ s.entry = cycle[c].entry /\ s.wanted = cycle[c].wanted \ there
        /\ s.drop = there \ cycle[c].wanted
    BY <1>1 DEF CycleFields
  <2> HIDE DEF s
  <2>4. memberLoop(s).clean = s.clean
    BY <2>3 DEF memberLoop, groupLoop, CycleFields
  <2>5. ASSUME cycle[c].clean
        PROVE  Mirror(memberLoop(s), directory, users, groups, member, syncConfig)
    <3>1. /\ PeopleCounted({}, s.synced, s.lost, directory, users, groups, member, syncConfig)
          /\ s.people = directory.people /\ s.groups = directory.groups
          /\ GroupsDone(s.todo \cup {s.entry}, s.lost, directory, users, groups, member)
          /\ Has(s.row, s.entry.dn, groups) /\ groups[s.row].name = s.entry.name
          /\ MembersFound(cycle[c], users)
      <4>1. groupsLeft(cycle[c]) = s.todo \cup {s.entry}
        BY <2>1, <2>3 DEF groupsLeft, GroupTurns
      <4>2. QED BY <1>1, <2>1, <2>3, <2>5, <4>1, GroupFacts DEF GroupTurn
    <3>2. \A g \in GroupIds : groups[g] # None /\ groups[g].name = s.entry.name => g = s.row
      <4>1. s.row \in GroupIds /\ groups[s.row] # None
        BY <1>1, <3>1 DEF Has
      <4>2. QED BY <2>5, <3>1, <4>1, Undisturbed2
    <3>3. MembersToBe(s, users, member)
      <4>1. /\ \A u \in cycle[c].wanted : users[u] # None /\ users[u].dn \in s.entry.members
            /\ \A dn \in s.entry.members :
                 (\E u \in UserIds : Has(u, dn, users)) =>
                   \E u \in cycle[c].wanted : Has(u, dn, users)
        BY <2>1, <2>3, <3>1 DEF MembersFound
      <4>2. cycle[c].wanted \subseteq UserIds
        BY <1>1 DEF Holds
      <4>3. \A u \in s.wanted : users[u] # None /\ users[u].dn \in s.entry.members /\ u \notin s.drop
        BY <2>3, <4>1
      <4>4. \A u \in UserIds :
              member[<<u, s.row>>] # None => u \in s.drop \/ users[u].dn \in s.entry.members
        BY <2>2, <2>3, <4>1
      <4>5. ASSUME NEW dn \in s.entry.members, \E u \in UserIds : Has(u, dn, users)
            PROVE  \E u \in UserIds :
                     /\ Has(u, dn, users)
                     /\ u \in s.wanted \/ (member[<<u, s.row>>] # None /\ u \notin s.drop)
        <5>1. PICK u \in cycle[c].wanted : Has(u, dn, users)
          BY <4>1, <4>5
        <5>2. u \in s.wanted \/ (member[<<u, s.row>>] # None /\ u \notin s.drop)
          BY <2>2, <2>3
        <5>3. QED BY <4>2, <5>1, <5>2
      <4>6. QED BY <4>3, <4>4, <4>5 DEF MembersToBe
    <3>4. QED BY <2>3, <3>1, <3>2, <3>3, MemberLoopMirrors
  <2>6. QED BY <1>1, <2>1, <2>3, <2>4, <2>5, MirrorReads
<1>6. QED BY <1>3, <1>4, <1>5

LEMMA LoopsClean ==
  ASSUME NEW s, s = [f \in CycleFields |-> s[f]]
  PROVE  /\ groupLoop(s).clean = s.clean /\ memberLoop(s).clean = s.clean
         /\ removalLoop(s).clean = s.clean /\ revokeLoop(s).clean = s.clean
         /\ finished(s).clean = s.clean
<1>1. finished(s).clean = s.clean
  BY DEF finished, Idle
<1>2. groupLoop(s).clean = s.clean
  BY DEF groupLoop, CycleFields
<1>3. QED BY <1>1, <1>2 DEF memberLoop, removalLoop, revokeLoop, CycleFields

LEMMA GroupStepsMirror ==
  ASSUME SyncInv, WellInv, MirrorInv, NEW c \in Cycles, GroupSynced(c)
  PROVE  MirrorInv'
<1> DEFINE e == cycle[c].entry
           g == IF cycle[c].row = None THEN freshId(groups, held) ELSE cycle[c].row
           gone == {groups[h].name : h \in {g} \cap Present(groups)} \ {e.name}
<1>1. /\ cycle[c] = [f \in CycleFields |-> cycle[c][f]] /\ Well(cycle[c]) /\ Holds(cycle[c])
      /\ cycle[c].pc = "groupSave" /\ cycle[c].pc \in GroupPhases
      /\ cycle[c].pc \notin {"idle", "done"} /\ cycle[c].wanted = {} /\ e \in cycle[c].groups
      /\ DOMAIN groups = GroupIds
  BY DEF WellInv, Well, Holds, GroupSynced, at, GroupTurns, GroupPhases, SyncInv, TablesHold
<1>2. UNCHANGED <<users, member, directory, syncConfig>>
  BY DEF GroupSynced
<1>3. CASE groupNameTaken(e.name, cycle[c].row)
  <2> DEFINE t == groupLoop(cycle[c])
             t2 == [t EXCEPT !.clean = FALSE]
  <2>1. cycle' = [cycle EXCEPT ![c] = t2]
    BY <1>3 DEF GroupSynced
  <2>2. t = [f \in CycleFields |-> t[f]]
    BY <1>1 DEF groupLoop, CycleFields
  <2> HIDE DEF t
  <2>3. ~t2.clean
    BY <2>2 DEF CycleFields
  <2> HIDE DEF t2
  <2>4. QED BY <1>1, <2>1, <2>3, CycleMirrors
<1>4. CASE ~groupNameTaken(e.name, cycle[c].row)
  <2> DEFINE t == [cycle[c] EXCEPT !.pc = "members", !.row = g, !.left = e.members,
                                   !.lost = @ \cup gone]
             lost == cycle[c].lost
             lost2 == cycle[c].lost \cup gone
  <2>1. cycle' = [cycle EXCEPT ![c] = t]
    BY <1>4 DEF GroupSynced
  <2>2. ASSUME cycle[c].row = None
        PROVE  g \in GroupIds /\ groups[g] = None
    <3>1. \E x \in DOMAIN groups \ held : groups[x] = None
      BY <2>2 DEF GroupSynced, idsSuffice
    <3>2. QED BY <1>1, <2>2, <3>1 DEF freshId
  <2>3. e.dn \in DNs /\ e.name \in Groups
    BY <1>1, EntriesTyped DEF Holds
  <2>4. ASSUME cycle[c].clean, cycle[c].row # None
        PROVE  Has(g, e.dn, groups)
    BY <1>1, <2>4, GroupFacts DEF GroupTurn
  <2>5. ASSUME cycle[c].clean
        PROVE  /\ g \in GroupIds /\ groups'[g] # None /\ groups'[g].name = e.name
               /\ groups'[g].dn = e.dn /\ (groups[g] = None \/ groups[g].dn = e.dn)
               /\ \A h \in GroupIds \ {g} : groups'[h] = groups[h]
               /\ DOMAIN groups' = GroupIds
    <3>1. CASE cycle[c].row = None
      <4> DEFINE row == [name |-> e.name, autoAssign |-> FALSE, dn |-> e.dn]
      <4>1. groups' = [groups EXCEPT ![g] = row]
        BY <1>4, <3>1 DEF GroupSynced
      <4>2. row \in GroupRecord /\ row.name = e.name /\ row.dn = e.dn
        BY <2>3 DEF GroupRecord
      <4> HIDE DEF row, e, g
      <4>3. QED BY <1>1, <2>2, <3>1, <4>1, <4>2, RowsAssumption
    <3>2. CASE cycle[c].row # None
      <4>1. g \in Present(groups) /\ groups[g].dn = e.dn /\ g \in GroupIds
        BY <1>1, <2>4, <2>5, <3>2 DEF Has, Present
      <4>2. groups[g] \in GroupRecord
        BY <4>1 DEF WellInv, AccountsTypeOK
      <4> DEFINE row == [groups[g] EXCEPT !.name = e.name]
      <4>3. row \in GroupRecord /\ row.name = e.name /\ row.dn = groups[g].dn
        BY <2>3, <4>2 DEF GroupRecord
      <4>4. groups' = [groups EXCEPT ![g].name = e.name]
        BY <1>4, <3>2, <4>1 DEF GroupSynced
      <4>5. groups' = [groups EXCEPT ![g] = row]
        BY <1>1, <4>1, <4>4
      <4> HIDE DEF row, e, g
      <4>6. QED BY <1>1, <4>1, <4>3, <4>5, RowsAssumption
    <3>3. QED BY <3>1, <3>2
  <2>6. /\ t = [f \in CycleFields |-> t[f]]
        /\ t.clean = cycle[c].clean /\ t.people = cycle[c].people /\ t.groups = cycle[c].groups
        /\ t.synced = cycle[c].synced /\ t.lost = lost2 /\ t.wanted = {} /\ t.row = g
        /\ t.pc = "members" /\ t.todo = cycle[c].todo /\ t.entry = e /\ t.left = e.members
    BY <1>1 DEF CycleFields
  <2> HIDE DEF t
  <2>7. ASSUME cycle[c].clean
        PROVE  Mirror(t, directory', users', groups', member', syncConfig')
    <3>1. /\ PeopleCounted({}, t.synced, lost, directory, users, groups, member, syncConfig)
          /\ GroupsDone(t.todo \cup {e}, lost, directory, users, groups, member)
          /\ t.people = directory.people /\ t.groups = directory.groups
          /\ \A f \in directory.people : f.dn # None
          /\ \A f, h \in directory.groups : f.dn = h.dn => f = h
      <4>1. groupsLeft(cycle[c]) = cycle[c].todo \cup {e}
        BY <1>1 DEF groupsLeft, GroupTurns
      <4>2. /\ PeopleCounted({}, cycle[c].synced, lost, directory, users, groups, member, syncConfig)
            /\ GroupsDone(cycle[c].todo \cup {e}, lost, directory, users, groups, member)
            /\ cycle[c].people = directory.people /\ cycle[c].groups = directory.groups
        <5>1. GroupsDone(groupsLeft(cycle[c]), lost, directory, users, groups, member)
          BY <1>1, <2>7, GroupFacts
        <5>2. QED BY <1>1, <2>7, <4>1, <5>1, GroupFacts
      <4>3. /\ \A f \in directory.people : f.dn # None
            /\ \A f, h \in directory.groups : f.dn = h.dn => f = h
        BY <2>7, Undisturbed2
      <4> HIDE DEF e, g, lost, lost2
      <4>4. QED BY <2>6, <4>2, <4>3
    <3>2. AdminsByDirectory(lost, groups) => AdminsByDirectory(lost2, groups')
      <4>1. CASE ADMIN_GROUP \in lost
        BY <4>1 DEF AdminsByDirectory
      <4>2. ASSUME NEW h \in GroupIds, groups[h] # None, groups[h].name = ADMIN_GROUP,
                   groups[h].dn # None
            PROVE  AdminsByDirectory(lost2, groups')
        <5>1. CASE h # g
          <6>1. groups'[h] = groups[h]
            BY <2>5, <2>7, <4>2, <5>1
          <6>2. QED BY <4>2, <6>1 DEF AdminsByDirectory
        <5>2. CASE h = g /\ e.name = ADMIN_GROUP
          <6>1. groups'[h] # None /\ groups'[h].name = ADMIN_GROUP /\ groups'[h].dn # None
            BY <2>5, <2>7, <4>2, <5>2
          <6>2. QED BY <4>2, <6>1 DEF AdminsByDirectory
        <5>3. CASE h = g /\ e.name # ADMIN_GROUP
          <6>1. ADMIN_GROUP \in lost2
            BY <1>1, <4>2, <5>3 DEF Present
          <6>2. QED BY <6>1 DEF AdminsByDirectory
        <5>4. QED BY <5>1, <5>2, <5>3
      <4>3. QED BY <4>1, <4>2 DEF AdminsByDirectory
    <3>3. ASSUME NEW u \in UserIds, Administers(u, groups, member)
          PROVE  Administers(u, groups', member) \/ AdminsByDirectory(lost2, groups')
      <4>1. PICK h \in GroupIds : /\ groups[h] # None /\ groups[h].name = ADMIN_GROUP
                                  /\ member[<<u, h>>] # None
        BY <3>3 DEF Administers
      <4>2. CASE h # g
        <5>1. groups'[h] = groups[h]
          BY <2>5, <2>7, <4>1, <4>2
        <5>2. QED BY <4>1, <5>1 DEF Administers
      <4>3. CASE h = g /\ e.name = ADMIN_GROUP
        <5>1. groups'[h] # None /\ groups'[h].name = ADMIN_GROUP
          BY <2>5, <2>7, <4>3
        <5>2. QED BY <4>1, <5>1 DEF Administers
      <4>4. CASE h = g /\ e.name # ADMIN_GROUP
        <5>1. ADMIN_GROUP \in lost2
          BY <1>1, <4>1, <4>4 DEF Present
        <5>2. QED BY <5>1 DEF AdminsByDirectory
      <4>5. QED BY <4>2, <4>3, <4>4
    <3>4. lost \subseteq lost2
      OBVIOUS
    <3> HIDE DEF lost, lost2
    <3>5. ReasonsStay(lost, lost2, users, groups, groups', member, member)
      BY <3>2, <3>3, <3>4 DEF ReasonsStay
    <3>6. PeopleCounted({}, t.synced, lost2, directory, users, groups', member, syncConfig)
      BY <3>1, <3>5, PeopleStay
    <3>7. ASSUME NEW f \in directory.groups \ (t.todo \cup {e})
          PROVE  GroupDone(f, lost2, users, groups', member)
      <4>1. GroupDone(f, lost, users, groups, member)
        BY <3>1, <3>7 DEF GroupsDone
      <4>2. f.dn # e.dn
        BY <1>1, <2>6, <3>1, <3>7
      <4> HIDE DEF g, e
      <4>3. \A h \in GroupIds : Has(h, f.dn, groups') => Has(h, f.dn, groups) /\ groups'[h] = groups[h]
        BY <1>1, <2>5, <2>7, <4>2 DEF Has
      <4>4. QED BY <3>4, <4>1, <4>3, GroupStaysDone
    <3>8. GroupsDone(groupsLeft(t), lost2, directory, users, groups', member)
      <4>1. groupsLeft(t) = t.todo \cup {e}
        BY <2>6 DEF groupsLeft, GroupTurns
      <4>2. QED BY <3>7, <4>1 DEF GroupsDone
    <3>9. GroupTurn(t, users, groups', member)
      <4>1. MembersFound(t, users)
        BY <2>6 DEF MembersFound
      <4>2. Has(t.row, t.entry.dn, groups') /\ groups'[t.row].name = t.entry.name
        BY <2>5, <2>6, <2>7 DEF Has
      <4>3. QED BY <2>6, <4>1, <4>2 DEF GroupTurn
    <3>10. t.pc \in GroupTurns /\ t.lost = lost2
      BY <2>6 DEF GroupTurns
    <3>11. Mirror(t, directory, users, groups', member, syncConfig)
      BY <3>1, <3>6, <3>8, <3>9, <3>10, GroupTurnMirrors
    <3>12. QED BY <1>2, <3>11
  <2>8. QED BY <1>1, <2>1, <2>6, <2>7, CycleMirrors
<1>5. QED BY <1>3, <1>4

(* A membership of the group whose turn it is, is given or taken.          *)
LEMMA MembersMoved ==
  ASSUME SyncInv, WellInv, MirrorInv, NEW c \in Cycles, cycle[c].clean, cycle[c].pc = "add",
         \A u \in UserIds, g \in GroupIds :
           g # cycle[c].row => member'[<<u, g>>] = member[<<u, g>>]
  PROVE  /\ PeopleCounted({}, cycle[c].synced, cycle[c].lost, directory, users, groups, member',
                          syncConfig)
         /\ GroupsDone(cycle[c].todo \cup {cycle[c].entry}, cycle[c].lost, directory, users, groups,
                       member')
<1> DEFINE s == cycle[c]
           e == cycle[c].entry
<1>1. /\ PeopleCounted({}, s.synced, s.lost, directory, users, groups, member, syncConfig)
      /\ GroupsDone(groupsLeft(s), s.lost, directory, users, groups, member)
      /\ Has(s.row, e.dn, groups) /\ s.groups = directory.groups
      /\ \A f \in directory.people : f.dn # None
      /\ \A f, h \in directory.groups : f.dn = h.dn => f = h
      /\ DOMAIN groups = GroupIds
  <2>1. cycle[c].pc \in GroupPhases
    BY DEF GroupPhases, GroupTurns
  <2>2. QED BY <2>1, GroupFacts, Undisturbed2 DEF GroupTurn
<1>2. groupsLeft(s) = s.todo \cup {e} /\ e \in directory.groups /\ e.dn \in DNs
  <2>1. e \in s.groups /\ e \in EveryTeam
    BY DEF WellInv, Well, Holds, GroupTurns
  <2>2. QED BY <1>1, <2>1, EntriesTyped DEF groupsLeft, GroupTurns
<1>3. ReasonsStay(s.lost, s.lost, users, groups, groups, member, member')
  <2>1. groups[s.row].dn # None
    BY <1>1, <1>2, AccountsAssumption DEF Has
  <2> HIDE DEF s
  <2>2. \A h \in GroupIds, u \in UserIds : h # s.row => member'[<<u, h>>] = member[<<u, h>>]
    BY DEF s
  <2>3. ASSUME NEW u \in UserIds, Administers(u, groups, member)
        PROVE  Administers(u, groups, member') \/ AdminsByDirectory(s.lost, groups)
    BY <2>1, <2>2, <2>3 DEF Administers, AdminsByDirectory
  <2>4. QED BY <2>3 DEF ReasonsStay
<1>4. ASSUME NEW f \in directory.groups \ (s.todo \cup {e})
      PROVE  GroupDone(f, s.lost, users, groups, member')
  <2>1. GroupDone(f, s.lost, users, groups, member)
    BY <1>1, <1>2, <1>4 DEF GroupsDone
  <2>2. f.dn # e.dn
    BY <1>1, <1>2, <1>4
  <2>3. \A h \in GroupIds : Has(h, f.dn, groups) => h # s.row
    BY <1>1, <2>2 DEF Has
  <2>4. \A h \in GroupIds, u \in UserIds :
          Has(h, f.dn, groups) => member'[<<u, h>>] = member[<<u, h>>]
    BY <2>3
  <2> HIDE DEF s, e
  <2>5. QED BY <2>1, <2>4, GroupStaysDone
<1> HIDE DEF s
<1>5. PeopleCounted({}, s.synced, s.lost, directory, users, groups, member', syncConfig)
  BY <1>1, <1>3, PeopleStay
<1>6. QED BY <1>4, <1>5 DEF GroupsDone, s

LEMMA JoinedMoves ==
  ASSUME SyncInv, NEW u \in UserIds, NEW g \in GroupIds
  PROVE  /\ member' = joined(u, g) =>
              /\ member'[<<u, g>>] # None
              /\ member[<<u, g>>] # None => member'[<<u, g>>] = member[<<u, g>>]
              /\ member[<<u, g>>] = None => member'[<<u, g>>] = "sync"
              /\ \A v \in UserIds, h \in GroupIds :
                   v # u \/ h # g => member'[<<v, h>>] = member[<<v, h>>]
         /\ member' = [member EXCEPT ![<<u, g>>] = None] =>
              /\ member'[<<u, g>>] = None
              /\ \A v \in UserIds, h \in GroupIds :
                   v # u \/ h # g => member'[<<v, h>>] = member[<<v, h>>]
<1>1. member = [m \in UserIds \X GroupIds |-> member[m]] /\ "sync" # None
  BY AccountsAssumption DEF SyncInv, TablesHold
<1>2. QED BY <1>1 DEF joined

LEMMA MemberStepsMirror ==
  ASSUME SyncInv, WellInv, MirrorInv, NEW c \in Cycles, MemberAdded(c) \/ MemberDropped(c)
  PROVE  MirrorInv'
<1>1. /\ cycle[c] = [f \in CycleFields |-> cycle[c][f]]
      /\ cycle[c].row \in GroupIds /\ cycle[c].wanted \cup cycle[c].drop \subseteq UserIds
      /\ cycle[c].pc = "add" /\ cycle[c].pc \in GroupPhases /\ cycle[c].pc \notin {"idle", "done"}
  BY DEF WellInv, Well, Holds, MemberAdded, MemberDropped, at, GroupPhases, GroupTurns
<1>2. UNCHANGED <<users, groups, directory, syncConfig>>
  BY DEF MemberAdded, MemberDropped, Others
<1>3. ASSUME cycle[c].clean
      PROVE  /\ cycle[c].people = directory.people /\ cycle[c].groups = directory.groups
             /\ Has(cycle[c].row, cycle[c].entry.dn, groups)
             /\ groups[cycle[c].row].name = cycle[c].entry.name
             /\ MembersToBe(cycle[c], users, member)
             /\ \A g \in GroupIds :
                  groups[g] # None /\ groups[g].name = cycle[c].entry.name => g = cycle[c].row
             /\ DOMAIN users = UserIds /\ DOMAIN groups = GroupIds
  <2>1. /\ cycle[c].people = directory.people /\ cycle[c].groups = directory.groups
        /\ GroupTurn(cycle[c], users, groups, member)
    BY <1>1, <1>3, GroupFacts
  <2>2. /\ DOMAIN users = UserIds /\ DOMAIN groups = GroupIds
        /\ \A g, h \in GroupIds :
             groups[g] # None /\ groups[h] # None /\ groups[g].name = groups[h].name => g = h
    BY <1>3, Undisturbed2
  <2>3. /\ Has(cycle[c].row, cycle[c].entry.dn, groups)
        /\ groups[cycle[c].row].name = cycle[c].entry.name
        /\ MembersToBe(cycle[c], users, member)
    BY <1>1, <2>1 DEF GroupTurn
  <2>4. QED BY <1>1, <2>1, <2>2, <2>3 DEF Has
<1>4. ASSUME NEW s, s = [f \in CycleFields |-> s[f]], s.people = cycle[c].people,
             s.groups = cycle[c].groups, s.todo = cycle[c].todo, s.synced = cycle[c].synced,
             s.lost = cycle[c].lost, s.clean = cycle[c].clean, s.row = cycle[c].row,
             s.entry = cycle[c].entry, cycle' = [cycle EXCEPT ![c] = memberLoop(s)],
             \A u \in UserIds, g \in GroupIds :
               g # cycle[c].row => member'[<<u, g>>] = member[<<u, g>>],
             cycle[c].clean => MembersToBe(s, users, member')
      PROVE  MirrorInv'
  <2>1. memberLoop(s).clean = cycle[c].clean
    BY <1>4, LoopsClean
  <2>2. ASSUME cycle[c].clean
        PROVE  Mirror(memberLoop(s), directory, users, groups, member', syncConfig)
    <3>1. /\ PeopleCounted({}, cycle[c].synced, cycle[c].lost, directory, users, groups, member',
                           syncConfig)
          /\ GroupsDone(cycle[c].todo \cup {cycle[c].entry}, cycle[c].lost, directory, users,
                        groups, member')
      BY <1>1, <1>4, <2>2, MembersMoved
    <3>2. /\ s.people = directory.people /\ s.groups = directory.groups
          /\ PeopleCounted({}, s.synced, s.lost, directory, users, groups, member', syncConfig)
          /\ GroupsDone(s.todo \cup {s.entry}, s.lost, directory, users, groups, member')
          /\ Has(s.row, s.entry.dn, groups) /\ groups[s.row].name = s.entry.name
          /\ \A g \in GroupIds : groups[g] # None /\ groups[g].name = s.entry.name => g = s.row
          /\ MembersToBe(s, users, member')
      BY <1>3, <1>4, <2>2, <3>1
    <3>3. QED BY <1>4, <3>2, MemberLoopMirrors
  <2>3. QED BY <1>1, <1>2, <1>4, <2>1, <2>2, CycleMirrors
<1>5. CASE MemberAdded(c)
  <2>1. PICK u \in cycle[c].wanted :
          IF mayJoin(u, cycle[c].row)
          THEN /\ member' = joined(u, cycle[c].row)
               /\ cycle' = [cycle EXCEPT ![c] = memberLoop([cycle[c] EXCEPT !.wanted = @ \ {u}])]
          ELSE cycle' = [cycle EXCEPT ![c] = groupLoop(cycle[c])] /\ UNCHANGED member
    BY <1>5 DEF MemberAdded
  <2>2. u \in UserIds
    BY <1>1
  <2>3. CASE mayJoin(u, cycle[c].row)
    <3> DEFINE s == [cycle[c] EXCEPT !.wanted = @ \ {u}]
    <3>1. /\ s = [f \in CycleFields |-> s[f]] /\ s.people = cycle[c].people
          /\ s.groups = cycle[c].groups /\ s.todo = cycle[c].todo /\ s.synced = cycle[c].synced
          /\ s.lost = cycle[c].lost /\ s.clean = cycle[c].clean /\ s.row = cycle[c].row
          /\ s.entry = cycle[c].entry /\ s.wanted = cycle[c].wanted \ {u}
          /\ s.drop = cycle[c].drop
      BY <1>1 DEF CycleFields
    <3>2. cycle' = [cycle EXCEPT ![c] = memberLoop(s)] /\ member' = joined(u, cycle[c].row)
      BY <2>1, <2>3
    <3> HIDE DEF s
    <3>3. /\ member'[<<u, cycle[c].row>>] # None
          /\ \A v \in UserIds, h \in GroupIds :
               v # u \/ h # cycle[c].row => member'[<<v, h>>] = member[<<v, h>>]
      BY <1>1, <2>2, <3>2, JoinedMoves
    <3>4. ASSUME cycle[c].clean
          PROVE  MembersToBe(s, users, member')
      <4>1. MembersToBe(cycle[c], users, member)
        BY <1>3, <3>4
      <4>2. \A v \in s.wanted : users[v] # None /\ users[v].dn \in s.entry.members /\ v \notin s.drop
        BY <3>1, <4>1 DEF MembersToBe
      <4>3. \A v \in UserIds :
              member'[<<v, s.row>>] # None => v \in s.drop \/ users[v].dn \in s.entry.members
        BY <1>1, <2>1, <3>1, <3>3, <4>1 DEF MembersToBe
      <4>4. ASSUME NEW dn \in s.entry.members, \E v \in UserIds : Has(v, dn, users)
            PROVE  \E v \in UserIds :
                     /\ Has(v, dn, users)
                     /\ v \in s.wanted \/ (member'[<<v, s.row>>] # None /\ v \notin s.drop)
        <5>1. PICK v \in UserIds :
                /\ Has(v, dn, users)
                /\ v \in cycle[c].wanted
                   \/ (member[<<v, cycle[c].row>>] # None /\ v \notin cycle[c].drop)
          BY <3>1, <4>1, <4>4 DEF MembersToBe
        <5>2. CASE v = u
          <6>1. u \notin cycle[c].drop
            BY <2>1, <4>1 DEF MembersToBe
          <6>2. QED BY <3>1, <3>3, <5>1, <5>2, <6>1
        <5>3. CASE v # u
          BY <1>1, <3>1, <3>3, <5>1, <5>3
        <5>4. QED BY <5>2, <5>3
      <4>5. QED BY <4>2, <4>3, <4>4 DEF MembersToBe
    <3>5. QED BY <1>1, <1>4, <3>1, <3>2, <3>3, <3>4
  <2>4. CASE ~mayJoin(u, cycle[c].row)
    <3>1. groupLoop(cycle[c]).clean = cycle[c].clean
      BY <1>1, LoopsClean
    <3>2. ~cycle[c].clean
      <4>1. ASSUME cycle[c].clean
            PROVE  FALSE
        BY <1>1, <1>3, <2>1, <2>2, <2>4, <4>1 DEF mayJoin, Present, MembersToBe, Has
      <4>2. QED BY <4>1
    <3>3. cycle' = [cycle EXCEPT ![c] = groupLoop(cycle[c])]
      BY <2>1, <2>4
    <3>4. QED BY <1>1, <3>1, <3>2, <3>3, CycleMirrors
  <2>5. QED BY <2>3, <2>4
<1>6. CASE MemberDropped(c)
  <2>1. PICK u \in cycle[c].drop :
          /\ cycle[c].wanted = {}
          /\ member' = [member EXCEPT ![<<u, cycle[c].row>>] = None]
          /\ cycle' = [cycle EXCEPT ![c] = memberLoop([cycle[c] EXCEPT !.drop = @ \ {u}])]
    BY <1>6 DEF MemberDropped
  <2>2. u \in UserIds
    BY <1>1
  <2> DEFINE s == [cycle[c] EXCEPT !.drop = @ \ {u}]
  <2>3. /\ s = [f \in CycleFields |-> s[f]] /\ s.people = cycle[c].people
        /\ s.groups = cycle[c].groups /\ s.todo = cycle[c].todo /\ s.synced = cycle[c].synced
        /\ s.lost = cycle[c].lost /\ s.clean = cycle[c].clean /\ s.row = cycle[c].row
        /\ s.entry = cycle[c].entry /\ s.wanted = {} /\ s.drop = cycle[c].drop \ {u}
    BY <1>1, <2>1 DEF CycleFields
  <2>4. cycle' = [cycle EXCEPT ![c] = memberLoop(s)]
    BY <2>1
  <2> HIDE DEF s
  <2>5. /\ member'[<<u, cycle[c].row>>] = None
        /\ \A v \in UserIds, h \in GroupIds :
             v # u \/ h # cycle[c].row => member'[<<v, h>>] = member[<<v, h>>]
    BY <1>1, <2>1, <2>2, JoinedMoves
  <2>6. ASSUME cycle[c].clean
        PROVE  MembersToBe(s, users, member')
    <3>1. MembersToBe(cycle[c], users, member)
      BY <1>3, <2>6
    <3>2. \A v \in UserIds :
            member'[<<v, s.row>>] # None => v \in s.drop \/ users[v].dn \in s.entry.members
      BY <1>1, <2>3, <2>5, <3>1 DEF MembersToBe
    <3>3. ASSUME NEW dn \in s.entry.members, \E v \in UserIds : Has(v, dn, users)
          PROVE  \E v \in UserIds :
                   /\ Has(v, dn, users)
                   /\ v \in s.wanted \/ (member'[<<v, s.row>>] # None /\ v \notin s.drop)
      <4>1. PICK v \in UserIds :
              Has(v, dn, users) /\ member[<<v, cycle[c].row>>] # None /\ v \notin cycle[c].drop
        BY <2>1, <2>3, <3>1, <3>3 DEF MembersToBe
      <4>2. v # u
        BY <2>1, <4>1
      <4>3. QED BY <1>1, <2>3, <2>5, <4>1, <4>2
    <3>4. QED BY <2>3, <3>2, <3>3 DEF MembersToBe
  <2>7. QED BY <1>1, <1>4, <2>3, <2>4, <2>5, <2>6
<1>7. QED BY <1>5, <1>6

(* The removals.                                                           *)
LEMMA RemovalReadsMirror ==
  ASSUME SyncInv, WellInv, MirrorInv, NEW c \in Cycles, RemovalsListed(c)
  PROVE  MirrorInv'
<1> DEFINE stay == cycle[c].synced
           drop == {u \in Present(users) : users[u].dn # None} \ cycle[c].synced
           s == [cycle[c] EXCEPT !.drop = drop]
<1>1. /\ cycle[c] = [f \in CycleFields |-> cycle[c][f]] /\ cycle[c].pc = "removals"
      /\ cycle[c].pc \notin {"idle", "done"} /\ ReadStep(c, removalLoop(s))
      /\ DOMAIN users = UserIds
  BY DEF WellInv, Well, Holds, RemovalsListed, at, SyncInv, TablesHold
<1>2. \A u : u \in drop <=> u \in UserIds /\ users[u] # None /\ users[u].dn # None /\ u \notin stay
  BY <1>1 DEF Present
<1> HIDE DEF drop
<1>3. /\ s = [f \in CycleFields |-> s[f]] /\ s.people = cycle[c].people
      /\ s.groups = cycle[c].groups /\ s.lost = cycle[c].lost /\ s.clean = cycle[c].clean
      /\ s.drop = drop
  BY <1>1 DEF CycleFields
<1> HIDE DEF s
<1>4. removalLoop(s).clean = cycle[c].clean
  BY <1>3, LoopsClean
<1>5. ASSUME cycle[c].clean
      PROVE  Mirror(removalLoop(s), directory, users, groups, member, syncConfig)
  <2>1. /\ Mirror(cycle[c], directory, users, groups, member, syncConfig)
        /\ \A e \in directory.people : e.dn # None
    BY <1>5, Undisturbed2
  <2>2. /\ peopleLeft(cycle[c]) = {} /\ groupsLeft(cycle[c]) = {}
        /\ cycle[c].pc \in CountingPhases \ {"search"}
        /\ cycle[c].pc \notin {"search", "done"} \cup PeoplePhases
    BY <1>1 DEF peopleLeft, groupsLeft, CountingPhases, PeoplePhases, PersonTurns, GroupTurns
  <2>3. /\ PeopleCounted({}, stay, cycle[c].lost, directory, users, groups, member, syncConfig)
        /\ GroupsDone({}, cycle[c].lost, directory, users, groups, member)
        /\ cycle[c].people = directory.people /\ cycle[c].groups = directory.groups
    BY <2>1, <2>2 DEF Mirror, Reads
  <2>4. AccountsStay(stay, UserIds \ drop, cycle[c].lost, users, users)
    BY <1>2 DEF AccountsStay
  <2>5. ReasonsStay(cycle[c].lost, cycle[c].lost, users, groups, groups, member, member)
    BY DEF ReasonsStay
  <2> HIDE DEF stay
  <2>6. ASSUME NEW e \in directory.people
        PROVE  PersonDone(e, UserIds \ drop, cycle[c].lost, users, groups, member, syncConfig)
    <3>1. PersonDone(e, stay, cycle[c].lost, users, groups, member, syncConfig) /\ e.dn # None
      BY <2>1, <2>3 DEF PeopleCounted
    <3>2. QED BY <2>4, <2>5, <3>1, PersonStaysDone
  <2>7. \A u \in UserIds :
          users[u] # None /\ users[u].dn # None => Known(users[u], directory) \/ u \in drop
    BY <1>2, <2>3 DEF PeopleCounted
  <2>8. PeopleSettled(s.drop, s.lost, directory, users, groups, member, syncConfig)
    BY <1>3, <2>6, <2>7 DEF PeopleSettled
  <2>9. /\ s.people = directory.people /\ s.groups = directory.groups
        /\ GroupsDone({}, s.lost, directory, users, groups, member)
    BY <1>3, <2>3
  <2>10. QED BY <1>3, <2>8, <2>9, RemovalLoopMirrors
<1>6. QED BY <1>1, <1>4, <1>5, MirrorReads

LEMMA RemovalStepsMirror ==
  ASSUME SyncInv, WellInv, MirrorInv, NEW c \in Cycles, UserRemoved(c)
  PROVE  MirrorInv'
<1>1. PICK u \in cycle[c].drop :
        /\ cycle[c].pc = "remove"
        /\ IF syncConfig.keep /\ u \in Present(users)
           THEN /\ users' = [users EXCEPT ![u].approved = FALSE, ![u].expired = TRUE]
                /\ UNCHANGED member
           ELSE users' = usersWithout({u}) /\ member' = membersWithout({u}, {})
        /\ cycle' = [cycle EXCEPT ![c] =
             removalLoop([cycle[c] EXCEPT !.drop = @ \ {u},
               !.lost = @ \cup {users[v].dn : v \in IF syncConfig.keep THEN {} ELSE {u} \cap Present(users)}])]
        /\ UNCHANGED <<groups, directory, syncConfig>>
  BY DEF UserRemoved, at, Others
<1> DEFINE gone == {users[v].dn : v \in IF syncConfig.keep THEN {} ELSE {u} \cap Present(users)}
           lost == cycle[c].lost
           lost2 == cycle[c].lost \cup gone
           drop == cycle[c].drop
           s == [cycle[c] EXCEPT !.drop = @ \ {u}, !.lost = lost2]
<1>2. /\ cycle[c] = [f \in CycleFields |-> cycle[c][f]]
      /\ FoundOut(cycle[c], users, groups, member, appointed, syncConfig.link)
      /\ u \in UserIds /\ DOMAIN users = UserIds /\ cycle[c].pc \notin {"idle", "done"}
  BY <1>1 DEF WellInv, Well, Holds, SyncInv, CyclesHold, TablesHold
<1>3. users[u] # None => users[u].dn # None
  BY <1>1, <1>2 DEF FoundOut, Linked
<1>4. cycle' = [cycle EXCEPT ![c] = removalLoop(s)]
  BY <1>1
<1>5. ~syncConfig.keep /\ users[u] # None => users[u].dn \in lost2
  BY <1>2 DEF Present
<1>6. lost \subseteq lost2
  OBVIOUS
<1> HIDE DEF gone, lost2
<1>7. /\ s = [f \in CycleFields |-> s[f]] /\ s.people = cycle[c].people
      /\ s.groups = cycle[c].groups /\ s.lost = lost2 /\ s.clean = cycle[c].clean
      /\ s.drop = drop \ {u}
  BY <1>2 DEF CycleFields
<1> HIDE DEF s
<1>8. removalLoop(s).clean = cycle[c].clean
  BY <1>7, LoopsClean
<1>9. /\ DOMAIN users' = UserIds /\ \A v \in UserIds \ {u} : users'[v] = users[v]
      /\ \A v \in UserIds, g \in GroupIds :
           v # u /\ member[<<v, g>>] # None => member'[<<v, g>>] = member[<<v, g>>]
      /\ \A v \in UserIds, g \in GroupIds : member'[<<v, g>>] # None => member[<<v, g>>] # None
      /\ \/ /\ syncConfig.keep /\ users[u] # None /\ users'[u] # None
            /\ users'[u].dn = users[u].dn /\ users'[u].username = users[u].username
            /\ ~users'[u].approved /\ users'[u].expired /\ member' = member
         \/ /\ users'[u] = None /\ (users[u] # None => users[u].dn \in lost2)
            /\ \A g \in GroupIds : member'[<<u, g>>] = None
  <2>1. CASE syncConfig.keep /\ u \in Present(users)
    <3> DEFINE row == [users[u] EXCEPT !.approved = FALSE, !.expired = TRUE]
    <3>1. users[u] \in UserRecord /\ users[u] # None
      BY <2>1 DEF WellInv, AccountsTypeOK, Present
    <3>2. /\ row \in UserRecord /\ row.dn = users[u].dn /\ row.username = users[u].username
          /\ ~row.approved /\ row.expired
      BY <3>1 DEF UserRecord
    <3>3. users' = [users EXCEPT ![u] = row]
      BY <1>1, <1>2, <2>1, <3>1 DEF UserRecord, SyncInv, TablesHold
    <3> HIDE DEF row
    <3>4. row # None
      BY <3>2, RowsAssumption
    <3>5. users'[u] = row /\ DOMAIN users' = UserIds /\ \A v \in UserIds \ {u} : users'[v] = users[v]
      BY <1>2, <3>3
    <3>6. member' = member /\ syncConfig.keep
      BY <1>1, <2>1
    <3>7. QED BY <3>1, <3>2, <3>4, <3>5, <3>6
  <2>2. CASE ~(syncConfig.keep /\ u \in Present(users))
    <3>1. users' = usersWithout({u}) /\ member' = membersWithout({u}, {})
      BY <1>1, <2>2
    <3>2. /\ DOMAIN users' = UserIds
          /\ \A v \in UserIds : users'[v] = IF v = u THEN None ELSE users[v]
      BY <3>1 DEF usersWithout
    <3>3. \A v \in UserIds, g \in GroupIds :
            member'[<<v, g>>] = IF v = u THEN None ELSE member[<<v, g>>]
      BY <3>1 DEF membersWithout
    <3>4. users[u] # None => users[u].dn \in lost2
      BY <1>2, <1>5, <2>2 DEF Present
    <3>5. QED BY <1>2, <3>2, <3>3, <3>4
  <2>3. QED BY <2>1, <2>2
<1>10. ASSUME cycle[c].clean
       PROVE  Mirror(removalLoop(s), directory, users', groups, member', syncConfig)
  <2>1. /\ Mirror(cycle[c], directory, users, groups, member, syncConfig)
        /\ \A e \in directory.people : e.dn # None
    BY <1>10, Undisturbed2
  <2>2. /\ groupsLeft(cycle[c]) = {} /\ cycle[c].pc \notin CountingPhases
        /\ cycle[c].pc \notin {"search", "done"} \cup PeoplePhases
    BY <1>1 DEF groupsLeft, CountingPhases, PeoplePhases, PersonTurns, GroupTurns
  <2>3. /\ PeopleSettled(drop, lost, directory, users, groups, member, syncConfig)
        /\ GroupsDone({}, lost, directory, users, groups, member)
        /\ cycle[c].people = directory.people /\ cycle[c].groups = directory.groups
    BY <1>1, <2>1, <2>2 DEF Mirror, Reads
  <2>4. AccountsStay(UserIds \ drop, UserIds \ (drop \ {u}), lost2, users, users')
    <3>1. ASSUME NEW v \in UserIds, users[v] # None, users[v].dn = None \/ v \in UserIds \ drop
          PROVE  users'[v] = users[v] /\ (users[v].dn # None => v \in UserIds \ (drop \ {u}))
      <4>1. v # u
        BY <1>1, <1>3, <3>1
      <4>2. QED BY <1>9, <3>1, <4>1
    <3>2. QED BY <3>1 DEF AccountsStay
  <2>5. ReasonsStay(lost, lost2, users, groups, groups, member, member')
    <3>1. AdminsByDirectory(lost, groups) => AdminsByDirectory(lost2, groups)
      BY <1>6 DEF AdminsByDirectory
    <3>2. ASSUME NEW v \in UserIds, users[v] # None, users[v].dn = None,
                 Administers(v, groups, member)
          PROVE  Administers(v, groups, member')
      <4>1. v # u
        BY <1>3, <3>2
      <4>2. QED BY <1>9, <3>2, <4>1 DEF Administers
    <3>3. QED BY <1>6, <3>1, <3>2 DEF ReasonsStay
  <2> HIDE DEF lost, drop
  <2>6. ASSUME NEW e \in directory.people
        PROVE  PersonDone(e, UserIds \ (drop \ {u}), lost2, users', groups, member', syncConfig)
    <3>1. PersonDone(e, UserIds \ drop, lost, users, groups, member, syncConfig) /\ e.dn # None
      BY <2>1, <2>3 DEF PeopleSettled
    <3>2. QED BY <2>4, <2>5, <3>1, PersonStaysDone
  <2>7. ASSUME NEW v \in UserIds, users'[v] # None, users'[v].dn # None
        PROVE  \/ Known(users'[v], directory) \/ v \in drop \ {u}
               \/ syncConfig.keep /\ ~users'[v].approved /\ users'[v].expired
    <3>1. CASE v = u
      BY <1>9, <2>7, <3>1
    <3>2. CASE v # u
      <4>1. users'[v] = users[v]
        BY <1>9, <3>2
      <4>2. QED BY <2>3, <2>7, <3>2, <4>1 DEF PeopleSettled
    <3>3. QED BY <3>1, <3>2
  <2>8. PeopleSettled(s.drop, s.lost, directory, users', groups, member', syncConfig)
    BY <1>7, <2>6, <2>7 DEF PeopleSettled
  <2>9. ASSUME NEW e \in directory.groups
        PROVE  GroupDone(e, lost2, users', groups, member')
    <3>1. GroupDone(e, lost, users, groups, member)
      BY <2>3 DEF GroupsDone
    <3>2. \A dn, v : Has(v, dn, users') => Has(v, dn, users)
      BY <1>2, <1>9 DEF Has
    <3>3. \A dn, v : Has(v, dn, users) => Has(v, dn, users') \/ dn \in lost2
      BY <1>2, <1>9 DEF Has
    <3>4. ASSUME NEW g \in GroupIds, NEW v \in UserIds
          PROVE  /\ member'[<<v, g>>] # None =>
                      member[<<v, g>>] # None /\ users'[v].dn = users[v].dn
                 /\ member[<<v, g>>] # None =>
                      member'[<<v, g>>] # None \/ \A dn : Has(v, dn, users) => dn \in lost2
      <4>1. CASE v # u
        BY <1>9, <4>1
      <4>2. CASE v = u
        <5>1. (\A dn : Has(u, dn, users) => dn \in lost2) \/ (member' = member /\ users'[u].dn = users[u].dn)
          BY <1>9 DEF Has
        <5>2. member'[<<u, g>>] # None => member[<<u, g>>] # None /\ users'[u].dn = users[u].dn
          BY <1>2, <1>9
        <5>3. QED BY <4>2, <5>1, <5>2
      <4>3. QED BY <4>1, <4>2
    <3>5. QED BY <1>6, <3>1, <3>2, <3>3, <3>4, GroupStaysDone DEF lost
  <2>10. /\ s.people = directory.people /\ s.groups = directory.groups
         /\ GroupsDone({}, s.lost, directory, users', groups, member')
    BY <1>7, <2>3, <2>9 DEF GroupsDone
  <2>11. QED BY <1>7, <2>8, <2>10, RemovalLoopMirrors
<1>11. QED BY <1>1, <1>2, <1>4, <1>8, <1>10, CycleMirrors

(* The administrators.                                                     *)
LEMMA AdminTurnMirrors ==
  ASSUME NEW t, NEW d, NEW us, NEW gs, NEW mem, NEW conf, t.pc \in {"admin", "revoke"},
         t.people = d.people, t.groups = d.groups,
         PeopleSettled({}, t.lost, d, us, gs, mem, conf),
         GroupsDone({}, t.lost, d, us, gs, mem), AdminTurn(t, d, us, gs, mem)
  PROVE  Mirror(t, d, us, gs, mem, conf)
<1>1. /\ t.pc \notin CountingPhases /\ t.pc \notin {"search", "remove", "done"} \cup PeoplePhases
      /\ groupsLeft(t) = {}
  BY DEF CountingPhases, PeoplePhases, PersonTurns, GroupTurns, groupsLeft
<1>2. Reads(t, d) /\ PersonTurn(t, us) /\ GroupTurn(t, us, gs, mem)
  BY <1>1 DEF Reads, PersonTurn, GroupTurn, PersonTurns
<1>3. QED BY <1>1, <1>2 DEF Mirror

LEMMA AdminFacts ==
  ASSUME SyncInv, WellInv, MirrorInv, NEW c \in Cycles, cycle[c].clean,
         cycle[c].pc \in {"admins", "admin", "revoke"}
  PROVE  /\ cycle[c].people = directory.people /\ cycle[c].groups = directory.groups
         /\ PeopleSettled({}, cycle[c].lost, directory, users, groups, member, syncConfig)
         /\ GroupsDone({}, cycle[c].lost, directory, users, groups, member)
         /\ AdminTurn(cycle[c], directory, users, groups, member)
         /\ \A e \in directory.people : e.dn # None
         /\ DOMAIN users = UserIds /\ DOMAIN groups = GroupIds
         /\ cycle[c].pc \in {"admin", "revoke"} =>
              /\ groups[cycle[c].row] # None /\ groups[cycle[c].row].name = ADMIN_GROUP
              /\ \A g \in GroupIds :
                   groups[g] # None /\ groups[g].name = ADMIN_GROUP => g = cycle[c].row
<1>1. /\ cycle[c].pc \notin CountingPhases
      /\ cycle[c].pc \notin {"search", "remove", "done"} \cup PeoplePhases
      /\ groupsLeft(cycle[c]) = {}
  BY DEF CountingPhases, PeoplePhases, PersonTurns, GroupTurns, groupsLeft
<1>2. /\ Mirror(cycle[c], directory, users, groups, member, syncConfig) /\ Well(cycle[c])
      /\ \A e \in directory.people : e.dn # None
      /\ DOMAIN users = UserIds /\ DOMAIN groups = GroupIds
      /\ \A g, h \in GroupIds :
           groups[g] # None /\ groups[h] # None /\ groups[g].name = groups[h].name => g = h
  BY Undisturbed2
<1>3. /\ cycle[c].people = directory.people /\ cycle[c].groups = directory.groups
      /\ PeopleSettled({}, cycle[c].lost, directory, users, groups, member, syncConfig)
      /\ GroupsDone({}, cycle[c].lost, directory, users, groups, member)
      /\ AdminTurn(cycle[c], directory, users, groups, member)
  BY <1>1, <1>2 DEF Mirror, Reads
<1>4. ASSUME cycle[c].pc \in {"admin", "revoke"}
      PROVE  /\ groups[cycle[c].row] # None /\ groups[cycle[c].row].name = ADMIN_GROUP
             /\ \A g \in GroupIds :
                  groups[g] # None /\ groups[g].name = ADMIN_GROUP => g = cycle[c].row
  <2>1. cycle[c].row \in GroupIds
    BY <1>2, <1>4 DEF Well
  <2>2. groups[cycle[c].row] # None /\ groups[cycle[c].row].name = ADMIN_GROUP
    BY <1>3, <1>4 DEF AdminTurn
  <2>3. QED BY <1>2, <2>1, <2>2
<1>5. QED BY <1>2, <1>3, <1>4

LEMMA AdminReadsMirror ==
  ASSUME SyncInv, WellInv, MirrorInv, NEW c \in Cycles,
         AdminGroupSought(c) \/ AdminSought(c) \/ AdminsListed(c)
  PROVE  MirrorInv'
<1>1. /\ cycle[c] = [f \in CycleFields |-> cycle[c][f]] /\ Well(cycle[c])
      /\ DOMAIN users = UserIds /\ DOMAIN groups = GroupIds
      /\ cycle[c].pc \in {"admins", "admin", "revoke"} /\ cycle[c].pc \notin {"idle", "done"}
  BY DEF WellInv, Well, Holds, SyncInv, TablesHold, AdminGroupSought, AdminSought, AdminsListed, at
<1>2. ASSUME NEW t, t.clean = cycle[c].clean, t.pc = "admin", t.people = cycle[c].people,
             t.groups = cycle[c].groups, t.lost = cycle[c].lost, ReadStep(c, t),
             cycle[c].clean =>
               /\ groups[t.row] # None /\ groups[t.row].name = ADMIN_GROUP
               /\ AdminsFound(t, directory, users, member)
      PROVE  MirrorInv'
  <2>1. ASSUME cycle[c].clean
        PROVE  Mirror(t, directory, users, groups, member, syncConfig)
    <3>1. /\ t.people = directory.people /\ t.groups = directory.groups
          /\ PeopleSettled({}, t.lost, directory, users, groups, member, syncConfig)
          /\ GroupsDone({}, t.lost, directory, users, groups, member)
      BY <1>1, <1>2, <2>1, AdminFacts
    <3>2. AdminTurn(t, directory, users, groups, member)
      BY <1>2, <2>1 DEF AdminTurn
    <3>3. t.pc \in {"admin", "revoke"}
      BY <1>2
    <3>4. QED BY <3>1, <3>2, <3>3, AdminTurnMirrors
  <2>2. QED BY <1>1, <1>2, <2>1, MirrorReads
<1>3. CASE AdminGroupSought(c)
  <2>1. cycle[c].pc = "admins" /\ cycle[c].entry = None
    BY <1>1, <1>3 DEF AdminGroupSought, at, Well
  <2>2. CASE groupsNamed({ADMIN_GROUP}) = {} /\ ReadStep(c, finished(cycle[c]))
    <3>1. \A g \in GroupIds : ~(groups[g] # None /\ groups[g].name = ADMIN_GROUP)
      BY <1>1, <2>2 DEF groupsNamed, Present
    <3>2. finished(cycle[c]).clean = cycle[c].clean
      BY <1>1, LoopsClean
    <3>3. ASSUME cycle[c].clean
          PROVE  Mirror(finished(cycle[c]), directory, users, groups, member, syncConfig)
      <4>1. /\ PeopleSettled({}, cycle[c].lost, directory, users, groups, member, syncConfig)
            /\ GroupsDone({}, cycle[c].lost, directory, users, groups, member)
        BY <1>1, <3>3, AdminFacts
      <4>2. QED BY <3>1, <4>1, FinishedMirrors
    <3>4. QED BY <1>1, <2>2, <3>2, <3>3, MirrorReads
  <2>3. ASSUME NEW g \in groupsNamed({ADMIN_GROUP}),
               ReadStep(c, [cycle[c] EXCEPT !.pc = "admin", !.row = g, !.synced = {},
                                            !.todo = {e \in cycle[c].people : e.admin}])
        PROVE  MirrorInv'
    <3> DEFINE chosen == {e \in cycle[c].people : e.admin}
               t == [cycle[c] EXCEPT !.pc = "admin", !.row = g, !.synced = {}, !.todo = chosen]
    <3>1. ReadStep(c, t)
      BY <2>3
    <3>2. /\ \A e \in chosen : e.admin
          /\ \A e \in cycle[c].people : e.admin => e \in chosen
      OBVIOUS
    <3> HIDE DEF chosen
    <3>3. /\ t.clean = cycle[c].clean /\ t.pc = "admin" /\ t.people = cycle[c].people
          /\ t.groups = cycle[c].groups /\ t.lost = cycle[c].lost /\ t.row = g /\ t.todo = chosen
          /\ t.entry = None /\ t.synced = {}
      BY <1>1, <2>1 DEF CycleFields
    <3> HIDE DEF t
    <3>4. groups[g] # None /\ groups[g].name = ADMIN_GROUP
      BY <2>3 DEF groupsNamed, Present
    <3>5. ASSUME cycle[c].clean
          PROVE  AdminsFound(t, directory, users, member)
      <4>1. cycle[c].people = directory.people
        BY <1>1, <3>5, AdminFacts
      <4>2. QED BY <3>2, <3>3, <4>1 DEF AdminsFound
    <3>6. QED BY <1>2, <3>1, <3>3, <3>4, <3>5
  <2>4. QED BY <1>3, <2>2, <2>3 DEF AdminGroupSought
<1>4. ASSUME cycle[c].clean, cycle[c].pc = "admin"
      PROVE  /\ AdminsFound(cycle[c], directory, users, member)
             /\ groups[cycle[c].row] # None /\ groups[cycle[c].row].name = ADMIN_GROUP
             /\ cycle[c].people = directory.people
  BY <1>4, AdminFacts DEF AdminTurn
<1>5. CASE AdminSought(c)
  <2>1. PICK e \in cycle[c].todo :
          /\ cycle[c].pc = "admin" /\ cycle[c].entry = None
          /\ LET sought == [cycle[c] EXCEPT !.todo = @ \ {e}]
             IN \/ linkedTo(e.dn) = {} /\ ReadStep(c, sought)
                \/ \E u \in linkedTo(e.dn) : ReadStep(c, [sought EXCEPT !.entry = u])
    BY <1>5 DEF AdminSought, at
  <2> DEFINE sought == [cycle[c] EXCEPT !.todo = @ \ {e}]
  <2>2. /\ sought = [f \in CycleFields |-> sought[f]]
        /\ sought.clean = cycle[c].clean /\ sought.pc = "admin"
        /\ sought.people = cycle[c].people /\ sought.groups = cycle[c].groups
        /\ sought.lost = cycle[c].lost /\ sought.row = cycle[c].row
        /\ sought.todo = cycle[c].todo \ {e} /\ sought.entry = None
        /\ sought.synced = cycle[c].synced
    BY <1>1, <2>1 DEF CycleFields
  <2> HIDE DEF sought
  <2>3. e \in cycle[c].people /\ None \notin UserIds
    BY <1>1, <2>1, AccountsAssumption DEF Well
  <2>4. ASSUME NEW t,
               \/ t = sought /\ linkedTo(e.dn) = {}
               \/ \E u \in linkedTo(e.dn) : t = [sought EXCEPT !.entry = u],
               ReadStep(c, t)
        PROVE  MirrorInv'
    <3>1. /\ t.clean = cycle[c].clean /\ t.pc = "admin"
          /\ t.people = cycle[c].people /\ t.groups = cycle[c].groups
          /\ t.lost = cycle[c].lost /\ t.row = cycle[c].row
          /\ t.todo = cycle[c].todo \ {e} /\ t.synced = cycle[c].synced
          /\ (t.entry = None /\ linkedTo(e.dn) = {}) \/ t.entry \in linkedTo(e.dn)
      BY <2>2, <2>4 DEF CycleFields
    <3>2. /\ \A u \in linkedTo(e.dn) : u \in UserIds /\ Has(u, e.dn, users)
          /\ \A u \in UserIds : Has(u, e.dn, users) => u \in linkedTo(e.dn)
      BY <1>1 DEF linkedTo, Present, Has
    <3>3. ASSUME cycle[c].clean
          PROVE  AdminsFound(t, directory, users, member)
      <4>1. AdminsFound(cycle[c], directory, users, member) /\ cycle[c].people = directory.people
        BY <1>4, <2>1, <3>3
      <4>2. \A x \in t.todo : x.admin
        BY <3>1, <4>1 DEF AdminsFound
      <4>3. t.entry # None => Rules(t.entry, directory, users)
        BY <2>1, <2>3, <3>1, <3>2, <4>1 DEF AdminsFound, Rules
      <4>4. \A u \in t.synced : Rules(u, directory, users) /\ member[<<u, t.row>>] # None
        BY <3>1, <4>1 DEF AdminsFound
      <4>5. ASSUME NEW x \in directory.people \ t.todo, x.admin,
                   \E u \in UserIds : Has(u, x.dn, users)
            PROVE  \E u \in UserIds : Has(u, x.dn, users) /\ (u = t.entry \/ u \in t.synced)
        <5>1. CASE x = e
          BY <3>1, <3>2, <4>5, <5>1
        <5>2. CASE x # e
          <6>1. x \in directory.people \ cycle[c].todo
            BY <3>1, <4>5, <5>2
          <6>2. PICK u \in UserIds : Has(u, x.dn, users) /\ (u = cycle[c].entry \/ u \in cycle[c].synced)
            BY <4>1, <4>5, <6>1 DEF AdminsFound
          <6>3. u \in t.synced
            BY <2>1, <2>3, <3>1, <6>2
          <6>4. QED BY <6>2, <6>3
        <5>3. QED BY <5>1, <5>2
      <4>6. QED BY <4>2, <4>3, <4>4, <4>5 DEF AdminsFound
    <3>4. QED BY <1>2, <1>4, <2>1, <2>4, <3>1, <3>3
  <2>5. QED BY <2>1, <2>4 DEF sought
<1>6. CASE AdminsListed(c)
  <2> DEFINE drop == {u \in UserIds : member[<<u, cycle[c].row>>] = "sync"} \ cycle[c].synced
             s == [cycle[c] EXCEPT !.drop = drop]
  <2>1. /\ ReadStep(c, revokeLoop(s)) /\ cycle[c].pc = "admin" /\ cycle[c].todo = {}
        /\ cycle[c].entry = None
    BY <1>6 DEF AdminsListed, at
  <2>2. /\ \A u \in drop : member[<<u, cycle[c].row>>] = "sync" /\ u \notin cycle[c].synced
        /\ \A u \in UserIds :
             member[<<u, cycle[c].row>>] = "sync" => u \in drop \/ u \in cycle[c].synced
    OBVIOUS
  <2> HIDE DEF drop
  <2>3. /\ s = [f \in CycleFields |-> s[f]] /\ s.people = cycle[c].people
        /\ s.groups = cycle[c].groups /\ s.lost = cycle[c].lost /\ s.clean = cycle[c].clean
        /\ s.row = cycle[c].row /\ s.drop = drop
    BY <1>1 DEF CycleFields
  <2> HIDE DEF s
  <2>4. revokeLoop(s).clean = cycle[c].clean
    BY <2>3, LoopsClean
  <2>5. ASSUME cycle[c].clean
        PROVE  Mirror(revokeLoop(s), directory, users, groups, member, syncConfig)
    <3>1. AdminsFound(cycle[c], directory, users, member)
      BY <1>4, <2>1, <2>5
    <3>2. AdminsToBe(cycle[c].row, drop, directory, users, member)
      <4>1. \A u \in UserIds :
              member[<<u, cycle[c].row>>] = "sync" => u \in drop \/ Rules(u, directory, users)
        BY <2>2, <3>1 DEF AdminsFound
      <4>2. ASSUME NEW e \in directory.people, e.admin, \E u \in UserIds : Has(u, e.dn, users)
            PROVE  \E u \in UserIds :
                     /\ Has(u, e.dn, users) /\ member[<<u, cycle[c].row>>] # None
                     /\ u \notin drop
        <5>1. PICK u \in UserIds : Has(u, e.dn, users) /\ (u = cycle[c].entry \/ u \in cycle[c].synced)
          BY <2>1, <3>1, <4>2 DEF AdminsFound
        <5>2. u \in cycle[c].synced
          BY <2>1, <5>1, AccountsAssumption
        <5>3. QED BY <2>2, <3>1, <5>1, <5>2 DEF AdminsFound
      <4>3. QED BY <4>1, <4>2 DEF AdminsToBe
    <3>3. /\ s.people = directory.people /\ s.groups = directory.groups
          /\ PeopleSettled({}, s.lost, directory, users, groups, member, syncConfig)
          /\ GroupsDone({}, s.lost, directory, users, groups, member)
          /\ groups[s.row] # None /\ groups[s.row].name = ADMIN_GROUP
          /\ \A g \in GroupIds : groups[g] # None /\ groups[g].name = ADMIN_GROUP => g = s.row
      BY <1>1, <2>1, <2>3, <2>5, AdminFacts
    <3>4. AdminsToBe(s.row, s.drop, directory, users, member) /\ \A u \in s.drop : member[<<u, s.row>>] = "sync"
      BY <2>2, <2>3, <3>2
    <3>5. QED BY <2>3, <3>3, <3>4, RevokeLoopMirrors
  <2>6. QED BY <1>1, <2>1, <2>4, <2>5, MirrorReads
<1>7. QED BY <1>3, <1>5, <1>6

(* A membership of the administrators' group is given or taken: neither    *)
(* people nor other groups depend on it, as long as no one who is not      *)
(* linked loses one.                                                       *)
LEMMA AdminsMoved ==
  ASSUME SyncInv, WellInv, MirrorInv, NEW c \in Cycles, cycle[c].clean,
         cycle[c].pc \in {"admin", "revoke"},
         \A u \in UserIds, g \in GroupIds :
           g # cycle[c].row => member'[<<u, g>>] = member[<<u, g>>],
         \A u \in UserIds, g \in GroupIds :
           users[u] # None /\ users[u].dn = None /\ member[<<u, g>>] # None
             => member'[<<u, g>>] # None
  PROVE  /\ PeopleSettled({}, cycle[c].lost, directory, users, groups, member', syncConfig)
         /\ GroupsDone({}, cycle[c].lost, directory, users, groups, member')
<1> DEFINE lost == cycle[c].lost
<1>1. /\ PeopleSettled({}, lost, directory, users, groups, member, syncConfig)
      /\ GroupsDone({}, lost, directory, users, groups, member)
      /\ groups[cycle[c].row].name = ADMIN_GROUP
      /\ \A e \in directory.people : e.dn # None
  BY AdminFacts
<1>2. ReasonsStay(lost, lost, users, groups, groups, member, member')
  BY DEF ReasonsStay, Administers
<1> HIDE DEF lost
<1>3. PeopleSettled({}, lost, directory, users, groups, member', syncConfig)
  BY <1>1, <1>2, PeopleStay
<1>4. ASSUME NEW e \in directory.groups
      PROVE  GroupDone(e, lost, users, groups, member')
  <2>1. GroupDone(e, lost, users, groups, member)
    BY <1>1 DEF GroupsDone
  <2>2. ASSUME NEW g \in GroupIds, NEW u \in UserIds, groups[g].name = e.name, e.name # ADMIN_GROUP
        PROVE  member'[<<u, g>>] = member[<<u, g>>]
    BY <1>1, <2>2
  <2>3. QED BY <2>1, <2>2, GroupStaysDone
<1>5. QED BY <1>3, <1>4 DEF GroupsDone, lost

LEMMA AdminStepsMirror ==
  ASSUME SyncInv, WellInv, MirrorInv, NEW c \in Cycles, AdminAdded(c) \/ AdminRevoked(c)
  PROVE  MirrorInv'
<1>1. /\ cycle[c] = [f \in CycleFields |-> cycle[c][f]] /\ Well(cycle[c])
      /\ DOMAIN users = UserIds /\ DOMAIN groups = GroupIds /\ cycle[c].row \in GroupIds
      /\ cycle[c].drop \subseteq UserIds
      /\ cycle[c].pc \in {"admin", "revoke"} /\ cycle[c].pc \in {"admins", "admin", "revoke"}
      /\ cycle[c].pc \notin {"idle", "done"}
  BY DEF WellInv, Well, Holds, SyncInv, TablesHold, AdminAdded, AdminRevoked, at
<1>2. UNCHANGED <<users, groups, directory, syncConfig>>
  BY DEF AdminAdded, AdminRevoked, Others
<1>3. ASSUME cycle[c].clean
      PROVE  /\ cycle[c].people = directory.people /\ cycle[c].groups = directory.groups
             /\ AdminTurn(cycle[c], directory, users, groups, member)
             /\ groups[cycle[c].row] # None /\ groups[cycle[c].row].name = ADMIN_GROUP
             /\ \A g \in GroupIds :
                  groups[g] # None /\ groups[g].name = ADMIN_GROUP => g = cycle[c].row
  BY <1>1, <1>3, AdminFacts
<1>4. CASE AdminAdded(c)
  <2> DEFINE u == cycle[c].entry
             s == [cycle[c] EXCEPT !.entry = None, !.synced = @ \cup {u}]
  <2>1. cycle[c].pc = "admin" /\ u \in UserIds
    BY <1>1, <1>4 DEF AdminAdded, at, Well
  <2>2. CASE /\ mayJoin(u, cycle[c].row) /\ member' = joined(u, cycle[c].row)
             /\ cycle' = [cycle EXCEPT ![c].entry = None, ![c].synced = @ \cup {u}]
    <3>1. cycle' = [cycle EXCEPT ![c] = s]
      BY <2>2 DEF SyncInv, CyclesHold
    <3>2. /\ s.clean = cycle[c].clean /\ s.pc = "admin" /\ s.people = cycle[c].people
          /\ s.groups = cycle[c].groups /\ s.lost = cycle[c].lost /\ s.row = cycle[c].row
          /\ s.todo = cycle[c].todo /\ s.entry = None /\ s.synced = cycle[c].synced \cup {u}
      BY <1>1, <2>1 DEF CycleFields
    <3> HIDE DEF s
    <3>3. /\ member'[<<u, cycle[c].row>>] # None
          /\ \A v \in UserIds, h \in GroupIds :
               v # u \/ h # cycle[c].row => member'[<<v, h>>] = member[<<v, h>>]
      BY <1>1, <2>1, <2>2, JoinedMoves
    <3>4. \A v \in UserIds, h \in GroupIds : member[<<v, h>>] # None => member'[<<v, h>>] # None
      BY <3>3
    <3>5. ASSUME cycle[c].clean
          PROVE  Mirror(s, directory, users, groups, member', syncConfig)
      <4>1. AdminsFound(cycle[c], directory, users, member)
        BY <1>3, <2>1, <3>5 DEF AdminTurn
      <4>2. AdminsFound(s, directory, users, member')
        <5>1. \A v \in s.synced : Rules(v, directory, users) /\ member'[<<v, s.row>>] # None
          <6>1. Rules(u, directory, users) /\ \A v \in cycle[c].synced : v \in UserIds
            BY <1>1, <2>1, <4>1, AccountsAssumption DEF AdminsFound, Well, Holds
          <6>2. QED BY <1>1, <3>2, <3>3, <3>4, <4>1, <6>1 DEF AdminsFound
        <5>2. \A e \in directory.people \ s.todo :
                e.admin /\ (\E v \in UserIds : Has(v, e.dn, users)) =>
                  \E v \in UserIds : Has(v, e.dn, users) /\ (v = s.entry \/ v \in s.synced)
          BY <3>2, <4>1 DEF AdminsFound
        <5>3. QED BY <3>2, <4>1, <5>1, <5>2 DEF AdminsFound
      <4>3. /\ PeopleSettled({}, s.lost, directory, users, groups, member', syncConfig)
            /\ GroupsDone({}, s.lost, directory, users, groups, member')
        BY <1>1, <3>2, <3>3, <3>4, <3>5, AdminsMoved
      <4>4. AdminTurn(s, directory, users, groups, member')
        BY <1>3, <3>2, <3>5, <4>2 DEF AdminTurn
      <4>5. s.people = directory.people /\ s.groups = directory.groups /\ s.pc \in {"admin", "revoke"}
        BY <1>3, <3>2, <3>5
      <4>6. QED BY <4>3, <4>4, <4>5, AdminTurnMirrors
    <3>6. QED BY <1>1, <1>2, <3>1, <3>2, <3>5, CycleMirrors
  <2>3. CASE cycle' = [cycle EXCEPT ![c] = Idle] /\ UNCHANGED member
    BY <1>1, <2>3, CycleMirrors DEF Idle
  <2>4. QED BY <1>4, <2>2, <2>3 DEF AdminAdded
<1>5. CASE AdminRevoked(c)
  <2>1. PICK u \in cycle[c].drop :
          /\ cycle[c].pc = "revoke" /\ member' = [member EXCEPT ![<<u, cycle[c].row>>] = None]
          /\ cycle' = [cycle EXCEPT ![c] = revokeLoop([cycle[c] EXCEPT !.drop = @ \ {u}])]
    BY <1>5 DEF AdminRevoked, at
  <2> DEFINE s == [cycle[c] EXCEPT !.drop = @ \ {u}]
  <2>2. /\ s = [f \in CycleFields |-> s[f]] /\ s.people = cycle[c].people
        /\ s.groups = cycle[c].groups /\ s.lost = cycle[c].lost /\ s.clean = cycle[c].clean
        /\ s.row = cycle[c].row /\ s.drop = cycle[c].drop \ {u}
    BY <1>1 DEF CycleFields
  <2>3. cycle' = [cycle EXCEPT ![c] = revokeLoop(s)]
    BY <2>1
  <2> HIDE DEF s
  <2>4. revokeLoop(s).clean = cycle[c].clean
    BY <2>2, LoopsClean
  <2>5. /\ u \in UserIds /\ member'[<<u, cycle[c].row>>] = None
        /\ \A v \in UserIds, h \in GroupIds :
             v # u \/ h # cycle[c].row => member'[<<v, h>>] = member[<<v, h>>]
    BY <1>1, <2>1, JoinedMoves
  <2>6. ASSUME cycle[c].clean
        PROVE  Mirror(revokeLoop(s), directory, users, groups, member', syncConfig)
    <3>1. /\ AdminsToBe(cycle[c].row, cycle[c].drop, directory, users, member)
          /\ \A v \in cycle[c].drop : member[<<v, cycle[c].row>>] = "sync"
      BY <1>3, <2>1, <2>6 DEF AdminTurn
    <3>2. users[u] # None => users[u].dn # None
      BY <1>1, <2>1, <2>5, <3>1 DEF WellInv, Granted, Linked
    <3>3. \A v \in UserIds, g \in GroupIds :
            users[v] # None /\ users[v].dn = None /\ member[<<v, g>>] # None
              => member'[<<v, g>>] # None
      BY <2>5, <3>2
    <3>4. /\ PeopleSettled({}, s.lost, directory, users, groups, member', syncConfig)
          /\ GroupsDone({}, s.lost, directory, users, groups, member')
      BY <1>1, <2>2, <2>5, <2>6, <3>3, AdminsMoved
    <3>5. AdminsToBe(s.row, s.drop, directory, users, member')
      <4>1. \A v \in UserIds :
              member'[<<v, s.row>>] = "sync" => v \in s.drop \/ Rules(v, directory, users)
        BY <1>1, <2>2, <2>5, <3>1, AccountsAssumption DEF AdminsToBe
      <4>2. ASSUME NEW e \in directory.people, e.admin, \E v \in UserIds : Has(v, e.dn, users)
            PROVE  \E v \in UserIds :
                     Has(v, e.dn, users) /\ member'[<<v, s.row>>] # None /\ v \notin s.drop
        <5>1. PICK v \in UserIds : /\ Has(v, e.dn, users) /\ member[<<v, cycle[c].row>>] # None
                                   /\ v \notin cycle[c].drop
          BY <3>1, <4>2 DEF AdminsToBe
        <5>2. v # u
          BY <2>1, <5>1
        <5>3. QED BY <1>1, <2>2, <2>5, <5>1, <5>2
      <4>3. QED BY <4>1, <4>2 DEF AdminsToBe
    <3>6. \A v \in s.drop : member'[<<v, s.row>>] = "sync"
      BY <1>1, <2>2, <2>5, <3>1
    <3>7. /\ s.people = directory.people /\ s.groups = directory.groups
          /\ groups[s.row] # None /\ groups[s.row].name = ADMIN_GROUP
          /\ \A g \in GroupIds : groups[g] # None /\ groups[g].name = ADMIN_GROUP => g = s.row
      BY <1>3, <2>2, <2>6
    <3>8. QED BY <2>2, <3>4, <3>5, <3>6, <3>7, RevokeLoopMirrors
  <2>7. QED BY <1>1, <1>2, <2>3, <2>4, <2>6, CycleMirrors
<1>6. QED BY <1>4, <1>5

(* A cycle starts or is given up, or something else happens.               *)
LEMMA StartStepsMirror ==
  ASSUME SyncInv, WellInv, MirrorInv, NEW c \in Cycles, CycleStarted(c) \/ CycleFailed(c)
  PROVE  MirrorInv'
<1>1. CASE CycleStarted(c)
  <2> DEFINE t == [Idle EXCEPT !.pc = "search", !.people = directory.people,
                               !.clean = \A other \in Cycles \ {c} : ~underWay(other)]
  <2>1. /\ cycle' = [disturbed EXCEPT ![c] = t]
        /\ UNCHANGED <<users, groups, member, directory, syncConfig>>
    BY <1>1 DEF CycleStarted, accountVars
  <2>2. /\ t.pc = "search" /\ t.people = directory.people /\ t.synced = {}
        /\ t.clean = \A other \in Cycles \ {c} : ~underWay(other)
    BY DEF Idle
  <2> HIDE DEF t
  <2>3. /\ cycle'[c] = t
        /\ \A other \in Cycles \ {c} : cycle'[other] = [cycle[other] EXCEPT !.clean = FALSE]
    BY <2>1 DEF disturbed
  <2>4. \A other \in Cycles : cycle[other] = [f \in CycleFields |-> cycle[other][f]]
    BY DEF WellInv, Well, Holds
  <2>5. \A other \in Cycles \ {c} : cycle'[other].pc = cycle[other].pc /\ ~cycle'[other].clean
    BY <2>3, <2>4 DEF CycleFields
  <2>6. Mirror(t, directory, users, groups, member, syncConfig)
    BY <2>2 DEF Mirror, Reads, CountingPhases, PeoplePhases, PersonTurns, GroupTurns, PersonTurn,
       GroupTurn, AdminTurn
  <2>7. ASSUME NEW k \in Cycles, cycle'[k].clean
        PROVE  /\ \A other \in Cycles \ {k} : ~underWay(other)'
               /\ Mirror(cycle[k], directory, users, groups, member, syncConfig)'
    <3>1. k = c
      BY <2>5, <2>7
    <3>2. \A other \in Cycles \ {c} : ~underWay(other)
      BY <2>2, <2>3, <2>7, <3>1
    <3>3. \A other \in Cycles \ {c} : ~underWay(other)'
      BY <2>5, <3>2 DEF underWay
    <3>4. QED BY <2>1, <2>3, <2>6, <3>1, <3>3
  <2>8. QED BY <2>7 DEF MirrorInv
<1>2. CASE CycleFailed(c)
  <2>1. cycle' = [cycle EXCEPT ![c] = Idle] /\ cycle[c].pc \notin {"idle", "done"} /\ ~Idle.clean
    BY <1>2 DEF CycleFailed, Idle
  <2>2. QED BY <2>1, CycleMirrors
<1>3. QED BY <1>1, <1>2

LEMMA DisturbedMirrors ==
  ASSUME WellInv, cycle' = disturbed
  PROVE  MirrorInv'
<1>1. \A c \in Cycles : cycle[c] = [f \in CycleFields |-> cycle[c][f]]
  BY DEF WellInv, Well, Holds
<1>2. \A c \in Cycles : ~cycle'[c].clean
  BY <1>1 DEF disturbed, CycleFields
<1>3. QED BY <1>2 DEF MirrorInv

LEMMA MirrorInductive ==
  ASSUME SyncInv, WellInv, MirrorInv, [SyncNext]_<<accountVars, syncVars>>
  PROVE  MirrorInv'
<1>1. CASE UNCHANGED <<accountVars, syncVars>>
  BY <1>1 DEF accountVars, syncVars, MirrorInv, underWay
<1>2. ASSUME NEW c \in Cycles, CycleStep(c)
      PROVE  MirrorInv'
  BY <1>2, StartStepsMirror, FetchMirrors, PersonReadsMirror, PersonStepsMirror, GroupReadsMirror,
     GroupStepsMirror, MemberStepsMirror, RemovalReadsMirror, RemovalStepsMirror,
     AdminReadsMirror, AdminStepsMirror DEF CycleStep
<1>3. CASE DirectoryChanged \/ AdminMeanwhile
  BY <1>3, DisturbedMirrors DEF DirectoryChanged, AdminMeanwhile
<1>4. QED BY <1>1, <1>2, <1>3 DEF SyncNext

(* What the cycle that has ended leaves, in the words of the property.     *)
LEMMA MirrorSuffices ==
  ASSUME SyncInv, WellInv, MirrorInv
  PROVE  DirectoryMirrored
<1> SUFFICES ASSUME NEW c \in Cycles, cycle[c].pc = "done", cycle[c].clean
             PROVE  /\ \A e \in directory.people : personMirrored(e)
                    /\ \A u \in Present(users) : removedMirrored(u)
                    /\ \A e \in directory.groups : groupMirrored(e)
                    /\ adminsMirrored
  BY DEF DirectoryMirrored, at
<1> DEFINE lost == cycle[c].lost
<1>1. /\ Mirror(cycle[c], directory, users, groups, member, syncConfig)
      /\ \A e \in directory.people : e.dn # None
      /\ DOMAIN users = UserIds /\ DOMAIN groups = GroupIds
  BY Undisturbed2
<1>2. /\ cycle[c].pc \notin CountingPhases /\ cycle[c].pc \notin {"search", "remove"} \cup PeoplePhases
      /\ groupsLeft(cycle[c]) = {}
  BY DEF CountingPhases, PeoplePhases, PersonTurns, GroupTurns, groupsLeft
<1>3. /\ PeopleSettled({}, lost, directory, users, groups, member, syncConfig)
      /\ GroupsDone({}, lost, directory, users, groups, member)
      /\ \A g \in GroupIds :
           groups[g] # None /\ groups[g].name = ADMIN_GROUP
             => AdminsToBe(g, {}, directory, users, member)
  BY <1>1, <1>2 DEF Mirror, AdminTurn
<1>4. lost \subseteq lostInCycle
  BY DEF lostInCycle, at
<1>5. \A g : g \in groupsNamed({ADMIN_GROUP}) <=>
               g \in GroupIds /\ groups[g] # None /\ groups[g].name = ADMIN_GROUP
  BY <1>1 DEF groupsNamed, Present
<1>6. \A u, dn : u \in linkedTo(dn) <=> u \in UserIds /\ Has(u, dn, users)
  BY <1>1 DEF linkedTo, Present, Has
<1> HIDE DEF lost
<1>7. ASSUME NEW e \in directory.people
      PROVE  personMirrored(e)
  <2>1. PersonDone(e, UserIds \ {}, lost, users, groups, member, syncConfig) /\ e.dn # None
    BY <1>1, <1>3 DEF PeopleSettled
  <2>2. CASE e.username \in lost
    BY <1>4, <2>2 DEF personMirrored
  <2>3. ASSUME NEW u \in UserIds,
               Owns(e, u, UserIds \ {}, lost, users, groups, member, syncConfig)
        PROVE  personMirrored(e)
    <3>1. u \in Present(users) /\ users[u].username = e.username
      BY <1>1, <2>3 DEF Owns, Present
    <3>2. CASE users[u].dn = e.dn
      <4>1. users[u].approved /\ users[u].dn # None
        BY <2>1, <2>3, <3>2 DEF Owns
      <4>2. QED BY <3>1, <3>2, <4>1 DEF personMirrored
    <3>3. CASE users[u].dn = None
      <4>1. Spared(e, u, lost, groups, member, syncConfig) /\ users[u].dn # e.dn
        BY <2>1, <2>3, <3>3 DEF Owns
      <4>2. Administers(u, groups, member) => u \in admins
        BY <1>5 DEF Administers, admins
      <4>3. AdminsByDirectory(lost, groups) => adminsByDirectory
        BY <1>4, <1>5 DEF AdminsByDirectory, adminsByDirectory
      <4>4. ~syncConfig.link \/ e.username = ADMIN_USER \/ u \in admins \/ adminsByDirectory
        BY <4>1, <4>2, <4>3 DEF Spared
      <4>5. QED BY <3>1, <3>3, <4>1, <4>4 DEF personMirrored
    <3>4. CASE users[u].dn # e.dn /\ users[u].dn # None
      BY <3>1, <3>4 DEF personMirrored
    <3>5. QED BY <3>2, <3>3, <3>4
  <2>4. QED BY <2>1, <2>2, <2>3 DEF PersonDone
<1>8. ASSUME NEW u \in Present(users)
      PROVE  removedMirrored(u)
  BY <1>1, <1>3 DEF removedMirrored, PeopleSettled, Known, Present
<1>9. ASSUME NEW e \in directory.groups
      PROVE  groupMirrored(e)
  <2>1. SUFFICES ASSUME NEW g \in groupLinkedTo(e.dn), groups[g].name = e.name,
                        e.name # ADMIN_GROUP
                 PROVE  /\ \A u \in UserIds : member[<<u, g>>] # None => users[u].dn \in e.members
                        /\ \A dn \in e.members \ lostInCycle :
                             linkedTo(dn) # {} => \E u \in linkedTo(dn) : member[<<u, g>>] # None
    BY DEF groupMirrored
  <2>2. g \in GroupIds /\ Has(g, e.dn, groups) /\ GroupDone(e, lost, users, groups, member)
    BY <1>1, <1>3 DEF groupLinkedTo, Present, Has, GroupsDone
  <2>3. \A u \in UserIds : member[<<u, g>>] # None => users[u].dn \in e.members
    BY <2>1, <2>2 DEF GroupDone
  <2>4. ASSUME NEW dn \in e.members \ lostInCycle, linkedTo(dn) # {}
        PROVE  \E u \in linkedTo(dn) : member[<<u, g>>] # None
    <3>1. dn \in e.members \ lost /\ \E u \in UserIds : Has(u, dn, users)
      BY <1>4, <1>6, <2>4
    <3>2. PICK u \in UserIds : Has(u, dn, users) /\ member[<<u, g>>] # None
      BY <2>1, <2>2, <3>1 DEF GroupDone
    <3>3. QED BY <1>6, <3>2
  <2>5. QED BY <2>3, <2>4
<1>10. adminsMirrored
  <2>1. SUFFICES ASSUME NEW g \in groupsNamed({ADMIN_GROUP})
                 PROVE  /\ \A u \in UserIds :
                             member[<<u, g>>] = "sync" =>
                               \E e \in directory.people : e.dn = users[u].dn /\ e.admin
                        /\ \A e \in directory.people :
                             e.admin /\ linkedTo(e.dn) # {} =>
                               \E u \in linkedTo(e.dn) : member[<<u, g>>] # None
    BY DEF adminsMirrored
  <2>2. AdminsToBe(g, {}, directory, users, member)
    BY <1>3, <1>5
  <2>3. \A u \in UserIds : member[<<u, g>>] = "sync" => Rules(u, directory, users)
    BY <2>2 DEF AdminsToBe
  <2>4. ASSUME NEW e \in directory.people, e.admin, linkedTo(e.dn) # {}
        PROVE  \E u \in linkedTo(e.dn) : member[<<u, g>>] # None
    <3>1. \E u \in UserIds : Has(u, e.dn, users)
      BY <1>6, <2>4
    <3>2. PICK u \in UserIds : Has(u, e.dn, users) /\ member[<<u, g>>] # None
      BY <2>2, <2>4, <3>1 DEF AdminsToBe
    <3>3. QED BY <1>6, <3>2
  <2>5. QED BY <2>3, <2>4 DEF Rules, Has
<1>11. QED BY <1>7, <1>8, <1>9, <1>10

(* A cycle that nothing disturbs repairs what cycles before it have left,  *)
(* whatever the directory holds and however many cycles overlapped before  *)
(* (syncLDAP and each of the functions it calls).                          *)
THEOREM DirectoryMirroredHolds == SyncSpec => []DirectoryMirrored
<1> DEFINE Inv == SyncInv /\ WellInv /\ MirrorInv
<1>1. AccountsInit /\ SyncInit => Inv
  <2>1. AccountsInit /\ SyncInit => MirrorInv
    BY DEF SyncInit, MirrorInv, Idle
  <2>2. QED BY <2>1, SyncStarts
<1>2. Inv /\ [SyncNext]_<<accountVars, syncVars>> => Inv'
  BY SyncInductive, WellInductive, MirrorInductive
<1>3. Inv => DirectoryMirrored
  BY MirrorSuffices
<1>4. QED
  BY <1>1, <1>2, <1>3, PTL DEF SyncSpec
=============================================================================
