------------------------- MODULE AdministrationProofs -------------------------
(* What registrations, the rules of ProxyAuth and the synchronisation may  *)
(* rely on while an administrator edits the same tables, for any users,    *)
(* groups, rules, directories and settings.                                *)
EXTENDS LdapSync, Registration, ProxyAuth, FiniteSetTheorems, TLAPS

-----------------------------------------------------------------------------
(***************************************************************************)
(* Registrations.  An invitation whose groups somebody has been given is   *)
(* gone, and its id is not used again.                                     *)
(***************************************************************************)
CopiedAreGone ==
  /\ invitations = [i \in InvitationIds |-> invitations[i]]
  /\ \A pair \in copied : pair[1] \in InvitationIds => invitations[pair[1]] = None

CopiedOnce == \A p, q \in copied : p[1] = q[1] => p = q

GivenInv == CopiedAreGone /\ CopiedOnce

(* An administrator brings none of them back.                              *)
LEMMA InvitationsStayGone ==
  ASSUME CopiedAreGone, NEW me, NEW named, \A pair \in copied : pair[1] \in named,
         NEW other, AccountsSaved(me, other) \/ InvitationsSaved(me, named) \/ AccountDeleted(me),
         UNCHANGED copied
  PROVE  CopiedAreGone'
<1>1. CASE UNCHANGED invitations
  BY <1>1 DEF CopiedAreGone
<1>2. ASSUME NEW id \in GroupIds, GroupDeleted(me, id)
      PROVE  CopiedAreGone'
  BY <1>2 DEF GroupDeleted, CopiedAreGone, Present
<1>3. ASSUME NEW upsert, InvitationSaved(me, upsert, named)
      PROVE  CopiedAreGone'
  <2>1. CASE upsert.id = None
    <3> DEFINE id == freshId(invitations, named)
    <3>1. id \notin named
      BY <1>3, <2>1 DEF InvitationSaved, idsSuffice, freshId
    <3>2. PICK row : invitations' = [invitations EXCEPT ![id] = row]
      BY <1>3, <2>1 DEF InvitationSaved
    <3> HIDE DEF id
    <3>3. QED BY <3>1, <3>2 DEF CopiedAreGone
  <2>2. CASE upsert.id # None /\ upsert.id \in Present(invitations)
    <3>1. PICK row : invitations' = [invitations EXCEPT ![upsert.id] = row]
      BY <1>3, <2>2 DEF InvitationSaved
    <3>2. QED BY <2>2, <3>1 DEF CopiedAreGone, Present
  <2>3. CASE upsert.id # None /\ upsert.id \notin Present(invitations)
    BY <1>1, <1>3, <2>3 DEF InvitationSaved
  <2>4. QED BY <2>1, <2>2, <2>3
<1>4. ASSUME NEW id, InvitationDeleted(me, id)
      PROVE  CopiedAreGone'
  BY <1>4 DEF InvitationDeleted, CopiedAreGone
<1>5. QED
  BY <1>1, <1>2, <1>3, <1>4
  DEF AccountsSaved, InvitationsSaved, AccountDeleted, UserPatched, UsersApproved,
      UsersDeleted, GroupSaved

(* A new user is given the groups of an invitation that is there.          *)
LEMMA GivenByUserRegistered ==
  ASSUME GivenInv, NEW invite, NEW valid, NEW name,
         UserRegistered(invite, valid, name)
  PROVE  GivenInv'
<1> DEFINE joins == assignedGroups(invite, valid)
           u == freshId(users, registeredIds)
<1>1. invitations' = IF valid THEN [invitations EXCEPT ![invite] = None] ELSE invitations
  BY DEF UserRegistered
<1>2. copied' = IF valid /\ joins # {} THEN copied \cup {<<invite, u>>} ELSE copied
  BY DEF UserRegistered
<1>3. valid /\ joins # {} => invite \in InvitationIds /\ invitations[invite] # None
  BY DEF assignedGroups, isThere, Present, GivenInv, CopiedAreGone
<1> HIDE DEF joins, u
<1>4. CopiedAreGone'
  BY <1>1, <1>2, <1>3 DEF GivenInv, CopiedAreGone
<1>5. CopiedOnce'
  <2>1. ASSUME valid /\ joins # {}, NEW p \in copied
        PROVE  p[1] # invite
    BY <1>3, <2>1 DEF GivenInv, CopiedAreGone
  <2>2. QED BY <1>2, <2>1 DEF GivenInv, CopiedOnce
<1>6. QED BY <1>4, <1>5 DEF GivenInv

LEMMA GivenInductive ==
  ASSUME GivenInv, [RegistrationNext]_<<accountVars, registrationVars>>
  PROVE  GivenInv'
<1>1. CASE UNCHANGED <<invitations, copied>>
  BY <1>1 DEF GivenInv, CopiedAreGone, CopiedOnce
<1>2. ASSUME NEW invite, NEW valid, NEW name, UserRegistered(invite, valid, name)
      PROVE  GivenInv'
  BY <1>2, GivenByUserRegistered
<1>3. ASSUME NEW me \in UserIds,
             LET named == {pair[1] : pair \in copied} \cup {ceremony[k].invite : k \in Ceremonies}
             IN \/ AccountsSaved(me, registeredIds)
                \/ InvitationsSaved(me, named) \/ AccountDeleted(me),
             UNCHANGED copied
      PROVE  GivenInv'
  <2> DEFINE named == {pair[1] : pair \in copied} \cup {ceremony[k].invite : k \in Ceremonies}
  <2>1. \A pair \in copied : pair[1] \in named
    OBVIOUS
  <2>2. AccountsSaved(me, registeredIds) \/ InvitationsSaved(me, named) \/ AccountDeleted(me)
    BY <1>3
  <2> HIDE DEF named
  <2>3. CopiedAreGone'
    BY <1>3, <2>1, <2>2, InvitationsStayGone DEF GivenInv
  <2>4. QED BY <1>3, <2>3 DEF GivenInv, CopiedOnce
<1>4. ASSUME NEW k, NEW invite, NEW knows,
             PasskeyStarted(k, invite, knows) \/ PasskeyAnswered(k, invite, knows)
      PROVE  GivenInv'
  BY <1>1, <1>4 DEF PasskeyStarted, PasskeyAnswered, accountVars
<1>5. QED
  BY <1>1, <1>2, <1>3, <1>4
  DEF RegistrationNext, PasswordRegistered, PasskeyRegistered, PasskeyRefused, registrationVars,
      accountVars

(***************************************************************************)
(* The groups of an invitation go to one user, for any number of passkey   *)
(* registrations that have read it, and whatever administrators save.      *)
(***************************************************************************)
THEOREM GroupsOfInvitationOnceHolds == RegistrationSpec => []GroupsOfInvitationOnce
<1>1. AccountsInit /\ RegistrationInit => GivenInv
  BY DEF AccountsInit, RegistrationInit, GivenInv, CopiedAreGone, CopiedOnce
<1>2. GivenInv /\ [RegistrationNext]_<<accountVars, registrationVars>> => GivenInv'
  BY GivenInductive
<1>3. GivenInv => GroupsOfInvitationOnce
  <2>1. SUFFICES ASSUME GivenInv, NEW i \in InvitationIds
                 PROVE  Cardinality({u \in UserIds : <<i, u>> \in copied}) <= 1
    BY DEF GroupsOfInvitationOnce
  <2> DEFINE holders == {u \in UserIds : <<i, u>> \in copied}
  <2>2. \A u, v \in holders : u = v
    BY <2>1 DEF GivenInv, CopiedOnce
  <2>3. holders = {} \/ \E u : holders = {u}
    BY <2>2
  <2> HIDE DEF holders
  <2>4. Cardinality(holders) = 0 \/ Cardinality(holders) = 1
    BY <2>3, FS_EmptySet, FS_Singleton
  <2>5. Cardinality(holders) <= 1
    BY <2>4
  <2>6. QED BY <2>5 DEF holders
<1>4. QED BY <1>1, <1>2, <1>3, PTL DEF RegistrationSpec

-----------------------------------------------------------------------------
(***************************************************************************)
(* ProxyAuth.  What a request has read, and what the cache holds, are the  *)
(* rules in force if they were read after the last change; ages say when.  *)
(***************************************************************************)
VisitFields ==
  {"pc", "phase", "url", "amr", "old", "basic", "prompt", "mfa", "fetchAge", "rule", "read"}

IsVisit(x) ==
  /\ x = [f \in VisitFields |-> x[f]]
  /\ x.phase \in {"ask", "groups", "matched"}
  /\ x.fetchAge \in 0..FETCH_TIME

rulesRead == {[id |-> r, row |-> rules[r]] : r \in Present(rules)}

AgesHold ==
  /\ unchanged \in Nat /\ cacheAge \in Nat
  /\ visit = [v \in Visitors |-> visit[v]]
  /\ \A v \in Visitors : IsVisit(visit[v])

ReadInForce ==
  \A v \in Visitors :
    visit[v].phase = "groups" /\ unchanged > visit[v].fetchAge => visit[v].read = rulesRead

CacheInForce ==
  cacheAge <= CACHE_TTL /\ unchanged > cacheAge + FETCH_TIME => cache = inForce

RecentInv == AgesHold /\ ReadInForce /\ CacheInForce

(* What a visitor is when it goes on, and where a request matches a rule.  *)
LEMMA GoesOn ==
  ASSUME NEW v \in Visitors, IsVisit(visit[v]), NEW pc
  PROVE  /\ IsVisit(to(v, pc)) /\ to(v, pc).phase = "ask"
         /\ IsVisit(ends(v, pc)) /\ ends(v, pc).phase = "ask"
<1>1. /\ visit[v] = [f \in VisitFields |-> visit[v][f]]
      /\ 0 \in 0..FETCH_TIME
  BY ProxyAuthAssumption DEF IsVisit
<1>2. IsVisit(to(v, pc)) /\ to(v, pc).phase = "ask"
  BY <1>1 DEF to, IsVisit, VisitFields
<1>3. IsVisit(Away) /\ Away.phase = "ask"
  BY <1>1 DEF Away, IsVisit, VisitFields
<1>4. IsVisit(ends(v, pc)) /\ ends(v, pc).phase = "ask"
  BY <1>3 DEF ends, IsVisit, VisitFields
<1>5. QED BY <1>2, <1>4

(* The groups that complete what was read are those of the rules in force. *)
LEMMA FetchedInForce ==
  ASSUME NEW read, read = rulesRead
  PROVE  {entryOf(e.row, IF rules[e.id] = None THEN {} ELSE groupNames(rules[e.id].groups))
            : e \in read} = inForce
<1>1. \A r \in Present(rules) : rules[r] # None
  BY DEF Present
<1> DEFINE named(r) == IF rules[r] = None THEN {} ELSE groupNames(rules[r].groups)
<1>2. {entryOf(e.row, named(e.id)) : e \in rulesRead}
        = {entryOf(rules[r], named(r)) : r \in Present(rules)}
  <2> DEFINE pair(r) == [id |-> r, row |-> rules[r]]
  <2>1. \A r : pair(r).id = r /\ pair(r).row = rules[r]
    OBVIOUS
  <2>2. rulesRead = {pair(r) : r \in Present(rules)}
    BY DEF rulesRead
  <2> HIDE DEF pair, named
  <2>3. QED BY <2>1, <2>2
<1>3. \A r \in Present(rules) : named(r) = groupNames(rules[r].groups)
  BY <1>1
<1> HIDE DEF named
<1>4. {entryOf(rules[r], named(r)) : r \in Present(rules)} = inForce
  BY <1>3 DEF inForce
<1>5. QED BY <1>2, <1>4 DEF named

(* A visitor that moves without having read keeps all of it.               *)
LEMMA VisitorMoves ==
  ASSUME RecentInv, NEW v \in Visitors, NEW new, Moves(v, new), IsVisit(new),
         new.phase = "groups" => new.read = rulesRead
  PROVE  RecentInv'
<1>1. /\ visit' = [visit EXCEPT ![v] = new]
      /\ UNCHANGED <<cache, cacheAge, accountVars, rules, unchanged>>
  BY DEF Moves, Elsewhere
<1>2. inForce' = inForce /\ rulesRead' = rulesRead
  BY <1>1 DEF inForce, rulesRead, groupNames, accountVars
<1>3. QED BY <1>1, <1>2 DEF RecentInv, AgesHold, ReadInForce, CacheInForce

LEMMA VisitorReads ==
  ASSUME RecentInv, NEW v \in Visitors, GroupsRead(v)
  PROVE  /\ RecentInv'
         /\ unchanged > FETCH_TIME => visit'[v].rule = match(inForce, visit[v].url)
<1> DEFINE fetched ==
             {entryOf(e.row, IF rules[e.id] = None THEN {} ELSE groupNames(rules[e.id].groups))
                : e \in visit[v].read}
           new == [visit[v] EXCEPT !.phase = "matched", !.rule = match(fetched, visit[v].url),
                                   !.read = {}, !.fetchAge = 0]
<1>1. /\ visit' = [visit EXCEPT ![v] = new] /\ cache' = fetched /\ cacheAge' = 0
      /\ UNCHANGED <<accountVars, rules, unchanged>>
  <2>1. visit' = [visit EXCEPT ![v].phase = "matched", ![v].rule = match(fetched, visit[v].url),
                               ![v].read = {}, ![v].fetchAge = 0]
    BY DEF GroupsRead
  <2>2. QED BY <2>1 DEF GroupsRead, Elsewhere, RecentInv, AgesHold
<1>2. visit[v].phase = "groups" /\ IsVisit(visit[v]) /\ unchanged \in Nat
  BY DEF GroupsRead, RecentInv, AgesHold
<1>3. unchanged > FETCH_TIME => visit[v].read = rulesRead
  BY <1>2, ProxyAuthAssumption DEF RecentInv, ReadInForce, IsVisit
<1>4. unchanged > FETCH_TIME => fetched = inForce
  BY <1>3, FetchedInForce
<1> HIDE DEF fetched
<1>5. IsVisit(new) /\ new.phase = "matched" /\ new.rule = match(fetched, visit[v].url)
  <2>1. ASSUME NEW x, NEW row, IsVisit(row)
        PROVE  LET y == [row EXCEPT !.phase = "matched", !.rule = x, !.read = {}, !.fetchAge = 0]
               IN IsVisit(y) /\ y.phase = "matched" /\ y.rule = x
    <3>1. row = [f \in VisitFields |-> row[f]] /\ 0 \in 0..FETCH_TIME
      BY <2>1, ProxyAuthAssumption DEF IsVisit
    <3>2. QED BY <3>1 DEF IsVisit, VisitFields
  <2>2. QED BY <1>2, <2>1
<1> HIDE DEF new
<1>6. inForce' = inForce /\ rulesRead' = rulesRead
  BY <1>1 DEF inForce, rulesRead, groupNames, accountVars
<1>7. visit'[v] = new /\ \A w \in Visitors \ {v} : visit'[w] = visit[w]
  BY <1>1 DEF RecentInv, AgesHold
<1>8. AgesHold' /\ ReadInForce'
  BY <1>1, <1>5, <1>6, <1>7 DEF RecentInv, AgesHold, ReadInForce
<1>9. CacheInForce'
  BY <1>1, <1>2, <1>4, <1>6, ProxyAuthAssumption DEF CacheInForce
<1>10. QED BY <1>4, <1>5, <1>7, <1>8, <1>9 DEF RecentInv

(* An administrator's changes count as recent.                             *)
LEMMA RulesChange ==
  ASSUME RecentInv, unchanged' = 0, UNCHANGED <<cache, cacheAge, visit>>
  PROVE  RecentInv'
BY ProxyAuthAssumption DEF RecentInv, AgesHold, IsVisit, ReadInForce, CacheInForce

LEMMA TimeKeepsInForce ==
  ASSUME RecentInv, TimePassed
  PROVE  RecentInv'
<1>1. UNCHANGED <<accountVars, rules, cache>>
  BY DEF TimePassed
<1>2. inForce' = inForce /\ rulesRead' = rulesRead
  BY <1>1 DEF inForce, rulesRead, groupNames, accountVars
<1>3. /\ unchanged \in Nat /\ cacheAge \in Nat
      /\ cacheAge' = IF cacheAge > CACHE_TTL THEN cacheAge ELSE cacheAge + 1
      /\ unchanged' = IF unchanged > CACHE_TTL + FETCH_TIME THEN unchanged ELSE unchanged + 1
      /\ CACHE_TTL \in Nat /\ FETCH_TIME \in Nat
  BY ProxyAuthAssumption DEF TimePassed, RecentInv, AgesHold
<1>4. ASSUME NEW v \in Visitors
      PROVE  /\ IsVisit(visit'[v])
             /\ visit'[v].phase = visit[v].phase /\ visit'[v].read = visit[v].read
             /\ visit'[v].fetchAge =
                  IF visit[v].phase = "groups" THEN visit[v].fetchAge + 1 ELSE visit[v].fetchAge
  <2>1. IsVisit(visit[v])
    BY DEF RecentInv, AgesHold
  <2>2. visit[v].phase = "groups" => visit[v].fetchAge < FETCH_TIME
    BY DEF TimePassed
  <2>3. visit'[v] = IF visit[v].phase = "groups"
                    THEN [visit[v] EXCEPT !.fetchAge = @ + 1] ELSE visit[v]
    BY DEF TimePassed
  <2>4. QED BY <1>3, <2>1, <2>2, <2>3 DEF IsVisit, VisitFields
<1>5. AgesHold'
  BY <1>3, <1>4 DEF AgesHold, TimePassed
<1>6. ReadInForce'
  <2>1. SUFFICES ASSUME NEW v \in Visitors, visit'[v].phase = "groups",
                        unchanged' > visit'[v].fetchAge
                 PROVE  visit'[v].read = rulesRead'
    BY DEF ReadInForce
  <2>2. visit[v].phase = "groups" /\ visit[v].fetchAge \in 0..FETCH_TIME
    BY <1>4, <2>1 DEF RecentInv, AgesHold, IsVisit
  <2>3. unchanged > visit[v].fetchAge
    BY <1>3, <1>4, <2>1, <2>2
  <2>4. QED BY <1>2, <1>4, <2>2, <2>3 DEF RecentInv, ReadInForce
<1>7. CacheInForce'
  <2>1. SUFFICES ASSUME cacheAge' <= CACHE_TTL, unchanged' > cacheAge' + FETCH_TIME
                 PROVE  cache' = inForce'
    BY DEF CacheInForce
  <2>2. cacheAge <= CACHE_TTL /\ unchanged > cacheAge + FETCH_TIME
    BY <1>3, <2>1
  <2>3. QED BY <1>1, <1>2, <2>2 DEF RecentInv, CacheInForce
<1>8. QED BY <1>5, <1>6, <1>7 DEF RecentInv

(***************************************************************************)
(* One step, and what it matches.                                          *)
(***************************************************************************)
RecentMatch ==
  \A v \in Visitors :
    /\ visit[v].phase # "matched" /\ visit'[v].phase = "matched"
    /\ unchanged > CACHE_TTL + FETCH_TIME
    => visit'[v].rule = match(inForce, visit[v].url)

LEMMA MovesOn ==
  ASSUME RecentInv, NEW v \in Visitors, NEW new, Moves(v, new), IsVisit(new), new.phase = "ask"
  PROVE  RecentInv' /\ RecentMatch
<1>1. RecentInv'
  BY VisitorMoves
<1>2. visit' = [visit EXCEPT ![v] = new]
  BY DEF Moves
<1>3. RecentMatch
  BY <1>2 DEF RecentInv, AgesHold, RecentMatch
<1>4. QED BY <1>1, <1>3

LEMMA RedirectsRecent ==
  ASSUME RecentInv, NEW v \in Visitors,
         \/ AuthzAnswered(v) \/ Prompted(v) \/ MfaChecked(v) \/ UrlChecked(v)
         \/ LoggedIn(v) \/ CalledBack(v)
         \/ \E visiting \in Visits : Visited(v, visiting.url, visiting.basic)
  PROVE  RecentInv' /\ RecentMatch
<1> DEFINE leadsOn(new) == IsVisit(new) /\ new.phase = "ask"
<1>1. IsVisit(visit[v])
  BY DEF RecentInv, AgesHold
<1>2. ASSUME NEW pc
      PROVE  leadsOn(to(v, pc)) /\ leadsOn(ends(v, pc))
  BY <1>1, GoesOn
<1>3. ASSUME NEW row, leadsOn(row), NEW a, NEW b, NEW c
      PROVE  /\ leadsOn([row EXCEPT !.url = a, !.basic = b])
             /\ leadsOn([row EXCEPT !.basic = a, !.prompt = b])
             /\ leadsOn([row EXCEPT !.prompt = a])
             /\ leadsOn([row EXCEPT !.mfa = a])
             /\ leadsOn([row EXCEPT !.amr = a, !.old = b])
             /\ leadsOn([row EXCEPT !.amr = a, !.old = b, !.prompt = c])
  <2>1. row = [f \in VisitFields |-> row[f]]
    BY <1>3 DEF IsVisit
  <2>2. QED BY <1>3, <2>1 DEF IsVisit, VisitFields
<1> HIDE DEF leadsOn
<1>4. ASSUME NEW new, leadsOn(new), Moves(v, new)
      PROVE  RecentInv' /\ RecentMatch
  BY <1>4, MovesOn DEF leadsOn
<1>5. AuthzAnswered(v) => \E new : leadsOn(new) /\ Moves(v, new)
  BY <1>2, <1>3 DEF AuthzAnswered, toLogin
<1>6. Prompted(v) => \E new : leadsOn(new) /\ Moves(v, new)
  BY <1>2, <1>3 DEF Prompted
<1>7. MfaChecked(v) => \E new : leadsOn(new) /\ Moves(v, new)
  BY <1>2, <1>3 DEF MfaChecked
<1>8. UrlChecked(v) => \E new : leadsOn(new) /\ Moves(v, new)
  BY <1>2, <1>3 DEF UrlChecked
<1>9. LoggedIn(v) => \E new : leadsOn(new) /\ Moves(v, new)
  BY <1>2, <1>3 DEF LoggedIn
<1>10. CalledBack(v) => \E new : leadsOn(new) /\ Moves(v, new)
  BY <1>2, <1>3 DEF CalledBack
<1>11. ASSUME NEW url, NEW basic, Visited(v, url, basic)
       PROVE  \E new : leadsOn(new) /\ Moves(v, new)
  BY <1>2, <1>3, <1>11 DEF Visited
<1>12. QED BY <1>4, <1>5, <1>6, <1>7, <1>8, <1>9, <1>10, <1>11

(* The requests that use the cache, or fetch.                              *)
LEMMA LookupsRecent ==
  ASSUME RecentInv, NEW v \in Visitors, CacheUsed(v) \/ RulesRead(v) \/ SessionAged(v)
  PROVE  RecentInv' /\ RecentMatch
<1>1. /\ IsVisit(visit[v]) /\ visit = [w \in Visitors |-> visit[w]]
      /\ visit[v] = [f \in VisitFields |-> visit[v][f]]
      /\ unchanged \in Nat /\ cacheAge \in Nat /\ CACHE_TTL \in Nat /\ FETCH_TIME \in Nat
  BY ProxyAuthAssumption DEF RecentInv, AgesHold, IsVisit
<1>2. ASSUME CacheUsed(v)
      PROVE  RecentInv' /\ RecentMatch
  <2> DEFINE hit == match(cache, visit[v].url)
             new == [visit[v] EXCEPT !.phase = "matched", !.rule = hit]
  <2>1. Moves(v, new) /\ cacheAge <= CACHE_TTL
    BY <1>2 DEF CacheUsed
  <2> HIDE DEF hit
  <2>2. IsVisit(new) /\ new.phase = "matched" /\ new.rule = hit
    BY <1>1 DEF IsVisit, VisitFields
  <2> HIDE DEF new
  <2>3. RecentInv'
    BY <2>1, <2>2, VisitorMoves
  <2>4. unchanged > CACHE_TTL + FETCH_TIME => cache = inForce
    BY <1>1, <2>1 DEF RecentInv, CacheInForce
  <2>5. visit' = [visit EXCEPT ![v] = new]
    BY <2>1 DEF Moves
  <2>6. QED BY <1>1, <2>2, <2>3, <2>4, <2>5 DEF RecentMatch, hit
<1>3. ASSUME RulesRead(v)
      PROVE  RecentInv' /\ RecentMatch
  <2> DEFINE new == [visit[v] EXCEPT !.phase = "groups", !.read = rulesRead]
  <2>1. Moves(v, new)
    BY <1>3 DEF RulesRead, rulesRead
  <2>2. IsVisit(new) /\ new.phase = "groups" /\ new.read = rulesRead
    BY <1>1 DEF IsVisit, VisitFields
  <2> HIDE DEF new
  <2>3. RecentInv'
    BY <2>1, <2>2, VisitorMoves
  <2>4. visit' = [visit EXCEPT ![v] = new]
    BY <2>1 DEF Moves
  <2>5. QED BY <1>1, <2>2, <2>3, <2>4 DEF RecentMatch
<1>4. ASSUME SessionAged(v)
      PROVE  RecentInv' /\ RecentMatch
  <2> DEFINE new == [visit[v] EXCEPT !.old = TRUE]
  <2>1. Moves(v, new)
    BY <1>4 DEF SessionAged
  <2>2. /\ IsVisit(new) /\ new.phase = visit[v].phase /\ new.read = visit[v].read
        /\ new.fetchAge = visit[v].fetchAge
    BY <1>1 DEF IsVisit, VisitFields
  <2> HIDE DEF new
  <2>3. /\ visit' = [visit EXCEPT ![v] = new]
        /\ UNCHANGED <<cache, cacheAge, accountVars, rules, unchanged>>
    BY <2>1 DEF Moves, Elsewhere
  <2>4. inForce' = inForce /\ rulesRead' = rulesRead
    BY <2>3 DEF inForce, rulesRead, groupNames, accountVars
  <2>5. QED
    BY <1>1, <2>2, <2>3, <2>4
    DEF RecentInv, AgesHold, ReadInForce, CacheInForce, RecentMatch
<1>5. QED BY <1>2, <1>3, <1>4

LEMMA RecentInductive ==
  ASSUME RecentInv, [ProxyNext]_<<accountVars, proxyVars>>
  PROVE  RecentInv' /\ (RecentMatch \/ UNCHANGED <<accountVars, proxyVars>>)
<1>1. ASSUME NEW v \in Visitors,
             \/ Proceeds(v) \/ SessionAged(v)
             \/ \E visiting \in Visits : Visited(v, visiting.url, visiting.basic)
      PROVE  RecentInv' /\ RecentMatch
  <2>1. ASSUME GroupsRead(v)
        PROVE  RecentInv' /\ RecentMatch
    <3>1. RecentInv' /\ (unchanged > FETCH_TIME => visit'[v].rule = match(inForce, visit[v].url))
      BY <2>1, VisitorReads
    <3>2. \A w \in Visitors \ {v} : visit'[w] = visit[w]
      BY <2>1 DEF GroupsRead, RecentInv, AgesHold
    <3>3. unchanged > CACHE_TTL + FETCH_TIME => unchanged > FETCH_TIME
      BY ProxyAuthAssumption DEF RecentInv, AgesHold
    <3>4. QED BY <3>1, <3>2, <3>3 DEF RecentMatch
  <2>2. QED BY <1>1, <2>1, RedirectsRecent, LookupsRecent DEF Proceeds
<1>2. ASSUME UNCHANGED visit
      PROVE  RecentMatch
  BY <1>2 DEF RecentMatch
<1>3. ASSUME NEW me, NEW x, RuleSaved(me, x) \/ RuleDeleted(me, x) \/ RuleGroupDeleted(me, x)
      PROVE  RecentInv' /\ RecentMatch
  BY <1>2, <1>3, RulesChange DEF RuleSaved, RuleDeleted, RuleGroupDeleted
<1>4. ASSUME UNCHANGED <<groups, proxyVars>>
      PROVE  RecentInv' /\ RecentMatch
  <2>1. inForce' = inForce /\ rulesRead' = rulesRead
    BY <1>4 DEF inForce, rulesRead, groupNames, proxyVars
  <2>2. QED
    BY <1>2, <1>4, <2>1
    DEF RecentInv, AgesHold, IsVisit, ReadInForce, CacheInForce, proxyVars
<1>5. ASSUME NEW me, NEW us, UsersApproved(me, us) \/ UsersDeleted(me, us), UNCHANGED proxyVars
      PROVE  RecentInv' /\ RecentMatch
  BY <1>4, <1>5 DEF UsersApproved, UsersDeleted
<1>6. ASSUME TimePassed
      PROVE  RecentInv' /\ RecentMatch
  <2>1. \A v \in Visitors : visit'[v].phase = visit[v].phase
    <3>1. SUFFICES ASSUME NEW v \in Visitors PROVE visit'[v].phase = visit[v].phase
      OBVIOUS
    <3>2. visit'[v] = IF visit[v].phase = "groups"
                      THEN [visit[v] EXCEPT !.fetchAge = @ + 1] ELSE visit[v]
      BY <1>6 DEF TimePassed
    <3>3. visit[v] = [f \in VisitFields |-> visit[v][f]]
      BY DEF RecentInv, AgesHold, IsVisit
    <3>4. QED BY <3>2, <3>3 DEF VisitFields
  <2>2. QED BY <1>6, <2>1, TimeKeepsInForce DEF RecentMatch
<1>7. CASE UNCHANGED <<accountVars, proxyVars>>
  BY <1>4, <1>7 DEF accountVars
<1>8. QED BY <1>1, <1>3, <1>5, <1>6, <1>7 DEF ProxyNext

(***************************************************************************)
(* Requests go by recent rules, for any rules and visitors, however long   *)
(* the cache lives and a fetch takes.                                      *)
(***************************************************************************)
THEOREM RulesRecentHolds == ProxySpec => RulesRecent
<1>1. AccountsInit /\ ProxyInit => RecentInv
  <2>1. IsVisit(Away) /\ Away.phase = "ask"
    <3>1. 0 \in 0..FETCH_TIME
      BY ProxyAuthAssumption
    <3>2. QED BY <3>1 DEF Away, IsVisit, VisitFields
  <2>2. SUFFICES ASSUME ProxyInit PROVE RecentInv
    OBVIOUS
  <2>3. visit = [v \in Visitors |-> Away]
    BY <2>2 DEF ProxyInit
  <2>4. AgesHold /\ ReadInForce
    BY <2>1, <2>2, <2>3, ProxyAuthAssumption DEF ProxyInit, AgesHold, ReadInForce
  <2>5. CacheInForce
    BY <2>2, ProxyAuthAssumption DEF ProxyInit, CacheInForce
  <2>6. QED BY <2>4, <2>5 DEF RecentInv
<1>2. RecentInv /\ [ProxyNext]_<<accountVars, proxyVars>> => RecentInv'
  BY RecentInductive
<1>3. RecentInv /\ [ProxyNext]_<<accountVars, proxyVars>>
        => [RecentMatch]_<<accountVars, proxyVars>>
  BY RecentInductive
<1>4. QED
  BY <1>1, <1>2, <1>3, PTL DEF ProxySpec, RulesRecent, RecentMatch

-----------------------------------------------------------------------------
(***************************************************************************)
(* The synchronisation.  What a cycle has found out still holds when it    *)
(* acts on it, or an administrator has made it untrue in between, which    *)
(* appointed remembers.  It is stated of a cycle s and of tables, so that  *)
(* it can be said of a state and of the next one.                          *)
(***************************************************************************)
CycleFields ==
  {"pc", "clean", "people", "groups", "todo", "synced", "entry", "row", "left", "wanted", "drop", "lost"}
UserFields == {"username", "approved", "expired", "dn"}
GroupFields == {"name", "autoAssign", "dn"}

EntryPhases == {"name", "update", "mayLink", "link", "insert", "groupSave"}
ActingPhases == {"update", "mayLink", "link", "groupSave", "members", "add", "remove", "revoke"}

IsCycle(s) ==
  /\ s = [f \in CycleFields |-> s[f]]
  /\ \A e \in s.people \cup s.groups \cup s.todo : e.dn \in DNs
  /\ s.pc \in EntryPhases => s.entry.dn \in DNs
  /\ s.pc = "group" => s.row = None

(* A user or a group of the directory, as long as it is there.             *)
Linked(x, rows) == x \in DOMAIN rows /\ rows[x] # None => rows[x].dn # None

HandBy(u, g, gs, mem) ==
  /\ u \in UserIds /\ g \in GroupIds
  /\ gs[g] # None /\ gs[g].name = ADMIN_GROUP /\ gs[g].dn = None
  /\ mem[<<u, g>>] = "admin"

Initial(u, us) == u \in UserIds /\ us[u] # None /\ us[u].username = ADMIN_USER

FoundOut(s, us, gs, mem, app, link) ==
  /\ s.pc = "update" => Linked(s.row, us)
  /\ s.pc \in {"mayLink", "link"} =>
       link /\ (s.row \in app \/ ~Initial(s.row, us) \/ Linked(s.row, us))
  /\ s.pc = "link" => s.row \in app \/ \A g : ~HandBy(s.row, g, gs, mem)
  /\ s.pc \in {"members", "add"} \/ (s.pc = "groupSave" /\ s.row # None) => Linked(s.row, gs)
  /\ s.pc = "remove" => \A u \in s.drop : Linked(u, us)
  /\ s.pc = "revoke" => \A u \in s.drop : u \in app \/ ~HandBy(u, s.row, gs, mem)

TablesHold ==
  /\ users = [u \in UserIds |-> users[u]]
  /\ groups = [g \in GroupIds |-> groups[g]]
  /\ member = [m \in UserIds \X GroupIds |-> member[m]]
  /\ \A u \in Present(users) : users[u] = [f \in UserFields |-> users[u][f]]
  /\ \A g \in Present(groups) : groups[g] = [f \in GroupFields |-> groups[g][f]]
  /\ \A g, h \in Present(groups) : groups[g].name = groups[h].name => g = h
  /\ changes \in Nat

CyclesHold ==
  /\ cycle = [c \in Cycles |-> cycle[c]]
  /\ \A c \in Cycles :
       /\ IsCycle(cycle[c])
       /\ FoundOut(cycle[c], users, groups, member, appointed, syncConfig.link)

SyncInv == TablesHold /\ CyclesHold /\ directory \in DirectoryStates

-----------------------------------------------------------------------------
(* Where the loops of a cycle go on.                                       *)
Goes(s) == IsCycle(s) /\ s.pc \notin ActingPhases

LEMMA GroupLoop ==
  ASSUME NEW s, IsCycle(s)
  PROVE  Goes(groupLoop(s))
<1>1. s = [f \in CycleFields |-> s[f]]
  BY DEF IsCycle
<1>2. QED BY <1>1 DEF groupLoop, Goes, IsCycle, CycleFields, EntryPhases, ActingPhases

LEMMA PersonLoop ==
  ASSUME NEW s, IsCycle(s)
  PROVE  Goes(personLoop(s))
<1>1. s = [f \in CycleFields |-> s[f]]
  BY DEF IsCycle
<1>2. CASE s.todo # {}
  BY <1>1, <1>2 DEF personLoop, Goes, IsCycle, CycleFields, EntryPhases, ActingPhases
<1>3. CASE s.todo = {}
  <2> DEFINE t == [s EXCEPT !.todo = s.groups]
  <2>1. t = [f \in CycleFields |-> t[f]] /\ t.todo = s.groups /\ t.people = s.people
        /\ t.groups = s.groups /\ t.pc = s.pc /\ t.entry = s.entry /\ t.row = s.row
    BY <1>1 DEF CycleFields
  <2> HIDE DEF t
  <2>2. IsCycle(t)
    BY <2>1 DEF IsCycle
  <2>3. QED BY <1>3, <2>2, GroupLoop DEF personLoop, t
<1>4. QED BY <1>2, <1>3

LEMMA MemberLoop ==
  ASSUME NEW s, IsCycle(s)
  PROVE  \/ Goes(memberLoop(s))
         \/ IsCycle(memberLoop(s)) /\ memberLoop(s).pc = "add" /\ memberLoop(s).row = s.row
<1>1. s = [f \in CycleFields |-> s[f]]
  BY DEF IsCycle
<1>2. CASE s.wanted \cup s.drop = {}
  BY <1>2, GroupLoop DEF memberLoop
<1>3. CASE s.wanted \cup s.drop # {}
  BY <1>1, <1>3 DEF memberLoop, IsCycle, CycleFields, EntryPhases
<1>4. QED BY <1>2, <1>3

LEMMA RemovalLoop ==
  ASSUME NEW s, IsCycle(s)
  PROVE  \/ Goes(removalLoop(s))
         \/ IsCycle(removalLoop(s)) /\ removalLoop(s).pc = "remove" /\ removalLoop(s).drop = s.drop
<1>1. s = [f \in CycleFields |-> s[f]]
  BY DEF IsCycle
<1>2. QED BY <1>1 DEF removalLoop, Goes, IsCycle, CycleFields, EntryPhases, ActingPhases

LEMMA IdleGoes == Goes(Idle)
BY DEF Idle, Goes, IsCycle, CycleFields, EntryPhases, ActingPhases

LEMMA RevokeLoop ==
  ASSUME NEW s, IsCycle(s)
  PROVE  \/ Goes(revokeLoop(s))
         \/ /\ IsCycle(revokeLoop(s)) /\ revokeLoop(s).pc = "revoke"
            /\ revokeLoop(s).row = s.row /\ revokeLoop(s).drop = s.drop
<1>1. s = [f \in CycleFields |-> s[f]]
  BY DEF IsCycle
<1>2. Goes(finished(s))
  BY IdleGoes DEF finished, Goes, IsCycle, CycleFields, EntryPhases, ActingPhases
<1>3. QED BY <1>1, <1>2 DEF revokeLoop, IsCycle, CycleFields, EntryPhases

LEMMA NothingFound ==
  ASSUME NEW s, Goes(s), NEW us, NEW gs, NEW mem, NEW app, NEW link
  PROVE  IsCycle(s) /\ FoundOut(s, us, gs, mem, app, link)
BY DEF Goes, FoundOut, ActingPhases

-----------------------------------------------------------------------------
(***************************************************************************)
(* What a step does to the tables of which cycles in their middle need not *)
(* take notice.                                                            *)
(***************************************************************************)
TablesStay ==
  /\ \A u : Linked(u, users) => Linked(u, users')
  /\ \A c \in Cycles : Linked(cycle[c].row, groups) => Linked(cycle[c].row, groups')
  /\ \A u : Initial(u, users') => Initial(u, users) \/ Linked(u, users') \/ u \in appointed'
  /\ \A u, g : HandBy(u, g, groups', member') => HandBy(u, g, groups, member) \/ u \in appointed'
  /\ appointed \subseteq appointed' /\ UNCHANGED syncConfig

LEMMA StillFoundOut ==
  ASSUME TablesStay, NEW c \in Cycles,
         FoundOut(cycle[c], users, groups, member, appointed, syncConfig.link)
  PROVE  FoundOut(cycle[c], users', groups', member', appointed', syncConfig'.link)
BY DEF TablesStay, FoundOut

LEMMA OneCycle ==
  ASSUME CyclesHold, TablesStay, NEW c \in Cycles, NEW s, cycle' = [cycle EXCEPT ![c] = s],
         IsCycle(s), FoundOut(s, users', groups', member', appointed', syncConfig'.link)
  PROVE  CyclesHold'
<1>1. \A d \in Cycles \ {c} : cycle'[d] = cycle[d]
  BY DEF CyclesHold
<1>2. cycle'[c] = s
  BY DEF CyclesHold
<1>3. \A d \in Cycles : FoundOut(cycle[d], users', groups', member', appointed', syncConfig'.link)
  BY StillFoundOut DEF CyclesHold
<1>4. cycle' = [d \in Cycles |-> cycle'[d]]
  BY DEF CyclesHold
<1>5. QED BY <1>1, <1>2, <1>3, <1>4 DEF CyclesHold

(* What LocalAccountsUntouched says of a step of a cycle.                  *)
Kept ==
  /\ \A u \in Present(users) : users[u].dn = None => localKept(u)
  /\ \A u \in Present(users) : byHand(u) => handKept(u)

(* Being an administrator by hand, said twice.                             *)
LEMMA HandAdmins ==
  ASSUME TablesHold
  PROVE  handAdmins = {u \in UserIds : \E g : HandBy(u, g, groups, member)}
<1>1. DOMAIN groups = GroupIds
  BY DEF TablesHold
<1>2. QED BY <1>1 DEF handAdmins, HandBy, groupsNamed, Present

LEMMA TablesSame ==
  ASSUME TablesHold, UNCHANGED <<users, groups, member, appointed, syncConfig>>
  PROVE  TablesStay /\ Kept
<1>1. TablesStay
  BY DEF TablesStay
<1>2. \A u : localKept(u)
  BY DEF localKept
<1>3. \A u \in Present(users) : byHand(u) => handKept(u)
  BY DEF byHand, handKept, handAdmins
<1>4. QED BY <1>1, <1>2, <1>3 DEF Kept

LEMMA CycleReads ==
  ASSUME SyncInv, NEW c \in Cycles, NEW s, ReadStep(c, s), IsCycle(s),
         FoundOut(s, users, groups, member, appointed, syncConfig.link)
  PROVE  SyncInv' /\ Kept
<1>1. /\ cycle' = [cycle EXCEPT ![c] = s]
      /\ UNCHANGED <<users, groups, member, invitations, changes, directory, syncConfig, appointed>>
  BY DEF ReadStep, Others
<1>2. TablesStay /\ Kept
  BY <1>1, TablesSame DEF SyncInv
<1>3. TablesHold'
  BY <1>1 DEF SyncInv, TablesHold, Present
<1>4. FoundOut(s, users', groups', member', appointed', syncConfig'.link)
  BY <1>1
<1>5. CyclesHold'
  BY <1>1, <1>2, <1>4, OneCycle DEF SyncInv
<1>6. QED BY <1>1, <1>2, <1>3, <1>5 DEF SyncInv

LEMMA CycleGoesOn ==
  ASSUME SyncInv, NEW c \in Cycles, NEW s, ReadStep(c, s), Goes(s)
  PROVE  SyncInv' /\ Kept
BY NothingFound, CycleReads

(* The end of a turn, whatever was done in it.                             *)
LEMMA RenamedGoes ==
  ASSUME SyncInv, NEW c \in Cycles, NEW us, NEW names
  PROVE  Goes(renamed(c, us, names))
<1> DEFINE s == cycle[c]
           t == [s EXCEPT !.synced = @ \cup us, !.lost = @ \cup names]
<1>1. s = [f \in CycleFields |-> s[f]] /\ IsCycle(s)
  BY DEF SyncInv, CyclesHold, IsCycle
<1> HIDE DEF s
<1>2. IsCycle(t)
  <2>1. /\ t = [f \in CycleFields |-> t[f]] /\ t.todo = s.todo /\ t.people = s.people
        /\ t.groups = s.groups /\ t.pc = s.pc /\ t.entry = s.entry /\ t.row = s.row
    BY <1>1 DEF CycleFields
  <2> HIDE DEF t
  <2>2. QED BY <1>1, <2>1 DEF IsCycle
<1> HIDE DEF t
<1>3. QED BY <1>2, PersonLoop DEF renamed, t, s

LEMMA NextGoes ==
  ASSUME SyncInv, NEW c \in Cycles, NEW us
  PROVE  Goes(next(c, us)) /\ Goes([next(c, us) EXCEPT !.clean = FALSE])
<1>1. Goes(next(c, us))
  BY RenamedGoes DEF next
<1>2. ASSUME NEW x, Goes(x)
      PROVE  Goes([x EXCEPT !.clean = FALSE])
  <2>1. x = [f \in CycleFields |-> x[f]]
    BY <1>2 DEF Goes, IsCycle
  <2>2. QED BY <1>2, <2>1 DEF Goes, IsCycle, CycleFields, EntryPhases
<1>3. QED BY <1>1, <1>2

-----------------------------------------------------------------------------
(* Steps that read.                                                        *)
LEMMA FetchSteps ==
  ASSUME SyncInv, NEW c \in Cycles, GroupsFetched(c)
  PROVE  SyncInv' /\ Kept
<1> DEFINE s == [cycle[c] EXCEPT !.groups = directory.groups, !.todo = cycle[c].people]
<1>1. cycle[c] = [f \in CycleFields |-> cycle[c][f]] /\ IsCycle(cycle[c])
  BY DEF SyncInv, CyclesHold, IsCycle
<1>2. \A e \in directory.groups : e.dn \in DNs
  BY SyncAssumption DEF SyncInv
<1>3. cycle[c].pc = "search"
  BY DEF GroupsFetched, at
<1>4. IsCycle(s)
  BY <1>1, <1>2, <1>3 DEF IsCycle, CycleFields, EntryPhases
<1> HIDE DEF s
<1>5. Goes(personLoop(s)) /\ ReadStep(c, personLoop(s))
  BY <1>4, PersonLoop DEF GroupsFetched, s
<1>6. QED BY <1>5, CycleGoesOn

LEMMA PersonReadSteps ==
  ASSUME SyncInv, NEW c \in Cycles,
         PersonSought(c) \/ NameSought(c) \/ LinkAllowed(c) \/ PersonRefused(c)
  PROVE  SyncInv' /\ Kept
<1>1. /\ cycle[c] = [f \in CycleFields |-> cycle[c][f]] /\ IsCycle(cycle[c])
      /\ FoundOut(cycle[c], users, groups, member, appointed, syncConfig.link)
  BY DEF SyncInv, CyclesHold, IsCycle
<1>2. None \notin DNs
  BY AccountsAssumption
<1>3. CASE PersonSought(c)
  <2>1. PICK e \in cycle[c].todo :
          LET taken == [cycle[c] EXCEPT !.todo = @ \ {e}, !.entry = e]
          IN \/ ReadStep(c, [taken EXCEPT !.pc = "name"])
             \/ \E u \in linkedTo(e.dn) : ReadStep(c, [taken EXCEPT !.pc = "update", !.row = u])
    BY <1>3 DEF PersonSought
  <2> DEFINE taken == [cycle[c] EXCEPT !.todo = @ \ {e}, !.entry = e]
  <2>2. e.dn \in DNs
    BY <1>1, <2>1 DEF IsCycle
  <2>3. CASE ReadStep(c, [taken EXCEPT !.pc = "name"])
    <3> DEFINE s == [taken EXCEPT !.pc = "name"]
    <3>1. IsCycle(s) /\ s.pc = "name"
      BY <1>1, <2>2 DEF IsCycle, CycleFields
    <3> HIDE DEF s
    <3>2. FoundOut(s, users, groups, member, appointed, syncConfig.link)
      BY <3>1 DEF FoundOut
    <3>3. QED BY <2>3, <3>1, <3>2, CycleReads DEF s
  <2>4. ASSUME NEW u \in linkedTo(e.dn), ReadStep(c, [taken EXCEPT !.pc = "update", !.row = u])
        PROVE  SyncInv' /\ Kept
    <3> DEFINE s == [taken EXCEPT !.pc = "update", !.row = u]
    <3>1. IsCycle(s) /\ s.pc = "update" /\ s.row = u
      BY <1>1, <2>2 DEF IsCycle, CycleFields
    <3>2. Linked(u, users)
      BY <1>2, <2>2, <2>4 DEF linkedTo, Linked
    <3> HIDE DEF s
    <3>3. FoundOut(s, users, groups, member, appointed, syncConfig.link)
      BY <3>1, <3>2 DEF FoundOut
    <3>4. QED BY <2>4, <3>1, <3>3, CycleReads DEF s
  <2>5. QED BY <2>1, <2>3, <2>4
<1>4. CASE NameSought(c)
  <2>1. cycle[c].pc = "name"
    BY <1>4 DEF NameSought, at
  <2>2. ASSUME NEW us, ReadStep(c, next(c, us))
        PROVE  SyncInv' /\ Kept
    BY <2>2, NextGoes, CycleGoesOn
  <2>3. ASSUME ReadStep(c, [cycle[c] EXCEPT !.pc = "insert"])
        PROVE  SyncInv' /\ Kept
    <3> DEFINE s == [cycle[c] EXCEPT !.pc = "insert"]
    <3>1. IsCycle(s) /\ s.pc = "insert"
      BY <1>1, <2>1 DEF IsCycle, CycleFields, EntryPhases
    <3> HIDE DEF s
    <3>2. FoundOut(s, users, groups, member, appointed, syncConfig.link)
      BY <3>1 DEF FoundOut
    <3>3. QED BY <2>3, <3>1, <3>2, CycleReads DEF s
  <2>4. ASSUME NEW u \in Present(users), users[u].username = cycle[c].entry.username,
               syncConfig.link, cycle[c].entry.username # ADMIN_USER,
               ReadStep(c, [cycle[c] EXCEPT !.pc = "mayLink", !.row = u])
        PROVE  SyncInv' /\ Kept
    <3> DEFINE s == [cycle[c] EXCEPT !.pc = "mayLink", !.row = u]
    <3>1. IsCycle(s) /\ s.pc = "mayLink" /\ s.row = u
      BY <1>1, <2>1 DEF IsCycle, CycleFields, EntryPhases
    <3>2. ~Initial(u, users)
      BY <2>4 DEF Initial
    <3> HIDE DEF s
    <3>3. FoundOut(s, users, groups, member, appointed, syncConfig.link)
      BY <2>4, <3>1, <3>2 DEF FoundOut
    <3>4. QED BY <2>4, <3>1, <3>3, CycleReads DEF s
  <2>5. QED BY <1>4, <2>2, <2>3, <2>4 DEF NameSought
<1>5. CASE LinkAllowed(c)
  <2>1. CASE cycle[c].row \in admins
    BY <1>5, <2>1, NextGoes, CycleGoesOn DEF LinkAllowed
  <2>2. CASE cycle[c].row \notin admins
    <3> DEFINE s == [cycle[c] EXCEPT !.pc = "link"]
    <3>1. ReadStep(c, s) /\ cycle[c].pc = "mayLink"
      BY <1>5, <2>2 DEF LinkAllowed, at
    <3>2. IsCycle(s) /\ s.pc = "link" /\ s.row = cycle[c].row
      BY <1>1, <3>1 DEF IsCycle, CycleFields, EntryPhases
    <3>3. \A g : ~HandBy(cycle[c].row, g, groups, member)
      <4>1. SUFFICES ASSUME NEW g, HandBy(cycle[c].row, g, groups, member) PROVE FALSE
        OBVIOUS
      <4>2. g \in Present(groups) /\ cycle[c].row \in UserIds
            /\ groups[g].name = ADMIN_GROUP /\ member[<<cycle[c].row, g>>] = "admin"
        BY <4>1 DEF HandBy, Present, SyncInv, TablesHold
      <4>3. None # "admin"
        BY AccountsAssumption
      <4>4. QED BY <2>2, <4>2, <4>3 DEF admins, groupsNamed
    <3> HIDE DEF s
    <3>4. FoundOut(s, users, groups, member, appointed, syncConfig.link)
      BY <1>1, <3>1, <3>2, <3>3 DEF FoundOut
    <3>5. QED BY <3>1, <3>2, <3>4, CycleReads
  <2>3. QED BY <2>1, <2>2
<1>6. CASE PersonRefused(c)
  BY <1>6, NextGoes, CycleGoesOn DEF PersonRefused
<1>7. QED BY <1>3, <1>4, <1>5, <1>6

LEMMA GroupReadSteps ==
  ASSUME SyncInv, NEW c \in Cycles, GroupSought(c) \/ MemberSought(c) \/ MembersCompared(c)
  PROVE  SyncInv' /\ Kept
<1>1. /\ cycle[c] = [f \in CycleFields |-> cycle[c][f]] /\ IsCycle(cycle[c])
      /\ FoundOut(cycle[c], users, groups, member, appointed, syncConfig.link)
  BY DEF SyncInv, CyclesHold, IsCycle
<1>2. None \notin DNs
  BY AccountsAssumption
<1>3. CASE GroupSought(c)
  <2>1. PICK e \in cycle[c].todo :
          /\ cycle[c].pc = "group"
          /\ LET taken == [cycle[c] EXCEPT !.todo = @ \ {e}, !.entry = e, !.pc = "groupSave"]
             IN \/ ReadStep(c, taken)
                \/ \E g \in groupLinkedTo(e.dn) : ReadStep(c, [taken EXCEPT !.row = g])
    BY <1>3 DEF GroupSought, at
  <2> DEFINE taken == [cycle[c] EXCEPT !.todo = @ \ {e}, !.entry = e, !.pc = "groupSave"]
  <2>2. e.dn \in DNs
    BY <1>1, <2>1 DEF IsCycle
  <2>3. CASE ReadStep(c, taken)
    <3>1. IsCycle(taken) /\ taken.pc = "groupSave" /\ taken.row = cycle[c].row
      BY <1>1, <2>2 DEF IsCycle, CycleFields
    <3>2. cycle[c].row = None
      BY <1>1, <2>1 DEF IsCycle
    <3> HIDE DEF taken
    <3>3. FoundOut(taken, users, groups, member, appointed, syncConfig.link)
      BY <3>1, <3>2 DEF FoundOut
    <3>4. QED BY <2>3, <3>1, <3>3, CycleReads
  <2>4. ASSUME NEW g \in groupLinkedTo(e.dn), ReadStep(c, [taken EXCEPT !.row = g])
        PROVE  SyncInv' /\ Kept
    <3> DEFINE s == [taken EXCEPT !.row = g]
    <3>1. IsCycle(s) /\ s.pc = "groupSave" /\ s.row = g
      BY <1>1, <2>2 DEF IsCycle, CycleFields
    <3>2. Linked(g, groups)
      BY <1>2, <2>2, <2>4 DEF groupLinkedTo, Linked
    <3> HIDE DEF s
    <3>3. FoundOut(s, users, groups, member, appointed, syncConfig.link)
      BY <3>1, <3>2 DEF FoundOut
    <3>4. QED BY <2>4, <3>1, <3>3, CycleReads DEF s
  <2>5. QED BY <2>1, <2>3, <2>4
<1>4. CASE MemberSought(c)
  <2>1. ASSUME NEW dn, NEW us, NEW s, cycle[c].pc = "members",
               s = [cycle[c] EXCEPT !.left = @ \ {dn}] \/ 
               s = [[cycle[c] EXCEPT !.left = @ \ {dn}] EXCEPT !.wanted = @ \cup us]
        PROVE  IsCycle(s) /\ s.pc = "members" /\ s.row = cycle[c].row
    BY <1>1, <2>1 DEF IsCycle, CycleFields, EntryPhases
  <2>2. ASSUME NEW s, IsCycle(s), s.pc = "members", s.row = cycle[c].row, ReadStep(c, s),
               cycle[c].pc = "members"
        PROVE  SyncInv' /\ Kept
    <3>1. FoundOut(s, users, groups, member, appointed, syncConfig.link)
      BY <1>1, <2>2 DEF FoundOut
    <3>2. QED BY <2>2, <3>1, CycleReads
  <2>3. QED BY <1>4, <2>1, <2>2 DEF MemberSought, at
<1>5. CASE MembersCompared(c)
  <2> DEFINE there == {u \in UserIds : member[<<u, cycle[c].row>>] # None}
             s == [cycle[c] EXCEPT !.wanted = @ \ there, !.drop = there \ cycle[c].wanted]
  <2>1. ReadStep(c, memberLoop(s)) /\ cycle[c].pc = "members"
    BY <1>5 DEF MembersCompared, at
  <2> HIDE DEF there
  <2>2. IsCycle(s) /\ s.row = cycle[c].row
    BY <1>1, <2>1 DEF IsCycle, CycleFields, EntryPhases
  <2> HIDE DEF s
  <2>3. CASE Goes(memberLoop(s))
    BY <2>1, <2>3, CycleGoesOn
  <2>4. CASE IsCycle(memberLoop(s)) /\ memberLoop(s).pc = "add" /\ memberLoop(s).row = s.row
    <3>1. FoundOut(memberLoop(s), users, groups, member, appointed, syncConfig.link)
      BY <1>1, <2>1, <2>2, <2>4 DEF FoundOut
    <3>2. QED BY <2>1, <2>4, <3>1, CycleReads
  <2>5. QED BY <2>2, <2>3, <2>4, MemberLoop
<1>6. QED BY <1>3, <1>4, <1>5

LEMMA RemovalReadSteps ==
  ASSUME SyncInv, NEW c \in Cycles, RemovalsListed(c)
  PROVE  SyncInv' /\ Kept
<1>1. cycle[c] = [f \in CycleFields |-> cycle[c][f]] /\ IsCycle(cycle[c])
  BY DEF SyncInv, CyclesHold, IsCycle
<1> DEFINE gone == {u \in Present(users) : users[u].dn # None} \ cycle[c].synced
           s == [cycle[c] EXCEPT !.drop = gone]
<1>2. ReadStep(c, removalLoop(s)) /\ cycle[c].pc = "removals"
  BY DEF RemovalsListed, at
<1>3. \A u \in gone : Linked(u, users)
  BY DEF Linked
<1> HIDE DEF gone
<1>4. IsCycle(s) /\ s.drop = gone
  BY <1>1, <1>2 DEF IsCycle, CycleFields, EntryPhases
<1> HIDE DEF s
<1>5. CASE Goes(removalLoop(s))
  BY <1>2, <1>5, CycleGoesOn
<1>6. CASE IsCycle(removalLoop(s)) /\ removalLoop(s).pc = "remove" /\ removalLoop(s).drop = s.drop
  <2>1. FoundOut(removalLoop(s), users, groups, member, appointed, syncConfig.link)
    BY <1>3, <1>4, <1>6 DEF FoundOut
  <2>2. QED BY <1>2, <1>6, <2>1, CycleReads
<1>7. QED BY <1>4, <1>5, <1>6, RemovalLoop

LEMMA AdminReadSteps ==
  ASSUME SyncInv, NEW c \in Cycles, AdminGroupSought(c) \/ AdminSought(c) \/ AdminsListed(c)
  PROVE  SyncInv' /\ Kept
<1>1. cycle[c] = [f \in CycleFields |-> cycle[c][f]] /\ IsCycle(cycle[c])
  BY DEF SyncInv, CyclesHold, IsCycle
<1>2. CASE AdminGroupSought(c)
  <2>1. Goes(finished(cycle[c]))
    BY IdleGoes DEF finished, Goes, IsCycle, CycleFields, EntryPhases, ActingPhases
  <2>2. ASSUME NEW g
        PROVE  Goes([cycle[c] EXCEPT !.pc = "admin", !.row = g, !.synced = {},
                                     !.todo = {e \in cycle[c].people : e.admin}])
    BY <1>1 DEF Goes, IsCycle, CycleFields, EntryPhases, ActingPhases
  <2>3. QED BY <1>2, <2>1, <2>2, CycleGoesOn DEF AdminGroupSought
<1>3. CASE AdminSought(c)
  <2>1. ASSUME NEW e, NEW u, cycle[c].pc = "admin"
        PROVE  /\ Goes([cycle[c] EXCEPT !.todo = @ \ {e}])
               /\ Goes([[cycle[c] EXCEPT !.todo = @ \ {e}] EXCEPT !.entry = u])
    BY <1>1, <2>1 DEF Goes, IsCycle, CycleFields, EntryPhases, ActingPhases
  <2>2. QED BY <1>3, <2>1, CycleGoesOn DEF AdminSought, at
<1>4. CASE AdminsListed(c)
  <2> DEFINE bySync == {u \in UserIds : member[<<u, cycle[c].row>>] = "sync"} \ cycle[c].synced
             s == [cycle[c] EXCEPT !.drop = bySync]
  <2>1. ReadStep(c, revokeLoop(s)) /\ cycle[c].pc = "admin"
    BY <1>4 DEF AdminsListed, at
  <2>2. \A u \in bySync : ~HandBy(u, cycle[c].row, groups, member)
    BY DEF HandBy
  <2> HIDE DEF bySync
  <2>3. IsCycle(s) /\ s.drop = bySync /\ s.row = cycle[c].row
    BY <1>1, <2>1 DEF IsCycle, CycleFields, EntryPhases
  <2> HIDE DEF s
  <2>4. CASE Goes(revokeLoop(s))
    BY <2>1, <2>4, CycleGoesOn
  <2>5. CASE /\ IsCycle(revokeLoop(s)) /\ revokeLoop(s).pc = "revoke"
             /\ revokeLoop(s).row = s.row /\ revokeLoop(s).drop = s.drop
    <3>1. FoundOut(revokeLoop(s), users, groups, member, appointed, syncConfig.link)
      BY <2>2, <2>3, <2>5 DEF FoundOut
    <3>2. QED BY <2>1, <2>5, <3>1, CycleReads
  <2>6. QED BY <2>3, <2>4, <2>5, RevokeLoop
<1>5. QED BY <1>2, <1>3, <1>4

-----------------------------------------------------------------------------
(* Steps that change a table.                                              *)
LEMMA TablesChange ==
  ASSUME SyncInv, TablesStay, TablesHold', UNCHANGED directory,
         NEW c \in Cycles, NEW s, cycle' = [cycle EXCEPT ![c] = s],
         \/ Goes(s)
         \/ IsCycle(s) /\ FoundOut(s, users', groups', member', appointed', syncConfig'.link)
  PROVE  SyncInv'
BY NothingFound, OneCycle DEF SyncInv

(* One row of the users.                                                   *)
LEMMA UserChanges ==
  ASSUME SyncInv, NEW u \in UserIds, NEW row, users' = [users EXCEPT ![u] = row],
         row = [f \in UserFields |-> row[f]], row.dn # None,
         UNCHANGED <<groups, member, changes, syncConfig, appointed>>
  PROVE  TablesStay /\ TablesHold'
<1>1. users' = [v \in UserIds |-> users'[v]] /\ users'[u] = row
      /\ \A v \in UserIds \ {u} : users'[v] = users[v]
  BY DEF SyncInv, TablesHold
<1>2. DOMAIN users' = UserIds /\ DOMAIN users = UserIds
  BY <1>1 DEF SyncInv, TablesHold
<1>3. TablesHold'
  BY <1>1, <1>2 DEF SyncInv, TablesHold, Present
<1>4. Linked(u, users')
  BY <1>1 DEF Linked
<1>5. TablesStay
  BY <1>1, <1>2, <1>4 DEF TablesStay, Linked, Initial
<1>6. QED BY <1>3, <1>5

LEMMA PersonSteps ==
  ASSUME SyncInv, NEW c \in Cycles,
         PersonUpdated(c) \/ PersonLinked(c) \/ PersonInserted(c) \/ PersonFailed(c)
  PROVE  SyncInv' /\ Kept
<1>1. /\ cycle[c] = [f \in CycleFields |-> cycle[c][f]] /\ IsCycle(cycle[c])
      /\ FoundOut(cycle[c], users, groups, member, appointed, syncConfig.link)
      /\ TablesHold
  BY DEF SyncInv, CyclesHold, IsCycle
<1>2. /\ UNCHANGED <<groups, member, changes, directory, syncConfig, appointed>>
      /\ \E us, names :
           \/ cycle' = [cycle EXCEPT ![c] = renamed(c, us, names)]
           \/ cycle' = [cycle EXCEPT ![c] = [next(c, us) EXCEPT !.clean = FALSE]]
  BY DEF next, PersonUpdated, PersonLinked, PersonInserted, PersonFailed, Others, accountVars
<1>3. ASSUME TablesStay, TablesHold'
      PROVE  SyncInv'
  BY <1>2, <1>3, RenamedGoes, NextGoes, TablesChange
<1>4. \A u \in Present(users) : byHand(u) => handKept(u)
  BY <1>2 DEF byHand, handKept, handAdmins
<1>5. CASE UNCHANGED users
  <2>1. TablesStay /\ Kept
    BY <1>1, <1>2, <1>5, TablesSame
  <2>2. TablesHold'
    BY <1>1, <1>2, <1>5 DEF TablesHold, Present
  <2>3. QED BY <1>3, <2>1, <2>2
<1>6. ASSUME NEW u \in UserIds, NEW row, users' = [users EXCEPT ![u] = row],
             row = [f \in UserFields |-> row[f]], row.dn # None,
             u \in Present(users) /\ users[u].dn = None => localKept(u)
      PROVE  SyncInv' /\ Kept
  <2>1. TablesStay /\ TablesHold'
    BY <1>2, <1>6, UserChanges
  <2>2. \A v \in UserIds \ {u} : users'[v] = users[v]
    BY <1>1, <1>6 DEF TablesHold
  <2>3. \A v \in Present(users) : users[v].dn = None => localKept(v)
    BY <1>1, <1>6, <2>2 DEF localKept, Present, TablesHold
  <2>4. QED BY <1>3, <1>4, <2>1, <2>3 DEF Kept
<1> DEFINE e == cycle[c].entry
           u == cycle[c].row
<1>7. CASE PersonUpdated(c) /\ u \in Present(users)
  <2> DEFINE row == [users[u] EXCEPT !.username = e.username, !.approved = TRUE]
  <2>1. u \in UserIds /\ users[u] = [f \in UserFields |-> users[u][f]] /\ users[u].dn # None
    BY <1>1, <1>7 DEF PersonUpdated, at, FoundOut, Linked, Present, TablesHold
  <2>2. row = [f \in UserFields |-> row[f]] /\ row.dn # None
    BY <2>1 DEF UserFields
  <2>3. users' = [users EXCEPT ![u] = row]
    <3>1. users' = [users EXCEPT ![u].username = e.username, ![u].approved = TRUE]
      BY <1>7 DEF PersonUpdated
    <3>2. QED BY <1>1, <2>1, <3>1 DEF TablesHold
  <2> HIDE DEF row, u, e
  <2>4. QED BY <1>6, <2>1, <2>2, <2>3
<1>8. CASE PersonLinked(c) /\ u \in Present(users)
  <2> DEFINE row == [users[u] EXCEPT !.dn = e.dn, !.approved = TRUE]
  <2>1. u \in UserIds /\ users[u] = [f \in UserFields |-> users[u][f]] /\ cycle[c].pc = "link"
    BY <1>1, <1>8 DEF PersonLinked, at, Present, TablesHold
  <2>2. e.dn # None
    BY <1>1, <2>1, AccountsAssumption DEF IsCycle, EntryPhases
  <2>3. row = [f \in UserFields |-> row[f]] /\ row.dn # None /\ row.dn = e.dn
    BY <2>1, <2>2 DEF UserFields
  <2>4. users' = [users EXCEPT ![u] = row]
    <3>1. users' = [users EXCEPT ![u].dn = e.dn, ![u].approved = TRUE]
      BY <1>8 DEF PersonLinked
    <3>2. QED BY <1>1, <2>1, <3>1 DEF TablesHold
  <2>5. ASSUME users[u].dn = None
        PROVE  localKept(u)
    <3>1. ~Linked(u, users)
      BY <1>1, <1>8, <2>1, <2>5 DEF Linked, Present, TablesHold
    <3>2. syncConfig.link /\ (u \in appointed \/ ~Initial(u, users))
          /\ (u \in appointed \/ \A g : ~HandBy(u, g, groups, member))
      BY <1>1, <2>1, <3>1 DEF FoundOut
    <3>3. u \notin initialAdmins \ appointed
      BY <1>8, <2>1, <3>2 DEF initialAdmins, Initial, Present
    <3>4. ~byHand(u)
      BY <1>1, <3>2, HandAdmins DEF byHand
    <3>5. users'[u] = [users[u] EXCEPT !.dn = users'[u].dn, !.approved = TRUE]
      <4>1. users'[u] = row
        BY <1>1, <2>1, <2>4 DEF TablesHold
      <4>2. QED BY <2>3, <4>1
    <3>6. QED BY <3>2, <3>3, <3>4, <3>5 DEF localKept
  <2> HIDE DEF row, u, e
  <2>6. QED BY <1>6, <2>1, <2>3, <2>4, <2>5
<1>9. CASE PersonInserted(c)
  <2> DEFINE new == freshId(users, held)
             row == [username |-> e.username, approved |-> TRUE, expired |-> FALSE, dn |-> e.dn]
  <2>1. new \in UserIds /\ users[new] = None
    <3>1. \E x \in DOMAIN users \ held : users[x] = None
      BY <1>9 DEF PersonInserted, idsSuffice
    <3>2. new \in DOMAIN users /\ users[new] = None
      BY <3>1 DEF freshId
    <3>3. QED BY <1>1, <3>2 DEF TablesHold
  <2>2. row = [f \in UserFields |-> row[f]] /\ row.dn = e.dn
    BY DEF UserFields
  <2>3. e.dn # None
    BY <1>1, <1>9, AccountsAssumption DEF PersonInserted, at, IsCycle, EntryPhases
  <2>4. users' = [users EXCEPT ![new] = row]
    BY <1>9 DEF PersonInserted
  <2>5. new \notin Present(users)
    BY <2>1 DEF Present
  <2> HIDE DEF new, row, e
  <2>6. QED BY <1>6, <2>1, <2>2, <2>3, <2>4, <2>5
<1>10. CASE PersonFailed(c)
  BY <1>5, <1>10 DEF PersonFailed, accountVars
<1>11. QED
  BY <1>5, <1>7, <1>8, <1>9, <1>10 DEF PersonUpdated, PersonLinked

(* Memberships: those by hand in a group that is not the directory's stay. *)
LEMMA MembersChange ==
  ASSUME SyncInv, NEW u, NEW g,
         \/ member' = joined(u, g)
         \/ member' = [member EXCEPT ![<<u, g>>] = None] /\
              (u \in appointed \/ ~HandBy(u, g, groups, member)),
         UNCHANGED <<users, groups, changes, syncConfig, appointed>>
  PROVE  TablesStay /\ TablesHold' /\ Kept
<1>1. TablesHold
  BY DEF SyncInv
<1>2. "sync" # "admin" /\ None # "admin"
  BY AccountsAssumption
<1>3. TablesHold'
  BY <1>1 DEF TablesHold, joined, Present
<1>4. ASSUME NEW v \in UserIds, NEW h \in GroupIds, member'[<<v, h>>] = "admin"
      PROVE  member[<<v, h>>] = "admin"
  BY <1>1, <1>2, <1>4 DEF TablesHold, joined
<1>5. TablesStay
  BY <1>4 DEF TablesStay, HandBy
<1>6. ASSUME NEW v, byHand(v)
      PROVE  \E h \in groupsNamed({ADMIN_GROUP}) : member'[<<v, h>>] = "admin"
  <2>1. PICK h : HandBy(v, h, groups, member) /\ v \notin appointed
    BY <1>1, <1>6, HandAdmins DEF byHand
  <2>2. h \in groupsNamed({ADMIN_GROUP}) /\ <<v, h>> \in UserIds \X GroupIds
    BY <1>1, <2>1 DEF HandBy, groupsNamed, Present, TablesHold
  <2>3. member[<<v, h>>] = "admin"
    BY <2>1 DEF HandBy
  <2>4. CASE member' = joined(u, g)
    <3>1. member'[<<v, h>>] = "admin"
      BY <1>1, <1>2, <2>2, <2>3, <2>4 DEF joined, TablesHold
    <3>2. QED BY <2>2, <3>1
  <2>5. CASE /\ member' = [member EXCEPT ![<<u, g>>] = None]
             /\ u \in appointed \/ ~HandBy(u, g, groups, member)
    <3>1. <<u, g>> # <<v, h>>
      BY <2>1, <2>5
    <3>2. member'[<<v, h>>] = "admin"
      BY <1>1, <2>2, <2>3, <2>5, <3>1 DEF TablesHold
    <3>3. QED BY <2>2, <3>2
  <2>6. QED BY <2>4, <2>5
<1>7. QED BY <1>3, <1>5, <1>6 DEF Kept, handKept, localKept

LEMMA MemberSteps ==
  ASSUME SyncInv, NEW c \in Cycles, MemberAdded(c) \/ MemberDropped(c)
  PROVE  SyncInv' /\ Kept
<1>1. /\ cycle[c] = [f \in CycleFields |-> cycle[c][f]] /\ IsCycle(cycle[c])
      /\ FoundOut(cycle[c], users, groups, member, appointed, syncConfig.link)
      /\ cycle[c].pc = "add"
  BY DEF SyncInv, CyclesHold, IsCycle, MemberAdded, MemberDropped, at
<1>2. UNCHANGED <<users, groups, changes, directory, syncConfig, appointed>>
  BY DEF MemberAdded, MemberDropped, Others
<1>3. Linked(cycle[c].row, groups)
  BY <1>1 DEF FoundOut
<1>4. \A v : ~HandBy(v, cycle[c].row, groups, member)
  BY <1>3 DEF Linked, HandBy, SyncInv, TablesHold
<1>5. CASE UNCHANGED member /\ cycle' = [cycle EXCEPT ![c] = groupLoop(cycle[c])]
  <2>1. TablesStay /\ Kept
    BY <1>2, <1>5, TablesSame DEF SyncInv
  <2>2. TablesHold'
    BY <1>2, <1>5 DEF SyncInv, TablesHold, Present
  <2>3. QED BY <1>1, <1>2, <1>5, <2>1, <2>2, GroupLoop, TablesChange
<1>6. ASSUME NEW s, IsCycle(s), s.row = cycle[c].row,
             cycle' = [cycle EXCEPT ![c] = memberLoop(s)], TablesStay, TablesHold'
      PROVE  SyncInv'
  <2>1. CASE Goes(memberLoop(s))
    BY <1>2, <1>6, <2>1, TablesChange
  <2>2. CASE IsCycle(memberLoop(s)) /\ memberLoop(s).pc = "add" /\ memberLoop(s).row = s.row
    <3>1. FoundOut(memberLoop(s), users', groups', member', appointed', syncConfig'.link)
      BY <1>2, <1>3, <1>6, <2>2 DEF FoundOut
    <3>2. QED BY <1>2, <1>6, <2>2, <3>1, TablesChange
  <2>3. QED BY <1>6, <2>1, <2>2, MemberLoop
<1>7. ASSUME NEW u, \/ cycle' = [cycle EXCEPT ![c] = memberLoop([cycle[c] EXCEPT !.wanted = @ \ {u}])]
                    \/ cycle' = [cycle EXCEPT ![c] = memberLoop([cycle[c] EXCEPT !.drop = @ \ {u}])],
             TablesStay, TablesHold'
      PROVE  SyncInv'
  <2>1. \E s : /\ s \in {[cycle[c] EXCEPT !.wanted = @ \ {u}], [cycle[c] EXCEPT !.drop = @ \ {u}]}
               /\ cycle' = [cycle EXCEPT ![c] = memberLoop(s)]
    BY <1>7
  <2>2. ASSUME NEW s \in {[cycle[c] EXCEPT !.wanted = @ \ {u}], [cycle[c] EXCEPT !.drop = @ \ {u}]}
        PROVE  IsCycle(s) /\ s.row = cycle[c].row
    BY <1>1, <2>2 DEF IsCycle, CycleFields, EntryPhases
  <2>3. QED BY <1>6, <1>7, <2>1, <2>2
<1>8. CASE MemberAdded(c)
  <2>1. PICK u : \/ /\ member' = joined(u, cycle[c].row)
                    /\ cycle' = [cycle EXCEPT ![c] = memberLoop([cycle[c] EXCEPT !.wanted = @ \ {u}])]
                 \/ UNCHANGED member /\ cycle' = [cycle EXCEPT ![c] = groupLoop(cycle[c])]
    BY <1>8 DEF MemberAdded
  <2>2. CASE member' = joined(u, cycle[c].row)
             /\ cycle' = [cycle EXCEPT ![c] = memberLoop([cycle[c] EXCEPT !.wanted = @ \ {u}])]
    <3>1. TablesStay /\ TablesHold' /\ Kept
      BY <1>2, <2>2, MembersChange
    <3>2. QED BY <1>7, <2>2, <3>1
  <2>3. QED BY <1>5, <2>1, <2>2
<1>9. CASE MemberDropped(c)
  <2>1. PICK u : /\ member' = [member EXCEPT ![<<u, cycle[c].row>>] = None]
                 /\ cycle' = [cycle EXCEPT ![c] = memberLoop([cycle[c] EXCEPT !.drop = @ \ {u}])]
    BY <1>9 DEF MemberDropped
  <2>2. TablesStay /\ TablesHold' /\ Kept
    BY <1>2, <1>4, <2>1, MembersChange
  <2>3. QED BY <1>7, <2>1, <2>2
<1>10. QED BY <1>8, <1>9

LEMMA AdminSteps ==
  ASSUME SyncInv, NEW c \in Cycles, AdminAdded(c) \/ AdminRevoked(c)
  PROVE  SyncInv' /\ Kept
<1>1. /\ cycle[c] = [f \in CycleFields |-> cycle[c][f]] /\ IsCycle(cycle[c])
      /\ FoundOut(cycle[c], users, groups, member, appointed, syncConfig.link)
  BY DEF SyncInv, CyclesHold, IsCycle
<1>2. UNCHANGED <<users, groups, changes, directory, syncConfig, appointed>>
  BY DEF AdminAdded, AdminRevoked, Others
<1>3. CASE AdminAdded(c)
  <2> DEFINE u == cycle[c].entry
             s == [cycle[c] EXCEPT !.entry = None, !.synced = @ \cup {u}]
  <2>1. Goes(s)
    BY <1>1, <1>3 DEF AdminAdded, at, Goes, IsCycle, CycleFields, EntryPhases, ActingPhases
  <2>2. CASE member' = joined(u, cycle[c].row)
             /\ cycle' = [cycle EXCEPT ![c].entry = None, ![c].synced = @ \cup {u}]
    <3>1. TablesStay /\ TablesHold' /\ Kept
      BY <1>2, <2>2, MembersChange
    <3>2. cycle' = [cycle EXCEPT ![c] = s]
      BY <2>2 DEF SyncInv, CyclesHold
    <3> HIDE DEF s
    <3>3. QED BY <1>2, <2>1, <3>1, <3>2, TablesChange
  <2>3. CASE cycle' = [cycle EXCEPT ![c] = Idle] /\ UNCHANGED member
    <3>1. TablesStay /\ Kept
      BY <1>2, <2>3, TablesSame DEF SyncInv
    <3>2. TablesHold'
      BY <1>2, <2>3 DEF SyncInv, TablesHold, Present
    <3>3. QED BY <1>2, <2>3, <3>1, <3>2, IdleGoes, TablesChange
  <2>4. QED BY <1>3, <2>2, <2>3 DEF AdminAdded
<1>4. CASE AdminRevoked(c)
  <2>1. PICK u \in cycle[c].drop :
          /\ cycle[c].pc = "revoke"
          /\ member' = [member EXCEPT ![<<u, cycle[c].row>>] = None]
          /\ cycle' = [cycle EXCEPT ![c] = revokeLoop([cycle[c] EXCEPT !.drop = @ \ {u}])]
    BY <1>4 DEF AdminRevoked, at
  <2> DEFINE s == [cycle[c] EXCEPT !.drop = @ \ {u}]
  <2>2. \A v \in cycle[c].drop : v \in appointed \/ ~HandBy(v, cycle[c].row, groups, member)
    BY <1>1, <2>1 DEF FoundOut
  <2>3. TablesStay /\ TablesHold' /\ Kept
    BY <1>2, <2>1, <2>2, MembersChange
  <2>4. IsCycle(s) /\ s.row = cycle[c].row /\ s.drop \subseteq cycle[c].drop
    BY <1>1, <2>1 DEF IsCycle, CycleFields, EntryPhases
  <2>5. cycle' = [cycle EXCEPT ![c] = revokeLoop(s)]
    BY <2>1
  <2> HIDE DEF s
  <2>6. \A v \in s.drop : v \in appointed' \/ ~HandBy(v, s.row, groups', member')
    BY <2>2, <2>3, <2>4 DEF TablesStay
  <2>7. CASE Goes(revokeLoop(s))
    BY <1>2, <2>3, <2>5, <2>7, TablesChange
  <2>8. CASE /\ IsCycle(revokeLoop(s)) /\ revokeLoop(s).pc = "revoke"
             /\ revokeLoop(s).row = s.row /\ revokeLoop(s).drop = s.drop
    <3>1. FoundOut(revokeLoop(s), users', groups', member', appointed', syncConfig'.link)
      BY <2>6, <2>8 DEF FoundOut
    <3>2. QED BY <1>2, <2>3, <2>5, <2>8, <3>1, TablesChange
  <2>9. QED BY <2>4, <2>7, <2>8, RevokeLoop
<1>5. QED BY <1>3, <1>4

(* One row of the groups.                                                  *)
LEMMA GroupChanges ==
  ASSUME SyncInv, NEW g \in GroupIds, NEW row, groups' = [groups EXCEPT ![g] = row],
         row = [f \in GroupFields |-> row[f]], row.dn # None,
         \A h \in Present(groups) \ {g} : groups[h].name # row.name,
         UNCHANGED <<users, member, changes, syncConfig, appointed>>
  PROVE  TablesStay /\ TablesHold' /\ Kept
<1>1. groups' = [h \in GroupIds |-> groups'[h]] /\ groups'[g] = row
      /\ \A h \in GroupIds \ {g} : groups'[h] = groups[h]
  BY DEF SyncInv, TablesHold
<1>2. DOMAIN groups' = GroupIds /\ DOMAIN groups = GroupIds
  BY <1>1 DEF SyncInv, TablesHold
<1>3. \A h \in Present(groups)' : h = g \/ (h \in Present(groups) /\ groups'[h] = groups[h])
  BY <1>1, <1>2 DEF Present
<1>4. TablesHold'
  <2>1. \A h, k \in Present(groups)' : groups'[h].name = groups'[k].name => h = k
    BY <1>1, <1>3 DEF SyncInv, TablesHold
  <2>2. ASSUME NEW h \in Present(groups)'
        PROVE  groups'[h] = [f \in GroupFields |-> groups'[h][f]]
    <3>1. CASE h = g
      BY <1>1, <3>1
    <3>2. CASE h # g
      <4>1. h \in Present(groups) /\ groups'[h] = groups[h]
        BY <1>3, <3>2
      <4>2. groups[h] = [f \in GroupFields |-> groups[h][f]]
        BY <4>1 DEF SyncInv, TablesHold
      <4>3. QED BY <4>1, <4>2
    <3>3. QED BY <3>1, <3>2
  <2>3. QED BY <1>1, <2>1, <2>2 DEF SyncInv, TablesHold, Present
<1>5. Linked(g, groups')
  BY <1>1 DEF Linked
<1>6. TablesStay
  <2>1. \A x : Linked(x, groups) => Linked(x, groups')
    BY <1>1, <1>2, <1>5 DEF Linked
  <2>2. \A u, h : HandBy(u, h, groups', member') => HandBy(u, h, groups, member)
    BY <1>1 DEF HandBy
  <2>3. QED BY <2>1, <2>2 DEF TablesStay
<1>7. Kept
  <2>1. \A u : localKept(u)
    BY DEF localKept
  <2>2. \A u : byHand(u) => handKept(u)
    BY DEF byHand, handKept, handAdmins
  <2>3. QED BY <2>1, <2>2 DEF Kept
<1>8. QED BY <1>4, <1>6, <1>7

LEMMA GroupSteps ==
  ASSUME SyncInv, NEW c \in Cycles, GroupSynced(c)
  PROVE  SyncInv' /\ Kept
<1>1. /\ cycle[c] = [f \in CycleFields |-> cycle[c][f]] /\ IsCycle(cycle[c])
      /\ FoundOut(cycle[c], users, groups, member, appointed, syncConfig.link)
      /\ TablesHold /\ cycle[c].pc = "groupSave"
  BY DEF SyncInv, CyclesHold, IsCycle, GroupSynced, at
<1>2. UNCHANGED <<users, member, changes, directory, syncConfig, appointed>>
  BY DEF GroupSynced
<1>3. None \notin GroupIds /\ None \notin DNs
  BY AccountsAssumption
<1> DEFINE e == cycle[c].entry
           g == IF cycle[c].row = None THEN freshId(groups, held) ELSE cycle[c].row
<1>4. e.dn # None
  BY <1>1, <1>3 DEF IsCycle, EntryPhases
<1>5. ASSUME UNCHANGED groups
      PROVE  TablesStay /\ TablesHold' /\ Kept
  <2>1. TablesStay /\ Kept
    BY <1>1, <1>2, <1>5, TablesSame
  <2>2. TablesHold'
    BY <1>1, <1>2, <1>5 DEF TablesHold, Present
  <2>3. QED BY <2>1, <2>2
<1>6. ASSUME cycle[c].row = None
      PROVE  g \in GroupIds /\ groups[g] = None
  <2>1. \E x \in DOMAIN groups \ held : groups[x] = None
    BY <1>6 DEF GroupSynced, idsSuffice
  <2>2. g \in DOMAIN groups /\ groups[g] = None
    BY <1>6, <2>1 DEF freshId
  <2>3. QED BY <1>1, <2>2 DEF TablesHold
<1>7. CASE groupNameTaken(e.name, cycle[c].row)
  <2>1. /\ UNCHANGED groups
        /\ cycle' = [cycle EXCEPT ![c] = [groupLoop(cycle[c]) EXCEPT !.clean = FALSE]]
    BY <1>7 DEF GroupSynced
  <2>2. ASSUME NEW x, Goes(x)
        PROVE  Goes([x EXCEPT !.clean = FALSE])
    <3>1. x = [f \in CycleFields |-> x[f]]
      BY <2>2 DEF Goes, IsCycle
    <3>2. QED BY <2>2, <3>1 DEF Goes, IsCycle, CycleFields, EntryPhases
  <2>3. Goes([groupLoop(cycle[c]) EXCEPT !.clean = FALSE])
    BY <1>1, <2>2, GroupLoop
  <2>4. QED BY <1>2, <1>5, <2>1, <2>3, TablesChange
<1>8. CASE ~groupNameTaken(e.name, cycle[c].row)
  <2> DEFINE what == {groups[h].name : h \in {g} \cap Present(groups)} \ {e.name}
             s == [cycle[c] EXCEPT !.pc = "members", !.row = g, !.left = e.members,
                                   !.lost = @ \cup what]
  <2>1. /\ cycle' = [cycle EXCEPT ![c] = s]
        /\ groups' =
             IF cycle[c].row = None
             THEN [groups EXCEPT ![g] = [name |-> e.name, autoAssign |-> FALSE, dn |-> e.dn]]
             ELSE IF g \in Present(groups) THEN [groups EXCEPT ![g].name = e.name]
             ELSE groups
    BY <1>8 DEF GroupSynced
  <2>2. \A h \in Present(groups) \ {g} : groups[h].name # e.name
    <3>1. \A h \in Present(groups) \ {cycle[c].row} : groups[h].name # e.name
      BY <1>8 DEF groupNameTaken
    <3>2. cycle[c].row = None => cycle[c].row \notin Present(groups)
      BY <1>1, <1>3 DEF Present, TablesHold
    <3>3. cycle[c].row # None => g = cycle[c].row
      OBVIOUS
    <3> HIDE DEF g, e
    <3>4. QED BY <3>1, <3>2, <3>3
  <2> HIDE DEF g, e, what
  <2>3. IsCycle(s) /\ s.pc = "members" /\ s.row = g
    BY <1>1 DEF IsCycle, CycleFields, EntryPhases
  <2>4. TablesStay /\ TablesHold' /\ Kept /\ Linked(g, groups')
    <3>1. CASE cycle[c].row = None
      <4> DEFINE row == [name |-> e.name, autoAssign |-> FALSE, dn |-> e.dn]
      <4>1. row = [f \in GroupFields |-> row[f]] /\ row.name = e.name /\ row.dn = e.dn
        BY DEF GroupFields
      <4>2. groups' = [groups EXCEPT ![g] = row]
        BY <2>1, <3>1
      <4> HIDE DEF row
      <4>3. TablesStay /\ TablesHold' /\ Kept
        BY <1>2, <1>4, <1>6, <2>2, <3>1, <4>1, <4>2, GroupChanges DEF e
      <4>4. Linked(g, groups')
        BY <1>1, <1>4, <1>6, <3>1, <4>1, <4>2 DEF Linked, TablesHold, e
      <4>5. QED BY <4>3, <4>4
    <3>2. CASE cycle[c].row # None /\ g \in Present(groups)
      <4> DEFINE row == [groups[g] EXCEPT !.name = e.name]
      <4>1. g = cycle[c].row
        BY <3>2 DEF g
      <4>2. /\ g \in GroupIds /\ groups[g].dn # None
            /\ groups[g] = [f \in GroupFields |-> groups[g][f]]
        BY <1>1, <3>2, <4>1 DEF FoundOut, Linked, Present, TablesHold
      <4>3. row = [f \in GroupFields |-> row[f]] /\ row.name = e.name /\ row.dn # None
        BY <4>2 DEF GroupFields
      <4>4. groups' = [groups EXCEPT ![g] = row]
        BY <1>1, <2>1, <3>2, <4>2 DEF TablesHold
      <4> HIDE DEF row
      <4>5. TablesStay /\ TablesHold' /\ Kept
        BY <1>2, <2>2, <4>2, <4>3, <4>4, GroupChanges
      <4>6. Linked(g, groups')
        BY <1>1, <4>2, <4>3, <4>4 DEF Linked, TablesHold
      <4>7. QED BY <4>5, <4>6
    <3>3. CASE cycle[c].row # None /\ g \notin Present(groups)
      <4>1. UNCHANGED groups
        BY <2>1, <3>3
      <4>2. Linked(g, groups')
        BY <1>1, <3>3, <4>1 DEF FoundOut, g
      <4>3. QED BY <1>5, <4>1, <4>2
    <3>4. QED BY <3>1, <3>2, <3>3, Zenon
  <2> HIDE DEF s
  <2>5. FoundOut(s, users', groups', member', appointed', syncConfig'.link)
    BY <2>3, <2>4 DEF FoundOut
  <2>6. QED BY <1>2, <2>1, <2>3, <2>4, <2>5, TablesChange
<1>9. QED BY <1>7, <1>8

LEMMA RemovalSteps ==
  ASSUME SyncInv, NEW c \in Cycles, UserRemoved(c)
  PROVE  SyncInv' /\ Kept
<1>1. /\ cycle[c] = [f \in CycleFields |-> cycle[c][f]] /\ IsCycle(cycle[c])
      /\ FoundOut(cycle[c], users, groups, member, appointed, syncConfig.link)
      /\ TablesHold
  BY DEF SyncInv, CyclesHold, IsCycle
<1>2. PICK u \in cycle[c].drop :
        /\ cycle[c].pc = "remove"
        /\ IF syncConfig.keep /\ u \in Present(users)
           THEN /\ users' = [users EXCEPT ![u].approved = FALSE, ![u].expired = TRUE]
                /\ UNCHANGED member
           ELSE users' = usersWithout({u}) /\ member' = membersWithout({u}, {})
        /\ \E what :
             cycle' = [cycle EXCEPT ![c] =
               removalLoop([cycle[c] EXCEPT !.drop = @ \ {u}, !.lost = @ \cup what])]
        /\ UNCHANGED <<groups, changes, directory, syncConfig, appointed>>
  BY DEF UserRemoved, at, Others
<1>3. \A v \in cycle[c].drop : Linked(v, users)
  BY <1>1, <1>2 DEF FoundOut
<1>4. TablesStay /\ TablesHold' /\ Kept
  <2>1. CASE syncConfig.keep /\ u \in Present(users)
    <3> DEFINE row == [users[u] EXCEPT !.approved = FALSE, !.expired = TRUE]
    <3>1. u \in UserIds /\ users[u].dn # None /\ users[u] = [f \in UserFields |-> users[u][f]]
      BY <1>1, <1>3, <2>1 DEF Linked, Present, TablesHold
    <3>2. row = [f \in UserFields |-> row[f]] /\ row.dn # None
      BY <3>1 DEF UserFields
    <3>3. users' = [users EXCEPT ![u] = row] /\ UNCHANGED member
      BY <1>1, <1>2, <2>1, <3>1 DEF TablesHold
    <3> HIDE DEF row
    <3>4. TablesStay /\ TablesHold'
      BY <1>2, <3>1, <3>2, <3>3, UserChanges
    <3>5. \A v \in Present(users) : users[v].dn = None => localKept(v)
      BY <1>1, <3>1, <3>3 DEF localKept, Present, TablesHold
    <3>6. \A v : byHand(v) => handKept(v)
      BY <3>3 DEF byHand, handKept, handAdmins
    <3>7. QED BY <3>4, <3>5, <3>6 DEF Kept
  <2>2. CASE users' = usersWithout({u}) /\ member' = membersWithout({u}, {})
    <3>1. /\ DOMAIN users = UserIds /\ DOMAIN users' = UserIds
          /\ users' = [v \in UserIds |-> users'[v]]
          /\ member' = [m \in UserIds \X GroupIds |-> member'[m]]
          /\ \A v \in UserIds : users'[v] = IF v = u THEN None ELSE users[v]
          /\ \A v \in UserIds, g \in GroupIds :
               member'[<<v, g>>] = IF v = u THEN None ELSE member[<<v, g>>]
      BY <1>1, <2>2 DEF usersWithout, membersWithout, TablesHold
    <3>2. TablesHold'
      BY <1>1, <1>2, <3>1 DEF TablesHold, Present
    <3>3. TablesStay
      BY <1>2, <3>1, AccountsAssumption DEF TablesStay, Linked, Initial, HandBy
    <3>4. \A v \in Present(users) : users[v].dn = None => localKept(v)
      BY <1>3, <3>1 DEF localKept, Present, Linked
    <3>5. \A v : byHand(v) => handKept(v)
      BY <1>1, <3>1 DEF byHand, handKept, handAdmins, Present, groupsNamed, TablesHold
    <3>6. QED BY <3>2, <3>3, <3>4, <3>5 DEF Kept
  <2>3. QED BY <1>2, <2>1, <2>2
<1>6. PICK what : cycle' = [cycle EXCEPT ![c] =
                     removalLoop([cycle[c] EXCEPT !.drop = @ \ {u}, !.lost = @ \cup what])]
  BY <1>2
<1> DEFINE s == [cycle[c] EXCEPT !.drop = @ \ {u}, !.lost = @ \cup what]
<1>5. IsCycle(s) /\ s.drop \subseteq cycle[c].drop
  BY <1>1, <1>2 DEF IsCycle, CycleFields, EntryPhases
<1> HIDE DEF s
<1>7. \A v \in s.drop : Linked(v, users')
  BY <1>3, <1>4, <1>5 DEF TablesStay
<1>8. CASE Goes(removalLoop(s))
  BY <1>2, <1>4, <1>6, <1>8, TablesChange DEF s
<1>9. CASE IsCycle(removalLoop(s)) /\ removalLoop(s).pc = "remove" /\ removalLoop(s).drop = s.drop
  <2>1. FoundOut(removalLoop(s), users', groups', member', appointed', syncConfig'.link)
    BY <1>7, <1>9 DEF FoundOut
  <2>2. QED BY <1>2, <1>4, <1>6, <1>9, <2>1, TablesChange DEF s
<1>10. QED BY <1>4, <1>5, <1>8, <1>9, RemovalLoop

-----------------------------------------------------------------------------
(* Steps of others, of which cycles in their middle hear nothing.          *)
LEMMA Undisturbed ==
  ASSUME SyncInv, TablesStay, cycle' = disturbed
  PROVE  CyclesHold'
<1>1. SUFFICES ASSUME NEW c \in Cycles
               PROVE  /\ IsCycle(cycle'[c])
                      /\ FoundOut(cycle'[c], users', groups', member', appointed', syncConfig'.link)
  BY DEF disturbed, CyclesHold
<1>2. /\ IsCycle(cycle[c]) /\ cycle[c] = [f \in CycleFields |-> cycle[c][f]]
      /\ FoundOut(cycle[c], users', groups', member', appointed', syncConfig'.link)
  BY StillFoundOut DEF SyncInv, CyclesHold, IsCycle
<1> DEFINE s == cycle[c]
           t == [s EXCEPT !.clean = FALSE]
<1>3. cycle'[c] = t
  BY DEF disturbed
<1> HIDE DEF s
<1>4. /\ t = [f \in CycleFields |-> t[f]] /\ t.todo = s.todo /\ t.people = s.people
      /\ t.groups = s.groups /\ t.pc = s.pc /\ t.entry = s.entry /\ t.row = s.row
      /\ t.drop = s.drop
  BY <1>2 DEF CycleFields, s
<1> HIDE DEF t
<1>5. IsCycle(t)
  BY <1>2, <1>4 DEF IsCycle, s
<1>6. FoundOut(t, users', groups', member', appointed', syncConfig'.link)
  BY <1>2, <1>4 DEF FoundOut, s
<1>7. QED BY <1>3, <1>5, <1>6

LEMMA DirectorySteps ==
  ASSUME SyncInv, DirectoryChanged
  PROVE  SyncInv' /\ Kept
<1>1. /\ UNCHANGED <<users, groups, member, changes, syncConfig, appointed>>
      /\ cycle' = disturbed /\ directory' \in DirectoryStates
  BY DEF DirectoryChanged, accountVars
<1>2. TablesStay /\ Kept
  BY <1>1, TablesSame DEF SyncInv
<1>3. TablesHold'
  BY <1>1 DEF SyncInv, TablesHold, Present
<1>4. QED BY <1>1, <1>2, <1>3, Undisturbed DEF SyncInv

LEMMA EndSteps ==
  ASSUME SyncInv, NEW c \in Cycles, CycleFailed(c)
  PROVE  SyncInv' /\ Kept
<1>1. /\ UNCHANGED <<users, groups, member, changes, directory, syncConfig, appointed>>
      /\ cycle' = [cycle EXCEPT ![c] = Idle]
  BY DEF CycleFailed, accountVars
<1>2. TablesStay /\ Kept
  BY <1>1, TablesSame DEF SyncInv
<1>3. TablesHold'
  BY <1>1 DEF SyncInv, TablesHold, Present
<1>4. QED BY <1>1, <1>2, <1>3, IdleGoes, TablesChange

(* The first of the cycles under way forgets who was appointed before.     *)
LEMMA StartSteps ==
  ASSUME SyncInv, NEW c \in Cycles, CycleStarted(c)
  PROVE  SyncInv' /\ Kept
<1> DEFINE s == [Idle EXCEPT !.pc = "search", !.people = directory.people,
                             !.clean = \A other \in Cycles \ {c} : ~underWay(other)]
           app == {u \in appointed : \E other \in Cycles : underWay(other)}
<1>1. /\ UNCHANGED <<users, groups, member, changes, directory, syncConfig>>
      /\ cycle' = [disturbed EXCEPT ![c] = s] /\ appointed' = app
  BY DEF CycleStarted, accountVars
<1>2. TablesHold'
  BY <1>1 DEF SyncInv, TablesHold, Present
<1>3. Kept
  <2>1. \A u : localKept(u)
    BY <1>1 DEF localKept
  <2>2. \A u : byHand(u) => handKept(u)
    BY <1>1 DEF byHand, handKept, handAdmins
  <2>3. QED BY <2>1, <2>2 DEF Kept
<1>4. Goes(s)
  <2>1. \A e \in directory.people : e.dn \in DNs
    BY SyncAssumption DEF SyncInv
  <2>2. QED BY <2>1 DEF Idle, Goes, IsCycle, CycleFields, EntryPhases, ActingPhases
<1> HIDE DEF s
<1>5. ASSUME NEW d \in Cycles
      PROVE  LET t == [cycle[d] EXCEPT !.clean = FALSE]
             IN IsCycle(t) /\ FoundOut(t, users', groups', member', appointed', syncConfig'.link)
  <2> DEFINE old == cycle[d]
             t == [old EXCEPT !.clean = FALSE]
  <2>1. IsCycle(old) /\ old = [f \in CycleFields |-> old[f]]
        /\ FoundOut(old, users, groups, member, appointed, syncConfig.link)
    BY DEF SyncInv, CyclesHold, IsCycle
  <2>2. underWay(d) => appointed' = appointed
    BY <1>1
  <2>3. ~underWay(d) => old.pc \notin ActingPhases
    BY DEF underWay, ActingPhases
  <2> HIDE DEF old
  <2>4. /\ t = [f \in CycleFields |-> t[f]] /\ t.todo = old.todo /\ t.people = old.people
        /\ t.groups = old.groups /\ t.pc = old.pc /\ t.entry = old.entry /\ t.row = old.row
        /\ t.drop = old.drop
    BY <2>1 DEF CycleFields
  <2> HIDE DEF t, app
  <2>5. IsCycle(t)
    BY <2>1, <2>4 DEF IsCycle
  <2>6. FoundOut(t, users', groups', member', appointed', syncConfig'.link)
    <3>1. CASE underWay(d)
      BY <1>1, <2>1, <2>2, <2>4, <3>1 DEF FoundOut
    <3>2. CASE ~underWay(d)
      BY <2>3, <2>4, <3>2 DEF FoundOut, ActingPhases
    <3>3. QED BY <3>1, <3>2
  <2>7. QED BY <2>5, <2>6 DEF t, old
<1>6. IsCycle(s) /\ FoundOut(s, users', groups', member', appointed', syncConfig'.link)
  BY <1>4, NothingFound
<1>7. /\ cycle' = [d \in Cycles |-> cycle'[d]] /\ cycle'[c] = s
      /\ \A d \in Cycles \ {c} : cycle'[d] = [cycle[d] EXCEPT !.clean = FALSE]
  BY <1>1 DEF disturbed
<1>8. CyclesHold'
  BY <1>5, <1>6, <1>7 DEF CyclesHold
<1>9. QED BY <1>1, <1>2, <1>3, <1>8 DEF SyncInv

(***************************************************************************)
(* What an administrator saves: of the users, no one changes sides; of the *)
(* groups, one at most is saved or deleted, and a new one is not one that  *)
(* a cycle holds.                                                          *)
(***************************************************************************)
UsersSaved ==
  /\ users' = [u \in UserIds |-> users'[u]]
  /\ \A u \in UserIds :
       users'[u] # None =>
         /\ users[u] # None /\ users'[u].dn = users[u].dn
         /\ users'[u] = [f \in UserFields |-> users'[u][f]]

GroupReplaced(g, row) ==
  /\ groups' = [groups EXCEPT ![g] = row]
  /\ row # None =>
       /\ row = [f \in GroupFields |-> row[f]]
       /\ \A h \in Present(groups) \ {g} : groups[h].name # row.name
       /\ g \in held => groups[g] # None /\ row.dn = groups[g].dn

GroupsSaved == UNCHANGED groups \/ \E g \in GroupIds : \E row : GroupReplaced(g, row)

MembersSaved == member' = [m \in UserIds \X GroupIds |-> member'[m]]

LEMMA AdministratorsSave ==
  ASSUME TablesHold, NEW me, AccountsSaved(me, held)
  PROVE  UsersSaved /\ GroupsSaved /\ MembersSaved /\ changes' = changes + 1
<1>1. UNCHANGED users => UsersSaved
  BY DEF TablesHold, UsersSaved, Present
<1>2. UNCHANGED member => MembersSaved
  BY DEF TablesHold, MembersSaved
<1>3. ASSUME NEW update, UserPatched(me, update)
      PROVE  UsersSaved /\ UNCHANGED groups /\ MembersSaved /\ changes' = changes + 1
  <2> DEFINE u == update.id
             row == [users[u] EXCEPT !.username = update.username, !.approved = update.approved,
                                     !.expired = update.expired]
  <2>1. u \in UserIds /\ users[u] # None /\ users[u] = [f \in UserFields |-> users[u][f]]
    BY <1>3 DEF UserPatched, TablesHold, Present
  <2>2. users' = [users EXCEPT ![u] = row]
    <3>1. users' = [users EXCEPT ![u].username = update.username, ![u].approved = update.approved,
                                 ![u].expired = update.expired]
      BY <1>3 DEF UserPatched
    <3>2. QED BY <2>1, <3>1 DEF TablesHold
  <2>3. row = [f \in UserFields |-> row[f]] /\ row.dn = users[u].dn
    BY <2>1 DEF UserFields
  <2> HIDE DEF row, u
  <2>4. UsersSaved
    <3>1. users'[u] = row /\ \A v \in UserIds \ {u} : users'[v] = users[v]
      BY <2>1, <2>2 DEF TablesHold
    <3>2. users' = [v \in UserIds |-> users'[v]]
      BY <2>2 DEF TablesHold
    <3>3. \A v \in UserIds : users[v] # None => users[v] = [f \in UserFields |-> users[v][f]]
      BY DEF TablesHold, Present
    <3>4. QED BY <2>1, <2>3, <3>1, <3>2, <3>3 DEF UsersSaved
  <2>5. QED BY <1>3, <2>4 DEF UserPatched, AdminSaves, membership, MembersSaved
<1>4. ASSUME NEW us, UsersApproved(me, us)
      PROVE  UsersSaved /\ UNCHANGED groups /\ MembersSaved /\ changes' = changes + 1
  <2>1. ASSUME NEW u \in UserIds, users'[u] # None
        PROVE  /\ users[u] # None /\ users'[u].dn = users[u].dn
               /\ users'[u] = [f \in UserFields |-> users'[u][f]]
    <3>1. users'[u] = IF u \in us \cap Present(users) THEN [users[u] EXCEPT !.approved = TRUE]
                      ELSE users[u]
      BY <1>4 DEF UsersApproved
    <3>2. users[u] # None
      BY <2>1, <3>1 DEF Present
    <3>3. users[u] = [f \in UserFields |-> users[u][f]]
      BY <3>2 DEF TablesHold, Present
    <3>4. QED BY <3>1, <3>2, <3>3 DEF UserFields
  <2>2. users' = [u \in UserIds |-> users'[u]]
    BY <1>4 DEF UsersApproved
  <2>3. QED BY <1>2, <1>4, <2>1, <2>2 DEF UsersApproved, AdminSaves, UsersSaved
<1>5. ASSUME NEW us, UsersDeleted(me, us)
      PROVE  UsersSaved /\ UNCHANGED groups /\ MembersSaved /\ changes' = changes + 1
  BY <1>5
  DEF UsersDeleted, AdminSaves, usersWithout, membersWithout, UsersSaved, MembersSaved,
      TablesHold, Present
<1>6. ASSUME NEW upsert, GroupSaved(me, upsert, held)
      PROVE  UNCHANGED users /\ GroupsSaved /\ MembersSaved /\ changes' = changes + 1
  <2> DEFINE g == IF upsert.id = None THEN freshId(groups, held) ELSE upsert.id
             dn == IF upsert.id = None THEN None ELSE groups[g].dn
             row == [name |-> upsert.name, dn |-> dn, autoAssign |-> upsert.autoAssign]
  <2>1. groups' = [groups EXCEPT ![g] = row]
    BY <1>6 DEF GroupSaved
  <2>2. row = [f \in GroupFields |-> row[f]] /\ row.name = upsert.name /\ row.dn = dn
    BY DEF GroupFields
  <2>3. /\ g \in GroupIds
        /\ upsert.id = None => g \notin held
        /\ upsert.id # None => g = upsert.id /\ groups[g] # None
    <3>1. CASE upsert.id = None
      <4>1. \E x \in DOMAIN groups \ held : groups[x] = None
        BY <1>6, <3>1 DEF GroupSaved, idsSuffice
      <4>2. g \in DOMAIN groups \ held
        BY <3>1, <4>1 DEF freshId
      <4>3. QED BY <3>1, <4>2 DEF TablesHold
    <3>2. CASE upsert.id # None
      BY <1>6, <3>2 DEF GroupSaved, Present, TablesHold
    <3>3. QED BY <3>1, <3>2
  <2>4. \A h \in Present(groups) \ {g} : groups[h].name # upsert.name
    <3>1. \A h \in Present(groups) \ {upsert.id} : groups[h].name # upsert.name
      BY <1>6 DEF GroupSaved, groupNameTaken
    <3>2. upsert.id = None => upsert.id \notin Present(groups)
      BY AccountsAssumption DEF Present, TablesHold
    <3> HIDE DEF g
    <3>3. QED BY <2>3, <3>1, <3>2
  <2>5. g \in held => groups[g] # None /\ dn = groups[g].dn
    BY <2>3
  <2> HIDE DEF g, row, dn
  <2>6. GroupReplaced(g, row)
    BY <2>1, <2>2, <2>4, <2>5 DEF GroupReplaced
  <2>7. MembersSaved
    BY <1>6 DEF GroupSaved, membership, MembersSaved
  <2>8. QED BY <1>6, <2>3, <2>6, <2>7 DEF GroupSaved, AdminSaves, GroupsSaved
<1>7. ASSUME NEW g \in GroupIds, GroupDeleted(me, g)
      PROVE  UNCHANGED users /\ GroupsSaved /\ MembersSaved /\ changes' = changes + 1
  <2>1. GroupReplaced(g, None)
    BY <1>7 DEF GroupDeleted, GroupReplaced
  <2>2. MembersSaved
    BY <1>7 DEF GroupDeleted, membersWithout, MembersSaved
  <2>3. QED BY <1>7, <2>1, <2>2 DEF GroupDeleted, AdminSaves, GroupsSaved
<1>8. QED
  BY <1>1, <1>3, <1>4, <1>5, <1>6, <1>7 DEF AccountsSaved, GroupsSaved

LEMMA MeanwhileSteps ==
  ASSUME SyncInv, AdminMeanwhile
  PROVE  SyncInv' /\ changes' # changes
<1>1. /\ UsersSaved /\ GroupsSaved /\ MembersSaved /\ changes' = changes + 1
      /\ cycle' = disturbed /\ UNCHANGED <<directory, syncConfig>>
      /\ appointed' = appointed \cup (handAdmins' \ handAdmins) \cup (initialAdmins' \ initialAdmins)
      /\ TablesHold
  <2>1. PICK me : AccountsSaved(me, held)
    BY DEF AdminMeanwhile
  <2>2. QED BY <2>1, AdministratorsSave DEF AdminMeanwhile, SyncInv
<1>2. \A g \in Present(groups)' : groups'[g] = [f \in GroupFields |-> groups'[g][f]]
  <2>1. CASE UNCHANGED groups
    BY <1>1, <2>1 DEF TablesHold, Present
  <2>2. ASSUME NEW g \in GroupIds, NEW row, GroupReplaced(g, row), NEW h \in Present(groups)'
        PROVE  groups'[h] = [f \in GroupFields |-> groups'[h][f]]
    <3>1. groups'[g] = row /\ \A k \in GroupIds \ {g} : groups'[k] = groups[k]
      BY <1>1, <2>2 DEF GroupReplaced, TablesHold
    <3>2. h \in GroupIds /\ groups'[h] # None
      BY <1>1, <2>2 DEF GroupReplaced, Present, TablesHold
    <3>3. CASE h = g
      BY <2>2, <3>1, <3>2, <3>3 DEF GroupReplaced
    <3>4. CASE h # g
      <4>1. groups'[h] = groups[h] /\ h \in Present(groups)
        BY <1>1, <3>1, <3>2, <3>4 DEF Present, TablesHold
      <4>2. QED BY <1>1, <4>1 DEF TablesHold
    <3>5. QED BY <3>3, <3>4
  <2>3. QED BY <1>1, <2>1, <2>2 DEF GroupsSaved
<1>3. \A g, h \in Present(groups)' : groups'[g].name = groups'[h].name => g = h
  BY <1>1 DEF GroupsSaved, GroupReplaced, TablesHold, Present
<1>4. TablesHold'
  <2>1. groups' = [g \in GroupIds |-> groups'[g]]
    BY <1>1 DEF GroupsSaved, GroupReplaced, TablesHold
  <2>2. \A u \in Present(users)' : users'[u] = [f \in UserFields |-> users'[u][f]]
    BY <1>1 DEF UsersSaved, Present
  <2>3. QED BY <1>1, <1>2, <1>3, <2>1, <2>2 DEF TablesHold, UsersSaved, MembersSaved
<1>5. \A u : Linked(u, users) => Linked(u, users')
  BY <1>1 DEF Linked, UsersSaved, TablesHold
<1>6. \A c \in Cycles : Linked(cycle[c].row, groups) => Linked(cycle[c].row, groups')
  <2>1. \A c \in Cycles : cycle[c].row \in held
    BY DEF held
  <2>2. QED BY <1>1, <2>1 DEF Linked, GroupsSaved, GroupReplaced, TablesHold
<1>7. \A u : Initial(u, users') => Initial(u, users) \/ u \in appointed'
  BY <1>1, <1>4 DEF Initial, initialAdmins, Present, TablesHold
<1>8. ASSUME NEW u, NEW g, HandBy(u, g, groups', member'), u \notin appointed'
      PROVE  HandBy(u, g, groups, member)
  <2>1. u \in handAdmins'
    BY <1>4, <1>8 DEF handAdmins, groupsNamed, HandBy, Present, TablesHold
  <2>2. u \in handAdmins
    BY <1>1, <1>8, <2>1
  <2>3. PICK h : HandBy(u, h, groups, member)
    BY <1>1, <2>2, HandAdmins
  <2>4. h = g
    <3>1. CASE UNCHANGED groups
      BY <1>1, <1>8, <2>3, <3>1 DEF HandBy, TablesHold, Present
    <3>2. ASSUME NEW k \in GroupIds, NEW row, GroupReplaced(k, row)
          PROVE  h = g
      <4>1. groups'[k] = row /\ \A x \in GroupIds \ {k} : groups'[x] = groups[x]
        BY <1>1, <3>2 DEF GroupReplaced, TablesHold
      <4>2. h \in Present(groups) /\ groups[h].name = ADMIN_GROUP
        BY <1>1, <2>3 DEF HandBy, Present, TablesHold
      <4>3. g \in GroupIds /\ groups'[g] # None /\ groups'[g].name = ADMIN_GROUP
        BY <1>8 DEF HandBy
      <4>4. CASE g = k
        BY <3>2, <4>1, <4>2, <4>3, <4>4 DEF GroupReplaced
      <4>5. CASE g # k
        <5>1. g \in Present(groups) /\ groups[g].name = ADMIN_GROUP
          BY <1>1, <4>1, <4>3, <4>5 DEF Present, TablesHold
        <5>2. QED BY <1>1, <4>2, <5>1 DEF TablesHold
      <4>6. QED BY <4>4, <4>5
    <3>3. QED BY <1>1, <3>1, <3>2 DEF GroupsSaved
  <2>5. QED BY <2>3, <2>4
<1>9. TablesStay
  BY <1>1, <1>5, <1>6, <1>7, <1>8 DEF TablesStay
<1>10. changes' # changes
  BY <1>1 DEF TablesHold
<1>11. QED BY <1>1, <1>4, <1>9, <1>10, Undisturbed DEF SyncInv

LEMMA SyncInductive ==
  ASSUME SyncInv, [SyncNext]_<<accountVars, syncVars>>
  PROVE  SyncInv' /\ cycleKeeps
<1>1. Kept => cycleKeeps
  BY DEF Kept, cycleKeeps
<1>2. ASSUME NEW c \in Cycles, CycleStep(c)
      PROVE  SyncInv' /\ Kept
  BY <1>2, StartSteps, FetchSteps, PersonReadSteps, PersonSteps, GroupReadSteps, GroupSteps,
     MemberSteps, RemovalReadSteps, RemovalSteps, AdminReadSteps, AdminSteps, EndSteps
  DEF CycleStep
<1>3. CASE DirectoryChanged
  BY <1>1, <1>3, DirectorySteps
<1>4. CASE AdminMeanwhile
  BY <1>4, MeanwhileSteps DEF cycleKeeps
<1>5. CASE UNCHANGED <<accountVars, syncVars>>
  <2>1. UNCHANGED <<users, groups, member, changes, directory, syncConfig, cycle, appointed>>
    BY <1>5 DEF accountVars, syncVars
  <2>2. TablesStay /\ Kept
    BY <2>1, TablesSame DEF SyncInv
  <2>3. TablesHold'
    BY <2>1 DEF SyncInv, TablesHold, Present
  <2>4. CyclesHold'
    BY <2>1, <2>2, StillFoundOut DEF SyncInv, CyclesHold
  <2>5. QED BY <1>1, <2>1, <2>2, <2>3, <2>4 DEF SyncInv
<1>6. QED BY <1>1, <1>2, <1>3, <1>4, <1>5 DEF SyncNext

(***************************************************************************)
(* Local accounts, the initial administrator and administrators appointed  *)
(* by hand are safe from the synchronisation, for any directory, accounts  *)
(* and number of cycles under way at once.                                 *)
(***************************************************************************)
THEOREM LocalAccountsUntouchedHolds == SyncSpec => LocalAccountsUntouched
<1>1. AccountsInit /\ SyncInit => SyncInv
  <2>1. SUFFICES ASSUME AccountsInit, SyncInit
                 PROVE  SyncInv
    OBVIOUS
  <2>2. TablesHold
    <3>1. \A u \in Present(users) : users[u] = [f \in UserFields |-> users[u][f]]
      BY <2>1 DEF AccountsInit, AccountsTypeOK, UserRecord, UserFields
    <3>2. \A g \in Present(groups) : groups[g] = [f \in GroupFields |-> groups[g][f]]
      BY <2>1 DEF AccountsInit, AccountsTypeOK, GroupRecord, GroupFields
    <3>3. QED BY <2>1, <3>1, <3>2 DEF AccountsInit, TablesHold
  <2>3. CyclesHold
    <3>1. cycle = [c \in Cycles |-> Idle]
      BY <2>1 DEF SyncInit
    <3>2. QED BY <3>1, IdleGoes, NothingFound DEF CyclesHold
  <2>4. QED BY <2>1, <2>2, <2>3 DEF SyncInit, SyncInv
<1>2. SyncInv /\ [SyncNext]_<<accountVars, syncVars>> => SyncInv'
  BY SyncInductive
<1>3. SyncInv /\ [SyncNext]_<<accountVars, syncVars>> => [cycleKeeps]_<<accountVars, syncVars>>
  BY SyncInductive
<1>4. QED BY <1>1, <1>2, <1>3, PTL DEF SyncSpec, LocalAccountsUntouched
=============================================================================
