-------------------------- MODULE MCAdministration --------------------------
(* One instance of everything an administrator and the clock change. A run *)
(* is about one of its parts, and the variables of the others stand still. *)
EXTENDS LdapSync, Registration, ProxyAuth, KeyLifecycle, Settings, DeclaredClients, WildcardDomains, TLC

CONSTANTS u1, u2, u3, u4, u5, g1, g2, g3, i1, i2, root, ann, bob, bea, d1, d2, dg, staff, crew, auth_admins,
  own, abroad, site, other, exact, wild, r1, r2, j1, j2, j3, j4, k1, k2, k3, k4, claim, claim2, app, api, c1, c2, ours, theirs, yes

VARIABLE part       \* which of the eight the run is about, chosen at the start

account(name, dn) == [username |-> name, approved |-> TRUE, expired |-> FALSE, dn |-> dn]
person(dn, name, admin) == [dn |-> dn, username |-> name, admin |-> admin]
team(members) == [dn |-> dg, name |-> staff, members |-> members]

Before == [people |-> {person(d1, ann, FALSE), person(d2, bob, TRUE)}, groups |-> {team({d2})}]
After == [people |-> {person(d1, bea, TRUE)}, groups |-> {team({d1})}]

(* Names handed from one entry to another, all in one group; and a group   *)
(* with the name of the administrators', of whom no one else is left.      *)
Handed == [people |-> {person(d1, bob, TRUE), person(d2, bea, FALSE)}, groups |-> {team({d1, d2})}]
Ruled == [people |-> {person(d1, ann, FALSE)},
          groups |-> {[dn |-> dg, name |-> auth_admins, members |-> {d1}]}]
MCDirectoryStates == {Before, After, Handed, Ruled}

MCSyncConfigs == [keep : BOOLEAN, link : BOOLEAN]

update(id, name, names) ==
  [id |-> id, username |-> name, approved |-> TRUE, expired |-> FALSE, groups |-> names]

MCUserUpdates == {update(u2, ann, {auth_admins}), update(u3, bob, {auth_admins}), update(u3, bob, {})}
MCManyUsers == {{u2}, {u3}, {u2, u4}}
(* A new group, and the group of the administrators under another name.    *)
MCGroupUpserts ==
  {[id |-> None, name |-> staff, autoAssign |-> TRUE, users |-> {u2}],
   [id |-> g1, name |-> crew, autoAssign |-> FALSE, users |-> {u1}]}
MCInvitationUpserts ==
  {[id |-> None, username |-> None, groups |-> {staff}],
   [id |-> i1, username |-> bea, groups |-> {}]}

(* Where the accounts stand before the first cycle: whether ann, who is    *)
(* not linked, is an administrator, and whether bob was linked, and made   *)
(* an administrator by the sync or by hand.                                *)
start(there, keep, link, annAdmin, bobLinked, bobAdmin) ==
  [directory |-> there, config |-> [keep |-> keep, link |-> link], annAdmin |-> annAdmin,
   bobLinked |-> bobLinked, bobAdmin |-> bobAdmin]

Starts ==
  {start(Before, TRUE, TRUE, "admin", TRUE, "sync"), start(After, FALSE, TRUE, None, FALSE, None),
   start(Before, FALSE, FALSE, None, TRUE, "sync"), start(After, TRUE, FALSE, None, TRUE, "admin")}

noRows(rowIds) == [x \in rowIds |-> None]
adminGroup == [name |-> auth_admins, autoAssign |-> FALSE, dn |-> None]

(* Host names, ports and paths of a few letters.                           *)
A == <<"a">>
B == <<"b">>
S == <<Star>>
AnyB == <<Star, "b">>
Below == <<>>
wildcard(host, port, path) == [host |-> host, port |-> port, path |-> path]

MCDomainInputs ==
  [host : {<<A>>, <<S>>, <<AnyB>>} \cup {<<p, q>> : p \in {A, S, AnyB}, q \in {B, S}},
   port : {<<>>}, path : {<<Below>>, <<A>>}]
  \cup [host : {<<S>>, <<S, A, B>>}, port : {<<>>, <<"8">>}, path : {<<Below>>, <<A, Below>>, <<S, B>>}]
MCCollation == <<":", ".", Star, "/", "8", "a", "b">>

(* Own pages, one outside the session domain, and two sites of which the   *)
(* more specific rule covers one.                                          *)
MCCovers == own :> <<>> @@ abroad :> <<>> @@ site :> <<exact, wild>> @@ other :> <<wild>>

(* That is the order, and what matches, by the module of the domains.      *)
DomainOf == exact :> wildcard(<<A, B>>, <<>>, <<Below>>) @@ wild :> wildcard(<<S, B>>, <<>>, <<Below>>)
UrlOf == site :> wildcard(<<A, B>>, <<>>, <<A>>) @@ other :> wildcard(<<B, B>>, <<>>, <<A>>)
ASSUME CoversAssumption ==
  /\ sortWildcardDomains(DomainOf[exact], DomainOf[wild]) < 0
  /\ \A url \in {site, other} :
       Covers[url] = SelectSeq(<<exact, wild>>,
                               LAMBDA d : covers(urlFromWildcardDomain(DomainOf[d]), UrlOf[url]))

MCVisits ==
  [who : {u2}, url : {site}, basic : {"none", "right", "wrong"}]
    \cup [who : {u2}, url : {own, abroad}, basic : {"none"}]
    \cup [who : {u1}, url : {other}, basic : {"right"}]

rule(id, domain, mfa, limited, names) ==
  [id |-> id, domain |-> domain, mfa |-> mfa, limited |-> limited, groups |-> names]
MCRuleUpserts == {rule(r1, exact, TRUE, TRUE, {}), rule(r2, wild, FALSE, FALSE, {staff})}

MCKindOf == [k \in KeyIds |-> IF k \in {j1, j2, j3, j4} THEN "jwk" ELSE "cookie"]

(* Settings of each kind, each named by the environment or not; Hour and   *)
(* theirs are durations.                                                   *)
MCSettingNames == {"APP_TITLE", "CONTACT_EMAIL", "MFA_REQUIRED", "ADMIN_EMAILS", "APP_LOGO"}
MCUnderstood ==
  [s \in MCSettingNames |->
     IF s = "MFA_REQUIRED" THEN {yes, No} ELSE IF s = "ADMIN_EMAILS" THEN {Hour, theirs} ELSE Texts]
MCDefaults ==
  [s \in MCSettingNames |->
     IF s = "MFA_REQUIRED" THEN No ELSE IF s = "ADMIN_EMAILS" THEN Hour
     ELSE IF s = "APP_TITLE" THEN yes ELSE Unset]
MCEnvironment ==
  [s \in MCSettingNames |->
     IF s = "CONTACT_EMAIL" THEN ours ELSE IF s = "MFA_REQUIRED" THEN yes ELSE Unset]
MCBodies ==
  {[APP_TITLE |-> ours], [APP_TITLE |-> Unset, CONTACT_EMAIL |-> Empty], [CONTACT_EMAIL |-> theirs],
   [MFA_REQUIRED |-> No], [ADMIN_EMAILS |-> No], [ADMIN_EMAILS |-> theirs, MFA_REQUIRED |-> yes]}
MCLogos == {ours, theirs}

MCLabelsDeclare == c1 :> {api} @@ c2 :> {app, api}

-----------------------------------------------------------------------------
(* How the tables start: for the synchronisation as above or below, else   *)
(* with the administrator root, ann and the group staff.                   *)
SyncTables ==
  \E s \in Starts :
    /\ syncConfig = s.config /\ directory = s.directory
    /\ users = [noRows(UserIds) EXCEPT ![u1] = account(root, None), ![u2] = account(ann, None),
                 ![u3] = IF s.bobLinked THEN account(bob, d2) ELSE None]
    /\ groups = [noRows(GroupIds) EXCEPT ![g1] = adminGroup]
    /\ member = [noRows(UserIds \X GroupIds) EXCEPT ![<<u1, g1>>] = "admin",
                  ![<<u2, g1>>] = s.annAdmin, ![<<u3, g1>>] = s.bobAdmin]
    /\ invitations = noRows(InvitationIds)

(* What one cycle alone may find: ann and bob linked to either entry or to *)
(* none, or to the same, and the administrators' group a group of the      *)
(* directory.                                                              *)
MirrorTables ==
  /\ directory \in {Before, Handed, Ruled} /\ syncConfig \in MCSyncConfigs
  /\ \E annDn \in {None, d1}, bobDn \in {None, d1, d2}, groupDn \in {None, dg},
        annIn \in {"admin", "sync", None}, bobIn \in {"sync", None} :
       /\ annIn = "sync" => annDn # None
       /\ bobIn = "sync" => bobDn # None
       /\ users = [noRows(UserIds) EXCEPT ![u1] = account(root, None), ![u2] = account(ann, annDn),
                    ![u3] = account(bob, bobDn)]
       /\ groups = [noRows(GroupIds) EXCEPT ![g1] = [adminGroup EXCEPT !.dn = groupDn]]
       /\ member = [noRows(UserIds \X GroupIds) EXCEPT ![<<u1, g1>>] = "admin",
                     ![<<u2, g1>>] = annIn, ![<<u3, g1>>] = bobIn]
  /\ invitations = noRows(InvitationIds)

OtherTables ==
  /\ syncConfig = [keep |-> TRUE, link |-> TRUE] /\ directory = Before
  /\ \E approved \in IF part = "proxy" THEN BOOLEAN ELSE {TRUE} :
       users = [noRows(UserIds) EXCEPT ![u1] = account(root, None),
                 ![u2] = IF part = "proxy" THEN [account(ann, None) EXCEPT !.approved = approved]
                         ELSE None]
  /\ groups = [noRows(GroupIds) EXCEPT ![g1] = adminGroup,
                ![g2] = [name |-> staff, autoAssign |-> TRUE, dn |-> None]]
  /\ member = [noRows(UserIds \X GroupIds) EXCEPT ![<<u1, g1>>] = "admin"]
  /\ invitations = [noRows(InvitationIds) EXCEPT ![i1] = [username |-> None, groups |-> {g2}]]

Init ==
  /\ part \in {"sync", "mirror", "registration", "proxy", "keys", "settings", "clients", "domains"}
  /\ SyncInit /\ RegistrationInit /\ ProxyInit /\ KeysInit /\ SettingsInit /\ DomainsInit
  /\ DeclaredInit /\ (part # "clients" => running = {})
  /\ \/ part = "sync" /\ SyncTables
     \/ part = "mirror" /\ MirrorTables
     \/ part \notin {"sync", "mirror"} /\ OtherTables
  /\ AccountsInit
  /\ rules = [noRows(RuleIds) EXCEPT ![r1] =
                [domain |-> exact, mfa |-> FALSE, limited |-> TRUE,
                 groups |-> IF part = "proxy" THEN {g2} ELSE {}]]
  /\ claims = {claim}

laterVars == <<settingsVars, declaredVars, tried>>

(* One cycle, with nothing beside it.                                      *)
MirrorNext == \E c \in Cycles : CycleStep(c) /\ started' = 1 /\ UNCHANGED mishaps

Next ==
  /\ UNCHANGED part
  /\ \/ /\ \/ part = "sync" /\ SyncNext /\ directory' \in {Before, After}
           \/ part = "mirror" /\ MirrorNext
        /\ UNCHANGED <<registrationVars, proxyVars, keyVars, laterVars>>
     \/ /\ part = "registration" /\ RegistrationNext
        /\ UNCHANGED <<syncVars, proxyVars, keyVars, laterVars>>
     \/ /\ part = "proxy" /\ ProxyNext
        /\ UNCHANGED <<syncVars, registrationVars, keyVars, laterVars>>
     \/ /\ part = "keys" /\ KeysNext
        /\ UNCHANGED <<accountVars, syncVars, registrationVars, proxyVars, laterVars>>
     \/ /\ part \in {"settings", "clients", "domains"}
        /\ UNCHANGED <<accountVars, syncVars, registrationVars, proxyVars, keyVars>>
        /\ \/ part = "settings" /\ SettingsNext /\ UNCHANGED <<declaredVars, tried>>
           \/ part = "clients" /\ DeclaredNext /\ UNCHANGED <<settingsVars, tried>>
           \/ part = "domains" /\ DomainsNext /\ UNCHANGED <<settingsVars, declaredVars>>

vars == <<part, accountVars, syncVars, registrationVars, proxyVars, keyVars, laterVars>>

(* Redirects are followed and prompts answered, and Docker answers, each   *)
(* in the part of the run that is about it: the others stand still.        *)
Fairness ==
  /\ \A v \in Visitors : WF_<<accountVars, proxyVars>>(part = "proxy" /\ Proceeds(v))
  /\ WF_declaredVars(part = "clients" /\ Inspects)

Spec == Init /\ [][Next]_vars /\ Fairness

TypeOK ==
  /\ AccountsTypeOK /\ SyncTypeOK /\ RegistrationTypeOK /\ ProxyTypeOK /\ KeysTypeOK
  /\ SettingsTypeOK /\ DeclaredTypeOK
=============================================================================
