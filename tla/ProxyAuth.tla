------------------------------ MODULE ProxyAuth ------------------------------
(***************************************************************************)
(* ProxyAuth: a reverse proxy asks VoidAuth whether a request to one of    *)
(* its sites may pass (util/proxyAuth.ts), by rules an administrator edits *)
(* and the server keeps in a cache for half a minute (db/proxyAuth.ts).    *)
(* A visitor who may not pass yet is led through the provider, a login and *)
(* proxyauth_cb back to the site, where the proxy asks again.              *)
(*                                                                         *)
(* These are GET requests, outside any transaction: each query, and each   *)
(* use of the cache, is a step of its own.                                 *)
(***************************************************************************)
EXTENDS Accounts, Sequences

CONSTANTS
  Visitors,        \* users who visit sites
  Visits,          \* which visits they make: who, url, basic
  OwnUrls,         \* of VoidAuth itself
  ReachedUrls,     \* covered by the session domain
  Covers,          \* [url -> the domains that match it, the most specific first]
  RuleIds,
  RuleUpserts,
  CACHE_TTL,       \* in ticks: half a minute
  FETCH_TIME       \* bound: in how many ticks a fetch of the rules ends

ASSUME ProxyAuthAssumption ==
  /\ Visitors \subseteq UserIds
  /\ CACHE_TTL \in Nat /\ FETCH_TIME \in Nat

VARIABLES
  rules,           \* [RuleIds -> row, or None]
  cache,           \* what proxyAuthCache holds, as a set
  cacheAge,        \* since it was filled, up to CACHE_TTL + 1
  unchanged,       \* since a rule or one of its groups changed
  visit            \* where each visitor is, with the session

proxyVars == <<rules, cache, cacheAge, unchanged, visit>>

Settled == {"away", "granted", "forbidden", "refused"}
Asking == {"authz", "mfaCheck", "urlCheck", "cb"}   \* where the cache is used

(* amr is None without a session; old says that the session exceeds the    *)
(* length a rule may limit it to; basic, whether the request names a       *)
(* password; prompt, what the provider prompts for; rule and read, what    *)
(* the request holds in its variables.                                     *)
Visitor ==
  [pc : Settled \cup Asking \cup {"oidc", "login"}, phase : {"ask", "groups", "matched"},
   url : DOMAIN Covers \cup {None}, amr : SUBSET Factors \cup {None}, old : BOOLEAN,
   basic : {"none", "right", "wrong"}, prompt : {None, "login", "mfa"}, mfa : BOOLEAN,
   fetchAge : 0..FETCH_TIME]

Away == [pc |-> "away", phase |-> "ask", url |-> None, amr |-> None, old |-> FALSE,
         basic |-> "none", prompt |-> None, mfa |-> FALSE, fetchAge |-> 0, rule |-> None, read |-> {}]

ProxyTypeOK ==
  /\ \A v \in Visitors : [f \in DOMAIN visit[v] \ {"rule", "read"} |-> visit[v][f]] \in Visitor
  /\ \A r \in Present(rules) : rules[r].groups \subseteq Present(groups)
  /\ cacheAge \in 0..(CACHE_TTL + 1) /\ unchanged \in 0..(CACHE_TTL + FETCH_TIME + 1)
  /\ \A a, b \in cache : a.domain = b.domain => a = b

ProxyInit ==
  /\ cache = {} /\ cacheAge = CACHE_TTL + 1
  /\ unchanged = CACHE_TTL + FETCH_TIME + 1
  /\ visit = [v \in Visitors |-> Away]

groupNames(ids) == {groups[g].name : g \in ids}

(* The user as the checks see it: here with a verified address, no         *)
(* authenticator, and no demand for a second factor of its own.            *)
viewer(v) ==
  [approved |-> users[v].approved, expired |-> users[v].expired, hasEmail |-> TRUE,
   emailVerified |-> TRUE, mfaRequired |-> FALSE, hasPassword |-> TRUE, hasTotp |-> FALSE,
   pendingTotp |-> FALSE, hasPasskeys |-> FALSE,
   groups |-> groupNames({g \in GroupIds : member[<<v, g>>] # None})]

signedIn(v) == visit[v].amr # None /\ v \in Present(users)

(* The first rule, in the order of sortWildcardDomains, that matches.      *)
match(entries, url) ==
  LET fitting == {i \in DOMAIN Covers[url] : \E e \in entries : e.domain = Covers[url][i]}
  IN IF fitting = {} THEN None
     ELSE CHOOSE e \in entries : e.domain = Covers[url][CHOOSE i \in fitting : \A j \in fitting : i <= j]

entryOf(row, names) ==
  [domain |-> row.domain, mfa |-> row.mfa, limited |-> row.limited, groups |-> names]

inForce == {entryOf(rules[r], groupNames(rules[r].groups)) : r \in Present(rules)}

Elsewhere == <<accountVars, rules, unchanged>>

Moves(v, new) ==
  visit' = [visit EXCEPT ![v] = new] /\ UNCHANGED <<cache, cacheAge>> /\ UNCHANGED Elsewhere

(* From wherever it is, a visitor goes on to pc.                           *)
to(v, pc) == [visit[v] EXCEPT !.pc = pc, !.phase = "ask", !.rule = None, !.read = {}, !.fetchAge = 0]
ends(v, how) ==
  [Away EXCEPT !.pc = how, !.amr = visit[v].amr, !.old = visit[v].old]

-----------------------------------------------------------------------------
(* getProxyAuthWithCache, by any of the requests that use it.  The cache   *)
(* is there for everyone; it is fetched by each request that finds it too  *)
(* old, the rules first and then their groups.                             *)
asks(v) == visit[v].pc \in Asking /\ visit[v].phase = "ask"

CacheUsed(v) ==
  /\ asks(v) /\ cacheAge <= CACHE_TTL
  /\ Moves(v, [visit[v] EXCEPT !.phase = "matched", !.rule = match(cache, visit[v].url)])

RulesRead(v) ==
  /\ asks(v) /\ cacheAge > CACHE_TTL
  /\ Moves(v, [visit[v] EXCEPT !.phase = "groups",
                 !.read = {[id |-> r, row |-> rules[r]] : r \in Present(rules)}])

(* Mistaken: what is fetched is kept for good.                             *)
GroupsReadForGood(v) ==
  LET fetched == {entryOf(e.row, IF rules[e.id] = None THEN {} ELSE groupNames(rules[e.id].groups))
                    : e \in visit[v].read}
  IN /\ visit[v].phase = "groups"
     /\ cache' = IF cache = {} THEN fetched ELSE cache
     /\ cacheAge' = 0
     /\ visit' = [visit EXCEPT ![v].phase = "matched", ![v].rule = match(cache', visit[v].url),
                               ![v].read = {}, ![v].fetchAge = 0]
     /\ UNCHANGED Elsewhere

GroupsRead(v) ==
  LET fetched == {entryOf(e.row, IF rules[e.id] = None THEN {} ELSE groupNames(rules[e.id].groups))
                    : e \in visit[v].read}
  IN /\ visit[v].phase = "groups"
     /\ cache' = fetched
     /\ cacheAge' = 0
     /\ visit' = [visit EXCEPT ![v].phase = "matched", ![v].rule = match(fetched, visit[v].url),
                               ![v].read = {}, ![v].fetchAge = 0]
     /\ UNCHANGED Elsewhere

matched(v, pc) == visit[v].pc = pc /\ visit[v].phase = "matched"

-----------------------------------------------------------------------------
(* What the session cookie is sent to, and where the provider may send a   *)
(* visitor back.                                                           *)
sessionDomainReaches(url) == url \in ReachedUrls
redirectUriAllowed(url) == sessionDomainReaches(url)

(* A visitor opens a site, perhaps with a Basic header in the request; the *)
(* proxy asks /authz/forward-auth or /authz/auth-request.                  *)
Visited(v, url, basic) ==
  /\ visit[v].pc \in Settled
  /\ [who |-> v, url |-> url, basic |-> basic] \in Visits
  /\ \/ url \in OwnUrls /\ Moves(v, ends(v, "granted"))
     \/ url \notin OwnUrls /\ ~sessionDomainReaches(url) /\ Moves(v, ends(v, "refused"))
     \/ /\ url \notin OwnUrls /\ sessionDomainReaches(url)
        /\ Moves(v, [to(v, "authz") EXCEPT !.url = url, !.basic = basic])

toLogin(v, prompt) == [to(v, "oidc") EXCEPT !.basic = "none", !.prompt = prompt]

mayPass(rule, u) == isAdmin(u) \/ rule.groups = {} \/ u.groups \cap rule.groups # {}

(* What proxyAuth answers: pass, or why not.                               *)
AuthzAnswered(v) ==
  LET rule == visit[v].rule
      amr == IF signedIn(v) THEN visit[v].amr ELSE {"pwd"}
      known == signedIn(v) \/ (visit[v].basic = "right" /\ v \in Present(users))
      ready == userCanLogin(viewer(v), amr) /\ (rule.mfa => loginFactors(amr) >= 2)
  IN /\ matched(v, "authz")
     /\ \/ rule = None /\ Moves(v, ends(v, "forbidden"))
        \/ /\ rule # None
           /\ \/ signedIn(v) /\ rule.limited /\ visit[v].old /\ Moves(v, toLogin(v, "login"))
              \/ ~known /\ visit[v].basic # "none" /\ Moves(v, ends(v, "refused"))
              \/ ~known /\ visit[v].basic = "none" /\ Moves(v, toLogin(v, None))
              \/ /\ known /\ ~(signedIn(v) /\ rule.limited /\ visit[v].old)
                 /\ \/ ~ready /\ Moves(v, toLogin(v, None))
                    \/ ready /\ ~mayPass(rule, viewer(v)) /\ Moves(v, ends(v, "forbidden"))
                    \/ ready /\ mayPass(rule, viewer(v)) /\ Moves(v, ends(v, "granted"))

-----------------------------------------------------------------------------
(* The provider, asked for proxyauth_internal_client.  It prompts for a    *)
(* login if there is no session, if prompt=login asked for it, or for a    *)
(* reason of its own.                                                      *)
Prompted(v) ==
  LET reasons == loginPromptReasons(viewer(v), visit[v].amr)
  IN /\ visit[v].pc = "oidc" /\ redirectUriAllowed(visit[v].url)
     /\ \/ /\ ~signedIn(v) \/ visit[v].prompt = "login"
           /\ Moves(v, [to(v, "login") EXCEPT !.prompt = "login"])
        \/ /\ signedIn(v) /\ visit[v].prompt # "login" /\ reasons # {}
           /\ Moves(v, [to(v, "login") EXCEPT !.prompt =
                          IF reasons = {"user_mfa_required"} THEN "mfa" ELSE "login"])
        \/ /\ signedIn(v) /\ visit[v].prompt # "login" /\ reasons = {}
           /\ Moves(v, to(v, "mfaCheck"))

(* Mistaken: the rule's own demand for a second factor is left to the site. *)
MfaCheckedBySite(v) ==
  /\ matched(v, "mfaCheck")
  /\ Moves(v, [to(v, "urlCheck") EXCEPT !.mfa = FALSE])

(* client_mfa_required ...                                                 *)
MfaChecked(v) ==
  /\ matched(v, "mfaCheck")
  /\ Moves(v, [to(v, "urlCheck") EXCEPT
                 !.mfa = IF visit[v].rule = None THEN FALSE
                         ELSE visit[v].rule.mfa /\ loginFactors(visit[v].amr) < 2])

(* ... and proxyauth_url_invalid, both of which look up the rule.          *)
UrlChecked(v) ==
  /\ matched(v, "urlCheck")
  /\ \/ visit[v].rule = None /\ Moves(v, ends(v, "forbidden"))
     \/ visit[v].rule # None /\ visit[v].mfa /\ Moves(v, [to(v, "login") EXCEPT !.prompt = "mfa"])
     \/ visit[v].rule # None /\ ~visit[v].mfa /\ Moves(v, to(v, "cb"))

(* The visitor answers the prompt, after which the provider looks again.   *)
(* Accounts that wait for approval or have expired end at a page that says *)
(* so.                                                                     *)
LoggedIn(v) ==
  LET given == IF visit[v].prompt = "mfa" THEN visit[v].amr \cup {"totp"} ELSE {"pwd"}
  IN /\ visit[v].pc = "login"
     /\ \/ v \notin Present(users) /\ Moves(v, ends(v, "refused"))
        \/ /\ v \in Present(users) /\ (isUnapproved(viewer(v)) \/ isExpired(viewer(v)))
           /\ Moves(v, [ends(v, "refused") EXCEPT !.amr = given, !.old = FALSE])
        \/ /\ v \in Present(users) /\ ~isUnapproved(viewer(v)) /\ ~isExpired(viewer(v))
           /\ Moves(v, [to(v, "oidc") EXCEPT !.amr = given, !.old = FALSE, !.prompt = None])

(* proxyauth_cb: back to the site, or an error.                            *)
CalledBack(v) ==
  /\ matched(v, "cb")
  /\ \/ visit[v].rule = None /\ Moves(v, ends(v, "refused"))
     \/ visit[v].rule # None /\ Moves(v, to(v, "authz"))

(* Between visits a session comes to exceed a rule's maxSessionLength,     *)
(* which is five minutes at least.                                         *)
SessionAged(v) ==
  /\ visit[v].pc \in Settled /\ visit[v].amr # None /\ ~visit[v].old
  /\ Moves(v, [visit[v] EXCEPT !.old = TRUE])

-----------------------------------------------------------------------------
(* POST /admin/proxyauth: a domain has one rule.                           *)
RuleSaved(me, upsert) ==
  /\ AdminSaves(me)
  /\ \A r \in Present(rules) : rules[r].domain = upsert.domain => r = upsert.id
  /\ rules' = [rules EXCEPT ![upsert.id] =
                 [domain |-> upsert.domain, mfa |-> upsert.mfa, limited |-> upsert.limited,
                  groups |-> groupsNamed(upsert.groups)]]
  /\ unchanged' = 0
  /\ UNCHANGED <<users, groups, member, invitations, cache, cacheAge, visit>>

(* DELETE /admin/proxyauth/:id.                                            *)
RuleDeleted(me, id) ==
  /\ AdminSaves(me)
  /\ id \in Present(rules)
  /\ rules' = [rules EXCEPT ![id] = None]
  /\ unchanged' = 0
  /\ UNCHANGED <<users, groups, member, invitations, cache, cacheAge, visit>>

(* A group that is deleted leaves the rules: one that named no other now   *)
(* names none, and lets everyone pass.                                     *)
RuleGroupDeleted(me, g) ==
  /\ GroupDeleted(me, g)
  /\ rules' = [r \in RuleIds |-> IF r \in Present(rules)
                                 THEN [rules[r] EXCEPT !.groups = @ \ {g}] ELSE None]
  /\ unchanged' = 0
  /\ UNCHANGED <<cache, cacheAge, visit>>

TimePassed ==
  /\ \A v \in Visitors : visit[v].phase = "groups" => visit[v].fetchAge < FETCH_TIME
  /\ cacheAge <= CACHE_TTL \/ unchanged <= CACHE_TTL + FETCH_TIME
  /\ cacheAge' = IF cacheAge > CACHE_TTL THEN cacheAge ELSE cacheAge + 1
  /\ unchanged' = IF unchanged > CACHE_TTL + FETCH_TIME THEN unchanged ELSE unchanged + 1
  /\ visit' = [v \in Visitors |-> IF visit[v].phase = "groups"
                                  THEN [visit[v] EXCEPT !.fetchAge = @ + 1] ELSE visit[v]]
  /\ UNCHANGED <<accountVars, rules, cache>>

Proceeds(v) ==
  \/ CacheUsed(v) \/ RulesRead(v) \/ GroupsRead(v) \/ AuthzAnswered(v)
  \/ Prompted(v) \/ MfaChecked(v) \/ UrlChecked(v) \/ LoggedIn(v) \/ CalledBack(v)

ProxyNext ==
  \/ \E v \in Visitors :
       \/ Proceeds(v) \/ SessionAged(v)
       \/ \E visiting \in Visits : Visited(v, visiting.url, visiting.basic)
  \/ \E me \in UserIds :
       \/ \E upsert \in RuleUpserts : RuleSaved(me, upsert)
       \/ \E r \in RuleIds : RuleDeleted(me, r)
       \/ \E g \in GroupIds : RuleGroupDeleted(me, g)
       \/ /\ \E us \in ManyUsers : UsersApproved(me, us) \/ UsersDeleted(me, us)
          /\ UNCHANGED proxyVars
  \/ TimePassed

RuleRecord ==
  [domain : UNION {{Covers[url][i] : i \in DOMAIN Covers[url]} : url \in DOMAIN Covers},
   mfa : BOOLEAN, limited : BOOLEAN, groups : SUBSET GroupIds]

ProxySpec ==
  /\ AccountsInit /\ ProxyInit /\ rules \in [RuleIds -> RuleRecord \cup {None}]
  /\ [][ProxyNext]_<<accountVars, proxyVars>>

-----------------------------------------------------------------------------
(***************************************************************************)
(* Requests go by recent rules: once a rule has been in force, with its    *)
(* groups, for as long as the cache lives and a fetch takes, every request *)
(* matches what the tables hold, although several fetches, of which some   *)
(* may have read before the change, overwrite each other's result          *)
(* (getProxyAuthWithCache).                                                *)
(***************************************************************************)
RulesRecent ==
  [][\A v \in Visitors :
       /\ visit[v].phase # "matched" /\ visit'[v].phase = "matched"
       /\ unchanged > CACHE_TTL + FETCH_TIME
       => visit'[v].rule = match(inForce, visit[v].url)]_<<accountVars, proxyVars>>

(***************************************************************************)
(* No one is sent in circles: a visitor who follows the redirects and      *)
(* answers the prompts passes, or is told why not, in the end.  What       *)
(* proxyAuth asks of a session, by its own copy of the conditions, the     *)
(* provider has to ask as well, by a cache that may have changed since.    *)
(***************************************************************************)
VisitsSettle == \A v \in Visitors : []<>(visit[v].pc \in Settled)
=============================================================================
