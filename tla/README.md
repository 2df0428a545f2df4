# VoidAuth in TLA+

VoidAuth is a single sign-on server: an Express API and an OpenID Connect
provider (the `oidc-provider` library) over SQLite or PostgreSQL, with an
Angular frontend, ForwardAuth for reverse proxies, an LDAP directory of its own
and a synchronisation with someone else's. These modules specify the parts that
decide who is logged in, who may pass and what is stored, check them with TLC on
small instances and prove some of their invariants with TLAPS.

## The system

| Component | Source (`src/`) | State | Operations | Hard behaviour | What makes it correct |
|---|---|---|---|---|---|
| Authentication decisions | `shared/user.ts`, `server/util/auth.ts`, `server/util/authMiddleware.ts` | none | `loginFactors`, five privilege levels | two sets of rules (routes and provider) that must agree | whoever the provider authorizes, the routes let in |
| Login interaction | `server/routes/interaction.ts`, `server/routes/api.ts` | session and interaction cookies, tables user, passkey, totp, consent | login, passkey, TOTP, email, consent, try again, cancel | factors accumulate in three places; accounts change within a browser | no factor, consent or authenticator crosses accounts; every page leads on; a login ends |
| Provider policy | `server/oidc/provider.ts`, `server/oidc/configuration.ts` | grants, payloads | prompts for login or consent | evaluated at each resume | no response before every check passes |
| Provider storage | `server/oidc/adapter.ts` | `oidc_payloads` | upsert, find, destroy, revoke | upsert revives deleted rows | ended sessions stay ended |
| TOTP | `server/db/totp.ts` | `totp`, `totp_failed_attempt` | create, validate, lock out | concurrent requests, look-back window | one login per code, fresh codes accepted, guesses bounded |
| Credentials | `server/routes/user.ts`, `public.ts`, `admin.ts`, `server/db/passkey.ts` | password hash, passkeys, reset tokens, sessions | change, delete, reset, sign out | check-then-act on stale `req.user`, two transactions in one request | a login method remains, links work once |
| Request transactions | `server/db/db.ts`, `server/util/als.ts`, `server/cli/server.ts`, `server/db/connection.ts` | the transaction of a request, the pool | begin, commit, roll back | commit after the response, pool of one (SQLite) | success answered is success stored |
| Email verification | `server/db/emailVerification.ts`, `server/routes/auth.ts` | `email_verification` | send, verify, expire | verification replaces the address later | a verified address is the one that was mailed |
| Registration and invitations | `server/routes/interaction.ts`, `server/db/invitations.ts` | user, invitation, passkey ceremony | register, invite | two transactions, an invitation read before and used after | its groups go to one user |
| Administration | `server/routes/admin.ts` | users, groups, rules, claims, clients, settings | edit, approve, delete | changes under running logins, cycles and caches | what is saved takes effect where it is read |
| LDAP directory | `server/ldap/server.ts`, `directory.ts`, `hardening.ts`, `util.ts` | connections, buffers, failure counters | bind, search, compare, unbind | frames of a connection answered side by side; checks before and after an await | no identity and no entry without proof; guesses slowed down |
| LDAP synchronisation | `server/ldap/sync.ts` | users, groups and memberships with a DN | sync cycle | no transaction, overlapping cycles, partial failure | the tables mirror the directory, local accounts stay as they are |
| Argon2 pool | `server/util/argon2id.ts` | workers, pending jobs | run, fail | full queue, dying workers | every job is with a living worker, every request answered |
| Keys and maintenance | `server/db/key.ts`, `server/db/tableMaintenance.ts`, `server/cli/server.ts` | keys, encrypted columns, the provider in memory | renew, rotate, expire | timer, half lives, memory that survives a rollback | tokens can be verified, rotation loses nothing |
| ProxyAuth | `server/util/proxyAuth.ts`, `server/db/proxyAuth.ts`, `shared/url.ts` | rules, a cache of 30 s | match, authorize, redirect | stale and torn reads, redirects through three parties | access follows the rules, nobody goes in circles |
| Settings | `server/util/config.ts`, `server/db/settings.ts` | table flag, `appConfig` | load, save, upload | memory changes before the commit | what is saved is in force |
| Declared clients | `server/util/config.ts`, `server/oidc/adapter.ts` | `DECLARED_CLIENTS` | inspect, register | refreshes that overlap | the declared clients are those of the running containers |
| Email, theme, logging, rate limit, migrations, frontend | `server/util/`, `server/cli/`, `frontend/` | none that counts | | | |

A writing `/api` request begins a transaction (`routes/api.ts`), reads
`req.user` from the session or from the pending login of the interaction, runs
its handler, answers, and then commits (or rolls back, for 5xx). The handler
that finishes a login puts the account and its factors into the result of the
interaction; the browser goes back to the provider, which takes the result into
the session and decides the authorization request anew. GET requests, the
provider's own, the LDAP server and the synchronisation run outside any
transaction. Three pieces of state live in memory beside the tables and may
differ from them: the provider (keys and claims), `appConfig` (settings and
declared clients) and the cache of rules.

## Modules

| Module | Models | Variables |
|---|---|---|
| `AuthFactors` | `shared/user.ts`, `util/auth.ts`, the checks of `oidc/provider.ts` | operators only |
| `LoginFlow` | one browser and the server: every route of a login, one action per request | `user`, `verifications`, `consents`, `session`, `interaction`, `page`, `authorized`, histories `proven`, `confirmed`, `confirmers` |
| `LoginFollow` | the user who does what the pages offer, with fairness | extends `LoginFlow` |
| `OneTimeCodes` | abstract: a verifier accepts ever newer codes | `log` |
| `TotpLogin` | `POST /interaction/totp`, one action per statement of its transaction | `clock`, `totp`, `attempts`, `request`, history `log` |
| `Credentials` | password, passkeys, reset tokens and sessions, by the user and by an administrator, one action per statement | `password`, `passkeys`, `tokens`, `sessions`, `request`, history `signedOut` |
| `Accounts` | the tables an administrator edits, one action per handler | `users`, `groups`, `member`, `invitations` |
| `LdapSync` | a cycle, one action per query; several cycles | `directory`, `syncConfig`, `cycle`, histories `appointed`, `clean` and `lost` of a cycle |
| `Registration` | registration by password and by passkey | `ceremony`, history `copied` |
| `ProxyAuth` | a visitor, the proxy, the rules and their cache | `rules`, `cache`, `cacheAge`, `visit`, history `unchanged` |
| `WildcardDomains` | the order of the rules and what they match | `tried` |
| `KeyLifecycle` | keys, claims, clients' secrets, the provider, the process and its maintenance | `keys`, `claims`, `clients`, `server`, `due`, histories `signed`, `undone` |
| `Settings` | settings in the table, the environment and memory | `flags`, `config`, `process`, history `unread` |
| `DeclaredClients` | clients of the environment, of containers and of the table | `running`, `reports`, `declared`, `inspection`, `older`, `stored` |
| `DirectoryAccess` | abstract: identities are proven before they are used | `holder`, `proven`, `disclosed` |
| `LdapServer` | connections, frames, loops; binds, searches, compares | `socket`, `buffer`, `bindDN`, `loop`, `account`, `password`, `linked`, histories `proven`, `disclosed`, `guesses`, `consecutive`, `loose` |
| `BindBackoff`, `ArgonPool` | the parts of it that count failures and check passwords | `failures`, `blockedFor`; `pool`, `inflight`, `pendingJobs` |
| `LdapCodec` | BER, distinguished names, substring filters | `input` |
| `MCLoginFlow`, `MCTotpLogin`, `MCCredentials`, `MCAdministration`, `MCLdapServer` | instances for TLC | |
| `LoginFlowProofs`, `TotpLoginProofs`, `CredentialsProofs`, `LdapServerProofs`, `KeyLifecycleProofs`, `SettingsProofs`, `AdministrationProofs`, `LdapMirrorProofs` | theorems | |

Composition: `LoginFlow`, `LdapServer` and `ProxyAuth` use `AuthFactors`, so the
conditions of `shared/user.ts` are the same in all three; `LoginFollow`
restricts `LoginFlow`; `LdapServer` extends `BindBackoff` and `ArgonPool`, whose
operators are parts of its actions; `LdapSync`, `Registration` and `ProxyAuth`
extend `Accounts` and run over the same tables; what `ProxyAuth` takes as the
order of its rules `CoversAssumption` derives from `WildcardDomains`.
`TotpLogin` refines `OneTimeCodes` (`NeverReplayed`, by the history `log`) and
`LdapServer` refines `DirectoryAccess` (`KeepsAccessPromise`, with `bindDN` for
`holder`). `LoginFlow`, `Accounts` and `KeyLifecycle` treat a writing request
as one step, which SQLite's single connection justifies; `TotpLogin` and
`Credentials` take their requests apart.

### How state and actions correspond to the code

* An `amr` is a set. The code keeps it free of duplicates and only tests
  membership.
* A row of `user` gathers what `getUserById` collects: columns, presence of a
  password, passkeys and authenticators, and the groups. `expired` stands for
  `expiresAt` in the past, and time passing is `AdminUpdatesUser`, too.
* `interaction` is the cookie's interaction; `details` drops it when the session
  it was opened in has changed accounts, as `getInteractionDetails` does.
* `page` is where the last response sent the browser. Requests are not tied to
  pages: any page, tab or script may send any of them, so every action is
  enabled whenever the handler would do something. A request that only answers
  an error is a stuttering step and is left out.
* `StartAuthorization` and `Resume` are the library's `/oidc/auth` and
  `/oidc/auth/:uid`, modelled from what the code relies on: a login result
  becomes the session's (a new one when the account differs), a consent result
  adds a grant if it was made for the session's account (the library refuses a
  grant of another one), and the policy is evaluated again.
* A row of the consent table is a user and a redirect URI, as in
  `db/consent.ts`: which client it was given to is not on record. `confirmed`
  remembers it, and `confirmers` who confirmed since the last authorization
  request began. A consent is submitted merged with the last submission
  (`mergeWithLastSubmission`), and a login that is submitted later with
  it: so it may still be there when another account resumes.
* `POST /:uid/confirm` asks for nothing but the uid of the interaction and a
  consent prompt: `ConfirmConsent` may come before its page was opened.
* In `TotpLogin` and `Credentials` a request keeps what it has read and what it
  has written. Another transaction sees the writes once they are committed
  and waits for the rows (`rowFree`, `userRowFree`, ...). `SERIALIZED` is the
  SQLite pool of one: `connectionFree` lets a transaction or a statement begin
  only when none is open.
* A code is its authenticator and its timestep; a wrong code is a model value.
* A membership holds who created it, "sync" or an administrator: the
  synchronisation removes only its own. An id is not used again while
  anything holds it.
* A cycle of `LdapSync` holds what it has read (`people`, `groups`), where its
  loops are (`todo`, `left`) and whom it has processed (`synced`). `appointed` are
  those who became an administrator by hand, or got the initial administrator's
  name, while a cycle was under way, which may have asked before.
  Between two of its queries anything may happen; a statement may fail, and
  `clean` remembers that nothing disturbed it. `lost` are the names it took from
  accounts and groups by renaming them, and the entries whose account it deleted:
  what the cycle has dealt with before is done again by the next one only.
* A loop of `LdapServer` is one run of `processBuffer`: it takes a frame, may
  wait for the database and for a password, and goes on with the buffer. `Loops`
  counts those that run on a connection at once. A frame is what it asks for;
  bytes are the subject of `LdapCodec`.
* A fetch of the rules is two queries in `ProxyAuth`, rules and then groups.
  `unchanged` counts the time since either changed.
* The provider of `KeyLifecycle` is what `getNextConfig` put into it. A tick is
  the time between two maintenance runs that must have succeeded; `signed` is
  how long the last token of a key is still good.
* `config` of `Settings` is `appConfig`. `unread` are the settings whose row has
  changed, by a commit or by an undone save, since memory was last filled.
* `declared` maps a client to where its variables come from. `older` are the
  containers which refreshes that have been overtaken have still to inspect:
  they fill maps nobody reads, but may end the process.

## Runs

| Run | Instance | Shows |
|---|---|---|
| `login_flow` | five parts, see below | `AmrProven`, `ProtectedAuthenticators`; `GrantsConsented`, `AskedIsConfirmed`; `AuthorizedMayLogin`; `TotpSatisfiesMfa`, `PageOffersWayForward`; `FollowedCompletes` |
| `login_shared_redirect` | the part *consent* of it | counterexample to `GrantsConfirmed` |
| `login_dead_end` | the part *email* of it, MFA required of everybody | counterexample to `PageOffersWayForward` |
| `totp_sqlite` | three requests, one authenticator, six periods, transactions serialized | `NeverReplayed`, `FreshCodeAccepted`, `LockoutHolds` |
| `totp_postgres` | the same side by side | counterexample to `NeverReplayed` |
| `credentials_sqlite` | three requests, two passkeys, two tokens, two sessions, serialized | `LoginMethodRemains`, `SignedOutForGood`, `OneResetPerToken`, `ReplacesProvenPassword` |
| `credentials_reset` | the same | counterexample to `ResetSpendsAllTokens` |
| `credentials_postgres` | two requests side by side | counterexample to `SignedOutForGood` |
| `administration` | eight parts, see below | `DirectoryMirrored`, `LocalAccountsUntouched`; `GroupsOfInvitationOnce`; `RulesRecent`, `VisitsSettle`; `TokensVerifiable`, `RotationSafe`, `ProviderInStep`; `SettingsInForce`; `DeclaredSettles`; `SpecificFirst` |
| `admin_linked` | the part *sync* of it with two disturbances | counterexample to `AdminsNeverLinked` |
| `ldap_server` | one connection, two loops, one user and the service account; inputs of the codec | `KeepsAccessPromise`, `BindsAreCurrent`, `BackoffLimitsGuesses`, `NoGuessWhileBlocked`, `RequestsAnswered`, `PoolAccounts`, `ShowsWhoMayLogIn`; `MessagesSurvive`, `SearchesFindNames` |
| `ldap_backoff_forgets` | the same | counterexample to `ConsecutiveFailuresRefused` |

`login_flow` and `administration` choose at the start which of their parts the
behaviour is about, so the state spaces add up instead of multiplying. A part of
`login_flow` keeps to accounts, clients and events of its own (`MCUsersOf`,
`PartClients`, `PartRequests`, `PartOthers`):

* *factors*: two accounts share a browser, one with a password and a TOTP, one
  with a passkey, and one client requires MFA. No administrator, no
  `prompt=consent`; pending authenticators expire.
* *consent*: two accounts with passkeys, two clients that share a redirect URI,
  one of which has another of its own, requests with and without
  `prompt=consent`, and a consent that expires. No TOTP.
* *admin*: an employee with a TOTP or a password only, whose approval, expiry,
  required MFA and groups change at any time. No passkeys.
* *email*: an employee with an address to be verified, the internal client and
  one that requires MFA, verifications and authenticators that expire. No
  passkeys.
* *follow*: a cooperative user (`LoginFollow`) with one of 12 kinds of accounts,
  and all the clients.

A part of `administration` leaves the variables of the others alone:

* *sync*: two cycles that overlap, a directory in which a person is renamed
  and another leaves, four ways the accounts may stand before, all four
  configurations among them. `DirectoryMirrored` is promised after a cycle that
  nothing has disturbed, `LocalAccountsUntouched` always.
* *mirror*: one cycle alone, from tables such as overlapping cycles and
  administrators may leave: two accounts linked to one entry each, both to the
  same, or to none, in the administrators' group by hand, by the sync or not at
  all, and that group one of the directory's or not. The directory may hand a
  name from one entry to another, or have a group of the administrators' name.
* *registration*: two passkey ceremonies and registrations by password, with and
  without an invitation, against an administrator.
* *proxy*: two visitors (one administrator), a site with two rules and one with
  one, sessions that age, rules and groups that change.
* *keys*: signing and cookie keys, renewals, two changes of `STORAGE_KEY`,
  stops, and transactions that end in an error after the provider followed them.
* *settings*: one setting of each kind, saved, undone, loaded and not loaded.
* *clients*: two containers and the environment, which declare the same client.
* *domains*: every list of up to three domains out of `MCDomainInputs`.

In `ldap_server` the server runs for an ordinary account. A behaviour may also
be one account of any kind (for `ShowsWhoMayLogIn`), or one input of the codec,
and then has no steps.

No run checks deadlock: requests of `TotpLogin` and `Credentials` are sent once
and then all is done, a browser may have nothing to do, and the other runs stop
at their bounds.

### Bounds

* Two users are enough for every crossing of accounts, since a session, an
  interaction, a submission and a result hold one account each and every
  property compares two. One client suffices where the property is about an
  account and a client; two where the kind of client matters, or where they
  share a redirect URI.
* What the properties of a part of `login_flow` do not depend on stands still in
  it, and each of these choices is open in another part. A passkey verifies its
  user (`PasskeyKinds`) but for the follower, who first uses one that does not.
* `EMAIL_VERIFICATION` is on in every part, with verified addresses where
  addresses are not the point, and `MfaGroups` is empty. The theorems about
  `LoginFlow` hold for all settings.
* `TotpLogin`: three requests exceed `TOTP_MAX_FAILED_ATTEMPTS`, which the
  instance sets to 2, so a burst, its lockout and an attempt after it all occur.
  The clock (`MaxTime` = 5) spans a window, a lockout and the look-back beyond
  it; the five limits keep the order they have in the code
  (`LimitsAssumption`: attempts outlive the look-back). Every timestep from -1 to 6 may be typed.
* `Credentials`: three requests allow two conflicting ones and a third which
  observes them; `credentials_postgres` needs two. Versions of the password
  are bounded by the number of requests. Requests, passkeys, tokens and sessions
  are symmetric (`AnyOrder`); only runs of this module use symmetry, and none of
  them checks liveness.
* *sync*: two cycles at a time and three in all (`CycleBound`), so a cycle can be
  overtaken and another follow both. `MishapBound` counts what disturbs them:
  a change of the directory, one handler of an administrator (`ChangeBound`) or
  one failed statement. Each of the properties concerns one account or one
  entry, which one disturbance can reach.
* *registration*: two ceremonies are what it takes to use an invitation twice;
  `UserBound` = 4 leaves room for two new users beside those there are. Where a
  new row needs an id, `idsSuffice` stops a behaviour that has none left. Every
  part begins with tables of `AccountsInit`, as the theorems do.
* *proxy*: `CACHE_TTL` and `FETCH_TIME` are one tick each, so the cache can be
  new, old and refilled by a fetch that began before a change. One change.
* *keys*: a key lives three ticks (`KEY_TTL`) and a token one (`TOKEN_TTL`):
  renewal at half life leaves a key that is used, one that is only kept and one
  that has expired. Four keys of a kind, as there are three at most at a time
  (`keyIdsSuffice` stops a behaviour that would need a fifth id);
  two rotations, to see the second find nothing left of the first key.
* *settings*: two saves and two processes: what one saves, the other loads. The
  theorems have no such bound.
* *clients*: three events of Docker, so that one refresh can be overtaken twice.
* *ldap*: `MAX_BUFFER` = 2 and `FrameBound` = 3 let two frames be answered side
  by side while another arrives or is dropped; `BIND_FAILURES_BEFORE_BACKOFF`
  = 2 and `BIND_BACKOFF_MAX` = 2 reach a back-off, its doubling and its cap,
  and a second bind under way when the first one's failure begins a back-off.
  One connection, because connections share only the limit, the counters of an
  address and the pool, all of which two loops and the second address `unknown`
  exercise. `MAX_PENDING_JOBS` = 1 fills the queue of a worker by one bind.
* `LdapCodec`: each length and id at which the number of bytes changes, up to
  the limit of a frame and to 2^31 - 1; every name of up to three characters
  out of those that are escaped; every text of four letters and substring of two.

### Fairness

* *follow*: `WF_vars(Follow)`, the user keeps doing one of the things the
  page offers. The server has no scheduling of its own there, it answers
  requests. Which of the offered things the user does is left open, so the login
  ends however the user chooses.
* *proxy*: `WF(Proceeds(v))` for each visitor: browsers follow redirects, users
  answer prompts, queries return. `SessionAged` and the administrator are not
  fair, and a session ages between visits only: a rule's `maxSessionLength` is
  five minutes at least.
* *clients*: `WF(Inspects)`: the event loop runs and Docker answers, if only with
  an error; `DeclaredSettles` excepts the refresh whose listing failed.
* *ldap*: `WF(LoopStep(c, i))` for each loop: the database, the other directory
  (or its timeout) and the workers answer, and a worker that is lost reports it.
  Frames, changes, failures of workers and the passage of time are not fair.

Each fairness condition of a run with parts is conjoined with its part: a part
that stands still is not unfair, which would make the others hold vacuously.

### Disagreements with the documents

With a run:

* `login_dead_end`. `GET /interaction` looks at `user_mfa_required` before
  `user_email_not_validated`. With both, the browser goes to the MFA page, whose
  operations demand a verified address, and the mail is sent only by the
  page it never reaches. Only a passkey leads out. For the same reason the part
  *follow* (`mixedStaff`) leaves out the accounts that need a second factor and
  have no verified address.
* `totp_postgres`. The comment in `validateTOTP` promises that no code is
  accepted twice; the read, the comparison and the update are not atomic.
* `credentials_reset`. A reset by passkey deletes its own token and not "all".
* `credentials_postgres`. A login step in flight saves the session again after
  a password change has deleted it.
* `login_shared_redirect`. "Check if the user has already consented to this
  client/redirect" (`interaction.ts:162`): the row is found by user and redirect
  URI. `GrantsConsented` says what holds: a grant goes back to a form the user
  confirmed for one of the client's redirect URIs, perhaps another client's.
* `admin_linked`. "Accounts in the built-in admin group are never linked"
  (`docs/LDAP-Sync.md:87`): the group is read by one statement, the account linked
  by another, outside any transaction. `LocalAccountsUntouched` is what holds: no
  account is linked that was put into the group by hand before the cycles under
  way began.
* `ldap_backoff_forgets`. "After BIND_FAILURES_BEFORE_BACKOFF consecutive failed
  binds from one source address, further binds are refused" (`hardening.ts:15`): the
  cleanup, meant for entries that have ended, deletes the counts of addresses
  that were never blocked too. `BackoffLimitsGuesses` counts as the cleanup does.

All but `login_dead_end` and `login_shared_redirect` depend on nothing but the
order of requests and timers; `totp_postgres` and `credentials_postgres` need
PostgreSQL's READ COMMITTED and disappear on SQLite.

Met while modelling, in the models as the code has them, and without a run:

* `util/config.ts:248` says that a map of its own keeps the declared clients
  while containers change. The map is put in place before the callback of
  `listContainers` has filled it: clients declared by labels are missing during
  every refresh (`Refreshed`), and until the next event if the listing fails.
  `inspect` of a container that is gone rejects, and nobody handles it
  (`InspectionFailed`).
* `docs/Configuration.md:5`, "Changes take effect immediately after saving". A
  setting that is cleared (null) keeps its value in memory until a restart, and
  an uploaded logo takes effect with the next save (`LogoSaved`); a save that is
  undone has taken effect (`SettingsSaveUndone`). `SettingsInForce` says what is
  true: of a row that says something, once memory has followed.
* `docs/ProxyAuth-and-Trusted-Header-SSO-Setup.md:340` sorts domains from most to
  least specific. Within a part, `sortWildcardParts` takes more wildcards for
  more specific, and tries `a*b*.c` before `a*bd.c`. `SpecificFirst` is about
  domains with one star in a part at most.
* `db/tableMaintenance.ts:126` re-encrypts columns named `value`; a TOTP secret
  is in `secret`, and is not re-encrypted. `RotationSafe` is about keys and
  clients' secrets.

Consequences of the design the models keep, worth knowing: the last group of a
rule that is deleted leaves a rule everyone passes (`RuleGroupDeleted`); POST
`/group` can rename the administrators' group, after which nobody is one; the
last administrator can delete their own account (`AccountDeleted`); two passkey
registrations can both be approved by one invitation, though only one gets its
groups; two overlapping cycles and a renamed person can leave two accounts of
one DN; binds that overlap are all admitted before the first of them fails, and
a full pool counts as a failed bind; a second Argon2 worker is never created.

## Proofs

For every set of accounts, clients, groups and settings that satisfies the
assumptions of `AuthFactors` and `LoginFlow`:

* `TypeInvariant`: `TypeOK` with `OpenedByProvider` (an interaction that asks
  for consent was opened for a client, in the session of an account), which the
  type of a consent needs and `TypeOK` does not say.
* `AmrProvenInvariant`: inductive once the types hold. The work is in
  `loginResult`, which merges three amrs and keeps only those of the account.
* `GrantsConsentedInvariant`: needs `ConsentInv`, that every row of the table
  goes back to a confirmed form and every submitted consent to one for a
  redirect URI of the interaction's client, because the grant is given at the
  resume and not at the confirmation.
* `AskedIsConfirmedHolds`: needs `AskedInv`, that a consent submitted to a
  request with `prompt=consent` is of a user who confirmed since it began, and
  that a consent prompt leaves the asking out of its reasons only for such a
  user; and that the provider takes a grant for none but the account it was made
  for.
* `AuthorizedMayLoginInvariant`: at the step which sends a response the
  provider's checks imply `userCanLogin`, and for VoidAuth's own client
  `userIsPrivileged`; every other step clears `authorized`.
* `ProtectedAuthenticatorsHold`: an action property, from `AmrProven` and
  `SessionOfNobody` (nobody's session has no factors): a privileged request of
  an account with a TOTP has two factors, so one of them beyond the password.
* `TotpSatisfiesMfaHolds`: an action property, from an invariant of the logins themselves: a session or a result of an account has
  a factor that can begin a login (`LoginsBegun`), so a TOTP makes two of them,
  and a result is never merged into another account's (`ResumesSomething`).
* `OnlyUnverifiedStrandedHolds`: a login prompt with reasons is that of a user
  (`ReasonsHold`), and to that user the page it leads to offers something, unless
  it is the page for a second factor and the address is unverified, or the one
  for the address and there is none. `PageOffersWayForwardHolds` is the case in
  which addresses need not be verified.

For every number of requests and authenticators and all limits that have the
code's order (`LimitsAssumption`: attempts outlive what they lock):

* `NeverReplayedHolds`, when transactions are serialized: `TotpLogin` implements
  `OneTimeCodes`. The invariant is `TypeOK`, `OneOpen` (one transaction at a
  time), `MatchHolds` (what the request matched is still what the row says when
  it commits) and `LogRemembered` (the row remembers the newest code of the
  log). TLC checked it on the instance of `totp_sqlite`. `OneOpen` is what READ
  COMMITTED loses.
* `LockoutHoldsAlways`, when transactions are serialized: adds `AttemptsPast`
  (nothing is recorded for the future) and `FailuresClear` (a request that was let
  through comes after every failure there is and after the lockouts they start,
  until it has recorded its own). The lemma `Latest` finds, in a full window, the
  attempt whose lockout it would have had to see.
* `FreshCodeAcceptedHolds` and `TotpTypeInvariant`, on either database: the row's
  last code is one of the log (`UsedAreLogged`), which holds although requests
  overwrite each other's; the type of a committed row needs `CodesMatched`, by
  which an accepted token is a code of some authenticator.

For every number of requests, passkeys, tokens and sessions, when transactions
are serialized (`CredentialsProofs`):

* One invariant, `IInv`, carries all of it. A request may rely on what it has read
  (`RequestsHold`: a passkey counted is there, a password verified is the
  current one, a token found is unspent) because no other transaction is open
  (`OneOpen`); `TokensSpent` relates successes to tokens that are gone.
* `LoginMethodRemainsHolds`, `SignedOutForGoodHolds`, `OneResetPerTokenHolds` are
  conjuncts of it or follow from it; `ReplacesProvenPasswordHolds` is an action
  property by it: the password that was verified (`Allowed`) is still the one
  there is when the request commits.

For any connections, loops, accounts, addresses and limits (`LdapServerProofs`):

* `KeepsAccessPromiseHolds`: the refinement of `DirectoryAccess`. It needs
  `HoldersProven` (an identity held was proven on that connection) and
  `LoopsHold`, what a loop still knows after it has waited: that the password was
  right at some moment of the bind, that entries are collected for the service
  account.
* `PoolAccountsHolds`: the counters of a worker are the sizes of sets of jobs, and
  those of a worker that is gone are zero (`PoolHolds`); a loop waits for the
  pool exactly as long as its job is pending (`JobsOfLoops`), so no job is
  given to a worker twice.
* `BindsAreCurrentHolds`: an action property from `LoopsHold`, by which what a bind
  has read was so at some moment since it began. `ShowsWhoMayLogInHolds` compares
  the conditions of the directory with those of `AuthFactors`.
* `BackoffLimitsGuessesHolds`: all guesses of an address are among its failures
  unless it is blocked (`GuessesCounted`), and one that has the limit of failures
  is blocked in the step that records the last. How many binds overlap does not
  matter. The delays are powers of two: that these are numbers, and not zero, is
  induction, done by a least counterexample (`WFMin` of the library).
* `NoGuessWhileBlockedHolds`: an action property. A bind that ends takes one from
  those under way for the one it adds to the guesses, and none is taken up
  (`DecidedWhileBlocked`, `TurnWhileBlocked`), so the sum never grows
  (`SumOfGuesses`).
* `LdapServerTypeInvariant`: with `SocketTypes` and `GuessTypes`.

For any lifetimes `KeyAssumption` allows and any number of renewals, changes of
`STORAGE_KEY`, restarts and undone requests (`KeyLifecycleProofs`), as long as
key ids do not run out (`keyIdsSuffice`, a guard of the model):

* `TokensVerifiableHolds`, `RotationSafeHolds`, `ProviderInStepHolds`: the invariant
  says by which storage keys rows may be encrypted (`AllOpen`), that no token
  outlives the row of its key (`Held`), that the provider has every key of the
  table that has not expired and no others but those of undone transactions
  (`Known`, `Stored`, `Straying`), and that it can sign until the next maintenance
  run (`Lasting`). `Lasting` is where half lives matter, and why a token's life is
  bounded by half a key's: no property mentions it.
* `KeysTyped`: type correctness.

For all settings, environments, defaults and bodies a validated request may
have (`SettingsAssumption`), and any number of saves, failures and processes:

* `SavedSettingsInForce`: `SettingsInForce` is inductive with `SettingsTypeOK`.
  The lemma `AppliedInStep` says that filling memory from a table puts it in step
  with it; `WrittenTable` that an undone save differs from the table only where
  its body says so, which is what `unread` then excepts.
* `SettingsTyped`: numbers and booleans in memory are of their type, because the
  route accepts nothing else and `assigned` keeps the default otherwise.

For any users, groups, invitations, rules, directories and settings, and any
number of cycles, registrations and visitors, as long as ids do not run out
(`idsSuffice`), and if a dn identifies an entry of a directory
(`SyncAssumption`) (`AdministrationProofs` and `LdapMirrorProofs`; tables begin as
in `AccountsInit`: as saved rows, with memberships by the sync for linked accounts
only):

* `LocalAccountsUntouchedHolds`: an action property. `SyncInv` says what a cycle
  still knows when it acts on what it has read some statements before
  (`FoundOut`): the account it updates or removes is the directory's, the group
  too, the account it links is not the initial administrator's nor, once asked,
  an administrator's, the memberships it revokes were not given by hand; unless
  an administrator made it untrue in between, which `appointed` remembers.
  `TablesStay` is what every step leaves true for the cycles in their middle:
  accounts and groups of the directory stay the directory's, new ids are held by
  no cycle, and two groups never have the administrators' name
  (`AdministratorsSave`, `MeanwhileSteps`).
* `GroupsOfInvitationOnceHolds`: an invitation whose groups were given is gone and
  its id is not used again (`CopiedAreGone`), whatever a ceremony has read.
* `RulesRecentHolds`: an action property. What a fetch has read and what the cache
  holds are the rules in force, if they were read after the last change
  (`ReadInForce`, `CacheInForce`); that a stale fetch may overwrite a newer one
  is why the age of a fetch counts as well.

* `SyncTypesHold`: rows refer to rows that are there, and cycles hold ids of rows
  (`WellInv`: in each phase of a cycle, what its variables are). It also says
  that the sync makes members only of linked accounts (`Granted`, and `Gives` for
  the one about to be added), which the next theorem needs: an administrator whom
  the sync removes was never the reason to spare a local account.
* `DirectoryMirroredHolds`: after a cycle that nothing has disturbed the tables are
  as the directory says. `MirrorInv` says of each phase of such a cycle what its
  loops have done so far and that later steps do not undo it: who has been
  processed owns the name of their entry (`PersonDone`) by an account that is not
  removed later (`PeopleCounted`, then `PeopleSettled`, where the removals are
  those not counted), groups have the members of their entry (`GroupDone`), of
  the group whose turn it is those found so far (`MembersFound`), and then those
  there and those still to be added or dropped (`MembersToBe`), and likewise of
  the administrators (`AdminsFound`, `AdminsToBe`). `PersonStaysDone` and
  `GroupStaysDone` say when a write to another row leaves them done. The attempt
  to prove an earlier version of the property showed what it had left out, and
  each case is now excepted in its text and occurs in the part *mirror*: a name
  handed from one entry to another within a cycle, two accounts of one dn, a
  directory group with the administrators' name.

Model-checked only, of the safety properties: `TypeOK` of `administration` as a
whole, of which `SyncTypesHold`, `KeysTyped` and `SettingsTyped` are parts;
`MessagesSurvive`, `SearchesFindNames` and `SpecificFirst`, which are about folds
over bytes and characters, for which the provers have no induction.
`FollowedCompletes` (`LoginCompletes` of the part *follow*), `VisitsSettle`,
`DeclaredSettles` and `RequestsAnswered` are liveness, which TLAPS cannot prove
here. No module declares a recursive operator.

## Not modelled, and limits

* `SignedOutForGood` is about writes of `/api` requests. The provider's own
  requests read and save the session outside of any transaction, and a login
  result not yet resumed is not a session.
* `Accounts`, `Registration`, `KeyLifecycle` and `Settings` take a writing
  request for atomic, as on SQLite. `LdapSync`, `LdapServer`, `ProxyAuth` and
  `DeclaredClients` run outside transactions on either database, query by query.
* `LocalAccountsUntouched` excepts whoever is made an administrator while a cycle
  is under way: `userIsAdmin`, or the query of the memberships, may have been
  asked before, and the code looks only once (`admin_linked`).
* Several processes over one database (`docs/Configuration.md:154`): memory of
  `KeyLifecycle`, `Settings`, `ProxyAuth` and the counters of binds are those of
  one.
* Scopes of a consent, the address in an email verification, the
  username enumeration defences, rate limits, tokens and the contents of
  claims; the fields of a client; what a cleared setting leaves.
* `AdminUpdatesUser` changes the fields of one request one after the other and
  leaves out usernames, names and custom claims, which nothing there reads.
* A commit succeeds, but for `KeyLifecycle` and `Settings`, where what it leaves
  in memory matters; an aborted connection does not leave a transaction open
  (see the hazards in `PROJECT.json`).
* LDAP filters other than equality and substrings compare without state;
  attributes and the timers of `hardening.ts` that outlive their connection.
* `LDAP_BIND_DN` is taken to be a name of its own, and not the empty one: it has a
  default (`config.ts:81`), and nothing refuses another. `BackoffLimitsGuesses`
  and `NoGuessWhileBlocked` except an address a bind of which has failed after
  its connection was gone (it counts for `unknown`), and binds that end in an
  exception, which the code does not count: passwords of as many characters but
  not as many bytes as the service account's, and queries that fail.
* Names a synchronisation brings are not trimmed, while `parseDN` trims: one that
  begins or ends with a space cannot be looked up. `SearchesFindNames` is about
  names as VoidAuth takes them when entered.
* The keys of a transaction that ended in an error (`undone`) may sign tokens
  that cannot be verified later: the provider is memory. `TokensVerifiable`
  excepts them, and assumes a token to live less than half as long as a key
  (`KeyAssumption`), one maintenance run that succeeds in each tick, and the
  key before as `STORAGE_KEY_SECONDARY`.
* Email delivery, theme, logging, migrations and the command line have no state
  of the domain; of the frontend only what its pages offer in a login.
