----------------------------- MODULE LoginFlow -----------------------------
(***************************************************************************)
(* One browser going through VoidAuth's login: its session cookie, its     *)
(* interaction cookie, the factors they accumulate, and the authorization  *)
(* requests they decide.                                                   *)
(*                                                                         *)
(* An action is one HTTP request.  A writing /api request runs in one      *)
(* database transaction, and on SQLite those transactions are serialized,  *)
(* so it is one step here; what concurrent transactions do to the same     *)
(* rows is the subject of the modules TotpLogin and Credentials.           *)
(*                                                                         *)
(* The oidc-provider library is external: StartAuthorization, Resume and   *)
(* SessionEnds say what src/server relies on it to do.                     *)
(***************************************************************************)
EXTENDS AuthFactors, FiniteSets

CONSTANTS
  Users,          \* accounts
  Nobody,         \* the account of a session that has not logged in
  Clients,        \* OIDC clients
  ClientOf,       \* Clients -> ClientRow
  NoClient,       \* no client
  RedirectURIs,   \* where clients let the browser return to
  RedirectsOf,    \* [Clients -> SUBSET RedirectURIs], clients may share one
  NoRedirect,     \* no redirect URI
  InitialUsers,   \* the user tables the system may start with
  PasskeyKinds,   \* whether a passkey verifies its user: a set of booleans
  Addresses,      \* whether a user enters an address or none: likewise
  AdminFields,    \* what administrators, or time, change of a user
  Happens         \* which of Happenings there are

(* What a behaviour may do without.                                        *)
Happenings ==
  {"totp", "consent_prompt", "totp_expires", "verification_expires", "consent_expires"}

ASSUME LoginFlowAssumption ==
  /\ Nobody \notin Users
  /\ NoClient \notin Clients
  /\ ClientOf \in [Clients -> ClientRow]
  /\ RedirectsOf \in [Clients -> SUBSET RedirectURIs]
  /\ NoRedirect \notin RedirectURIs
  /\ InitialUsers \subseteq [Users -> UserRow]
  /\ PasskeyKinds \subseteq BOOLEAN
  /\ Addresses \subseteq BOOLEAN
  /\ AdminFields \subseteq {"approved", "expired", "mfaRequired", "hasEmail",
                          "emailVerified", "groups"}
  /\ Happens \subseteq Happenings

VARIABLES
  user,           \* the user table, with authenticators, passkeys and groups
  verifications,  \* users with an unexpired row in email_verification
  consents,       \* rows of the consent table, as <<user, redirect_uri>>
  session,        \* the browser's session
  interaction,    \* the browser's interaction
  page,           \* where the last response sent the browser
  authorized,     \* the authorization response sent by the last step
  proven,         \* history: <<user, factor>> this browser has proven
  confirmed,      \* history: <<user, client, redirect_uri>> of the consent
                  \* forms which were confirmed
  confirmers      \* history: the users who confirmed the one which the last
                  \* authorization request asked for

consentVars == <<consents, confirmed, confirmers>>

vars == <<user, verifications, consentVars, session, interaction, page,
          authorized, proven>>

Accounts == Users \cup {Nobody}
ConsentReasons == {"consent_prompt", "client_mfa_required", "op_scopes_missing"}
Pages ==
  {"client", "interaction", "resume", "login", "mfa", "consent", "forbidden",
   "approval_required", "user_expired", "verification_email_sent", "error"}

(* What is submitted to an interaction: a login, and the account which a   *)
(* grant was made for.                                                     *)
Login == [account : Accounts, amr : SUBSET Factors, consent : Accounts]
Session == [account : Accounts, amr : SUBSET Factors, grants : SUBSET Clients]
Interaction ==
  [prompt : {"none", "login", "consent"},
   client : Clients \cup {NoClient},
   redirect_uri : RedirectURIs \cup {NoRedirect},
   reasons : SUBSET (LoginReasons \cup ConsentReasons),
   origin : Accounts,          \* the account of the session it was opened in
   asked : BOOLEAN,            \* the request asks for consent (prompt=consent)
   lastSubmission : Login,     \* the result of the interaction before
   result : Login]             \* the result submitted to this one
Authorization ==
  [account : Accounts, client : Clients \cup {NoClient}, asked : BOOLEAN]

NoLogin == [account |-> Nobody, amr |-> {}, consent |-> Nobody]
NoSession == [account |-> Nobody, amr |-> {}, grants |-> {}]
NoInteraction ==
  [prompt |-> "none", client |-> NoClient, redirect_uri |-> NoRedirect,
   reasons |-> {}, origin |-> Nobody, asked |-> FALSE,
   lastSubmission |-> NoLogin, result |-> NoLogin]
NoAuthorization == [account |-> Nobody, client |-> NoClient, asked |-> FALSE]

Init ==
  /\ user \in InitialUsers
  /\ verifications = {}
  /\ consents = {}
  /\ session = NoSession
  /\ interaction = NoInteraction
  /\ page = "client"
  /\ authorized = NoAuthorization
  /\ proven = {}
  /\ confirmed = {}
  /\ confirmers = {}

-----------------------------------------------------------------------------
(* What a request handler reads.                                           *)

(***************************************************************************)
(* getInteractionDetails: the interaction of the cookie, unless the        *)
(* session it was opened in is gone or has changed account.                *)
(***************************************************************************)
details ==
  IF interaction.origin \in {Nobody, session.account} THEN interaction
                                                       ELSE NoInteraction

(***************************************************************************)
(* getUserSessionInteraction: req.user is the user of the session, or of   *)
(* the login result waiting in the interaction, and the amr joins both     *)
(* when they belong to the same user.                                      *)
(***************************************************************************)
reqAccount ==
  IF session.account # Nobody THEN session.account ELSE details.result.account

reqAmr ==
  session.amr \cup
    (IF details.result.account = reqAccount THEN details.result.amr ELSE {})

hasReqUser == reqAccount # Nobody

(* A handler that finishes a login needs an interaction or a session.      *)
pageNotTooOld == details.prompt # "none" \/ session.account # Nobody

-----------------------------------------------------------------------------
(***************************************************************************)
(* loginResult: add factors to the session and to the result of the        *)
(* interaction.  A password starts the list afresh; anything else joins    *)
(* what the same user had in the session, in the last submission and in    *)
(* the pending result.  A consent of the last submission stays in.         *)
(***************************************************************************)
(* Mistaken: the factors of whoever logged in before.                      *)
mergedWithAnyone(amr, keep, login, u) == IF keep THEN amr \cup login.amr ELSE amr

(* Mistaken: the password joins, the other factors start afresh.           *)
mergedWhenFirst(amr, keep, login, u) ==
  IF ~keep /\ login.account = u THEN amr \cup login.amr ELSE amr

mergedWith(amr, keep, login, u) ==
  IF keep /\ login.account = u THEN amr \cup login.amr ELSE amr

loginResult(u, amr) ==
  LET keep == amr \cap firstFactors = {}
      withSession == mergedWith(amr, keep, session, u)
      withSubmission == mergedWith(withSession, keep, details.lastSubmission, u)
      withResult == mergedWith(withSubmission, keep, details.result, u)
  IN /\ session' = IF session.account = u
                   THEN [session EXCEPT !.amr = withSession] ELSE session
     /\ IF details.prompt = "none" THEN UNCHANGED <<interaction, page>>
        ELSE /\ interaction' = [interaction EXCEPT
                  !.result = [account |-> u, amr |-> withResult,
                              consent |-> interaction.lastSubmission.consent]]
             /\ page' = "resume"
     /\ proven' = proven \cup ({u} \X amr)
     /\ authorized' = NoAuthorization

(* POST /interaction/login with the user's password.                       *)
PasswordLogin(u) ==
  /\ pageNotTooOld
  /\ user[u].hasPassword
  /\ loginResult(u, {"pwd"})
  /\ UNCHANGED <<user, verifications, consentVars>>

(* Mistaken: a name which no list of factors has.                          *)
passkeyAmrMisnamed(verified) ==
  IF verified THEN {"webauthn", "webauthn_uv"} ELSE {"webauthn"}

(* The factors of a passkey, by whether it verified its user.              *)
passkeyAmr(verified) == IF verified THEN {"webauthn", "webauthn_v"} ELSE {"webauthn"}

(* POST /interaction/passkey/end with one of the user's passkeys.          *)
PasskeyLogin(u, verified) ==
  /\ pageNotTooOld
  /\ user[u].hasPasskeys
  /\ loginResult(u, passkeyAmr(verified))
  /\ UNCHANGED <<user, verifications, consentVars>>

(* POST /interaction/passkey/registration/end.                             *)
PasskeyRegistration(verified) ==
  /\ hasReqUser
  /\ userIsPrivileged(user[reqAccount], reqAmr)
  /\ user' = [user EXCEPT ![reqAccount].hasPasskeys = TRUE]
  /\ loginResult(reqAccount, passkeyAmr(verified))
  /\ UNCHANGED <<verifications, consentVars>>

(* POST /interaction/totp/registration: a pending authenticator.           *)
TotpRegistration ==
  /\ "totp" \in Happens
  /\ hasReqUser
  /\ userIsPrivilegedForTotpCreate(user[reqAccount], reqAmr)
  /\ user' = [user EXCEPT ![reqAccount].pendingTotp = TRUE]
  /\ authorized' = NoAuthorization
  /\ UNCHANGED <<verifications, consentVars, session, interaction, page, proven>>

(***************************************************************************)
(* POST /interaction/totp with a right code of a confirmed or of a pending *)
(* authenticator; the latter is thereby confirmed.                         *)
(***************************************************************************)
Totp(pending, enableMfa) ==
  LET u == reqAccount
  IN /\ "totp" \in Happens
     /\ hasReqUser
     /\ userIsPrivilegedForTotpValidate(user[u], reqAmr)
     /\ IF pending THEN user[u].pendingTotp ELSE user[u].hasTotp
     /\ user' = [user EXCEPT
          ![u].hasTotp = TRUE,
          ![u].pendingTotp = @ /\ ~pending,
          ![u].mfaRequired = @ \/ enableMfa]
     /\ loginResult(u, {"totp"})
     /\ UNCHANGED <<verifications, consentVars>>

(* DELETE /user/totp.                                                      *)
DeleteTotp ==
  /\ hasReqUser
  /\ userIsPrivileged(user[reqAccount], reqAmr)
  /\ user[reqAccount].hasTotp
  /\ user' = [user EXCEPT ![reqAccount].hasTotp = FALSE,
                          ![reqAccount].pendingTotp = FALSE,
                          ![reqAccount].mfaRequired = FALSE]
  /\ authorized' = NoAuthorization
  /\ UNCHANGED <<verifications, consentVars, session, interaction, page, proven>>

(* createEmailVerification, for the address the user already has.          *)
canVerifyEmail(u) ==
  ~isUnapproved(user[u]) /\ ~isExpired(user[u]) /\ user[u].hasEmail

(* POST /auth/send_verify_email.                                           *)
SendVerifyEmail(u) ==
  /\ EMAIL_VERIFICATION
  /\ ~user[u].emailVerified
  /\ u \notin verifications
  /\ canVerifyEmail(u)
  /\ verifications' = verifications \cup {u}
  /\ authorized' = NoAuthorization
  /\ UNCHANGED <<user, consentVars, session, interaction, page, proven>>

(* POST /interaction/verify_email with the challenge of the email.         *)
VerifyEmail(u) ==
  /\ pageNotTooOld
  /\ u \in verifications
  /\ user' = [user EXCEPT ![u].emailVerified = TRUE, ![u].hasEmail = TRUE]
  /\ verifications' = verifications \ {u}
  /\ loginResult(u, {"email"})
  /\ UNCHANGED consentVars

(***************************************************************************)
(* PATCH /user/email with a new address or with none: stored at once only  *)
(* when nothing has to be verified or when there was none.                 *)
(***************************************************************************)
UpdateEmail(address) ==
  LET u == reqAccount
  IN /\ hasReqUser
     /\ userIsPrivilegedForEmail(user[u], reqAmr)
     /\ verifications' = IF EMAIL_VERIFICATION /\ address
                         THEN verifications \cup {u} ELSE verifications
     /\ user' = IF EMAIL_VERIFICATION /\ user[u].hasEmail THEN user
                ELSE [user EXCEPT ![u].hasEmail = address]
     /\ authorized' = NoAuthorization
     /\ UNCHANGED <<consentVars, session, interaction, page, proven>>

(***************************************************************************)
(* POST /interaction/try-again: submit the previous result again.          *)
(***************************************************************************)
TryAgain ==
  /\ details.lastSubmission # NoLogin
  /\ interaction' = [interaction EXCEPT !.result = interaction.lastSubmission]
  /\ page' = "resume"
  /\ authorized' = NoAuthorization
  /\ UNCHANGED <<user, verifications, consentVars, session, proven>>

(* DELETE /interaction/current.                                            *)
CancelInteraction ==
  /\ details.prompt # "none"
  /\ interaction' = NoInteraction
  /\ session' = NoSession
  /\ authorized' = NoAuthorization
  /\ UNCHANGED <<user, verifications, consentVars, page, proven>>

-----------------------------------------------------------------------------
(***************************************************************************)
(* GET /interaction: send the browser to the page that lets it go on.      *)
(***************************************************************************)
loginPage(reasons) ==
  IF "user_not_approved" \in reasons THEN "approval_required"
  ELSE IF "user_expired" \in reasons THEN "user_expired"
  ELSE IF "user_mfa_required" \in reasons THEN "mfa"
  ELSE IF "user_email_not_validated" \in reasons THEN "verification_email_sent"
  ELSE "login"

RouteLoginPrompt ==
  /\ details.prompt = "login"
  /\ page' = loginPage(interaction.reasons)
  /\ verifications' =
       IF /\ page' = "verification_email_sent"
          /\ hasReqUser
          /\ canVerifyEmail(reqAccount)
       THEN verifications \cup {reqAccount} ELSE verifications
  /\ authorized' = NoAuthorization
  /\ UNCHANGED <<user, consentVars, session, interaction, proven>>

(* Mistaken: anybody's consent counts.                                     *)
skipConsentOfAnyone ==
  \/ ClientOf[interaction.client].internal
  \/ ClientOf[interaction.client].skip_consent
  \/ \E u \in Users : <<u, interaction.redirect_uri>> \in consents

(***************************************************************************)
(* Consent is not asked for, or not again: the user has consented to this  *)
(* redirect URI before, to whichever client that was.                      *)
(***************************************************************************)
skipConsent ==
  \/ ClientOf[interaction.client].internal
  \/ ClientOf[interaction.client].skip_consent
  \/ <<reqAccount, interaction.redirect_uri>> \in consents

(* interactionResult with a grant for the account of the interaction,      *)
(* merged with the last submission.                                        *)
submitConsent ==
  /\ interaction' = [interaction EXCEPT
       !.result = [interaction.lastSubmission EXCEPT !.consent = interaction.origin]]
  /\ page' = "resume"

(* Mistaken: consent on record answers a request for the consent page.     *)
RouteConsentPromptByRecord ==
  /\ details.prompt = "consent"
  /\ LET mfaFirst == "client_mfa_required" \in interaction.reasons
     IN \/ ~mfaFirst /\ skipConsent /\ submitConsent
        \/ ~mfaFirst /\ ~skipConsent /\ page' = "consent" /\ UNCHANGED interaction
        \/ mfaFirst /\ page' = "mfa" /\ UNCHANGED interaction
  /\ authorized' = NoAuthorization
  /\ UNCHANGED <<user, verifications, consentVars, session, proven>>

RouteConsentPrompt ==
  /\ details.prompt = "consent"
  /\ LET asked == "consent_prompt" \in interaction.reasons
         mfaFirst == ~asked /\ "client_mfa_required" \in interaction.reasons
     IN \/ /\ asked \/ (~mfaFirst /\ ~skipConsent)
           /\ page' = "consent"
           /\ UNCHANGED interaction
        \/ /\ mfaFirst
           /\ page' = "mfa"
           /\ UNCHANGED interaction
        \/ /\ ~asked /\ ~mfaFirst /\ skipConsent
           /\ submitConsent
  /\ authorized' = NoAuthorization
  /\ UNCHANGED <<user, verifications, consentVars, session, proven>>

(***************************************************************************)
(* POST /interaction/:uid/confirm with the uid of the interaction, whether *)
(* its consent page was opened or not.                                     *)
(***************************************************************************)
ConfirmConsent ==
  /\ details.prompt = "consent"
  /\ consents' = consents \cup {<<interaction.origin, interaction.redirect_uri>>}
  /\ confirmed' = confirmed \cup
       {<<interaction.origin, interaction.client, interaction.redirect_uri>>}
  /\ confirmers' =
       IF interaction.asked THEN confirmers \cup {interaction.origin} ELSE confirmers
  /\ submitConsent
  /\ authorized' = NoAuthorization
  /\ UNCHANGED <<user, verifications, session, proven>>

-----------------------------------------------------------------------------
(***************************************************************************)
(* The provider decides an authorization request of client c in session s: *)
(* login checks first, then the client's groups and the consent checks,    *)
(* and only then an authorization response.  What was submitted before     *)
(* counts: prompt=consent is complied with once a consent is among it.     *)
(***************************************************************************)
openInteraction(c, r, s, prompt, reasons, asked, submitted) ==
  /\ interaction' = [NoInteraction EXCEPT
       !.prompt = prompt, !.client = c, !.redirect_uri = r, !.reasons = reasons,
       !.asked = asked, !.origin = s.account, !.lastSubmission = submitted]
  /\ page' = "interaction"
  /\ authorized' = NoAuthorization

consentPromptReasons(c, s, pending) ==
  {r \in ConsentReasons :
     \/ r = "consent_prompt" /\ pending
     \/ r = "client_mfa_required"
          /\ clientMfaRequired(ClientOf[c], user[s.account], s.amr)
     \/ r = "op_scopes_missing" /\ c \notin s.grants}

decideAuthorization(c, r, s, asked, submitted) ==
  LET u == user[s.account]
      mayLogin == s.account # Nobody /\ loginPromptReasons(u, s.amr) = {}
      missing == consentPromptReasons(c, s, asked /\ submitted.consent = Nobody)
  IN \/ /\ s.account = Nobody
        /\ openInteraction(c, r, s, "login", {}, asked, submitted)
     \/ /\ s.account # Nobody
        /\ loginPromptReasons(u, s.amr) # {}
        /\ openInteraction(c, r, s, "login", loginPromptReasons(u, s.amr), asked, submitted)
     \/ /\ mayLogin
        /\ userGroupMissing(ClientOf[c], u)
        /\ interaction' = NoInteraction
        /\ page' = "forbidden"
        /\ authorized' = NoAuthorization
     \/ /\ mayLogin
        /\ ~userGroupMissing(ClientOf[c], u)
        /\ missing # {}
        /\ openInteraction(c, r, s, "consent", missing, asked, submitted)
     \/ /\ mayLogin
        /\ ~userGroupMissing(ClientOf[c], u)
        /\ missing = {}
        /\ interaction' = NoInteraction
        /\ page' = "client"
        /\ authorized' = [account |-> s.account, client |-> c, asked |-> asked]

(* A client sends the browser to /oidc/auth, perhaps with prompt=consent.  *)
StartAuthorization(c, r, asked) ==
  /\ asked => "consent_prompt" \in Happens
  /\ decideAuthorization(c, r, session, asked, NoLogin)
  /\ confirmers' = {}
  /\ UNCHANGED <<user, verifications, consents, confirmed, session, proven>>

(***************************************************************************)
(* The browser follows returnTo of an interaction with a result: the       *)
(* provider takes the login into the session (a new session when the       *)
(* account differs) and the grant into the session, and decides again.  A  *)
(* grant made for another account ends the request with an error.          *)
(***************************************************************************)
Resume ==
  LET login == interaction.result
      loggedIn ==
        CASE login.account = Nobody -> session
          [] login.account = session.account /\ login.account # Nobody ->
               [session EXCEPT !.amr = login.amr]
          [] login.account \notin {Nobody, session.account} ->
               [account |-> login.account, amr |-> login.amr, grants |-> {}]
      granted ==
        IF login.consent = Nobody THEN loggedIn
        ELSE [loggedIn EXCEPT !.grants = @ \cup {interaction.client}]
  IN /\ details.prompt # "none"
     /\ login # NoLogin
     /\ IF login.consent \in {Nobody, loggedIn.account}
        THEN /\ session' = granted
             /\ decideAuthorization(interaction.client, interaction.redirect_uri,
                                    granted, interaction.asked, login)
        ELSE /\ session' = loggedIn
             /\ interaction' = NoInteraction
             /\ page' = "error"
             /\ authorized' = NoAuthorization
     /\ UNCHANGED <<user, verifications, consentVars, proven>>

(* Logout at the provider, expiry of the session, or endSessions elsewhere. *)
SessionEnds ==
  /\ session' = NoSession
  /\ authorized' = NoAuthorization
  /\ UNCHANGED <<user, verifications, consentVars, interaction, page, proven>>

-----------------------------------------------------------------------------
(* What others, and time, do to the user table.                            *)

(***************************************************************************)
(* PATCH /admin/user, or the passing of expiresAt.  The request sets all   *)
(* of the fields at once; here it changes them one after the other.        *)
(***************************************************************************)
AdminUpdatesUser(u) ==
  /\ \/ \E field \in AdminFields \ {"groups"} :
           user' = [user EXCEPT ![u][field] = ~@]
     \/ /\ "groups" \in AdminFields
        /\ \E groups \in SUBSET Groups : user' = [user EXCEPT ![u].groups = groups]
  /\ authorized' = NoAuthorization
  /\ UNCHANGED <<verifications, consentVars, session, interaction, page, proven>>

(* A pending authenticator, an email verification or a consent runs out.   *)
PendingExpires(u) ==
  /\ \/ /\ "totp_expires" \in Happens
        /\ user' = [user EXCEPT ![u].pendingTotp = FALSE]
        /\ UNCHANGED <<verifications, consents>>
     \/ /\ "verification_expires" \in Happens
        /\ verifications' = verifications \ {u}
        /\ UNCHANGED <<user, consents>>
     \/ /\ "consent_expires" \in Happens
        /\ \E r \in RedirectURIs : consents' = consents \ {<<u, r>>}
        /\ UNCHANGED <<user, verifications>>
  /\ authorized' = NoAuthorization
  /\ UNCHANGED <<confirmed, confirmers, session, interaction, page, proven>>

BrowserNext ==
  \/ \E u \in Users : PasswordLogin(u)
  \/ \E u \in Users, verified \in PasskeyKinds : PasskeyLogin(u, verified)
  \/ \E verified \in PasskeyKinds : PasskeyRegistration(verified)
  \/ TotpRegistration
  \/ \E pending, enableMfa \in BOOLEAN : Totp(pending, enableMfa)
  \/ DeleteTotp
  \/ \E u \in Users : SendVerifyEmail(u)
  \/ \E u \in Users : VerifyEmail(u)
  \/ \E address \in Addresses : UpdateEmail(address)
  \/ TryAgain
  \/ CancelInteraction
  \/ RouteLoginPrompt
  \/ RouteConsentPrompt
  \/ ConfirmConsent
  \/ Resume
  \/ SessionEnds

ClientsNext ==
  \E c \in Clients, asked \in BOOLEAN :
    \E r \in RedirectsOf[c] : StartAuthorization(c, r, asked)

OthersNext == \E u \in Users : AdminUpdatesUser(u) \/ PendingExpires(u)

Next == BrowserNext \/ ClientsNext \/ OthersNext

Spec == Init /\ [][Next]_vars

-----------------------------------------------------------------------------
TypeOK ==
  /\ user \in [Users -> UserRow]
  /\ verifications \subseteq Users
  /\ consents \subseteq Users \X RedirectURIs
  /\ session \in Session
  /\ interaction \in Interaction
  /\ page \in Pages
  /\ authorized \in Authorization
  /\ proven \subseteq Users \X Factors
  /\ confirmed \subseteq Users \X Clients \X RedirectURIs
  /\ confirmers \subseteq Users

(***************************************************************************)
(* Whatever the browser holds as an amr, in its session, in a pending      *)
(* login result or in the submission before it, this browser has proven    *)
(* for that very account (loginResult never mixes the factors of two       *)
(* accounts, resume never carries them over).                              *)
(***************************************************************************)
heldIsProven(login) ==
  login.account # Nobody => {login.account} \X login.amr \subseteq proven

AmrProven ==
  /\ heldIsProven(session)
  /\ heldIsProven(interaction.result)
  /\ heldIsProven(interaction.lastSubmission)

(***************************************************************************)
(* An authorization response goes out only for the user of the session and *)
(* only if the route guards of util/auth.ts, which are written separately  *)
(* from the provider checks, would also let that user in; for VoidAuth's   *)
(* own client it means full privilege.                                     *)
(***************************************************************************)
AuthorizedMayLogin ==
  authorized.account # Nobody =>
    LET u == user[authorized.account]
        c == ClientOf[authorized.client]
    IN /\ session.account = authorized.account
       /\ userCanLogin(u, session.amr)
       /\ c.internal => userIsPrivileged(u, session.amr)
       /\ c.require_mfa => loginFactors(session.amr) >= 2
       /\ ~userGroupMissing(c, u)

(***************************************************************************)
(* A client holds a grant in a session only if consent is not asked for it *)
(* or the user of that session has confirmed the consent form of a request *)
(* that returned to one of this client's redirect URIs, however the        *)
(* session changed accounts between the prompt, the confirmation and the   *)
(* resume.  The form may have been another client's: getExistingConsent    *)
(* does not know whose it was.                                             *)
(***************************************************************************)
needsNoConsent(c) == ClientOf[c].internal \/ ClientOf[c].skip_consent

GrantsConsented ==
  \A c \in session.grants :
    \/ needsNoConsent(c)
    \/ \E d \in Clients, r \in RedirectsOf[c] : <<session.account, d, r>> \in confirmed

(***************************************************************************)
(* "Check if the user has already consented to this client/redirect"       *)
(* (interaction.ts:162): every grant of a client is one its user confirmed *)
(* for this very client.                                                   *)
(***************************************************************************)
GrantsConfirmed ==
  \A c \in session.grants :
    \/ needsNoConsent(c)
    \/ \E r \in RedirectsOf[c] : <<session.account, c, r>> \in confirmed

(***************************************************************************)
(* "consent prompt was requested, always comply": a request that asks for  *)
(* consent (prompt=consent) is answered only for a user who confirmed the  *)
(* form after the request began, whatever consents are on record, however  *)
(* many logins and interactions came between, and although the consent     *)
(* travels in submissions which logins of other accounts are merged with.  *)
(***************************************************************************)
AskedIsConfirmed == authorized.asked => authorized.account \in confirmers

(***************************************************************************)
(* The authenticators of an account with a confirmed TOTP change only on   *)
(* requests of a browser that has proven more than the password of that    *)
(* account, whatever it proved for other accounts.                         *)
(***************************************************************************)
authenticatorsGrow(u) ==
  \/ user'[u].pendingTotp /\ ~user[u].pendingTotp
  \/ user'[u].hasPasskeys /\ ~user[u].hasPasskeys

ProtectedAuthenticators ==
  [][\A u \in Users :
        user[u].hasTotp /\ (authenticatorsGrow(u) \/ ~user'[u].hasTotp) =>
          \E f \in Factors \ firstFactors : <<u, f>> \in proven]_vars

(***************************************************************************)
(* A right TOTP code after a first factor is worth two factors, both for   *)
(* the requests that follow and for the authorization that resumes, so MFA *)
(* is never asked for a second time.                                       *)
(***************************************************************************)
TotpSatisfiesMfa ==
  [][(\E pending, enableMfa \in BOOLEAN : Totp(pending, enableMfa)) =>
        /\ loginFactors(reqAmr') = 2
        /\ page' = "resume" => loginFactors(interaction'.result.amr) = 2]_vars

(***************************************************************************)
(* "Direct user to correct page to finish login": the page a prompt leads  *)
(* to offers an operation which the user of the request is allowed to      *)
(* perform and can perform, unless in the meantime the account was closed  *)
(* or its address verified.                                                *)
(***************************************************************************)
mfaPageUsable(u, amr) ==
  \/ u.hasPasskeys
  \/ userIsPrivilegedForTotpValidate(u, amr) /\ (u.hasTotp \/ u.pendingTotp)
  \/ userIsPrivilegedForTotpCreate(u, amr)

(* It sends the verification again, or takes a first address.              *)
verificationPageUsable(u, amr) ==
  (u.hasEmail /\ ~u.emailVerified) \/ userIsPrivilegedForEmail(u, amr)

PageOffersWayForward ==
  [][page' # page /\ page' \in {"mfa", "verification_email_sent"} =>
        /\ hasReqUser
        /\ LET u == user[reqAccount]
           IN \/ isUnapproved(u)
              \/ isExpired(u)
              \/ page' = "mfa" /\ mfaPageUsable(u, reqAmr)
              \/ /\ page' = "verification_email_sent"
                 /\ ~isUnverifiedEmail(u) \/ verificationPageUsable(u, reqAmr)]_vars
=============================================================================
