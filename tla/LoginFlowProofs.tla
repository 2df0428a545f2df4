-------------------------- MODULE LoginFlowProofs --------------------------
(* What holds of LoginFlow for every set of users, clients and settings.   *)
EXTENDS LoginFlow, TLAPS

-----------------------------------------------------------------------------
(* The type invariant.                                                     *)

LEMMA RecordTypes ==
  /\ NoLogin \in Login
  /\ NoSession \in Session
  /\ NoInteraction \in Interaction
  /\ NoAuthorization \in Authorization
BY DEF NoLogin, NoSession, NoInteraction, NoAuthorization, Login, Session,
       Interaction, Authorization, Accounts

LEMMA DetailsType ==
  ASSUME TypeOK
  PROVE  /\ details \in Interaction
         /\ reqAccount \in Accounts
         /\ reqAmr \in SUBSET Factors
<1>1. details \in Interaction
  BY RecordTypes DEF TypeOK, details
<1>2. /\ details.result.account \in Accounts
      /\ details.result.amr \in SUBSET Factors
  BY <1>1 DEF Interaction, Login
<1>3. QED BY <1>1, <1>2 DEF TypeOK, Session, reqAccount, reqAmr

LEMMA ReqUserType ==
  ASSUME TypeOK, hasReqUser
  PROVE  reqAccount \in Users
BY DetailsType DEF hasReqUser, Accounts

(* The variables of a browser, apart from those of the database.           *)
BrowserTypeOK ==
  /\ session \in Session
  /\ interaction \in Interaction
  /\ page \in Pages
  /\ authorized \in Authorization
  /\ proven \subseteq Users \X Factors

LEMMA MergedType ==
  ASSUME NEW amr \in SUBSET Factors, NEW keep \in BOOLEAN, NEW u,
         NEW login, login.amr \in SUBSET Factors
  PROVE  mergedWith(amr, keep, login, u) \in SUBSET Factors
BY DEF mergedWith

LEMMA LoginResultType ==
  ASSUME TypeOK, NEW u \in Users, NEW amr \in SUBSET Factors,
         loginResult(u, amr)
  PROVE  BrowserTypeOK'
<1> DEFINE keep == amr \cap firstFactors = {}
           withSession == mergedWith(amr, keep, session, u)
           withSubmission == mergedWith(withSession, keep, details.lastSubmission, u)
           withResult == mergedWith(withSubmission, keep, details.result, u)
<1>1. withSession \in SUBSET Factors
  BY MergedType DEF TypeOK, Session
<1>2. withSubmission \in SUBSET Factors
  <2> HIDE DEF withSession
  <2>1. details.lastSubmission.amr \in SUBSET Factors
    BY DetailsType DEF Interaction, Login
  <2>2. QED BY <1>1, <2>1, MergedType
<1>3. withResult \in SUBSET Factors
  <2> HIDE DEF withSubmission
  <2>1. details.result.amr \in SUBSET Factors
    BY DetailsType DEF Interaction, Login
  <2>2. QED BY <1>2, <2>1, MergedType
<1>4. /\ session' = IF session.account = u
                    THEN [session EXCEPT !.amr = withSession] ELSE session
      /\ \/ UNCHANGED <<interaction, page>>
         \/ /\ interaction' = [interaction EXCEPT
                 !.result = [account |-> u, amr |-> withResult,
                             consent |-> interaction.lastSubmission.consent]]
            /\ page' = "resume"
      /\ proven' = proven \cup ({u} \X amr)
      /\ authorized' = NoAuthorization
  BY DEF loginResult
<1> HIDE DEF withSession, withResult
<1>5. session' \in Session
  BY <1>1, <1>4 DEF TypeOK, Session
<1>6. interaction' \in Interaction /\ page' \in Pages
  <2>1. interaction.lastSubmission.consent \in Accounts
    BY DEF TypeOK, Interaction, Login
  <2>2. [account |-> u, amr |-> withResult,
         consent |-> interaction.lastSubmission.consent] \in Login
    BY <1>3, <2>1 DEF Login, Accounts
  <2>3. QED BY <1>4, <2>2 DEF TypeOK, Interaction, Pages
<1>7. proven' \subseteq Users \X Factors
  BY <1>4 DEF TypeOK
<1>8. QED BY <1>4, <1>5, <1>6, <1>7, RecordTypes DEF BrowserTypeOK

(***************************************************************************)
(* What the provider does with a request: decide it, or refuse a grant     *)
(* that was made for another account.                                      *)
(***************************************************************************)
Refuses ==
  /\ interaction' = NoInteraction
  /\ page' = "error"
  /\ authorized' = NoAuthorization

Decides(c, r, s, asked, submitted) ==
  decideAuthorization(c, r, s, asked, submitted) \/ Refuses

(* Its outcomes: an interaction for the session, or the end of the request. *)
LEMMA DecideOutcomes ==
  ASSUME NEW c, NEW r, NEW s, NEW asked \in BOOLEAN, NEW submitted,
         Decides(c, r, s, asked, submitted)
  PROVE  \/ /\ s.account = Nobody
            /\ openInteraction(c, r, s, "login", {}, asked, submitted)
         \/ /\ s.account # Nobody
            /\ openInteraction(c, r, s, "login",
                 loginPromptReasons(user[s.account], s.amr), asked, submitted)
         \/ /\ s.account # Nobody
            /\ openInteraction(c, r, s, "consent",
                 consentPromptReasons(c, s, asked /\ submitted.consent = Nobody),
                 asked, submitted)
         \/ /\ interaction' = NoInteraction
            /\ page' \in {"client", "forbidden", "error"}
            /\ \/ authorized' = NoAuthorization
               \/ authorized' = [account |-> s.account, client |-> c, asked |-> asked]
BY DEF Decides, decideAuthorization, Refuses

LEMMA DecideType ==
  ASSUME NEW c \in Clients, NEW r \in RedirectURIs, NEW s \in Session,
         NEW asked \in BOOLEAN, NEW submitted \in Login,
         Decides(c, r, s, asked, submitted)
  PROVE  /\ interaction' \in Interaction
         /\ page' \in Pages
         /\ authorized' \in Authorization
<1>1. ASSUME NEW prompt \in {"login", "consent"},
             NEW reasons \in SUBSET (LoginReasons \cup ConsentReasons),
             openInteraction(c, r, s, prompt, reasons, asked, submitted)
      PROVE  /\ interaction' \in Interaction
             /\ page' \in Pages
             /\ authorized' \in Authorization
  BY <1>1, RecordTypes DEF openInteraction, Interaction, Session, Pages
<1>2. ASSUME NEW p \in {"client", "forbidden", "error"},
             interaction' = NoInteraction, page' = p,
             \/ authorized' = NoAuthorization
             \/ authorized' = [account |-> s.account, client |-> c, asked |-> asked]
      PROVE  /\ interaction' \in Interaction
             /\ page' \in Pages
             /\ authorized' \in Authorization
  BY <1>2, RecordTypes DEF Session, Pages, Authorization
<1>3. loginPromptReasons(user[s.account], s.amr) \in SUBSET (LoginReasons \cup ConsentReasons)
  BY DEF loginPromptReasons
<1>4. consentPromptReasons(c, s, asked /\ submitted.consent = Nobody)
        \in SUBSET (LoginReasons \cup ConsentReasons)
  BY DEF consentPromptReasons
<1>5. {} \in SUBSET (LoginReasons \cup ConsentReasons)
  OBVIOUS
<1>6. QED BY <1>1, <1>2, <1>3, <1>4, <1>5, DecideOutcomes

LEMMA UserRowType ==
  ASSUME NEW row \in UserRow, NEW b \in BOOLEAN
  PROVE  /\ [row EXCEPT !.hasTotp = b] \in UserRow
         /\ [row EXCEPT !.pendingTotp = b] \in UserRow
         /\ [row EXCEPT !.mfaRequired = b] \in UserRow
         /\ [row EXCEPT !.hasPasskeys = b] \in UserRow
         /\ [row EXCEPT !.hasEmail = b] \in UserRow
         /\ [row EXCEPT !.emailVerified = b] \in UserRow
         /\ [row EXCEPT !.approved = b] \in UserRow
         /\ [row EXCEPT !.expired = b] \in UserRow
BY DEF UserRow

(* One request keeps the tables of the database within their types.        *)
DatabaseTypeOK ==
  /\ user \in [Users -> UserRow]
  /\ verifications \subseteq Users
  /\ consents \subseteq Users \X RedirectURIs
  /\ confirmed \subseteq Users \X Clients \X RedirectURIs
  /\ confirmers \subseteq Users

LEMMA TypeSplit ==
  ASSUME DatabaseTypeOK', BrowserTypeOK'
  PROVE  TypeOK'
BY DEF TypeOK, DatabaseTypeOK, BrowserTypeOK

(* A request that leaves the browser as it is, but for the last answer.    *)
LEMMA QuietType ==
  ASSUME TypeOK, authorized' = NoAuthorization,
         UNCHANGED <<session, interaction, page, proven>>
  PROVE  BrowserTypeOK'
BY RecordTypes DEF TypeOK, BrowserTypeOK

LEMMA LoginStepsType ==
  ASSUME TypeOK, NEW u \in Users, NEW verified \in BOOLEAN
  PROVE  /\ PasswordLogin(u) => TypeOK'
         /\ PasskeyLogin(u, verified) => TypeOK'
         /\ PasskeyRegistration(verified) => TypeOK'
<1>1. {"pwd"} \in SUBSET Factors /\ passkeyAmr(verified) \in SUBSET Factors
  BY DEF Factors, firstFactors, secondFactors, eitherFactors, multiFactors, passkeyAmr
<1>2. ASSUME PasswordLogin(u)
      PROVE  TypeOK'
  <2>1. DatabaseTypeOK'
    BY <1>2 DEF PasswordLogin, TypeOK, DatabaseTypeOK, consentVars
  <2>2. BrowserTypeOK'
    BY <1>1, <1>2, LoginResultType DEF PasswordLogin
  <2>3. QED BY <2>1, <2>2, TypeSplit
<1>3. ASSUME PasskeyLogin(u, verified)
      PROVE  TypeOK'
  <2>1. DatabaseTypeOK'
    BY <1>3 DEF PasskeyLogin, TypeOK, DatabaseTypeOK, consentVars
  <2>2. BrowserTypeOK'
    BY <1>1, <1>3, LoginResultType DEF PasskeyLogin
  <2>3. QED BY <2>1, <2>2, TypeSplit
<1>4. ASSUME PasskeyRegistration(verified)
      PROVE  TypeOK'
  <2>1. reqAccount \in Users
    BY <1>4, ReqUserType DEF PasskeyRegistration
  <2>2. [user[reqAccount] EXCEPT !.hasPasskeys = TRUE] \in UserRow
    BY <2>1, UserRowType DEF TypeOK
  <2>3. DatabaseTypeOK'
    BY <1>4, <2>1, <2>2 DEF PasskeyRegistration, TypeOK, DatabaseTypeOK, consentVars
  <2>4. BrowserTypeOK'
    BY <1>1, <1>4, <2>1, LoginResultType DEF PasskeyRegistration
  <2>5. QED BY <2>3, <2>4, TypeSplit
<1>5. QED BY <1>2, <1>3, <1>4

LEMMA TotpStepsType ==
  ASSUME TypeOK, NEW pending \in BOOLEAN, NEW enableMfa \in BOOLEAN
  PROVE  /\ TotpRegistration => TypeOK'
         /\ Totp(pending, enableMfa) => TypeOK'
         /\ DeleteTotp => TypeOK'
<1>1. ASSUME TotpRegistration
      PROVE  TypeOK'
  <2>1. reqAccount \in Users
    BY <1>1, ReqUserType DEF TotpRegistration
  <2>2. [user[reqAccount] EXCEPT !.pendingTotp = TRUE] \in UserRow
    BY <2>1, UserRowType DEF TypeOK
  <2>3. DatabaseTypeOK'
    BY <1>1, <2>1, <2>2 DEF TotpRegistration, TypeOK, DatabaseTypeOK, consentVars
  <2>4. BrowserTypeOK'
    BY <1>1, QuietType DEF TotpRegistration
  <2>5. QED BY <2>3, <2>4, TypeSplit
<1>2. ASSUME Totp(pending, enableMfa)
      PROVE  TypeOK'
  <2> DEFINE row == user[reqAccount]
             newRow == [row EXCEPT !.hasTotp = TRUE,
                                   !.pendingTotp = row.pendingTotp /\ ~pending,
                                   !.mfaRequired = row.mfaRequired \/ enableMfa]
  <2>1. reqAccount \in Users /\ {"totp"} \in SUBSET Factors
    BY <1>2, ReqUserType DEF Totp, Factors, secondFactors
  <2>2. newRow \in UserRow
    BY <2>1 DEF TypeOK, UserRow
  <2>3. /\ user' = [user EXCEPT ![reqAccount] = newRow]
        /\ UNCHANGED <<verifications, consentVars>>
    BY <1>2 DEF Totp
  <2>4. DatabaseTypeOK'
    <3> HIDE DEF newRow
    <3> QED BY <2>1, <2>2, <2>3 DEF TypeOK, DatabaseTypeOK, consentVars
  <2>5. BrowserTypeOK'
    BY <1>2, <2>1, LoginResultType DEF Totp
  <2>6. QED BY <2>4, <2>5, TypeSplit
<1>3. ASSUME DeleteTotp
      PROVE  TypeOK'
  <2> DEFINE newRow == [user[reqAccount] EXCEPT !.hasTotp = FALSE,
                          !.pendingTotp = FALSE, !.mfaRequired = FALSE]
  <2>1. reqAccount \in Users
    BY <1>3, ReqUserType DEF DeleteTotp
  <2>2. newRow \in UserRow
    BY <2>1 DEF TypeOK, UserRow
  <2>3. user' = [user EXCEPT ![reqAccount] = newRow]
    BY <1>3 DEF DeleteTotp
  <2>4. DatabaseTypeOK'
    <3> HIDE DEF newRow
    <3> QED BY <1>3, <2>1, <2>2, <2>3 DEF DeleteTotp, TypeOK, DatabaseTypeOK, consentVars
  <2>5. BrowserTypeOK'
    BY <1>3, QuietType DEF DeleteTotp
  <2>6. QED BY <2>4, <2>5, TypeSplit
<1>4. QED BY <1>1, <1>2, <1>3

LEMMA EmailStepsType ==
  ASSUME TypeOK, NEW u \in Users, NEW address \in BOOLEAN
  PROVE  /\ SendVerifyEmail(u) => TypeOK'
         /\ VerifyEmail(u) => TypeOK'
         /\ UpdateEmail(address) => TypeOK'
<1>1. ASSUME SendVerifyEmail(u)
      PROVE  TypeOK'
  <2>1. DatabaseTypeOK'
    BY <1>1 DEF SendVerifyEmail, TypeOK, DatabaseTypeOK, consentVars
  <2>2. BrowserTypeOK'
    BY <1>1, QuietType DEF SendVerifyEmail
  <2>3. QED BY <2>1, <2>2, TypeSplit
<1>2. ASSUME VerifyEmail(u)
      PROVE  TypeOK'
  <2> DEFINE newRow == [user[u] EXCEPT !.emailVerified = TRUE, !.hasEmail = TRUE]
  <2>1. newRow \in UserRow /\ {"email"} \in SUBSET Factors
    BY DEF TypeOK, UserRow, Factors, multiFactors
  <2>2. user' = [user EXCEPT ![u] = newRow]
    BY <1>2 DEF VerifyEmail
  <2>3. DatabaseTypeOK'
    <3> HIDE DEF newRow
    <3> QED BY <1>2, <2>1, <2>2 DEF VerifyEmail, TypeOK, DatabaseTypeOK, consentVars
  <2>4. BrowserTypeOK'
    BY <1>2, <2>1, LoginResultType DEF VerifyEmail
  <2>5. QED BY <2>3, <2>4, TypeSplit
<1>3. ASSUME UpdateEmail(address)
      PROVE  TypeOK'
  <2>1. reqAccount \in Users
    BY <1>3, ReqUserType DEF UpdateEmail
  <2>2. [user[reqAccount] EXCEPT !.hasEmail = address] \in UserRow
    BY <2>1, UserRowType DEF TypeOK
  <2>3. user' \in [Users -> UserRow]
    BY <1>3, <2>1, <2>2 DEF UpdateEmail, TypeOK
  <2>4. verifications' \subseteq Users /\ UNCHANGED consentVars
    BY <1>3, <2>1 DEF UpdateEmail, TypeOK
  <2>5. BrowserTypeOK'
    BY <1>3, QuietType DEF UpdateEmail
  <2>6. QED BY <2>3, <2>4, <2>5, TypeSplit DEF TypeOK, DatabaseTypeOK, consentVars
<1>4. QED BY <1>1, <1>2, <1>3

LEMMA InteractionStepsType ==
  ASSUME TypeOK
  PROVE  /\ TryAgain => TypeOK'
         /\ CancelInteraction => TypeOK'
         /\ RouteLoginPrompt => TypeOK'
         /\ SessionEnds => TypeOK'
<1>1. ASSUME TryAgain
      PROVE  TypeOK'
  <2>1. interaction' \in Interaction
    BY <1>1 DEF TryAgain, TypeOK, Interaction
  <2>2. QED BY <1>1, <2>1, RecordTypes DEF TryAgain, TypeOK, Pages, consentVars
<1>2. ASSUME CancelInteraction
      PROVE  TypeOK'
  BY <1>2, RecordTypes DEF CancelInteraction, TypeOK, consentVars
<1>3. ASSUME RouteLoginPrompt
      PROVE  TypeOK'
  <2>1. page' \in Pages
    BY <1>3 DEF RouteLoginPrompt, loginPage, Pages
  <2>2. verifications' \subseteq Users
    BY <1>3, ReqUserType DEF RouteLoginPrompt, TypeOK
  <2>3. QED BY <1>3, <2>1, <2>2, RecordTypes DEF RouteLoginPrompt, TypeOK, consentVars
<1>4. ASSUME SessionEnds
      PROVE  TypeOK'
  BY <1>4, RecordTypes DEF SessionEnds, TypeOK, consentVars
<1>5. QED BY <1>1, <1>2, <1>3, <1>4

(***************************************************************************)
(* An interaction with a prompt was opened by the provider: for a client   *)
(* and one of its redirect URIs, and, when it prompts for consent, in the  *)
(* session of a user.                                                      *)
(***************************************************************************)
OpenedByProvider ==
  /\ interaction.prompt # "none" =>
       /\ interaction.client \in Clients
       /\ interaction.redirect_uri \in RedirectsOf[interaction.client]
  /\ interaction.prompt = "consent" => interaction.origin \in Users

LEMMA RedirectType ==
  ASSUME NEW c \in Clients
  PROVE  RedirectsOf[c] \subseteq RedirectURIs
BY LoginFlowAssumption

LEMMA DetailsPrompt ==
  ASSUME TypeOK, details.prompt # "none"
  PROVE  details = interaction /\ interaction.prompt # "none"
BY DEF details, NoInteraction

LEMMA DetailsConsent ==
  ASSUME TypeOK, OpenedByProvider, details.prompt = "consent"
  PROVE  /\ interaction.prompt = "consent"
         /\ interaction.client \in Clients
         /\ interaction.redirect_uri \in RedirectsOf[interaction.client]
         /\ interaction.redirect_uri \in RedirectURIs
         /\ interaction.origin \in Users
         /\ session.account = interaction.origin
         /\ reqAccount = interaction.origin
<1>1. details = interaction /\ interaction.prompt = "consent"
  BY DetailsPrompt
<1>2. /\ interaction.client \in Clients
      /\ interaction.redirect_uri \in RedirectsOf[interaction.client]
      /\ interaction.origin \in Users
  BY <1>1 DEF OpenedByProvider
<1>3. interaction.origin \in {Nobody, session.account}
  BY <1>1 DEF details, NoInteraction
<1>4. session.account = interaction.origin /\ session.account # Nobody
  BY <1>2, <1>3, LoginFlowAssumption
<1>5. QED BY <1>1, <1>2, <1>4, RedirectType DEF reqAccount

LEMMA SubmitConsentType ==
  ASSUME TypeOK, submitConsent
  PROVE  /\ interaction' \in Interaction
         /\ page' \in Pages
<1>1. [interaction.lastSubmission EXCEPT !.consent = interaction.origin] \in Login
  BY DEF TypeOK, Interaction, Login
<1>2. QED BY <1>1 DEF submitConsent, TypeOK, Interaction, Pages

LEMMA ConsentStepsType ==
  ASSUME TypeOK, OpenedByProvider
  PROVE  /\ RouteConsentPrompt => TypeOK'
         /\ ConfirmConsent => TypeOK'
<1>1. ASSUME RouteConsentPrompt
      PROVE  TypeOK'
  <2>1. ASSUME page' \in {"consent", "mfa"}, UNCHANGED interaction
        PROVE  interaction' \in Interaction /\ page' \in Pages
    BY <2>1 DEF TypeOK, Pages
  <2>2. \/ page' \in {"consent", "mfa"} /\ UNCHANGED interaction
        \/ submitConsent
    BY <1>1 DEF RouteConsentPrompt
  <2>3. QED BY <1>1, <2>1, <2>2, SubmitConsentType, RecordTypes
            DEF RouteConsentPrompt, TypeOK, consentVars
<1>2. ASSUME ConfirmConsent
      PROVE  TypeOK'
  <2>1. /\ interaction.origin \in Users
        /\ interaction.client \in Clients
        /\ interaction.redirect_uri \in RedirectURIs
    BY <1>2, DetailsConsent DEF ConfirmConsent
  <2>2. /\ consents' \subseteq Users \X RedirectURIs
        /\ confirmed' \subseteq Users \X Clients \X RedirectURIs
        /\ confirmers' \subseteq Users
    BY <1>2, <2>1 DEF ConfirmConsent, TypeOK
  <2>3. QED BY <1>2, <2>2, SubmitConsentType, RecordTypes DEF ConfirmConsent, TypeOK
<1>3. QED BY <1>1, <1>2

(***************************************************************************)
(* The session a resume leaves: the account of the login, with its         *)
(* factors, and the grants the session had if the account is the same,     *)
(* with the one that was submitted if it was made for that account.        *)
(***************************************************************************)
ResumedInto(s) ==
  /\ s \in Session
  /\ session' = s
  /\ s.account # session.account => s.account = interaction.result.account
  /\ \/ s.amr = session.amr /\ s.account = session.account
     \/ /\ s.account # Nobody
        /\ s.account = interaction.result.account
        /\ s.amr = interaction.result.amr
  /\ s.grants \subseteq
       (IF s.account = session.account THEN session.grants ELSE {})
         \cup (IF interaction.result.consent = s.account /\ s.account # Nobody
               THEN {interaction.client} ELSE {})

LEMMA ResumeSession ==
  ASSUME TypeOK, OpenedByProvider, Resume
  PROVE  \E s :
           /\ ResumedInto(s)
           /\ interaction.client \in Clients
           /\ interaction.redirect_uri \in RedirectsOf[interaction.client]
           /\ interaction.result \in Login
           /\ Decides(interaction.client, interaction.redirect_uri, s,
                      interaction.asked, interaction.result)
           /\ Refuses \/ interaction.result.consent \in {Nobody, s.account}
<1> DEFINE login == interaction.result
           loggedIn ==
             CASE login.account = Nobody -> session
               [] login.account = session.account /\ login.account # Nobody ->
                    [session EXCEPT !.amr = login.amr]
               [] login.account \notin {Nobody, session.account} ->
                    [account |-> login.account, amr |-> login.amr, grants |-> {}]
           granted ==
             IF login.consent = Nobody THEN loggedIn
             ELSE [loggedIn EXCEPT !.grants = @ \cup {interaction.client}]
<1>1. /\ interaction.client \in Clients
      /\ interaction.redirect_uri \in RedirectsOf[interaction.client]
  BY DetailsPrompt DEF Resume, OpenedByProvider
<1>2. login \in Login /\ login.account \in Accounts /\ login.amr \in SUBSET Factors
  BY DEF TypeOK, Interaction, Login
<1>3. /\ loggedIn \in Session
      /\ \/ loggedIn = session
         \/ /\ loggedIn.account # Nobody
            /\ loggedIn.account = login.account
            /\ loggedIn.amr = login.amr
            /\ loggedIn.grants =
                 IF login.account = session.account THEN session.grants ELSE {}
  <2>1. CASE login.account = Nobody
    BY <2>1 DEF TypeOK
  <2>2. CASE login.account = session.account /\ login.account # Nobody
    <3>1. loggedIn = [session EXCEPT !.amr = login.amr]
      BY <2>2
    <3>2. QED BY <1>2, <2>2, <3>1 DEF TypeOK, Session
  <2>3. CASE login.account \notin {Nobody, session.account}
    <3>1. loggedIn = [account |-> login.account, amr |-> login.amr, grants |-> {}]
      BY <2>3
    <3>2. QED BY <1>2, <2>3, <3>1 DEF Session
  <2>4. QED BY <2>1, <2>2, <2>3
<1>4. \/ /\ login.consent \in {Nobody, loggedIn.account}
         /\ session' = granted
         /\ decideAuthorization(interaction.client, interaction.redirect_uri, granted,
                                interaction.asked, login)
      \/ session' = loggedIn /\ Refuses
  BY DEF Resume, Refuses
<1> HIDE DEF loggedIn
<1>5. /\ granted \in Session
      /\ granted.account = loggedIn.account
      /\ granted.amr = loggedIn.amr
      /\ granted.grants = loggedIn.grants \cup
           (IF login.consent = Nobody THEN {} ELSE {interaction.client})
  BY <1>1, <1>3 DEF Session
<1> HIDE DEF granted
<1>6. QED
  <2>1. CASE /\ login.consent \in {Nobody, loggedIn.account}
             /\ session' = granted
             /\ decideAuthorization(interaction.client, interaction.redirect_uri, granted,
                                    interaction.asked, login)
    <3>1. ResumedInto(granted)
      BY <1>3, <1>5, <2>1 DEF ResumedInto
    <3>2. QED BY <1>1, <1>2, <1>5, <2>1, <3>1 DEF Decides
  <2>2. CASE session' = loggedIn /\ Refuses
    <3>1. ResumedInto(loggedIn)
      BY <1>3, <2>2 DEF ResumedInto
    <3>2. QED BY <1>1, <1>2, <2>2, <3>1 DEF Decides
  <2>3. QED BY <1>4, <2>1, <2>2

LEMMA ResumeType ==
  ASSUME TypeOK, OpenedByProvider, Resume
  PROVE  TypeOK'
<1>1. PICK s :
        /\ ResumedInto(s)
        /\ interaction.client \in Clients
        /\ interaction.redirect_uri \in RedirectsOf[interaction.client]
        /\ interaction.result \in Login
        /\ Decides(interaction.client, interaction.redirect_uri, s,
                   interaction.asked, interaction.result)
  BY ResumeSession
<1>2. s \in Session /\ session' = s
  BY <1>1 DEF ResumedInto
<1>3. interaction.asked \in BOOLEAN /\ interaction.redirect_uri \in RedirectURIs
  BY <1>1, RedirectType DEF TypeOK, Interaction
<1>4. /\ interaction' \in Interaction
      /\ page' \in Pages
      /\ authorized' \in Authorization
  BY <1>1, <1>2, <1>3, DecideType
<1>5. QED BY <1>2, <1>4 DEF Resume, TypeOK, consentVars

LEMMA StartAuthorizationType ==
  ASSUME TypeOK, NEW c \in Clients, NEW asked \in BOOLEAN, NEW r \in RedirectsOf[c],
         StartAuthorization(c, r, asked)
  PROVE  TypeOK'
<1>1. session \in Session /\ r \in RedirectURIs
  BY RedirectType DEF TypeOK
<1>2. /\ interaction' \in Interaction
      /\ page' \in Pages
      /\ authorized' \in Authorization
  BY <1>1, DecideType, RecordTypes DEF StartAuthorization, Decides
<1>3. QED BY <1>2 DEF StartAuthorization, TypeOK

LEMMA OthersStepsType ==
  ASSUME TypeOK, NEW u \in Users
  PROVE  /\ AdminUpdatesUser(u) => TypeOK'
         /\ PendingExpires(u) => TypeOK'
<1>1. ASSUME AdminUpdatesUser(u)
      PROVE  TypeOK'
  <2>1. ASSUME \E field \in AdminFields \ {"groups"} :
                 user' = [user EXCEPT ![u][field] = ~@]
        PROVE  DatabaseTypeOK'
    <3>1. PICK field \in {"approved", "expired", "mfaRequired", "hasEmail", "emailVerified"} :
            user' = [user EXCEPT ![u][field] = ~@]
      BY <2>1, LoginFlowAssumption
    <3>2. [user[u] EXCEPT ![field] = ~user[u][field]] \in UserRow
      BY DEF TypeOK, UserRow
    <3>3. QED BY <1>1, <3>1, <3>2 DEF AdminUpdatesUser, TypeOK, DatabaseTypeOK, consentVars
  <2>2. ASSUME \E groups \in SUBSET Groups : user' = [user EXCEPT ![u].groups = groups]
        PROVE  DatabaseTypeOK'
    <3>1. PICK groups \in SUBSET Groups : user' = [user EXCEPT ![u].groups = groups]
      BY <2>2
    <3>2. [user[u] EXCEPT !.groups = groups] \in UserRow
      BY DEF TypeOK, UserRow
    <3>3. QED BY <1>1, <3>1, <3>2 DEF AdminUpdatesUser, TypeOK, DatabaseTypeOK, consentVars
  <2>3. DatabaseTypeOK'
    BY <1>1, <2>1, <2>2 DEF AdminUpdatesUser
  <2>4. BrowserTypeOK'
    BY <1>1, QuietType DEF AdminUpdatesUser
  <2>5. QED BY <2>3, <2>4, TypeSplit
<1>2. ASSUME PendingExpires(u)
      PROVE  TypeOK'
  <2>1. [user[u] EXCEPT !.pendingTotp = FALSE] \in UserRow
    BY UserRowType DEF TypeOK
  <2>2. DatabaseTypeOK'
    BY <1>2, <2>1 DEF PendingExpires, TypeOK, DatabaseTypeOK
  <2>3. BrowserTypeOK'
    BY <1>2, QuietType DEF PendingExpires
  <2>4. QED BY <2>2, <2>3, TypeSplit
<1>3. QED BY <1>1, <1>2

(***************************************************************************)
(* What a step does to the interaction as it was opened: close it, submit  *)
(* a result to it, or, in the provider, open another one.                  *)
(***************************************************************************)
KeepsOpening ==
  /\ interaction'.prompt = interaction.prompt
  /\ interaction'.client = interaction.client
  /\ interaction'.redirect_uri = interaction.redirect_uri
  /\ interaction'.reasons = interaction.reasons
  /\ interaction'.origin = interaction.origin
  /\ interaction'.asked = interaction.asked
  /\ interaction'.lastSubmission = interaction.lastSubmission

LEMMA ResultKeeps ==
  ASSUME TypeOK, NEW login, interaction' = [interaction EXCEPT !.result = login]
  PROVE  KeepsOpening /\ interaction'.result = login
BY DEF TypeOK, Interaction, KeepsOpening

LEMMA LoginResultKeeps ==
  ASSUME TypeOK, NEW u, NEW amr, loginResult(u, amr)
  PROVE  /\ KeepsOpening
         /\ interaction'.result.consent \in
              {interaction.result.consent, interaction.lastSubmission.consent}
         /\ session'.account = session.account
         /\ session'.grants = session.grants
<1>1. ASSUME NEW withResult,
             interaction' = [interaction EXCEPT
               !.result = [account |-> u, amr |-> withResult,
                           consent |-> interaction.lastSubmission.consent]]
      PROVE  /\ KeepsOpening
             /\ interaction'.result.consent = interaction.lastSubmission.consent
  BY <1>1, ResultKeeps
<1>2. UNCHANGED interaction => KeepsOpening
  BY DEF KeepsOpening
<1>3. ASSUME NEW withSession, session' = [session EXCEPT !.amr = withSession]
      PROVE  session'.account = session.account /\ session'.grants = session.grants
  BY <1>3 DEF TypeOK, Session
<1>4. QED BY <1>1, <1>2, <1>3 DEF loginResult

(* The login which the result of an interaction is now.                    *)
Submits(login) ==
  /\ interaction'.result.account = login.account
  /\ interaction'.result.amr = login.amr

LEMMA ConsentSubmits ==
  ASSUME TypeOK, submitConsent
  PROVE  /\ KeepsOpening
         /\ Submits(interaction.lastSubmission)
         /\ interaction'.result.consent = interaction.origin
<1> DEFINE login == [interaction.lastSubmission EXCEPT !.consent = interaction.origin]
<1>1. /\ login.account = interaction.lastSubmission.account
      /\ login.amr = interaction.lastSubmission.amr
      /\ login.consent = interaction.origin
  BY DEF TypeOK, Interaction, Login
<1>2. interaction' = [interaction EXCEPT !.result = login]
  BY DEF submitConsent
<1> HIDE DEF login
<1>3. QED BY <1>1, <1>2, ResultKeeps DEF Submits

LEMMA NextKeepsOpening ==
  ASSUME TypeOK, [Next]_vars
  PROVE  \/ KeepsOpening
         \/ interaction' = NoInteraction
         \/ \E c \in Clients, asked \in BOOLEAN :
              \E r \in RedirectsOf[c] : StartAuthorization(c, r, asked)
         \/ Resume
<1>1. UNCHANGED interaction => KeepsOpening
  BY DEF KeepsOpening
<1>2. TryAgain => KeepsOpening
  BY ResultKeeps DEF TryAgain
<1>3. ConfirmConsent => KeepsOpening
  BY ResultKeeps DEF ConfirmConsent, submitConsent
<1>4. RouteConsentPrompt => KeepsOpening
  BY <1>1, ResultKeeps DEF RouteConsentPrompt, submitConsent
<1>5. ASSUME NEW u, NEW verified
      PROVE  /\ PasswordLogin(u) => KeepsOpening
             /\ PasskeyLogin(u, verified) => KeepsOpening
             /\ PasskeyRegistration(verified) => KeepsOpening
             /\ VerifyEmail(u) => KeepsOpening
  BY LoginResultKeeps DEF PasswordLogin, PasskeyLogin, PasskeyRegistration, VerifyEmail
<1>6. ASSUME NEW pending, NEW enableMfa
      PROVE  Totp(pending, enableMfa) => KeepsOpening
  BY LoginResultKeeps DEF Totp
<1>7. ASSUME NEW u, NEW address
      PROVE  \/ TotpRegistration \/ DeleteTotp \/ SendVerifyEmail(u)
             \/ UpdateEmail(address) \/ RouteLoginPrompt \/ SessionEnds
             \/ AdminUpdatesUser(u) \/ PendingExpires(u) \/ UNCHANGED vars
             => UNCHANGED interaction
  BY DEF TotpRegistration, DeleteTotp, SendVerifyEmail, UpdateEmail,
         RouteLoginPrompt, SessionEnds, AdminUpdatesUser, PendingExpires, vars
<1>8. CancelInteraction => interaction' = NoInteraction
  BY DEF CancelInteraction
<1>9. QED BY <1>1, <1>2, <1>3, <1>4, <1>5, <1>6, <1>7, <1>8
     DEF Next, BrowserNext, ClientsNext, OthersNext

LEMMA DecideOpens ==
  ASSUME NEW c \in Clients, NEW r \in RedirectsOf[c], NEW s \in Session,
         NEW asked \in BOOLEAN, NEW submitted, Decides(c, r, s, asked, submitted)
  PROVE  OpenedByProvider'
<1>1. ASSUME NEW reasons, openInteraction(c, r, s, "login", reasons, asked, submitted)
      PROVE  OpenedByProvider'
  BY <1>1 DEF openInteraction, NoInteraction, OpenedByProvider
<1>2. ASSUME NEW reasons, s.account # Nobody,
             openInteraction(c, r, s, "consent", reasons, asked, submitted)
      PROVE  OpenedByProvider'
  BY <1>2 DEF openInteraction, NoInteraction, OpenedByProvider, Session, Accounts
<1>3. ASSUME interaction' = NoInteraction
      PROVE  OpenedByProvider'
  BY <1>3 DEF NoInteraction, OpenedByProvider
<1>4. QED BY <1>1, <1>2, <1>3, DecideOutcomes

LEMMA TypeInductive ==
  ASSUME TypeOK, OpenedByProvider, [Next]_vars
  PROVE  TypeOK' /\ OpenedByProvider'
<1>1. TypeOK'
  <2>1. UNCHANGED vars => TypeOK'
    BY DEF vars, consentVars, TypeOK
  <2>2. ASSUME NEW u \in Users, NEW verified \in PasskeyKinds,
               PasswordLogin(u) \/ PasskeyLogin(u, verified)
        PROVE  TypeOK'
    BY <2>2, LoginStepsType, LoginFlowAssumption
  <2>3. ASSUME NEW verified \in PasskeyKinds, PasskeyRegistration(verified)
        PROVE  TypeOK'
    <3>1. reqAccount \in Users /\ verified \in BOOLEAN
      BY <2>3, ReqUserType, LoginFlowAssumption DEF PasskeyRegistration
    <3>2. QED BY <2>3, <3>1, LoginStepsType
  <2>4. ASSUME NEW u \in Users, PasswordLogin(u)
        PROVE  TypeOK'
    BY <2>4, LoginStepsType
  <2>5. TotpRegistration \/ DeleteTotp => TypeOK'
    <3>1. TRUE \in BOOLEAN
      OBVIOUS
    <3>2. QED BY <3>1, TotpStepsType
  <2>6. ASSUME NEW pending \in BOOLEAN, NEW enableMfa \in BOOLEAN,
               Totp(pending, enableMfa)
        PROVE  TypeOK'
    BY <2>6, TotpStepsType
  <2>7. ASSUME NEW u \in Users, SendVerifyEmail(u) \/ VerifyEmail(u)
        PROVE  TypeOK'
    <3>1. TRUE \in BOOLEAN
      OBVIOUS
    <3>2. QED BY <2>7, <3>1, EmailStepsType
  <2>8. ASSUME NEW address \in Addresses, UpdateEmail(address)
        PROVE  TypeOK'
    <3>1. reqAccount \in Users /\ address \in BOOLEAN
      BY <2>8, ReqUserType, LoginFlowAssumption DEF UpdateEmail
    <3>2. QED BY <2>8, <3>1, EmailStepsType
  <2>9. ASSUME NEW c \in Clients, NEW asked \in BOOLEAN, NEW r \in RedirectsOf[c],
               StartAuthorization(c, r, asked)
        PROVE  TypeOK'
    BY <2>9, StartAuthorizationType
  <2>10. ASSUME NEW u \in Users, AdminUpdatesUser(u) \/ PendingExpires(u)
         PROVE  TypeOK'
    BY <2>10, OthersStepsType
  <2>11. QED BY <2>1, <2>2, <2>3, <2>4, <2>5, <2>6, <2>7, <2>8, <2>9, <2>10,
               InteractionStepsType, ConsentStepsType, ResumeType
     DEF Next, BrowserNext, ClientsNext, OthersNext
<1>2. OpenedByProvider'
  <2>1. KeepsOpening => OpenedByProvider'
    BY DEF KeepsOpening, OpenedByProvider
  <2>2. interaction' = NoInteraction => OpenedByProvider'
    BY DEF NoInteraction, OpenedByProvider
  <2>3. ASSUME NEW c \in Clients, NEW asked \in BOOLEAN, NEW r \in RedirectsOf[c],
               StartAuthorization(c, r, asked)
        PROVE  OpenedByProvider'
    BY <2>3, DecideOpens DEF StartAuthorization, Decides, TypeOK
  <2>4. Resume => OpenedByProvider'
    BY ResumeSession, DecideOpens DEF ResumedInto, TypeOK, Interaction
  <2>5. QED BY <2>1, <2>2, <2>3, <2>4, NextKeepsOpening
<1>3. QED BY <1>1, <1>2

(***************************************************************************)
(* Every value the model's requests, the sessions and the interactions can *)
(* hold is of its type, for every set of users and clients and for every   *)
(* setting; and an interaction is the provider's to open.                  *)
(***************************************************************************)
THEOREM TypeInvariant == Spec => [](TypeOK /\ OpenedByProvider)
<1>1. Init => TypeOK /\ OpenedByProvider
  <2>1. Init => TypeOK
    BY RecordTypes, LoginFlowAssumption DEF Init, TypeOK, Pages
  <2>2. Init => OpenedByProvider
    BY DEF Init, NoInteraction, OpenedByProvider
  <2>3. QED BY <2>1, <2>2
<1>2. TypeOK /\ OpenedByProvider /\ [Next]_vars => (TypeOK /\ OpenedByProvider)'
  BY TypeInductive
<1>3. QED BY <1>1, <1>2, PTL DEF Spec

-----------------------------------------------------------------------------
(***************************************************************************)
(* The safety properties, on top of the type invariant.                    *)
(***************************************************************************)
(* Every factor a browser holds was proven.                                *)

(* Only proven changes, and it only grows.                                 *)
LEMMA HeldStaysProven ==
  ASSUME NEW login, heldIsProven(login), proven \subseteq proven'
  PROVE  login.account # Nobody => {login.account} \X login.amr \subseteq proven'
BY DEF heldIsProven

LEMMA MergedIsProven ==
  ASSUME NEW P, NEW u, NEW amr, {u} \X amr \subseteq P, NEW keep,
         NEW login, u # Nobody,
         login.account # Nobody => {login.account} \X login.amr \subseteq P
  PROVE  {u} \X mergedWith(amr, keep, login, u) \subseteq P
BY DEF mergedWith

LEMMA LoginResultProven ==
  ASSUME TypeOK, AmrProven, NEW u \in Users, NEW amr \in SUBSET Factors,
         loginResult(u, amr)
  PROVE  AmrProven'
<1> DEFINE keep == amr \cap firstFactors = {}
           withSession == mergedWith(amr, keep, session, u)
           withSubmission == mergedWith(withSession, keep, details.lastSubmission, u)
           withResult == mergedWith(withSubmission, keep, details.result, u)
<1>1. /\ session' = IF session.account = u
                    THEN [session EXCEPT !.amr = withSession] ELSE session
      /\ \/ UNCHANGED interaction
         \/ interaction' = [interaction EXCEPT
                 !.result = [account |-> u, amr |-> withResult,
                             consent |-> interaction.lastSubmission.consent]]
      /\ proven' = proven \cup ({u} \X amr)
  BY DEF loginResult
<1>2. u # Nobody
  BY LoginFlowAssumption
<1>3. \A login \in {session, interaction.result, interaction.lastSubmission,
                    details.result, details.lastSubmission} :
         login.account # Nobody => {login.account} \X login.amr \subseteq proven'
  <2>1. heldIsProven(NoLogin)
    BY DEF heldIsProven, NoLogin
  <2>2. heldIsProven(details.result) /\ heldIsProven(details.lastSubmission)
    BY <2>1 DEF details, AmrProven, NoInteraction
  <2>3. proven \subseteq proven'
    BY <1>1
  <2>4. QED BY <2>2, <2>3, HeldStaysProven DEF AmrProven
<1>4. {u} \X amr \subseteq proven'
  BY <1>1
<1>5. {u} \X withSession \subseteq proven'
  BY <1>2, <1>3, <1>4, MergedIsProven
<1> HIDE DEF withSession
<1>6. {u} \X withSubmission \subseteq proven'
  BY <1>2, <1>3, <1>5, MergedIsProven
<1> HIDE DEF withSubmission
<1>7. {u} \X withResult \subseteq proven'
  BY <1>2, <1>3, <1>6, MergedIsProven
<1> HIDE DEF withResult
<1>8. heldIsProven(session)'
  BY <1>1, <1>3, <1>5 DEF heldIsProven, TypeOK, Session
<1>9. heldIsProven(interaction.lastSubmission)'
  BY <1>1, <1>3, ResultKeeps DEF heldIsProven, KeepsOpening
<1>10. heldIsProven(interaction.result)'
  <2>1. CASE UNCHANGED interaction
    BY <1>3, <2>1 DEF heldIsProven
  <2>2. CASE interaction' = [interaction EXCEPT
               !.result = [account |-> u, amr |-> withResult,
                           consent |-> interaction.lastSubmission.consent]]
    <3>1. interaction'.result = [account |-> u, amr |-> withResult,
                                 consent |-> interaction.lastSubmission.consent]
      BY <2>2, ResultKeeps
    <3>2. QED BY <1>7, <3>1 DEF heldIsProven
  <2>3. QED BY <1>1, <2>1, <2>2
<1>11. QED BY <1>8, <1>9, <1>10 DEF AmrProven

LEMMA DecideSubmits ==
  ASSUME NEW c, NEW r, NEW s, NEW asked \in BOOLEAN, NEW submitted,
         Decides(c, r, s, asked, submitted)
  PROVE  /\ interaction'.result = NoLogin
         /\ interaction'.lastSubmission \in {NoLogin, submitted}
<1>1. ASSUME NEW prompt, NEW reasons,
             openInteraction(c, r, s, prompt, reasons, asked, submitted)
      PROVE  /\ interaction'.result = NoLogin
             /\ interaction'.lastSubmission \in {NoLogin, submitted}
  BY <1>1 DEF openInteraction, NoInteraction
<1>2. \/ \E prompt, reasons : openInteraction(c, r, s, prompt, reasons, asked, submitted)
      \/ interaction' = NoInteraction
  BY DecideOutcomes
<1>3. interaction' = NoInteraction
        => /\ interaction'.result = NoLogin
           /\ interaction'.lastSubmission \in {NoLogin, submitted}
  BY DEF NoInteraction
<1>4. QED BY <1>1, <1>2, <1>3

LEMMA AmrProvenInductive ==
  ASSUME TypeOK, OpenedByProvider, AmrProven, [Next]_vars
  PROVE  AmrProven'
<1>1. heldIsProven(NoLogin)
  BY DEF heldIsProven, NoLogin
<1>2. ASSUME session' \in {session, NoSession}, UNCHANGED proven,
             \E login \in {interaction.result, interaction.lastSubmission, NoLogin} :
               Submits(login),
             interaction'.lastSubmission \in {interaction.lastSubmission, NoLogin}
      PROVE  AmrProven'
  BY <1>2 DEF AmrProven, heldIsProven, NoSession, NoLogin, Submits
<1>3. ASSUME NEW u \in Users, NEW verified \in PasskeyKinds,
             \/ PasswordLogin(u)
             \/ PasskeyLogin(u, verified)
      PROVE  AmrProven'
  <2>1. {"pwd"} \in SUBSET Factors /\ passkeyAmr(verified) \in SUBSET Factors
    BY DEF Factors, firstFactors, secondFactors, eitherFactors, passkeyAmr
  <2>2. QED BY <1>3, <2>1, LoginResultProven DEF PasswordLogin, PasskeyLogin
<1>4. ASSUME NEW u \in Users, PasswordLogin(u) \/ VerifyEmail(u)
      PROVE  AmrProven'
  <2>1. {"pwd"} \in SUBSET Factors /\ {"email"} \in SUBSET Factors
    BY DEF Factors, firstFactors, multiFactors
  <2>2. QED BY <1>4, <2>1, LoginResultProven DEF PasswordLogin, VerifyEmail
<1>5. ASSUME NEW verified \in PasskeyKinds, PasskeyRegistration(verified)
      PROVE  AmrProven'
  <2>1. passkeyAmr(verified) \in SUBSET Factors
    BY DEF Factors, secondFactors, eitherFactors, passkeyAmr
  <2>2. reqAccount \in Users
    BY <1>5, ReqUserType DEF PasskeyRegistration
  <2>3. QED BY <1>5, <2>1, <2>2, LoginResultProven DEF PasskeyRegistration
<1>6. ASSUME NEW pending, NEW enableMfa, Totp(pending, enableMfa)
      PROVE  AmrProven'
  <2>1. {"totp"} \in SUBSET Factors /\ reqAccount \in Users
    BY <1>6, ReqUserType DEF Factors, secondFactors, Totp
  <2>2. QED BY <1>6, <2>1, LoginResultProven DEF Totp
<1>7. ASSUME \/ TotpRegistration \/ DeleteTotp \/ RouteLoginPrompt
             \/ \E u \in Users : \/ SendVerifyEmail(u)
                                 \/ AdminUpdatesUser(u)
                                 \/ PendingExpires(u)
             \/ \E address \in Addresses : UpdateEmail(address)
             \/ SessionEnds
             \/ UNCHANGED vars
      PROVE  AmrProven'
  <2>1. session' \in {session, NoSession} /\ UNCHANGED <<interaction, proven>>
    BY <1>7 DEF TotpRegistration, DeleteTotp, RouteLoginPrompt, SendVerifyEmail,
                AdminUpdatesUser, PendingExpires, UpdateEmail, SessionEnds, vars
  <2>2. QED BY <1>2, <2>1 DEF Submits
<1>8. TryAgain \/ CancelInteraction \/ RouteConsentPrompt \/ ConfirmConsent => AmrProven'
  <2>1. TryAgain => AmrProven'
    BY <1>2, ResultKeeps DEF TryAgain, KeepsOpening, Submits
  <2>2. CancelInteraction => AmrProven'
    BY <1>2 DEF CancelInteraction, NoInteraction, Submits
  <2>3. RouteConsentPrompt \/ ConfirmConsent => UNCHANGED interaction \/ submitConsent
    BY DEF RouteConsentPrompt, ConfirmConsent
  <2>4. RouteConsentPrompt \/ ConfirmConsent => UNCHANGED <<session, proven>>
    BY DEF RouteConsentPrompt, ConfirmConsent
  <2>5. ASSUME UNCHANGED <<session, proven>>, UNCHANGED interaction \/ submitConsent
        PROVE  AmrProven'
    BY <1>2, <2>5, ConsentSubmits DEF KeepsOpening, Submits
  <2>6. QED BY <2>1, <2>2, <2>3, <2>4, <2>5
<1>9. ASSUME NEW c \in Clients, NEW asked \in BOOLEAN, NEW r \in RedirectsOf[c],
             StartAuthorization(c, r, asked)
      PROVE  AmrProven'
  <2>1. /\ interaction'.result = NoLogin
        /\ interaction'.lastSubmission = NoLogin
        /\ UNCHANGED <<session, proven>>
    BY <1>9, DecideSubmits DEF StartAuthorization, Decides
  <2>2. QED BY <1>2, <2>1 DEF Submits
<1>10. ASSUME Resume
       PROVE  AmrProven'
  <2>1. PICK s :
          /\ ResumedInto(s)
          /\ interaction.client \in Clients
          /\ Decides(interaction.client, interaction.redirect_uri, s,
                     interaction.asked, interaction.result)
    BY <1>10, ResumeSession
  <2>2. interaction.asked \in BOOLEAN
    BY DEF TypeOK, Interaction
  <2>3. /\ interaction'.result = NoLogin
        /\ interaction'.lastSubmission \in {NoLogin, interaction.result}
    BY <2>1, <2>2, DecideSubmits
  <2>4. UNCHANGED proven
    BY <1>10 DEF Resume
  <2>5. heldIsProven(session)'
    BY <2>1, <2>4 DEF ResumedInto, AmrProven, heldIsProven
  <2>6. QED BY <2>3, <2>4, <2>5 DEF AmrProven, heldIsProven, NoLogin
<1>11. QED BY <1>3, <1>4, <1>5, <1>6, <1>7, <1>8, <1>9, <1>10
     DEF Next, BrowserNext, ClientsNext, OthersNext

(***************************************************************************)
(* Whatever the browser holds as factors of an account, it has proven for  *)
(* that account.                                                           *)
(***************************************************************************)
THEOREM AmrProvenInvariant == Spec => []AmrProven
<1>1. Init => AmrProven
  BY DEF Init, AmrProven, heldIsProven, NoSession, NoInteraction, NoLogin
<1>2. TypeOK /\ OpenedByProvider /\ AmrProven /\ [Next]_vars => AmrProven'
  BY AmrProvenInductive
<1>3. QED BY <1>1, <1>2, TypeInvariant, PTL DEF Spec

-----------------------------------------------------------------------------
(* Every grant was consented to, and a request that asks is answered only  *)
(* to a user who confirmed.                                                *)

(* What a step does to the grants and to what is submitted.                *)
LEMMA ConsentStep ==
  ASSUME TypeOK, OpenedByProvider, [Next]_vars
  PROVE  \/ /\ KeepsOpening
            /\ interaction'.result.consent \in
                 {interaction.result.consent, interaction.lastSubmission.consent}
            /\ \/ session'.account = session.account /\ session'.grants = session.grants
               \/ session' = NoSession
            /\ consents' \subseteq consents
            /\ UNCHANGED <<confirmed, confirmers>>
            /\ authorized' \in {authorized, NoAuthorization}
         \/ CancelInteraction
         \/ RouteConsentPrompt /\ submitConsent
         \/ ConfirmConsent
         \/ \E c \in Clients, asked \in BOOLEAN :
              \E r \in RedirectsOf[c] : StartAuthorization(c, r, asked)
         \/ Resume
<1> DEFINE quiet ==
      /\ KeepsOpening
      /\ interaction'.result.consent \in
           {interaction.result.consent, interaction.lastSubmission.consent}
      /\ \/ session'.account = session.account /\ session'.grants = session.grants
         \/ session' = NoSession
      /\ consents' \subseteq consents
      /\ UNCHANGED <<confirmed, confirmers>>
      /\ authorized' \in {authorized, NoAuthorization}
<1>1. ASSUME NEW u, NEW amr, loginResult(u, amr), UNCHANGED consentVars
      PROVE  quiet
  <2>1. authorized' = NoAuthorization
    BY <1>1 DEF loginResult
  <2>2. QED BY <1>1, <2>1, LoginResultKeeps DEF consentVars
<1>2. ASSUME NEW u, NEW verified, NEW pending, NEW enableMfa,
             \/ PasswordLogin(u) \/ PasskeyLogin(u, verified) \/ PasskeyRegistration(verified)
             \/ Totp(pending, enableMfa) \/ VerifyEmail(u)
      PROVE  quiet
  <2>1. UNCHANGED consentVars /\ \E v, amr : loginResult(v, amr)
    BY <1>2 DEF PasswordLogin, PasskeyLogin, PasskeyRegistration, Totp, VerifyEmail
  <2>2. QED BY <1>1, <2>1
<1>3. ASSUME \/ TotpRegistration \/ DeleteTotp \/ RouteLoginPrompt
             \/ \E u \in Users : \/ SendVerifyEmail(u)
                                 \/ AdminUpdatesUser(u)
                                 \/ PendingExpires(u)
             \/ \E address \in Addresses : UpdateEmail(address)
             \/ RouteConsentPrompt /\ UNCHANGED interaction
             \/ SessionEnds
             \/ UNCHANGED vars
      PROVE  quiet
  <2>1. /\ session' \in {session, NoSession}
        /\ UNCHANGED <<interaction, confirmed, confirmers>>
        /\ consents' \subseteq consents
        /\ authorized' \in {authorized, NoAuthorization}
    BY <1>3 DEF TotpRegistration, DeleteTotp, RouteLoginPrompt, SendVerifyEmail,
                AdminUpdatesUser, PendingExpires, UpdateEmail, RouteConsentPrompt,
                SessionEnds, vars, consentVars
  <2>2. QED BY <2>1 DEF KeepsOpening
<1>4. TryAgain => quiet
  BY ResultKeeps DEF TryAgain, consentVars
<1>5. RouteConsentPrompt => UNCHANGED interaction \/ submitConsent
  BY DEF RouteConsentPrompt
<1>6. QED BY <1>2, <1>3, <1>4, <1>5 DEF Next, BrowserNext, ClientsNext, OthersNext

(* The steps of the provider, with what it was submitted.                  *)
LEMMA ProviderStep ==
  ASSUME TypeOK, OpenedByProvider,
         \/ \E c \in Clients, asked \in BOOLEAN :
              \E r \in RedirectsOf[c] : StartAuthorization(c, r, asked)
         \/ Resume
  PROVE  \E c \in Clients, r \in RedirectURIs, s \in Session,
            asked \in BOOLEAN, submitted \in Login :
           /\ session' = s
           /\ Decides(c, r, s, asked, submitted)
           /\ Refuses \/ submitted.consent \in {Nobody, s.account}
           /\ \/ submitted = NoLogin /\ s = session
              \/ /\ ResumedInto(s)
                 /\ c = interaction.client
                 /\ asked = interaction.asked
                 /\ submitted = interaction.result
                 /\ UNCHANGED confirmers
           /\ UNCHANGED <<consents, confirmed>>
<1>1. ASSUME NEW c \in Clients, NEW asked \in BOOLEAN, NEW r \in RedirectsOf[c],
             StartAuthorization(c, r, asked)
      PROVE  /\ session \in Session /\ UNCHANGED <<session, consents, confirmed>>
             /\ r \in RedirectURIs /\ NoLogin \in Login
             /\ Decides(c, r, session, asked, NoLogin)
             /\ NoLogin.consent = Nobody
  <2>1. r \in RedirectURIs /\ NoLogin \in Login
    BY RedirectType, RecordTypes
  <2>2. QED BY <1>1, <2>1 DEF StartAuthorization, Decides, NoLogin, TypeOK
<1>2. CASE Resume
  <2>1. UNCHANGED <<consents, confirmed, confirmers>> /\ interaction.asked \in BOOLEAN
    BY <1>2 DEF Resume, consentVars, TypeOK, Interaction
  <2>2. QED BY <1>2, <2>1, ResumeSession, RedirectType DEF ResumedInto
<1>3. QED BY <1>1, <1>2

(* The account has confirmed the form of a client which returns to one of  *)
(* the redirect URIs of this one, or the client needs no consent.          *)
consentedTo(a, c, forms) ==
  \/ needsNoConsent(c)
  \/ \E d \in Clients, r \in RedirectsOf[c] : <<a, d, r>> \in forms

ConsentInv ==
  /\ \A a, r : <<a, r>> \in consents => \E d \in Clients : <<a, d, r>> \in confirmed
  /\ \A login \in {interaction.result, interaction.lastSubmission} :
        login.consent # Nobody => consentedTo(login.consent, interaction.client, confirmed)

LEMMA ConsentInductive ==
  ASSUME TypeOK, OpenedByProvider, ConsentInv, GrantsConsented, [Next]_vars
  PROVE  ConsentInv' /\ GrantsConsented'
<1> DEFINE rowsConfirmed ==
      \A a, r : <<a, r>> \in consents => \E d \in Clients : <<a, d, r>> \in confirmed
<1>1. ASSUME NEW a, NEW c, confirmed \subseteq confirmed', consentedTo(a, c, confirmed)
      PROVE  consentedTo(a, c, confirmed')
  BY <1>1 DEF consentedTo
<1>2. ASSUME KeepsOpening, confirmed \subseteq confirmed', rowsConfirmed',
             \/ interaction'.result.consent \in
                  {interaction.result.consent, interaction.lastSubmission.consent}
             \/ consentedTo(interaction'.result.consent, interaction.client, confirmed')
      PROVE  ConsentInv'
  <2>1. \A a : consentedTo(a, interaction.client, confirmed) =>
               consentedTo(a, interaction.client, confirmed')
    BY <1>1, <1>2
  <2>2. \A login \in {interaction'.result, interaction'.lastSubmission} :
           login.consent # Nobody =>
             consentedTo(login.consent, interaction.client, confirmed')
    BY <1>2, <2>1 DEF ConsentInv, KeepsOpening
  <2>3. interaction'.client = interaction.client
    BY <1>2 DEF KeepsOpening
  <2>4. QED BY <1>2, <2>2, <2>3 DEF ConsentInv
<1>3. ASSUME UNCHANGED confirmed, consents' \subseteq consents
      PROVE  rowsConfirmed'
  BY <1>3 DEF ConsentInv
<1>4. ASSUME confirmed \subseteq confirmed', session'.account = session.account,
             session'.grants = session.grants
      PROVE  GrantsConsented'
  BY <1>4 DEF GrantsConsented
<1>5. session' = NoSession => GrantsConsented'
  BY DEF GrantsConsented, NoSession
<1>6. CASE CancelInteraction
  BY <1>3, <1>5, <1>6 DEF CancelInteraction, consentVars, ConsentInv, NoInteraction, NoLogin
<1>7. CASE RouteConsentPrompt /\ submitConsent
  <2>1. /\ details.prompt = "consent" /\ skipConsent
        /\ UNCHANGED <<consents, confirmed, session>>
    <3>1. /\ details.prompt = "consent"
          /\ page' # "resume" \/ skipConsent
          /\ UNCHANGED <<consents, confirmed, session>>
      BY <1>7 DEF RouteConsentPrompt, consentVars
    <3>2. QED BY <1>7, <3>1 DEF submitConsent
  <2>2. consentedTo(interaction.origin, interaction.client, confirmed)
    BY <2>1, DetailsConsent DEF skipConsent, consentedTo, needsNoConsent, ConsentInv
  <2>3. consentedTo(interaction'.result.consent, interaction.client, confirmed')
    BY <1>7, <2>1, <2>2, ConsentSubmits
  <2>4. KeepsOpening
    BY <1>7, ConsentSubmits
  <2>5. QED BY <1>2, <1>3, <1>4, <2>1, <2>3, <2>4
<1>8. CASE ConfirmConsent
  <2>1. /\ details.prompt = "consent" /\ submitConsent
        /\ UNCHANGED session
        /\ consents' = consents \cup {<<interaction.origin, interaction.redirect_uri>>}
        /\ confirmed' = confirmed \cup
             {<<interaction.origin, interaction.client, interaction.redirect_uri>>}
    BY <1>8 DEF ConfirmConsent
  <2>2. <<interaction.origin, interaction.client, interaction.redirect_uri>> \in confirmed'
    BY <2>1
  <2>3. rowsConfirmed'
    BY <2>1, <2>2, DetailsConsent DEF ConsentInv
  <2>4. consentedTo(interaction.origin, interaction.client, confirmed')
    BY <2>1, <2>2, DetailsConsent DEF consentedTo
  <2>5. KeepsOpening /\ interaction'.result.consent = interaction.origin
    BY <2>1, ConsentSubmits
  <2>6. QED BY <1>2, <1>4, <2>1, <2>3, <2>4, <2>5
<1>9. CASE \/ \E c \in Clients, asked \in BOOLEAN :
                \E r \in RedirectsOf[c] : StartAuthorization(c, r, asked)
           \/ Resume
  <2>1. PICK c \in Clients, r \in RedirectURIs, s \in Session,
             asked \in BOOLEAN, submitted \in Login :
          /\ session' = s
          /\ Decides(c, r, s, asked, submitted)
          /\ \/ submitted = NoLogin /\ s = session
             \/ /\ ResumedInto(s)
                /\ c = interaction.client
                /\ submitted = interaction.result
          /\ UNCHANGED <<consents, confirmed>>
    BY <1>9, ProviderStep
  <2>2. \/ /\ interaction'.client = c
           /\ interaction'.lastSubmission = submitted
           /\ interaction'.result = NoLogin
        \/ interaction' = NoInteraction
    BY <2>1, DecideOutcomes DEF openInteraction, NoInteraction
  <2>3. ConsentInv'
    <3>1. submitted.consent # Nobody => consentedTo(submitted.consent, c, confirmed)
      BY <2>1 DEF ConsentInv, NoLogin
    <3>2. rowsConfirmed'
      BY <1>3, <2>1
    <3>3. CASE interaction' = NoInteraction
      BY <3>2, <3>3 DEF ConsentInv, NoInteraction, NoLogin
    <3>4. CASE /\ interaction'.client = c
               /\ interaction'.lastSubmission = submitted
               /\ interaction'.result = NoLogin
      BY <2>1, <3>1, <3>2, <3>4 DEF ConsentInv, NoLogin, consentedTo
    <3>5. QED BY <2>2, <3>3, <3>4
  <2>4. GrantsConsented'
    <3>1. CASE s = session
      BY <1>4, <2>1, <3>1
    <3>2. CASE ResumedInto(s) /\ c = interaction.client
      <4>1. ASSUME NEW d \in s.grants
            PROVE  consentedTo(s.account, d, confirmed)
        <5>1. CASE s.account = session.account /\ d \in session.grants
          BY <5>1 DEF GrantsConsented, consentedTo
        <5>2. CASE /\ interaction.result.consent = s.account /\ s.account # Nobody
                   /\ d = interaction.client
          BY <5>2 DEF ConsentInv
        <5>3. QED BY <3>2, <4>1, <5>1, <5>2 DEF ResumedInto
      <4>2. QED BY <2>1, <4>1 DEF GrantsConsented, consentedTo
    <3>3. QED BY <2>1, <3>1, <3>2
  <2>5. QED BY <2>3, <2>4
<1>10. QED BY <1>2, <1>3, <1>4, <1>5, <1>6, <1>7, <1>8, <1>9, ConsentStep

(***************************************************************************)
(* No client is granted anything in the session of a user who confirmed no *)
(* consent form for one of its redirect URIs, unless it needs no consent,  *)
(* whichever clients share redirect URIs and whatever runs out.            *)
(***************************************************************************)
THEOREM GrantsConsentedInvariant == Spec => []GrantsConsented
<1>1. Init => ConsentInv /\ GrantsConsented
  BY DEF Init, ConsentInv, GrantsConsented, NoSession, NoInteraction, NoLogin
<1>2. TypeOK /\ OpenedByProvider /\ ConsentInv /\ GrantsConsented /\ [Next]_vars
        => ConsentInv' /\ GrantsConsented'
  BY ConsentInductive
<1>3. QED BY <1>1, <1>2, TypeInvariant, PTL DEF Spec

(***************************************************************************)
(* While a request that asks for consent is under way, whatever consent    *)
(* was submitted is of a user who confirmed; and its consent prompt leaves *)
(* the asking out only if the user of the session has done so.             *)
(***************************************************************************)
AskedInv ==
  /\ interaction.asked =>
       \A login \in {interaction.result, interaction.lastSubmission} :
          login.consent # Nobody => login.consent \in confirmers
  /\ interaction.prompt = "consent" /\ interaction.asked =>
       \/ "consent_prompt" \in interaction.reasons
       \/ interaction.origin \in confirmers

LEMMA DecideAsks ==
  ASSUME NEW c, NEW r, NEW s \in Session, NEW asked \in BOOLEAN, NEW submitted,
         Decides(c, r, s, asked, submitted),
         Refuses \/ submitted.consent \in {Nobody, s.account},
         asked /\ submitted.consent # Nobody => submitted.consent \in confirmers',
         ~Refuses => session' = s
  PROVE  AskedInv' /\ AskedIsConfirmed'
<1> DEFINE pending == asked /\ submitted.consent = Nobody
<1>1. pending => "consent_prompt" \in consentPromptReasons(c, s, pending)
  BY DEF consentPromptReasons, ConsentReasons
<1>2. ASSUME NEW prompt, NEW reasons,
             openInteraction(c, r, s, prompt, reasons, asked, submitted)
      PROVE  /\ interaction'.prompt = prompt /\ interaction'.reasons = reasons
             /\ interaction'.asked = asked /\ interaction'.origin = s.account
             /\ interaction'.result = NoLogin /\ interaction'.lastSubmission = submitted
             /\ authorized' = NoAuthorization
  BY <1>2 DEF openInteraction, NoInteraction
<1>3. authorized' = NoAuthorization => AskedIsConfirmed'
  BY DEF AskedIsConfirmed, NoAuthorization
<1>4. ASSUME NEW reasons, openInteraction(c, r, s, "login", reasons, asked, submitted)
      PROVE  AskedInv' /\ AskedIsConfirmed'
  BY <1>2, <1>3, <1>4 DEF AskedInv, NoLogin
<1>5. CASE /\ s.account # Nobody
           /\ submitted.consent \in {Nobody, s.account}
           /\ openInteraction(c, r, s, "consent", consentPromptReasons(c, s, pending),
                              asked, submitted)
  <2> HIDE DEF pending
  <2>1. /\ interaction'.prompt = "consent"
        /\ interaction'.reasons = consentPromptReasons(c, s, pending)
        /\ interaction'.asked = asked /\ interaction'.origin = s.account
        /\ interaction'.result = NoLogin /\ interaction'.lastSubmission = submitted
        /\ authorized' = NoAuthorization
    BY <1>2, <1>5
  <2>2. asked => pending \/ (submitted.consent = s.account /\ submitted.consent # Nobody)
    BY <1>5 DEF pending
  <2>3. asked /\ ~pending => s.account \in confirmers'
    BY <2>2
  <2>4. submitted.consent # Nobody /\ asked => submitted.consent \in confirmers'
    OBVIOUS
  <2>5. QED BY <1>1, <1>3, <2>1, <2>3, <2>4 DEF AskedInv, NoLogin
<1>6. CASE interaction' = NoInteraction /\ authorized' = NoAuthorization
  BY <1>3, <1>6 DEF AskedInv, NoInteraction
<1>7. CASE /\ submitted.consent \in {Nobody, s.account}
           /\ consentPromptReasons(c, s, pending) = {}
           /\ interaction' = NoInteraction
           /\ authorized' = [account |-> s.account, client |-> c, asked |-> asked]
  <2>1. ~pending
    BY <1>1, <1>7
  <2>2. AskedInv'
    BY <1>7 DEF AskedInv, NoInteraction
  <2>3. authorized'.account = s.account /\ authorized'.asked = asked
    BY <1>7
  <2>4. asked => s.account \in confirmers'
    BY <1>7, <2>1
  <2>5. QED BY <2>2, <2>3, <2>4 DEF AskedIsConfirmed
<1>8. \/ interaction' = NoInteraction /\ authorized' = NoAuthorization
      \/ \E reasons : openInteraction(c, r, s, "login", reasons, asked, submitted)
      \/ /\ s.account # Nobody
         /\ openInteraction(c, r, s, "consent", consentPromptReasons(c, s, pending),
                            asked, submitted)
      \/ /\ consentPromptReasons(c, s, pending) = {}
         /\ interaction' = NoInteraction
         /\ authorized' = [account |-> s.account, client |-> c, asked |-> asked]
  BY DEF Decides, decideAuthorization, Refuses
<1>9. CASE Refuses
  BY <1>6, <1>9 DEF Refuses
<1> HIDE DEF pending
<1>10. QED BY <1>4, <1>5, <1>6, <1>7, <1>8, <1>9

LEMMA AskedInductive ==
  ASSUME TypeOK, OpenedByProvider, AskedInv, AskedIsConfirmed, [Next]_vars
  PROVE  AskedInv' /\ AskedIsConfirmed'
<1>1. ASSUME KeepsOpening, confirmers \subseteq confirmers',
             \/ interaction'.result.consent \in
                  {interaction.result.consent, interaction.lastSubmission.consent}
             \/ interaction.asked => interaction'.result.consent \in confirmers'
      PROVE  AskedInv'
  BY <1>1 DEF AskedInv, KeepsOpening
<1>2. authorized' = NoAuthorization => AskedIsConfirmed'
  BY DEF AskedIsConfirmed, NoAuthorization
<1>3. authorized' = authorized /\ UNCHANGED confirmers => AskedIsConfirmed'
  BY DEF AskedIsConfirmed
<1>4. CASE CancelInteraction
  BY <1>2, <1>4 DEF CancelInteraction, AskedInv, NoInteraction
<1>5. CASE RouteConsentPrompt /\ submitConsent
  <2>1. /\ details.prompt = "consent"
        /\ page' = "resume"
        /\ page' = "resume" => "consent_prompt" \notin interaction.reasons
        /\ UNCHANGED confirmers
        /\ authorized' = NoAuthorization
    BY <1>5 DEF RouteConsentPrompt, submitConsent, consentVars
  <2>2. interaction.asked => interaction.origin \in confirmers
    BY <2>1, DetailsConsent DEF AskedInv
  <2>3. QED BY <1>1, <1>2, <1>5, <2>1, <2>2, ConsentSubmits
<1>6. CASE ConfirmConsent
  <2>1. /\ submitConsent
        /\ confirmers \subseteq confirmers'
        /\ interaction.asked => interaction.origin \in confirmers'
        /\ authorized' = NoAuthorization
    BY <1>6 DEF ConfirmConsent
  <2>2. QED BY <1>1, <1>2, <2>1, ConsentSubmits
<1>7. CASE \/ \E c \in Clients, asked \in BOOLEAN :
                \E r \in RedirectsOf[c] : StartAuthorization(c, r, asked)
           \/ Resume
  <2>1. PICK c \in Clients, r \in RedirectURIs, s \in Session,
             asked \in BOOLEAN, submitted \in Login :
          /\ session' = s
          /\ Decides(c, r, s, asked, submitted)
          /\ Refuses \/ submitted.consent \in {Nobody, s.account}
          /\ \/ submitted = NoLogin
             \/ /\ asked = interaction.asked
                /\ submitted = interaction.result
                /\ UNCHANGED confirmers
    BY <1>7, ProviderStep
  <2>2. ASSUME asked, submitted.consent # Nobody
        PROVE  submitted.consent \in confirmers'
    <3>1. CASE submitted = NoLogin
      BY <2>2, <3>1 DEF NoLogin
    <3>2. CASE asked = interaction.asked /\ submitted = interaction.result /\ UNCHANGED confirmers
      BY <2>2, <3>2 DEF AskedInv
    <3>3. QED BY <2>1, <3>1, <3>2
  <2>3. QED BY <2>1, <2>2, DecideAsks
<1>8. QED BY <1>1, <1>2, <1>3, <1>4, <1>5, <1>6, <1>7, ConsentStep

(***************************************************************************)
(* A request with prompt=consent is answered only for a user who confirmed *)
(* the form since it began: neither a consent on record, nor one submitted *)
(* before another account logged in, answers it.                           *)
(***************************************************************************)
THEOREM AskedIsConfirmedHolds == Spec => []AskedIsConfirmed
<1>1. Init => AskedInv /\ AskedIsConfirmed
  BY DEF Init, AskedInv, AskedIsConfirmed, NoInteraction, NoAuthorization
<1>2. TypeOK /\ OpenedByProvider /\ AskedInv /\ AskedIsConfirmed /\ [Next]_vars
        => AskedInv' /\ AskedIsConfirmed'
  BY AskedInductive
<1>3. QED BY <1>1, <1>2, TypeInvariant, PTL DEF Spec

-----------------------------------------------------------------------------
(* The provider's checks against the guards of the /api routes.            *)

LEMMA LoginFactorsType ==
  ASSUME NEW amr
  PROVE  loginFactors(amr) \in {0, 1, 2}
BY DEF loginFactors

(***************************************************************************)
(* A user the provider does not prompt may use the routes that ask for a   *)
(* login.                                                                  *)
(***************************************************************************)
LEMMA UnpromptedCanLogin ==
  ASSUME NEW u, NEW amr, loginPromptReasons(u, amr) = {}
  PROVE  userCanLogin(u, amr)
<1>1. /\ ~isUnapproved(u)
      /\ ~isExpired(u)
      /\ ~(EMAIL_VERIFICATION /\ isUnverifiedEmail(u))
      /\ loginFactors(amr) # 0
      /\ ~(userRequiresMfa(u) /\ loginFactors(amr) < 2)
  BY DEF loginPromptReasons, LoginReasons
<1>2. ~isUnverifiedEmail(u)
  BY <1>1 DEF isUnverifiedEmail
<1>3. userMfaComplete(u, amr)
  BY <1>1, LoginFactorsType DEF userMfaComplete
<1>4. QED BY <1>1, <1>2, <1>3 DEF userCanLogin

(* What the provider has decided when it answers a client.                 *)
LEMMA AnsweredMayLogin ==
  ASSUME NEW c, NEW s, NEW asked,
         loginPromptReasons(user[s.account], s.amr) = {},
         consentPromptReasons(c, s, asked) = {}
  PROVE  /\ userCanLogin(user[s.account], s.amr)
         /\ ClientOf[c].internal => userIsPrivileged(user[s.account], s.amr)
         /\ ClientOf[c].require_mfa => loginFactors(s.amr) >= 2
<1>1. userCanLogin(user[s.account], s.amr)
  BY UnpromptedCanLogin
<1>2. ~clientMfaRequired(ClientOf[c], user[s.account], s.amr)
  BY DEF consentPromptReasons, ConsentReasons
<1>3. ASSUME ClientOf[c].internal
      PROVE  usingMfaIfExists(user[s.account], s.amr)
  BY <1>2, <1>3, LoginFactorsType DEF clientMfaRequired, usingMfaIfExists
<1>4. ASSUME ClientOf[c].require_mfa
      PROVE  loginFactors(s.amr) >= 2
  BY <1>2, <1>4, LoginFactorsType DEF clientMfaRequired
<1>5. QED BY <1>1, <1>3, <1>4 DEF userCanLogin, userIsPrivileged

LEMMA DecideAuthorizes ==
  ASSUME NEW c \in Clients, NEW r, NEW s \in Session, NEW asked \in BOOLEAN,
         NEW submitted, Decides(c, r, s, asked, submitted),
         UNCHANGED user, session' = s
  PROVE  AuthorizedMayLogin'
<1> DEFINE pending == asked /\ submitted.consent = Nobody
<1>1. CASE authorized' = NoAuthorization
  BY <1>1 DEF AuthorizedMayLogin, NoAuthorization
<1>2. CASE /\ loginPromptReasons(user[s.account], s.amr) = {}
           /\ ~userGroupMissing(ClientOf[c], user[s.account])
           /\ consentPromptReasons(c, s, pending) = {}
           /\ authorized' = [account |-> s.account, client |-> c, asked |-> asked]
  <2>1. authorized'.account = s.account /\ authorized'.client = c
    BY <1>2
  <2>2. /\ userCanLogin(user[s.account], s.amr)
        /\ ClientOf[c].internal => userIsPrivileged(user[s.account], s.amr)
        /\ ClientOf[c].require_mfa => loginFactors(s.amr) >= 2
    BY <1>2, AnsweredMayLogin
  <2>3. QED BY <1>2, <2>1, <2>2 DEF AuthorizedMayLogin
<1>3. QED BY <1>1, <1>2 DEF Decides, Refuses, decideAuthorization, openInteraction

LEMMA AuthorizedInductive ==
  ASSUME TypeOK, OpenedByProvider, AuthorizedMayLogin, [Next]_vars
  PROVE  AuthorizedMayLogin'
<1>1. authorized' = NoAuthorization => AuthorizedMayLogin'
  BY DEF AuthorizedMayLogin, NoAuthorization
<1>2. UNCHANGED vars => AuthorizedMayLogin'
  BY DEF AuthorizedMayLogin, vars
<1>3. ASSUME NEW c \in Clients, NEW asked \in BOOLEAN, NEW r \in RedirectsOf[c],
             StartAuthorization(c, r, asked)
      PROVE  AuthorizedMayLogin'
  BY <1>3, DecideAuthorizes DEF StartAuthorization, Decides, TypeOK
<1>4. ASSUME Resume
      PROVE  AuthorizedMayLogin'
  <2>1. UNCHANGED user
    BY <1>4 DEF Resume
  <2>2. QED
    BY <1>4, <2>1, ResumeSession, DecideAuthorizes DEF ResumedInto, TypeOK, Interaction
<1>5. ASSUME NEW u, NEW verified, NEW pending, NEW enableMfa,
             \/ PasswordLogin(u)
             \/ PasskeyLogin(u, verified)
             \/ PasskeyRegistration(verified)
             \/ Totp(pending, enableMfa)
             \/ VerifyEmail(u)
      PROVE  authorized' = NoAuthorization
  BY <1>5 DEF PasswordLogin, PasskeyLogin, PasskeyRegistration, Totp, VerifyEmail,
              loginResult
<1>6. ASSUME NEW u, NEW address,
             \/ TotpRegistration \/ DeleteTotp \/ SendVerifyEmail(u)
             \/ UpdateEmail(address) \/ TryAgain \/ CancelInteraction
             \/ RouteLoginPrompt \/ RouteConsentPrompt \/ ConfirmConsent
             \/ SessionEnds \/ AdminUpdatesUser(u) \/ PendingExpires(u)
      PROVE  authorized' = NoAuthorization
  BY <1>6 DEF TotpRegistration, DeleteTotp, SendVerifyEmail, UpdateEmail, TryAgain,
              CancelInteraction, RouteLoginPrompt, RouteConsentPrompt,
              ConfirmConsent, SessionEnds, AdminUpdatesUser, PendingExpires
<1>7. QED BY <1>1, <1>2, <1>3, <1>4, <1>5, <1>6
     DEF Next, BrowserNext, ClientsNext, OthersNext

(***************************************************************************)
(* An authorization response goes only to a user whom the route guards     *)
(* would let in as well, with full privilege for VoidAuth's own client.    *)
(***************************************************************************)
THEOREM AuthorizedMayLoginInvariant == Spec => []AuthorizedMayLogin
<1>1. Init => AuthorizedMayLogin
  BY DEF Init, AuthorizedMayLogin, NoAuthorization
<1>2. TypeOK /\ OpenedByProvider /\ AuthorizedMayLogin /\ [Next]_vars
        => AuthorizedMayLogin'
  BY AuthorizedInductive
<1>3. QED BY <1>1, <1>2, TypeInvariant, PTL DEF Spec

-----------------------------------------------------------------------------
(* Who may change the authenticators of a protected account.               *)

(* Without an account a session holds no factors.                           *)
SessionOfNobody == session.account = Nobody => session.amr = {}

LEMMA SessionOfNobodyInductive ==
  ASSUME TypeOK, OpenedByProvider, SessionOfNobody, [Next]_vars
  PROVE  SessionOfNobody'
<1>1. ASSUME NEW u \in Users, NEW amr, loginResult(u, amr)
      PROVE  SessionOfNobody'
  <2>1. u # Nobody
    BY LoginFlowAssumption
  <2>2. CASE session.account = u
    <3>1. session'.account = session.account
      BY <1>1, LoginResultKeeps
    <3>2. QED BY <2>1, <2>2, <3>1 DEF SessionOfNobody
  <2>3. CASE session.account # u
    BY <1>1, <2>3 DEF loginResult, SessionOfNobody
  <2>4. QED BY <2>2, <2>3
<1>2. ASSUME NEW u \in Users, NEW verified, PasswordLogin(u) \/ PasskeyLogin(u, verified)
                                           \/ VerifyEmail(u)
      PROVE  SessionOfNobody'
  BY <1>1, <1>2 DEF PasswordLogin, PasskeyLogin, VerifyEmail
<1>3. ASSUME NEW verified, NEW pending, NEW enableMfa,
             PasskeyRegistration(verified) \/ Totp(pending, enableMfa)
      PROVE  SessionOfNobody'
  <2>1. reqAccount \in Users
    BY <1>3, ReqUserType DEF PasskeyRegistration, Totp
  <2>2. QED BY <1>1, <1>3, <2>1 DEF PasskeyRegistration, Totp
<1>4. session' \in {session, NoSession} => SessionOfNobody'
  BY DEF SessionOfNobody, NoSession
<1>5. ASSUME NEW u, NEW address, NEW c, NEW r, NEW asked,
             \/ TotpRegistration \/ DeleteTotp \/ SendVerifyEmail(u)
             \/ UpdateEmail(address) \/ TryAgain \/ CancelInteraction
             \/ RouteLoginPrompt \/ RouteConsentPrompt \/ ConfirmConsent
             \/ StartAuthorization(c, r, asked) \/ SessionEnds
             \/ AdminUpdatesUser(u) \/ PendingExpires(u) \/ UNCHANGED vars
      PROVE  session' \in {session, NoSession}
  BY <1>5 DEF TotpRegistration, DeleteTotp, SendVerifyEmail, UpdateEmail, TryAgain,
              CancelInteraction, RouteLoginPrompt, RouteConsentPrompt,
              ConfirmConsent, StartAuthorization, SessionEnds,
              AdminUpdatesUser, PendingExpires, vars
<1>6. Resume => SessionOfNobody'
  BY ResumeSession DEF ResumedInto, SessionOfNobody
<1>7. QED BY <1>2, <1>3, <1>4, <1>5, <1>6 DEF Next, BrowserNext, ClientsNext, OthersNext

(* More than one factor means a factor other than the password.            *)
LEMMA SecondFactorProven ==
  ASSUME TypeOK, AmrProven, SessionOfNobody, hasReqUser,
         usingMfaIfExists(user[reqAccount], reqAmr), user[reqAccount].hasTotp
  PROVE  \E f \in Factors \ firstFactors : <<reqAccount, f>> \in proven
<1>1. loginFactors(reqAmr) > 1
  BY DEF usingMfaIfExists
<1>2. PICK f \in reqAmr : f \in multiFactors \cup secondFactors \cup eitherFactors
  BY <1>1 DEF loginFactors
<1>3. f \in Factors \ firstFactors
  BY <1>2 DEF Factors, firstFactors, secondFactors, eitherFactors, multiFactors
<1>4. heldIsProven(details.result)
  BY DEF details, AmrProven, heldIsProven, NoInteraction, NoLogin
<1>5. <<reqAccount, f>> \in proven
  <2>1. CASE details.result.account = reqAccount /\ f \in details.result.amr
    BY <1>4, <2>1 DEF heldIsProven, hasReqUser
  <2>2. CASE f \in session.amr /\ session.account = reqAccount
    BY <2>2 DEF AmrProven, heldIsProven, hasReqUser
  <2>3. CASE f \in session.amr /\ session.account # reqAccount
    <3>1. session.account = Nobody
      BY <2>3 DEF reqAccount
    <3>2. QED BY <2>3, <3>1 DEF SessionOfNobody
  <2>4. QED BY <1>2, <2>1, <2>2, <2>3 DEF reqAmr
<1>6. QED BY <1>3, <1>5

(* The requests that change the rows of a user, seen from one user u.      *)
ProtectedStep(u) ==
  user[u].hasTotp /\ (authenticatorsGrow(u) \/ ~user'[u].hasTotp) =>
    \E f \in Factors \ firstFactors : <<u, f>> \in proven

LEMMA ProtectedInductive ==
  ASSUME TypeOK, AmrProven, SessionOfNobody, [Next]_vars, NEW u \in Users
  PROVE  ProtectedStep(u)
<1>1. ASSUME user'[u].hasTotp \/ ~user[u].hasTotp,
             user'[u].pendingTotp => user[u].pendingTotp,
             user'[u].hasPasskeys = user[u].hasPasskeys
      PROVE  ProtectedStep(u)
  BY <1>1 DEF ProtectedStep, authenticatorsGrow
<1>2. ASSUME hasReqUser, u = reqAccount, usingMfaIfExists(user[u], reqAmr)
      PROVE  ProtectedStep(u)
  BY <1>2, SecondFactorProven DEF ProtectedStep
<1>3. ASSUME NEW v \in Users, v # u,
             \E row : user' = [user EXCEPT ![v] = row]
      PROVE  ProtectedStep(u)
  <2>1. user'[u] = user[u]
    BY <1>3 DEF TypeOK
  <2>2. QED BY <1>1, <2>1
<1>4. UNCHANGED user => ProtectedStep(u)
  BY <1>1
<1>5. ASSUME NEW verified, PasskeyRegistration(verified)
      PROVE  ProtectedStep(u)
  <2>1. /\ hasReqUser
        /\ usingMfaIfExists(user[reqAccount], reqAmr)
        /\ \E row : user' = [user EXCEPT ![reqAccount] = row]
    BY <1>5 DEF PasskeyRegistration, userIsPrivileged
  <2>2. QED BY <1>2, <1>3, <2>1, ReqUserType
<1>6. ASSUME TotpRegistration
      PROVE  ProtectedStep(u)
  <2>1. /\ hasReqUser
        /\ userIsPrivilegedForTotpCreate(user[reqAccount], reqAmr)
        /\ \E row : user' = [user EXCEPT ![reqAccount] = row]
    BY <1>6 DEF TotpRegistration
  <2>2. usingMfaIfExists(user[reqAccount], reqAmr)
    BY <2>1 DEF userIsPrivilegedForTotpCreate, usingMfaIfExists
  <2>3. QED BY <1>2, <1>3, <2>1, <2>2, ReqUserType
<1>7. ASSUME DeleteTotp
      PROVE  ProtectedStep(u)
  <2>1. /\ hasReqUser
        /\ usingMfaIfExists(user[reqAccount], reqAmr)
        /\ \E row : user' = [user EXCEPT ![reqAccount] = row]
    BY <1>7 DEF DeleteTotp, userIsPrivileged
  <2>2. QED BY <1>2, <1>3, <2>1, ReqUserType
<1>8. ASSUME NEW v \in Users, NEW row \in UserRow,
             user' = [user EXCEPT ![v] = row],
             row.hasTotp \/ ~user[v].hasTotp,
             row.pendingTotp => user[v].pendingTotp,
             row.hasPasskeys = user[v].hasPasskeys
      PROVE  ProtectedStep(u)
  <2>1. CASE v = u
    <3>1. user'[u] = row
      BY <1>8, <2>1 DEF TypeOK
    <3>2. QED BY <1>1, <1>8, <2>1, <3>1
  <2>2. QED BY <1>3, <1>8, <2>1
<1>9. ASSUME NEW pending \in BOOLEAN, NEW enableMfa \in BOOLEAN,
             Totp(pending, enableMfa)
      PROVE  ProtectedStep(u)
  <2> DEFINE r == user[reqAccount]
             row == [r EXCEPT !.hasTotp = TRUE,
                              !.pendingTotp = r.pendingTotp /\ ~pending,
                              !.mfaRequired = r.mfaRequired \/ enableMfa]
  <2>1. reqAccount \in Users
    BY <1>9, ReqUserType DEF Totp
  <2>2. user' = [user EXCEPT ![reqAccount] = row]
    BY <1>9 DEF Totp
  <2>3. /\ row \in UserRow
        /\ row.hasTotp
        /\ row.pendingTotp => r.pendingTotp
        /\ row.hasPasskeys = r.hasPasskeys
    BY <2>1 DEF TypeOK, UserRow
  <2> HIDE DEF row
  <2>4. QED BY <1>8, <2>1, <2>2, <2>3
<1>10. ASSUME NEW v \in Users, VerifyEmail(v)
       PROVE  ProtectedStep(u)
  <2> DEFINE row == [user[v] EXCEPT !.emailVerified = TRUE, !.hasEmail = TRUE]
  <2>1. user' = [user EXCEPT ![v] = row]
    BY <1>10 DEF VerifyEmail
  <2>2. /\ row \in UserRow
        /\ row.hasTotp = user[v].hasTotp
        /\ row.pendingTotp = user[v].pendingTotp
        /\ row.hasPasskeys = user[v].hasPasskeys
    BY DEF TypeOK, UserRow
  <2> HIDE DEF row
  <2>3. QED BY <1>8, <2>1, <2>2
<1>11. ASSUME NEW address \in Addresses, UpdateEmail(address)
       PROVE  ProtectedStep(u)
  <2> DEFINE row == [user[reqAccount] EXCEPT !.hasEmail = address]
  <2>1. reqAccount \in Users /\ address \in BOOLEAN
    BY <1>11, ReqUserType, LoginFlowAssumption DEF UpdateEmail
  <2>2. UNCHANGED user \/ user' = [user EXCEPT ![reqAccount] = row]
    BY <1>11 DEF UpdateEmail
  <2>3. /\ row \in UserRow
        /\ row.hasTotp = user[reqAccount].hasTotp
        /\ row.pendingTotp = user[reqAccount].pendingTotp
        /\ row.hasPasskeys = user[reqAccount].hasPasskeys
    BY <2>1 DEF TypeOK, UserRow
  <2> HIDE DEF row
  <2>4. QED BY <1>4, <1>8, <2>1, <2>2, <2>3
<1>12. ASSUME NEW v \in Users, AdminUpdatesUser(v)
       PROVE  ProtectedStep(u)
  <2>1. ASSUME \E field \in AdminFields \ {"groups"} :
                 user' = [user EXCEPT ![v][field] = ~@]
        PROVE  ProtectedStep(u)
    <3>1. PICK field \in {"approved", "expired", "mfaRequired", "hasEmail", "emailVerified"} :
            user' = [user EXCEPT ![v][field] = ~@]
      BY <2>1, LoginFlowAssumption
    <3> DEFINE row == [user[v] EXCEPT ![field] = ~user[v][field]]
    <3>2. user' = [user EXCEPT ![v] = row]
      BY <3>1
    <3>3. /\ row \in UserRow
          /\ row.hasTotp = user[v].hasTotp
          /\ row.pendingTotp = user[v].pendingTotp
          /\ row.hasPasskeys = user[v].hasPasskeys
      BY DEF TypeOK, UserRow
    <3> HIDE DEF row
    <3>4. QED BY <1>8, <3>2, <3>3
  <2>2. ASSUME \E groups \in SUBSET Groups : user' = [user EXCEPT ![v].groups = groups]
        PROVE  ProtectedStep(u)
    <3>1. PICK groups \in SUBSET Groups : user' = [user EXCEPT ![v].groups = groups]
      BY <2>2
    <3> DEFINE row == [user[v] EXCEPT !.groups = groups]
    <3>2. user' = [user EXCEPT ![v] = row]
      BY <3>1
    <3>3. /\ row \in UserRow
          /\ row.hasTotp = user[v].hasTotp
          /\ row.pendingTotp = user[v].pendingTotp
          /\ row.hasPasskeys = user[v].hasPasskeys
      BY DEF TypeOK, UserRow
    <3> HIDE DEF row
    <3>4. QED BY <1>8, <3>2, <3>3
  <2>3. QED BY <1>12, <2>1, <2>2 DEF AdminUpdatesUser
<1>13. ASSUME NEW v \in Users, PendingExpires(v)
       PROVE  ProtectedStep(u)
  <2> DEFINE row == [user[v] EXCEPT !.pendingTotp = FALSE]
  <2>1. UNCHANGED user \/ user' = [user EXCEPT ![v] = row]
    BY <1>13 DEF PendingExpires
  <2>2. /\ row \in UserRow
        /\ row.hasTotp = user[v].hasTotp
        /\ ~row.pendingTotp
        /\ row.hasPasskeys = user[v].hasPasskeys
    BY DEF TypeOK, UserRow
  <2> HIDE DEF row
  <2>3. QED BY <1>4, <1>8, <2>1, <2>2
<1>14. ASSUME NEW v, NEW verified, NEW c, NEW r, NEW asked,
              \/ PasswordLogin(v) \/ PasskeyLogin(v, verified)
              \/ SendVerifyEmail(v) \/ TryAgain \/ CancelInteraction
              \/ RouteLoginPrompt \/ RouteConsentPrompt \/ ConfirmConsent
              \/ StartAuthorization(c, r, asked) \/ Resume \/ SessionEnds
              \/ UNCHANGED vars
       PROVE  UNCHANGED user
  BY <1>14 DEF PasswordLogin, PasskeyLogin, SendVerifyEmail, TryAgain,
               CancelInteraction, RouteLoginPrompt, RouteConsentPrompt,
               ConfirmConsent, StartAuthorization, Resume, SessionEnds, vars
<1>15. QED BY <1>4, <1>5, <1>6, <1>7, <1>9, <1>10, <1>11, <1>12, <1>13, <1>14
     DEF Next, BrowserNext, ClientsNext, OthersNext

(***************************************************************************)
(* The authenticators of an account with a confirmed TOTP change only for  *)
(* a browser that has proven more than that account's password.            *)
(***************************************************************************)
THEOREM ProtectedAuthenticatorsHold == Spec => ProtectedAuthenticators
<1>1. Init => SessionOfNobody
  BY DEF Init, SessionOfNobody, NoSession
<1>2. TypeOK /\ OpenedByProvider /\ SessionOfNobody /\ [Next]_vars => SessionOfNobody'
  BY SessionOfNobodyInductive
<1>3. TypeOK /\ AmrProven /\ SessionOfNobody /\ [Next]_vars
        => [\A u \in Users : ProtectedStep(u)]_vars
  BY ProtectedInductive
<1>4. QED
  BY <1>1, <1>2, <1>3, TypeInvariant, AmrProvenInvariant, PTL
     DEF Spec, ProtectedAuthenticators, ProtectedStep

-----------------------------------------------------------------------------
(***************************************************************************)
(* A login begins with a factor that may stand alone; a code only joins    *)
(* what the same account has proven.                                       *)
(***************************************************************************)
beginFactors == multiFactors \cup firstFactors \cup eitherFactors

Begun(login) == login.account # Nobody => login.amr \cap beginFactors # {}

LoginsBegun ==
  /\ Begun(session) /\ Begun(interaction.result) /\ Begun(interaction.lastSubmission)

LEMMA BegunFactors ==
  ASSUME NEW amr, amr \cap beginFactors # {}
  PROVE  /\ loginFactors(amr) # 0
         /\ "totp" \in amr => loginFactors(amr) = 2
BY DEF loginFactors, firstFactor, beginFactors, multiFactors, firstFactors, eitherFactors,
       secondFactors

LEMMA DetailsBegun ==
  ASSUME LoginsBegun
  PROVE  Begun(details.result) /\ Begun(details.lastSubmission)
BY DEF LoginsBegun, Begun, details, NoInteraction, NoLogin

(* The request of a logged in user has a factor that stands alone.         *)
LEMMA ReqAmrBegun ==
  ASSUME LoginsBegun, hasReqUser
  PROVE  reqAmr \cap beginFactors # {}
<1>1. CASE session.account # Nobody
  BY <1>1 DEF LoginsBegun, Begun, reqAmr
<1>2. CASE session.account = Nobody
  BY <1>2, DetailsBegun DEF Begun, reqAmr, reqAccount, hasReqUser
<1>3. QED BY <1>1, <1>2

(* What a login step adds joins what the request of its account had.       *)
LEMMA LoginResultBegun ==
  ASSUME TypeOK, LoginsBegun, NEW u \in Users, NEW amr, loginResult(u, amr),
         \/ amr \cap beginFactors # {}
         \/ amr \cap firstFactors = {} /\ u = reqAccount
  PROVE  /\ LoginsBegun'
         /\ session.account = u => amr \subseteq session'.amr
         /\ details.prompt # "none" =>
              /\ interaction'.result.account = u
              /\ interaction'.result.amr \cap beginFactors # {}
              /\ amr \subseteq interaction'.result.amr
<1> DEFINE keep == amr \cap firstFactors = {}
           withSession == mergedWith(amr, keep, session, u)
           withSubmission == mergedWith(withSession, keep, details.lastSubmission, u)
           withResult == mergedWith(withSubmission, keep, details.result, u)
<1>1. u # Nobody
  BY LoginFlowAssumption
<1>2. /\ amr \subseteq withSession
      /\ keep /\ session.account = u => session.amr \subseteq withSession
  BY DEF mergedWith
<1>3. /\ session' = IF session.account = u
                    THEN [session EXCEPT !.amr = withSession] ELSE session
      /\ \/ details.prompt = "none" /\ UNCHANGED interaction
         \/ /\ details.prompt # "none"
            /\ interaction' = [interaction EXCEPT
                 !.result = [account |-> u, amr |-> withResult,
                             consent |-> interaction.lastSubmission.consent]]
  BY DEF loginResult
<1>4. withSession \subseteq withResult
  <2> HIDE DEF withSession
  <2> QED BY DEF mergedWith
<1>5. keep /\ details.result.account = u => details.result.amr \subseteq withResult
  <2> HIDE DEF withSubmission
  <2> QED BY DEF mergedWith
<1> HIDE DEF withSession, withResult
<1>6. session.account = u => withSession \cap beginFactors # {}
  <2>1. CASE amr \cap beginFactors # {}
    BY <1>2, <2>1
  <2>2. CASE keep /\ session.account = u
    BY <1>1, <1>2, <2>2 DEF LoginsBegun, Begun
  <2>3. QED BY <2>1, <2>2
<1>7. withResult \cap beginFactors # {}
  <2>1. CASE amr \cap beginFactors # {}
    BY <1>2, <1>4, <2>1
  <2>2. CASE keep /\ u = reqAccount
    <3>1. CASE session.account = u
      BY <1>4, <1>6, <3>1
    <3>2. CASE session.account # u
      <4>1. details.result.account = u
        BY <2>2, <3>2 DEF reqAccount
      <4>2. QED BY <1>1, <1>5, <2>2, <4>1, DetailsBegun DEF Begun
    <3>3. QED BY <3>1, <3>2
  <2>3. QED BY <2>1, <2>2
<1>8. session.account = u => session'.amr = withSession
  BY <1>3 DEF TypeOK, Session
<1>9. Begun(session)'
  <2>1. CASE session.account = u
    BY <1>6, <1>8, <2>1 DEF Begun
  <2>2. CASE session.account # u
    BY <1>3, <2>2 DEF LoginsBegun, Begun
  <2>3. QED BY <2>1, <2>2
<1>10. details.prompt # "none" =>
         /\ interaction'.result = [account |-> u, amr |-> withResult,
                                   consent |-> interaction.lastSubmission.consent]
         /\ interaction'.lastSubmission = interaction.lastSubmission
  BY <1>3, ResultKeeps DEF KeepsOpening
<1>11. Begun(interaction.result)' /\ Begun(interaction.lastSubmission)'
  <2>1. CASE UNCHANGED interaction
    BY <2>1 DEF LoginsBegun, Begun
  <2>2. CASE details.prompt # "none"
    BY <1>7, <1>10, <2>2 DEF LoginsBegun, Begun
  <2>3. QED BY <1>3, <2>1, <2>2
<1>12. QED BY <1>2, <1>4, <1>7, <1>8, <1>9, <1>10, <1>11 DEF LoginsBegun

LEMMA PasskeyBegins ==
  ASSUME NEW verified
  PROVE  /\ passkeyAmr(verified) \cap beginFactors # {}
         /\ {"pwd"} \cap beginFactors # {} /\ {"email"} \cap beginFactors # {}
         /\ {"totp"} \cap firstFactors = {}
BY DEF passkeyAmr, beginFactors, multiFactors, firstFactors, eitherFactors

LEMMA LoginsBegunInductive ==
  ASSUME TypeOK, OpenedByProvider, LoginsBegun, [Next]_vars
  PROVE  LoginsBegun'
<1>1. Begun(NoLogin)
  BY DEF Begun, NoLogin
<1>2. ASSUME session' \in {session, NoSession},
             \E login \in {interaction.result, interaction.lastSubmission, NoLogin} :
               Submits(login),
             interaction'.lastSubmission \in {interaction.lastSubmission, NoLogin}
      PROVE  LoginsBegun'
  BY <1>2 DEF LoginsBegun, Begun, NoSession, NoLogin, Submits
<1>3. ASSUME NEW u \in Users, NEW verified,
             PasswordLogin(u) \/ PasskeyLogin(u, verified) \/ VerifyEmail(u)
      PROVE  LoginsBegun'
  BY <1>3, LoginResultBegun, PasskeyBegins DEF PasswordLogin, PasskeyLogin, VerifyEmail
<1>4. ASSUME NEW verified, NEW pending, NEW enableMfa,
             PasskeyRegistration(verified) \/ Totp(pending, enableMfa)
      PROVE  LoginsBegun'
  <2>1. reqAccount \in Users
    BY <1>4, ReqUserType DEF PasskeyRegistration, Totp
  <2>2. QED
    BY <1>4, <2>1, LoginResultBegun, PasskeyBegins DEF PasskeyRegistration, Totp
<1>5. ASSUME \/ TotpRegistration \/ DeleteTotp \/ RouteLoginPrompt
             \/ \E u \in Users : \/ SendVerifyEmail(u)
                                 \/ AdminUpdatesUser(u)
                                 \/ PendingExpires(u)
             \/ \E address \in Addresses : UpdateEmail(address)
             \/ SessionEnds
             \/ UNCHANGED vars
      PROVE  LoginsBegun'
  <2>1. session' \in {session, NoSession} /\ UNCHANGED interaction
    BY <1>5 DEF TotpRegistration, DeleteTotp, RouteLoginPrompt, SendVerifyEmail,
                AdminUpdatesUser, PendingExpires, UpdateEmail, SessionEnds, vars
  <2>2. QED BY <1>2, <2>1 DEF Submits
<1>6. TryAgain \/ CancelInteraction \/ RouteConsentPrompt \/ ConfirmConsent => LoginsBegun'
  <2>1. TryAgain => LoginsBegun'
    BY <1>2, ResultKeeps DEF TryAgain, KeepsOpening, Submits
  <2>2. CancelInteraction => LoginsBegun'
    BY <1>2 DEF CancelInteraction, NoInteraction, Submits
  <2>3. RouteConsentPrompt \/ ConfirmConsent => UNCHANGED interaction \/ submitConsent
    BY DEF RouteConsentPrompt, ConfirmConsent
  <2>4. RouteConsentPrompt \/ ConfirmConsent => UNCHANGED session
    BY DEF RouteConsentPrompt, ConfirmConsent
  <2>5. ASSUME UNCHANGED session, UNCHANGED interaction \/ submitConsent
        PROVE  LoginsBegun'
    BY <1>2, <2>5, ConsentSubmits DEF KeepsOpening, Submits
  <2>6. QED BY <2>1, <2>2, <2>3, <2>4, <2>5
<1>7. ASSUME NEW c \in Clients, NEW asked \in BOOLEAN, NEW r \in RedirectsOf[c],
             StartAuthorization(c, r, asked)
      PROVE  LoginsBegun'
  <2>1. /\ interaction'.result = NoLogin
        /\ interaction'.lastSubmission = NoLogin
        /\ UNCHANGED session
    BY <1>7, DecideSubmits DEF StartAuthorization, Decides
  <2>2. QED BY <1>2, <2>1 DEF Submits
<1>8. ASSUME Resume
      PROVE  LoginsBegun'
  <2>1. PICK s :
          /\ ResumedInto(s)
          /\ interaction.client \in Clients
          /\ Decides(interaction.client, interaction.redirect_uri, s,
                     interaction.asked, interaction.result)
    BY <1>8, ResumeSession
  <2>2. interaction.asked \in BOOLEAN
    BY DEF TypeOK, Interaction
  <2>3. /\ interaction'.result = NoLogin
        /\ interaction'.lastSubmission \in {NoLogin, interaction.result}
    BY <2>1, <2>2, DecideSubmits
  <2>4. Begun(session)'
    BY <2>1 DEF ResumedInto, LoginsBegun, Begun
  <2>5. QED BY <2>3, <2>4 DEF LoginsBegun, Begun, NoLogin
<1>9. QED BY <1>3, <1>4, <1>5, <1>6, <1>7, <1>8
     DEF Next, BrowserNext, ClientsNext, OthersNext

(***************************************************************************)
(* A browser that is to resume, and has a session, has an interaction to   *)
(* resume; and nothing is left of one that has been closed.                *)
(***************************************************************************)
NothingClosed == interaction.prompt = "none" => interaction = NoInteraction

ResumesSomething ==
  page = "resume" /\ session.account # Nobody => details.prompt # "none"

LEMMA DecideLeads ==
  ASSUME NEW c, NEW r, NEW s, NEW asked \in BOOLEAN, NEW submitted,
         Decides(c, r, s, asked, submitted)
  PROVE  NothingClosed' /\ page' \in {"interaction", "forbidden", "client", "error"}
<1>1. ASSUME NEW prompt \in {"login", "consent"}, NEW reasons,
             openInteraction(c, r, s, prompt, reasons, asked, submitted)
      PROVE  NothingClosed' /\ page' = "interaction"
  <2>1. interaction'.prompt = prompt
    BY <1>1 DEF openInteraction, NoInteraction
  <2>2. QED BY <1>1, <2>1 DEF openInteraction, NothingClosed
<1>2. \/ \E prompt \in {"login", "consent"} : \E reasons :
           openInteraction(c, r, s, prompt, reasons, asked, submitted)
      \/ interaction' = NoInteraction /\ page' \in {"forbidden", "client", "error"}
  BY DecideOutcomes
<1>3. QED BY <1>1, <1>2 DEF NothingClosed

LEMMA ResumesInductive ==
  ASSUME TypeOK, OpenedByProvider, NothingClosed, ResumesSomething, [Next]_vars
  PROVE  NothingClosed' /\ ResumesSomething'
<1>1. ASSUME KeepsOpening, session'.account = session.account
      PROVE  details'.prompt = details.prompt
  BY <1>1 DEF KeepsOpening, details, NoInteraction
<1>2. ASSUME UNCHANGED <<interaction, page>>, session' \in {session, NoSession}
      PROVE  NothingClosed' /\ ResumesSomething'
  <2>1. CASE session' = NoSession
    BY <1>2, <2>1 DEF NothingClosed, ResumesSomething, NoSession
  <2>2. CASE UNCHANGED session
    BY <1>2, <2>2 DEF NothingClosed, ResumesSomething, details
  <2>3. QED BY <1>2, <2>1, <2>2
<1>3. ASSUME KeepsOpening, session'.account = session.account, details.prompt # "none"
      PROVE  NothingClosed' /\ ResumesSomething'
  <2>1. interaction.prompt # "none"
    BY <1>3, DetailsPrompt
  <2>2. QED BY <1>1, <1>3, <2>1 DEF NothingClosed, ResumesSomething, KeepsOpening
<1>4. ASSUME NEW u, NEW amr, loginResult(u, amr)
      PROVE  NothingClosed' /\ ResumesSomething'
  <2>1. KeepsOpening /\ session'.account = session.account
    BY <1>4, LoginResultKeeps
  <2>2. CASE UNCHANGED <<interaction, page>>
    BY <1>1, <2>1, <2>2 DEF NothingClosed, ResumesSomething
  <2>3. CASE details.prompt # "none"
    BY <1>3, <2>1, <2>3
  <2>4. QED BY <1>4, <2>2, <2>3 DEF loginResult
<1>5. ASSUME NEW u, NEW verified, NEW pending, NEW enableMfa,
             \/ PasswordLogin(u) \/ PasskeyLogin(u, verified) \/ PasskeyRegistration(verified)
             \/ Totp(pending, enableMfa) \/ VerifyEmail(u)
      PROVE  NothingClosed' /\ ResumesSomething'
  BY <1>4, <1>5 DEF PasswordLogin, PasskeyLogin, PasskeyRegistration, Totp, VerifyEmail
<1>6. ASSUME \/ TotpRegistration \/ DeleteTotp
             \/ \E u \in Users : \/ SendVerifyEmail(u)
                                 \/ AdminUpdatesUser(u)
                                 \/ PendingExpires(u)
             \/ \E address \in Addresses : UpdateEmail(address)
             \/ SessionEnds
             \/ UNCHANGED vars
      PROVE  NothingClosed' /\ ResumesSomething'
  <2>1. session' \in {session, NoSession} /\ UNCHANGED <<interaction, page>>
    BY <1>6 DEF TotpRegistration, DeleteTotp, SendVerifyEmail, AdminUpdatesUser,
                PendingExpires, UpdateEmail, SessionEnds, vars
  <2>2. QED BY <1>2, <2>1
<1>7. CASE RouteLoginPrompt
  <2>1. UNCHANGED <<interaction, session>> /\ details.prompt # "none"
    BY <1>7 DEF RouteLoginPrompt
  <2>2. KeepsOpening
    BY <2>1 DEF KeepsOpening
  <2>3. QED BY <1>3, <2>1, <2>2
<1>8. CASE TryAgain
  <2>1. details = interaction /\ interaction # NoInteraction
    BY <1>8 DEF TryAgain, details, NoInteraction
  <2>2. details.prompt # "none"
    BY <2>1 DEF NothingClosed
  <2>3. KeepsOpening /\ UNCHANGED session
    BY <1>8, ResultKeeps DEF TryAgain
  <2>4. QED BY <1>3, <2>2, <2>3
<1>9. CASE CancelInteraction
  BY <1>9 DEF CancelInteraction, NothingClosed, ResumesSomething, NoSession
<1>10. CASE RouteConsentPrompt \/ ConfirmConsent
  <2>1. details.prompt # "none" /\ UNCHANGED session
    BY <1>10 DEF RouteConsentPrompt, ConfirmConsent
  <2>2. UNCHANGED interaction \/ submitConsent
    BY <1>10 DEF RouteConsentPrompt, ConfirmConsent
  <2>3. KeepsOpening
    BY <2>2, ConsentSubmits DEF KeepsOpening
  <2>4. QED BY <1>3, <2>1, <2>3
<1>11. ASSUME NEW c \in Clients, NEW asked \in BOOLEAN, NEW r \in RedirectsOf[c],
             StartAuthorization(c, r, asked)
       PROVE  NothingClosed' /\ ResumesSomething'
  BY <1>11, DecideLeads DEF StartAuthorization, Decides, ResumesSomething
<1>12. CASE Resume
  BY <1>12, ResumeSession, DecideLeads DEF TypeOK, Interaction, ResumesSomething
<1>13. QED
  BY <1>5, <1>6, <1>7, <1>8, <1>9, <1>10, <1>11, <1>12
     DEF Next, BrowserNext, ClientsNext, OthersNext

(***************************************************************************)
(* The invariant of the theorems that follow.                              *)
(***************************************************************************)
LoginInv ==
  /\ TypeOK /\ OpenedByProvider /\ SessionOfNobody
  /\ LoginsBegun /\ NothingClosed /\ ResumesSomething

LEMMA LoginInvariant == Spec => []LoginInv
<1>1. Init => SessionOfNobody /\ LoginsBegun /\ NothingClosed /\ ResumesSomething
  BY DEF Init, SessionOfNobody, LoginsBegun, Begun, NothingClosed, ResumesSomething,
         NoSession, NoInteraction, NoLogin
<1>2. /\ TypeOK /\ OpenedByProvider /\ SessionOfNobody /\ LoginsBegun
      /\ NothingClosed /\ ResumesSomething /\ [Next]_vars
      => (SessionOfNobody /\ LoginsBegun /\ NothingClosed /\ ResumesSomething)'
  BY SessionOfNobodyInductive, LoginsBegunInductive, ResumesInductive
<1>3. QED BY <1>1, <1>2, TypeInvariant, PTL DEF Spec, LoginInv

(***************************************************************************)
(* A code is worth two factors, since what it joins begins with one.       *)
(***************************************************************************)
LEMMA TotpIsSecond ==
  ASSUME LoginInv, NEW pending, NEW enableMfa, Totp(pending, enableMfa)
  PROVE  /\ loginFactors(reqAmr') = 2
         /\ page' = "resume" => loginFactors(interaction'.result.amr) = 2
<1> USE DEF LoginInv
<1> DEFINE u == reqAccount
<1>1. u \in Users /\ u # Nobody /\ loginResult(u, {"totp"}) /\ hasReqUser
  BY ReqUserType, LoginFlowAssumption DEF Totp
<1>2. /\ LoginsBegun'
      /\ session.account = u => {"totp"} \subseteq session'.amr
      /\ details.prompt # "none" =>
           /\ interaction'.result.account = u
           /\ interaction'.result.amr \cap beginFactors # {}
           /\ {"totp"} \subseteq interaction'.result.amr
  <2>1. {"totp"} \cap firstFactors = {} /\ u = reqAccount
    BY DEF firstFactors
  <2> HIDE DEF u
  <2>2. QED BY <1>1, <2>1, LoginResultBegun
<1>3. session'.account = session.account /\ KeepsOpening
  BY <1>1, LoginResultKeeps
<1>4. session.account # Nobody => session.account = u
  BY DEF reqAccount
<1>5. session.account = Nobody => details.prompt # "none"
  <2> SUFFICES ASSUME session.account = Nobody PROVE details.prompt # "none"
    OBVIOUS
  <2>1. details.result.account # Nobody
    BY <1>1 DEF reqAccount
  <2>2. details = interaction /\ interaction # NoInteraction
    BY <2>1 DEF details, NoInteraction, NoLogin
  <2>3. QED BY <2>2 DEF NothingClosed
<1>6. loginFactors(reqAmr') = 2
  <2>1. CASE session.account # Nobody
    <3>1. "totp" \in session'.amr /\ session'.amr \cap beginFactors # {}
      BY <1>1, <1>2, <1>3, <1>4, <2>1 DEF LoginsBegun, Begun
    <3>2. session'.amr \subseteq reqAmr'
      BY DEF reqAmr
    <3>3. "totp" \in reqAmr' /\ reqAmr' \cap beginFactors # {}
      BY <3>1, <3>2
    <3>4. QED BY <3>3, BegunFactors
  <2>2. CASE session.account = Nobody
    <3>1. details' = interaction'
      <4>1. interaction.origin \in {Nobody, session.account}
        BY <1>5, <2>2 DEF details, NoInteraction
      <4>2. QED BY <1>3, <4>1 DEF KeepsOpening, details
    <3>2. interaction'.result.account = reqAccount'
      BY <1>3, <2>2, <3>1 DEF reqAccount
    <3>3. interaction'.result.amr \subseteq reqAmr'
      BY <3>1, <3>2 DEF reqAmr
    <3>4. "totp" \in reqAmr' /\ reqAmr' \cap beginFactors # {}
      BY <1>2, <1>5, <2>2, <3>3
    <3>5. QED BY <3>4, BegunFactors
  <2>3. QED BY <2>1, <2>2
<1>7. ASSUME page' = "resume"
      PROVE  loginFactors(interaction'.result.amr) = 2
  <2>1. details.prompt # "none"
    <3> SUFFICES ASSUME details.prompt = "none" PROVE FALSE
      OBVIOUS
    <3>1. page = "resume"
      BY <1>1, <1>7 DEF loginResult
    <3>2. QED BY <1>5, <3>1 DEF ResumesSomething
  <2>2. QED BY <1>2, <2>1, BegunFactors
<1>8. QED BY <1>6, <1>7

(***************************************************************************)
(* After a right code no login is asked for a second factor again, for any *)
(* accounts, settings and interleaving of tabs.                            *)
(***************************************************************************)
THEOREM TotpSatisfiesMfaHolds == Spec => TotpSatisfiesMfa
<1> DEFINE isSecond ==
             (\E pending, enableMfa \in BOOLEAN : Totp(pending, enableMfa)) =>
               /\ loginFactors(reqAmr') = 2
               /\ page' = "resume" => loginFactors(interaction'.result.amr) = 2
<1>1. LoginInv /\ [Next]_vars => [isSecond]_vars
  BY TotpIsSecond
<1>2. QED BY <1>1, LoginInvariant, PTL DEF Spec, TotpSatisfiesMfa

-----------------------------------------------------------------------------
(***************************************************************************)
(* A login prompt with reasons is one of a user with a session.            *)
(***************************************************************************)
ReasonsHold ==
  interaction.prompt = "login" /\ interaction.reasons # {} => interaction.origin \in Users

LEMMA DecideReasons ==
  ASSUME NEW c, NEW r, NEW s \in Session, NEW asked \in BOOLEAN, NEW submitted,
         Decides(c, r, s, asked, submitted)
  PROVE  ReasonsHold'
<1>1. ASSUME NEW prompt, NEW reasons,
             openInteraction(c, r, s, prompt, reasons, asked, submitted)
      PROVE  /\ interaction'.prompt = prompt /\ interaction'.reasons = reasons
             /\ interaction'.origin = s.account
  BY <1>1 DEF openInteraction, NoInteraction
<1>2. CASE s.account = Nobody /\ openInteraction(c, r, s, "login", {}, asked, submitted)
  BY <1>1, <1>2 DEF ReasonsHold
<1>3. CASE /\ s.account # Nobody
           /\ openInteraction(c, r, s, "login", loginPromptReasons(user[s.account], s.amr),
                              asked, submitted)
  <2>1. s.account \in Users
    BY <1>3 DEF Session, Accounts
  <2>2. QED BY <1>1, <1>3, <2>1 DEF ReasonsHold
<1>4. ASSUME NEW missing, openInteraction(c, r, s, "consent", missing, asked, submitted)
      PROVE  ReasonsHold'
  BY <1>1, <1>4 DEF ReasonsHold
<1>5. CASE interaction' = NoInteraction
  BY <1>5 DEF ReasonsHold, NoInteraction
<1>6. QED BY <1>2, <1>3, <1>4, <1>5, DecideOutcomes

LEMMA ReasonsInductive ==
  ASSUME TypeOK, OpenedByProvider, ReasonsHold, [Next]_vars
  PROVE  ReasonsHold'
<1>1. ASSUME KeepsOpening
      PROVE  ReasonsHold'
  BY <1>1 DEF KeepsOpening, ReasonsHold
<1>2. interaction' = NoInteraction => ReasonsHold'
  BY DEF ReasonsHold, NoInteraction
<1>3. ASSUME NEW c \in Clients, NEW asked \in BOOLEAN, NEW r \in RedirectsOf[c],
             StartAuthorization(c, r, asked)
      PROVE  ReasonsHold'
  BY <1>3, DecideReasons DEF StartAuthorization, Decides, TypeOK
<1>4. Resume => ReasonsHold'
  BY ResumeSession, DecideReasons DEF ResumedInto, TypeOK, Interaction
<1>5. QED BY <1>1, <1>2, <1>3, <1>4, NextKeepsOpening

(***************************************************************************)
(* Whom a page can strand: the page for a second factor one whose address  *)
(* is to be verified first, the page that verifies one who has no address. *)
(***************************************************************************)
Stranded(u, onPage) == isUnverifiedEmail(u) /\ (onPage = "mfa" <=> u.hasEmail)

LeadsOn(u, amr, onPage) ==
  \/ isUnapproved(u)
  \/ isExpired(u)
  \/ onPage = "mfa" /\ mfaPageUsable(u, amr)
  \/ /\ onPage = "verification_email_sent"
     /\ ~isUnverifiedEmail(u) \/ verificationPageUsable(u, amr)

(* Nobody else: the page for a second factor offers one, old or new.       *)
LEMMA PageUsable ==
  ASSUME NEW u \in UserRow, NEW amr, amr \cap beginFactors # {},
         NEW onPage \in {"mfa", "verification_email_sent"}, ~Stranded(u, onPage)
  PROVE  LeadsOn(u, amr, onPage)
<1>1. loginFactors(amr) # 0
  BY BegunFactors
<1>2. CASE onPage = "mfa"
  <2>1. ~(u.hasEmail /\ isUnverifiedEmail(u))
    BY <1>2 DEF Stranded
  <2>2. SUFFICES ASSUME ~isUnapproved(u), ~isExpired(u) PROVE mfaPageUsable(u, amr)
    BY <1>2 DEF LeadsOn
  <2>3. CASE u.hasTotp
    BY <1>1, <2>1, <2>2, <2>3 DEF mfaPageUsable, userIsPrivilegedForTotpValidate
  <2>4. CASE ~u.hasTotp
    BY <1>1, <2>1, <2>2, <2>4 DEF mfaPageUsable, userIsPrivilegedForTotpCreate
  <2>5. QED BY <2>3, <2>4
<1>3. CASE onPage = "verification_email_sent"
  <2>1. onPage # "mfa"
    BY <1>3
  <2>2. isUnverifiedEmail(u) => u.hasEmail /\ ~u.emailVerified
    BY <2>1 DEF Stranded, isUnverifiedEmail
  <2>3. QED BY <1>3, <2>2 DEF LeadsOn, verificationPageUsable
<1>4. QED BY <1>2, <1>3

LEMMA PageLeadsOn ==
  ASSUME LoginInv, ReasonsHold, [Next]_vars,
         page' # page, page' \in {"mfa", "verification_email_sent"}
  PROVE  /\ hasReqUser
         /\ \/ LeadsOn(user[reqAccount], reqAmr, page')
            \/ Stranded(user[reqAccount], page')
<1> USE DEF LoginInv
<1>1. ASSUME session.account # Nobody
      PROVE  /\ hasReqUser
             /\ \/ LeadsOn(user[reqAccount], reqAmr, page')
                \/ Stranded(user[reqAccount], page')
  <2>1. hasReqUser /\ reqAccount \in Users
    BY <1>1 DEF hasReqUser, reqAccount, TypeOK, Session, Accounts
  <2>2. reqAmr \cap beginFactors # {}
    BY <2>1, ReqAmrBegun
  <2>3. user[reqAccount] \in UserRow
    BY <2>1 DEF TypeOK
  <2>4. QED BY <2>1, <2>2, <2>3, PageUsable
<1>2. CASE RouteLoginPrompt
  <2>1. /\ details = interaction /\ interaction.prompt = "login"
        /\ interaction.origin \in {Nobody, session.account}
    BY <1>2 DEF RouteLoginPrompt, details, NoInteraction
  <2>2. page' = loginPage(interaction.reasons)
    BY <1>2 DEF RouteLoginPrompt
  <2>3. interaction.reasons # {}
    BY <2>2 DEF loginPage
  <2>4. session.account # Nobody
    BY <2>1, <2>3, LoginFlowAssumption DEF ReasonsHold
  <2>5. QED BY <1>1, <2>4
<1>3. CASE RouteConsentPrompt
  <2>1. session.account # Nobody
    BY <1>3, DetailsConsent, LoginFlowAssumption DEF RouteConsentPrompt
  <2>2. QED BY <1>1, <2>1
<1>4. ASSUME NEW u, NEW amr, loginResult(u, amr)
      PROVE  FALSE
  BY <1>4 DEF loginResult
<1>5. ASSUME NEW u, NEW verified, NEW pending, NEW enableMfa,
             \/ PasswordLogin(u) \/ PasskeyLogin(u, verified) \/ PasskeyRegistration(verified)
             \/ Totp(pending, enableMfa) \/ VerifyEmail(u)
      PROVE  FALSE
  BY <1>4, <1>5 DEF PasswordLogin, PasskeyLogin, PasskeyRegistration, Totp, VerifyEmail
<1>6. TryAgain \/ ConfirmConsent => FALSE
  BY DEF TryAgain, ConfirmConsent, submitConsent
<1>7. ASSUME NEW c \in Clients, NEW asked \in BOOLEAN, NEW r \in RedirectsOf[c],
             StartAuthorization(c, r, asked)
      PROVE  FALSE
  BY <1>7, DecideLeads DEF StartAuthorization, Decides
<1>8. Resume => FALSE
  BY ResumeSession, DecideLeads DEF TypeOK, Interaction
<1>9. QED
  BY <1>2, <1>3, <1>5, <1>6, <1>7, <1>8
  DEF Next, BrowserNext, ClientsNext, OthersNext,
      TotpRegistration, DeleteTotp, SendVerifyEmail, CancelInteraction,
      AdminUpdatesUser, PendingExpires, UpdateEmail, SessionEnds, vars

LEMMA ReasonsInvariant == Spec => []ReasonsHold
<1>1. Init => ReasonsHold
  BY DEF Init, ReasonsHold, NoInteraction
<1>2. LoginInv /\ ReasonsHold /\ [Next]_vars => ReasonsHold'
  BY ReasonsInductive DEF LoginInv
<1>3. QED BY <1>1, <1>2, LoginInvariant, PTL DEF Spec

(***************************************************************************)
(* Whatever the settings, the pages for a second factor and for a verified *)
(* address lead on all users but those that Stranded describes.            *)
(***************************************************************************)
OnlyUnverifiedStranded ==
  [][page' # page /\ page' \in {"mfa", "verification_email_sent"} =>
       /\ hasReqUser
       /\ \/ LeadsOn(user[reqAccount], reqAmr, page')
          \/ Stranded(user[reqAccount], page')]_vars

THEOREM OnlyUnverifiedStrandedHolds == Spec => OnlyUnverifiedStranded
<1> DEFINE leadsOn ==
             page' # page /\ page' \in {"mfa", "verification_email_sent"} =>
               /\ hasReqUser
               /\ \/ LeadsOn(user[reqAccount], reqAmr, page')
                  \/ Stranded(user[reqAccount], page')
<1>1. LoginInv /\ ReasonsHold /\ [Next]_vars => [leadsOn]_vars
  BY PageLeadsOn
<1>2. QED
  BY <1>1, LoginInvariant, ReasonsInvariant, PTL DEF Spec, OnlyUnverifiedStranded

(***************************************************************************)
(* Where addresses need not be verified, no page is a dead end, whatever   *)
(* MFA is required, and by whom.  Where they do, one is: login_dead_end.   *)
(***************************************************************************)
THEOREM PageOffersWayForwardHolds ==
  ASSUME ~EMAIL_VERIFICATION
  PROVE  Spec => PageOffersWayForward
<1> DEFINE leadsOn ==
             page' # page /\ page' \in {"mfa", "verification_email_sent"} =>
               /\ hasReqUser
               /\ LET u == user[reqAccount]
                  IN \/ isUnapproved(u)
                     \/ isExpired(u)
                     \/ page' = "mfa" /\ mfaPageUsable(u, reqAmr)
                     \/ /\ page' = "verification_email_sent"
                        /\ ~isUnverifiedEmail(u) \/ verificationPageUsable(u, reqAmr)
<1>1. ~isUnverifiedEmail(user[reqAccount])
  BY DEF isUnverifiedEmail
<1>2. LoginInv /\ ReasonsHold /\ [Next]_vars => [leadsOn]_vars
  BY <1>1, PageLeadsOn DEF LeadsOn, Stranded
<1>3. QED
  BY <1>2, LoginInvariant, ReasonsInvariant, PTL DEF Spec, PageOffersWayForward
=============================================================================
