---------------------------- MODULE LoginFollow ----------------------------
(***************************************************************************)
(* The same browser in the hands of one cooperative user, who does what    *)
(* each page offers until the client has its answer.  This is the fairness *)
(* under which "the login can be finished" is a liveness property: the     *)
(* user keeps following the pages; nothing is assumed of the server, which *)
(* only answers requests.                                                  *)
(***************************************************************************)
EXTENDS LoginFlow

CONSTANT Follower

ASSUME FollowerAssumption == Follower \in Users

OpenClient ==
  /\ page = "client"
  /\ \E c \in Clients : \E r \in RedirectsOf[c] : StartAuthorization(c, r, FALSE)
FollowRedirect == page = "interaction" /\ (RouteLoginPrompt \/ RouteConsentPrompt)
FollowReturnTo == page = "resume" /\ Resume

UseLoginPage ==
  page = "login" /\ (PasswordLogin(Follower) \/ PasskeyLogin(Follower, FALSE))

(* The page asks for a verified passkey when an unverified one adds nothing. *)
UseMfaPage ==
  /\ page = "mfa"
  /\ \/ ~user[Follower].hasTotp /\ TotpRegistration
     \/ \E pending \in BOOLEAN : Totp(pending, FALSE)
     \/ PasskeyLogin(Follower, "webauthn" \in reqAmr)

UseVerificationPage ==
  page = "verification_email_sent" /\ (VerifyEmail(Follower) \/ UpdateEmail(TRUE))

UseConsentPage == page = "consent" /\ ConfirmConsent

Follow ==
  \/ OpenClient
  \/ FollowRedirect
  \/ FollowReturnTo
  \/ UseLoginPage
  \/ UseMfaPage
  \/ UseVerificationPage
  \/ UseConsentPage

FollowSpec == Init /\ [][Follow]_vars /\ WF_vars(Follow)

(***************************************************************************)
(* Login terminates: every authorization request of a user who follows the *)
(* pages is eventually answered, by an authorization response or, when the *)
(* user is in none of the client's groups, by a refusal.                   *)
(***************************************************************************)
LoginCompletes ==
  page = "interaction" ~> authorized.account # Nobody \/ page = "forbidden"
=============================================================================
