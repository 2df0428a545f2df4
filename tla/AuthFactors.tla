---------------------------- MODULE AuthFactors ----------------------------
(***************************************************************************)
(* The decisions VoidAuth takes about a user from the user's row and the   *)
(* authentication factors (the "amr") of a session: how many factors count *)
(* (shared/user.ts), what the /api routes let the user do (util/auth.ts),  *)
(* and why an authorization request must first prompt for a login or for   *)
(* consent (oidc/provider.ts).  Pure operators, no state.                  *)
(*                                                                         *)
(* An amr is a set: the code keeps it duplicate free through new Set(...)  *)
(* and every reader only tests membership.                                 *)
(***************************************************************************)
EXTENDS Naturals

CONSTANTS
  Groups,                     \* names of security groups
  ADMIN_GROUP,                \* the group whose members administer VoidAuth
  MfaGroups,                  \* the groups with mfaRequired set
  MFA_REQUIRED,               \* settings, all booleans
  EMAIL_VERIFICATION,
  SIGNUP_REQUIRES_APPROVAL

ASSUME AuthConfigAssumption ==
  /\ ADMIN_GROUP \in Groups
  /\ MfaGroups \subseteq Groups
  /\ {MFA_REQUIRED, EMAIL_VERIFICATION, SIGNUP_REQUIRES_APPROVAL} \subseteq BOOLEAN

(***************************************************************************)
(* The factors, by what they prove (amrFactors).                           *)
(***************************************************************************)
multiFactors  == {"email"}
firstFactors  == {"pwd"}
secondFactors == {"totp", "webauthn_v"}
eitherFactors == {"webauthn"}
Factors == multiFactors \cup firstFactors \cup secondFactors \cup eitherFactors

(***************************************************************************)
(* What a user's rows say of the user.  expired stands for an expiresAt in *)
(* the past; hasTotp for a confirmed authenticator, pendingTotp for one    *)
(* registered and not confirmed yet.                                       *)
(***************************************************************************)
UserRow ==
  [approved : BOOLEAN, expired : BOOLEAN, hasEmail : BOOLEAN,
   emailVerified : BOOLEAN, mfaRequired : BOOLEAN, hasPassword : BOOLEAN,
   hasTotp : BOOLEAN, pendingTotp : BOOLEAN, hasPasskeys : BOOLEAN,
   groups : SUBSET Groups]

isAdmin(u) == ADMIN_GROUP \in u.groups
hasMfaGroup(u) == u.groups \cap MfaGroups # {}

(***************************************************************************)
(* The number of factors an amr is worth.  The first factor is the         *)
(* password if there is one, otherwise a passkey, and it does not count a  *)
(* second time.                                                            *)
(***************************************************************************)
firstFactor(amr) ==
  IF amr \cap firstFactors # {} THEN amr \cap firstFactors
                                ELSE amr \cap eitherFactors

loginFactors(amr) ==
  IF amr \cap multiFactors # {} THEN 2
  ELSE IF firstFactor(amr) = {} THEN 0
  ELSE IF (amr \ firstFactor(amr)) \cap (secondFactors \cup eitherFactors) # {}
       THEN 2 ELSE 1

(***************************************************************************)
(* Conditions on the account itself.  Administrators bypass all three.     *)
(***************************************************************************)
isUnapproved(u) == ~isAdmin(u) /\ SIGNUP_REQUIRES_APPROVAL /\ ~u.approved
isExpired(u) == ~isAdmin(u) /\ u.expired
isUnverifiedEmail(u) ==
  ~isAdmin(u) /\ EMAIL_VERIFICATION /\ (~u.hasEmail \/ ~u.emailVerified)

userRequiresMfa(u) == MFA_REQUIRED \/ u.mfaRequired \/ hasMfaGroup(u)

userMfaComplete(u, amr) ==
  /\ loginFactors(amr) # 0
  /\ userRequiresMfa(u) => loginFactors(amr) >= 2

usingMfaIfExists(u, amr) == u.hasTotp => loginFactors(amr) > 1

-----------------------------------------------------------------------------
(* The privilege levels the /api routes ask for.                           *)

userCanLogin(u, amr) ==
  /\ userMfaComplete(u, amr)
  /\ ~isUnapproved(u)
  /\ ~isExpired(u)
  /\ ~isUnverifiedEmail(u)

userIsPrivileged(u, amr) ==
  /\ userMfaComplete(u, amr)
  /\ ~isUnapproved(u)
  /\ ~isExpired(u)
  /\ ~isUnverifiedEmail(u)
  /\ usingMfaIfExists(u, amr)

userIsPrivilegedForEmail(u, amr) ==
  /\ userMfaComplete(u, amr)
  /\ ~isUnapproved(u)
  /\ ~isExpired(u)
  /\ ~(u.hasEmail /\ isUnverifiedEmail(u))
  /\ usingMfaIfExists(u, amr)

(* Mistaken: any first factor is enough, even beside an authenticator.     *)
totpCreateByFirstFactor(u, amr) ==
  /\ ~isUnapproved(u)
  /\ ~isExpired(u)
  /\ ~(u.hasEmail /\ isUnverifiedEmail(u))
  /\ loginFactors(amr) # 0

userIsPrivilegedForTotpCreate(u, amr) ==
  /\ ~isUnapproved(u)
  /\ ~isExpired(u)
  /\ ~(u.hasEmail /\ isUnverifiedEmail(u))
  /\ \/ userMfaComplete(u, amr) /\ usingMfaIfExists(u, amr)
     \/ ~u.hasTotp /\ loginFactors(amr) # 0

(* Mistaken: the level of the other routes, which a code is to reach.      *)
totpValidateIfPrivileged(u, amr) == userIsPrivileged(u, amr)

userIsPrivilegedForTotpValidate(u, amr) ==
  /\ ~isUnapproved(u)
  /\ ~isExpired(u)
  /\ ~(u.hasEmail /\ isUnverifiedEmail(u))
  /\ loginFactors(amr) # 0

-----------------------------------------------------------------------------
(***************************************************************************)
(* The reasons for which the provider prompts for a login: one check per   *)
(* reason, all of them evaluated, none when the session has no account     *)
(* (the library's own no_session reason covers that case).                 *)
(***************************************************************************)
LoginReasons ==
  {"user_not_approved", "user_expired", "user_email_not_validated",
   "user_login_required", "user_mfa_required"}

(* Mistaken: expiry is left to the routes.                                 *)
reasonsWithoutExpiry(u, amr) ==
  {r \in LoginReasons :
     \/ r = "user_not_approved" /\ isUnapproved(u)
     \/ r = "user_email_not_validated" /\ EMAIL_VERIFICATION /\ isUnverifiedEmail(u)
     \/ r = "user_login_required" /\ loginFactors(amr) = 0
     \/ r = "user_mfa_required" /\ userRequiresMfa(u) /\ loginFactors(amr) < 2}

loginPromptReasons(u, amr) ==
  {r \in LoginReasons :
     \/ r = "user_not_approved" /\ isUnapproved(u)
     \/ r = "user_expired" /\ isExpired(u)
     \/ r = "user_email_not_validated" /\ EMAIL_VERIFICATION /\ isUnverifiedEmail(u)
     \/ r = "user_login_required" /\ loginFactors(amr) = 0
     \/ r = "user_mfa_required" /\ userRequiresMfa(u) /\ loginFactors(amr) < 2}

(***************************************************************************)
(* A client, as the checks see it: the VoidAuth application itself         *)
(* (auth_internal_client) or a registered one.                             *)
(***************************************************************************)
ClientRow ==
  [internal : BOOLEAN, require_mfa : BOOLEAN, skip_consent : BOOLEAN,
   groups : SUBSET Groups]

(* The authorization fails outright when the user is in none of the groups. *)
userGroupMissing(client, u) ==
  client.groups # {} /\ ~isAdmin(u) /\ u.groups \cap client.groups = {}

(* Mistaken by one: two factors do not suffice.                            *)
clientMfaNeverEnough(client, u, amr) ==
  /\ client.require_mfa \/ (client.internal /\ u.hasTotp)
  /\ loginFactors(amr) <= 2

clientMfaRequired(client, u, amr) ==
  /\ client.require_mfa \/ (client.internal /\ u.hasTotp)
  /\ loginFactors(amr) < 2
=============================================================================
