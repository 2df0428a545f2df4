---------------------------- MODULE MCLoginFlow ----------------------------
(***************************************************************************)
(* One instance of LoginFlow, in parts: a behaviour is about one of them,  *)
(* chosen at the start, and keeps to the accounts, the clients and the     *)
(* events of that part.                                                    *)
(***************************************************************************)
EXTENDS LoginFollow

CONSTANTS alice, bob, internal, app, crm, own, shared, staff, auth_admins,
          Parts       \* which of the parts the run has

VARIABLE part

(* VoidAuth's own client, an application of the staff that requires MFA,   *)
(* and one for everybody.                                                  *)
MCClientOf ==
  [c \in Clients |->
     [internal |-> c = internal, require_mfa |-> c = app,
      skip_consent |-> FALSE, groups |-> IF c = app THEN {staff} ELSE {}]]

(* One client has a redirect URI of its own besides the one they share.    *)
MCRedirectsOf == [c \in Clients |-> RedirectURIs \ (IF c = crm THEN {} ELSE {own})]

plain ==
  [approved |-> TRUE, expired |-> FALSE, hasEmail |-> FALSE,
   emailVerified |-> FALSE, mfaRequired |-> FALSE, hasPassword |-> TRUE,
   hasTotp |-> FALSE, pendingTotp |-> FALSE, hasPasskeys |-> FALSE,
   groups |-> {}]

(* An account which nobody can log in to.                                  *)
locked == [plain EXCEPT !.hasPassword = FALSE]

verifiedStaff ==
  [plain EXCEPT !.hasEmail = TRUE, !.emailVerified = TRUE, !.groups = {staff}]
withTotp == [verifiedStaff EXCEPT !.hasTotp = TRUE]
withPasskey == [verifiedStaff EXCEPT !.hasPassword = FALSE, !.hasPasskeys = TRUE]

together(alices, bobs) == {[u \in Users |-> IF u = alice THEN a ELSE b] : a \in alices, b \in bobs}

(***************************************************************************)
(* One account, with or without an address, a passkey, a TOTP and MFA      *)
(* required of it.  Left out are the accounts whose login is never         *)
(* completed (see the README, login_dead_end): with no verified address,   *)
(* neither a TOTP nor required MFA can be dealt with before the address,   *)
(* nor the address before the second factor.                               *)
(***************************************************************************)
mixedStaff ==
  {[plain EXCEPT !.hasEmail = hasEmail, !.emailVerified = verified, !.hasTotp = hasTotp,
                 !.mfaRequired = mfaRequired, !.hasPasskeys = hasPasskeys, !.groups = {staff}] :
     <<hasEmail, verified, hasTotp, mfaRequired, hasPasskeys>> \in
       {<<e, v, t, m, p>> \in BOOLEAN \X BOOLEAN \X BOOLEAN \X BOOLEAN \X BOOLEAN :
          (v => e) /\ (t \/ m => v)}}

(***************************************************************************)
(* The accounts of each part: two that share a browser, one protected by a *)
(* TOTP; two that consent; an employee with a TOTP or a password only; a   *)
(* new employee whose address is not verified yet; the user who follows    *)
(* the pages.                                                              *)
(***************************************************************************)
MCUsersOf ==
  [factors |-> together({withTotp}, {withPasskey}),
   consent |-> together({withPasskey}, {withPasskey}),
   admin   |-> together({withTotp, verifiedStaff}, {locked}),
   email   |-> together({[plain EXCEPT !.hasEmail = TRUE, !.groups = {staff}]}, {locked}),
   follow  |-> together(mixedStaff, {locked})]

MCInitialUsers == UNION {MCUsersOf[p] : p \in Parts}

-----------------------------------------------------------------------------
keeps(fields) == \A u \in Users, f \in fields : user'[u][f] = user[u][f]

clientsOf ==
  [factors |-> {app}, consent |-> {app, crm}, admin |-> {app}, email |-> {internal, app}]

(***************************************************************************)
(* The requests of a part.  Only the consent part has two redirect URIs    *)
(* and requests that ask for consent, only the email part verifies         *)
(* addresses, and passkeys are in the first two.                           *)
(***************************************************************************)
PartClients ==
  \E c \in clientsOf[part], r \in IF part = "consent" THEN RedirectURIs ELSE {shared},
     asked \in IF part = "consent" THEN BOOLEAN ELSE {FALSE} :
    r \in RedirectsOf[c] /\ StartAuthorization(c, r, asked)

PartRequests ==
  /\ BrowserNext
  /\ part = "consent" => UNCHANGED user
  /\ part # "email" => verifications' = {} /\ keeps({"hasEmail"})
  /\ part \in {"admin", "email"} => keeps({"hasPasskeys"})

(* What administrators and time do in it.                                  *)
PartOthers ==
  \/ part = "admin" /\ AdminUpdatesUser(alice)
  \/ part = "consent" /\ PendingExpires(alice) /\ consents \ consents' = {<<alice, shared>>}
  \/ part # "consent" /\ (\E u \in Users : PendingExpires(u)) /\ UNCHANGED consents

MCInit == part \in Parts /\ Init /\ user \in MCUsersOf[part]

MCNext ==
  /\ UNCHANGED part
  /\ \/ part # "follow" /\ (PartClients \/ PartRequests \/ PartOthers)
     \/ part = "follow" /\ Follow

(* The user of the last part keeps following the pages.                    *)
MCSpec == MCInit /\ [][MCNext]_<<part, vars>> /\ WF_vars(part = "follow" /\ Follow)

(***************************************************************************)
(* Login terminates for a user who follows the pages (LoginCompletes).     *)
(***************************************************************************)
FollowedCompletes == part = "follow" => LoginCompletes
=============================================================================
