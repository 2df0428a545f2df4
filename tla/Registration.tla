---------------------------- MODULE Registration ----------------------------
(***************************************************************************)
(* Registration of new users (routes/interaction.ts): by password, in one  *)
(* transaction, and by passkey, where the last request ends its            *)
(* transaction once the registration options are deleted and goes on in    *)
(* another, with the invitation it has read before.                        *)
(***************************************************************************)
EXTENDS Accounts

CONSTANTS
  Ceremonies,       \* interactions in which a passkey is registered
  SIGNUP,           \* setting: whether anyone may register
  UserBound         \* how many users there may be

VARIABLES
  ceremony,         \* what a passkey registration has come to
  copied            \* which users have been given the groups of which invitation

registrationVars == <<ceremony, copied>>

(* invite is the invitation the request names, or None, valid says that it *)
(* names its challenge too, and fixed is the name it gives the user.       *)
NoCeremony == [pc |-> "none", invite |-> None, valid |-> FALSE, fixed |-> None]

RegistrationTypeOK ==
  /\ \A k \in Ceremonies :
       /\ ceremony[k].pc \in {"none", "options", "committed"}
       /\ ceremony[k].valid => ceremony[k].invite \in InvitationIds
       /\ ceremony[k].pc # "committed" => ceremony[k].invite = None
  /\ copied \subseteq InvitationIds \X UserIds

RegistrationInit == ceremony = [k \in Ceremonies |-> NoCeremony] /\ copied = {}

(* getInvitation: what a request that names it finds.  To name one that is *)
(* not there is to name none.                                              *)
isThere(invite) == invite \in Present(invitations)
fixedName(invite) == IF isThere(invite) THEN invitations[invite].username ELSE None

registeredIds == {pair[2] : pair \in copied}

(* The groups a new user joins: those of the invitation, which are gone    *)
(* with it, or those of everyone.                                          *)
assignedGroups(invite, valid) ==
  IF valid THEN IF isThere(invite) THEN invitations[invite].groups ELSE {}
  ELSE {g \in Present(groups) : groups[g].autoAssign}

(* Mistaken: the invitation is left, as if it would expire by itself.      *)
UserRegisteredInvitationLeft(invite, valid, name) ==
  LET u == freshId(users, registeredIds)
      joins == assignedGroups(invite, valid)
  IN /\ Cardinality(Present(users)) < UserBound /\ idsSuffice(users, registeredIds)
     /\ ~usernameTaken(name, None)
     /\ users' = [users EXCEPT ![u] = [username |-> name, approved |-> valid,
                                       expired |-> FALSE, dn |-> None]]
     /\ member' = [m \in UserIds \X GroupIds |->
                     IF m \in {u} \X joins THEN "admin" ELSE member[m]]
     /\ copied' = IF valid /\ joins # {} THEN copied \cup {<<invite, u>>} ELSE copied
     /\ UNCHANGED <<groups, invitations, changes>>

(* The user is inserted, approved if invited, and joins the groups; the    *)
(* invitation is deleted.  A name that is taken is refused.                *)
UserRegistered(invite, valid, name) ==
  LET u == freshId(users, registeredIds)
      joins == assignedGroups(invite, valid)
  IN /\ Cardinality(Present(users)) < UserBound /\ idsSuffice(users, registeredIds)
     /\ ~usernameTaken(name, None)
     /\ users' = [users EXCEPT ![u] = [username |-> name, approved |-> valid,
                                       expired |-> FALSE, dn |-> None]]
     /\ member' = [m \in UserIds \X GroupIds |->
                     IF m \in {u} \X joins THEN "admin" ELSE member[m]]
     /\ invitations' = IF valid THEN [invitations EXCEPT ![invite] = None] ELSE invitations
     /\ copied' = IF valid /\ joins # {} THEN copied \cup {<<invite, u>>} ELSE copied
     /\ UNCHANGED <<groups, changes>>

given(fixed, chosen) == IF fixed = None THEN chosen ELSE fixed

(* An invitation opens the registration if its challenge is named as well; *)
(* what it says of the user counts in any case.                            *)
mayRegister(invite, knows) == (isThere(invite) /\ knows) \/ SIGNUP

(* POST /register.                                                         *)
PasswordRegistered(invite, knows, chosen) ==
  /\ mayRegister(invite, knows)
  /\ UserRegistered(invite, isThere(invite) /\ knows, given(fixedName(invite), chosen))
  /\ UNCHANGED ceremony

(* POST /register/passkey/start.                                           *)
PasskeyStarted(k, invite, knows) ==
  /\ ceremony[k].pc = "none"
  /\ mayRegister(invite, knows)
  /\ ceremony' = [ceremony EXCEPT ![k].pc = "options"]
  /\ UNCHANGED <<accountVars, copied>>

(* POST /register/passkey/end, as far as getRegistrationInfo: the options  *)
(* are deleted, which is committed.                                        *)
PasskeyAnswered(k, invite, knows) ==
  /\ ceremony[k].pc = "options"
  /\ mayRegister(invite, knows)
  /\ ceremony' = [ceremony EXCEPT ![k] =
                    [pc |-> "committed", invite |-> invite, fixed |-> fixedName(invite),
                     valid |-> invite # None /\ knows]]
  /\ UNCHANGED <<accountVars, copied>>

(* The rest of it, if the answer is verified.                              *)
PasskeyRegistered(k, chosen) ==
  LET c == ceremony[k]
  IN /\ c.pc = "committed"
     /\ UserRegistered(c.invite, c.valid, given(c.fixed, chosen))
     /\ ceremony' = [ceremony EXCEPT ![k] = NoCeremony]

(* It is not, or the name is taken; the options are used up all the same.  *)
PasskeyRefused(k) ==
  /\ ceremony[k].pc = "committed"
  /\ ceremony' = [ceremony EXCEPT ![k] = NoCeremony]
  /\ UNCHANGED <<accountVars, copied>>

RegistrationNext ==
  \/ \E invite \in Present(invitations) \cup {None}, knows \in BOOLEAN :
       \/ \E chosen \in Usernames : PasswordRegistered(invite, knows, chosen)
       \/ \E k \in Ceremonies : PasskeyStarted(k, invite, knows) \/ PasskeyAnswered(k, invite, knows)
  \/ \E k \in Ceremonies :
       PasskeyRefused(k) \/ \E chosen \in Usernames : PasskeyRegistered(k, chosen)
  \/ /\ \E me \in UserIds :
          LET named == {pair[1] : pair \in copied} \cup {ceremony[k].invite : k \in Ceremonies}
          IN AccountsSaved(me, registeredIds) \/ InvitationsSaved(me, named) \/ AccountDeleted(me)
     /\ UNCHANGED registrationVars

RegistrationSpec ==
  AccountsInit /\ RegistrationInit /\ [][RegistrationNext]_<<accountVars, registrationVars>>

-----------------------------------------------------------------------------
(***************************************************************************)
(* The groups an administrator puts into an invitation go to one user:     *)
(* although two passkey registrations may both have found the invitation   *)
(* valid before either ends, and both users are then approved, only one is *)
(* given its groups, whatever else is registered, saved or withdrawn in    *)
(* between (POST /register, POST /register/passkey/end).                   *)
(***************************************************************************)
GroupsOfInvitationOnce ==
  \A i \in InvitationIds : Cardinality({u \in UserIds : <<i, u>> \in copied}) <= 1
=============================================================================
