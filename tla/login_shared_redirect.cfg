SPECIFICATION MCSpec
CONSTANTS
  alice = alice
  bob = bob
  internal = internal
  app = app
  crm = crm
  own = own
  shared = shared
  staff = staff
  auth_admins = auth_admins
  Nobody = Nobody
  NoClient = NoClient
  NoRedirect = NoRedirect
  Users = {alice, bob}
  Follower = alice
  Clients = {internal, app, crm}
  ClientOf <- MCClientOf
  RedirectURIs = {own, shared}
  RedirectsOf <- MCRedirectsOf
  Parts = {"consent"}
  InitialUsers <- MCInitialUsers
  PasskeyKinds = {TRUE}
  Addresses = {TRUE, FALSE}
  AdminFields = {"approved", "expired", "mfaRequired", "groups"}
  Happens = {"totp", "consent_prompt", "totp_expires", "verification_expires", "consent_expires"}
  Groups = {staff, auth_admins}
  ADMIN_GROUP = auth_admins
  MfaGroups = {}
  MFA_REQUIRED = FALSE
  EMAIL_VERIFICATION = TRUE
  SIGNUP_REQUIRES_APPROVAL = TRUE
INVARIANTS GrantsConfirmed
CHECK_DEADLOCK FALSE
