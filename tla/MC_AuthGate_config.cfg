SPECIFICATION Spec
CONSTANTS
  open = open
  intranet = intranet
  staff = staff
  ann = ann
  bob = bob
  NoSecret = NoSecret
  Unmade = Unmade
  NoCookie = NoCookie
  NoPending = NoPending
  Nobody = Nobody
  Packages = {open, intranet, staff}
  Secured = {intranet, staff}
  Forms <- MCForms
  Users = {ann, bob}
  Htpasswd <- MCHtpasswd
  Unreadable <- MCUnreadable
  Roles <- MCRoles
  Needed = {"admin"}
  Secrets = {"k1"}
  PendingTtl = 1
  SessionTtl = 1
  t1 = t1
  t2 = t2
  Tasks = {t1}
  MaxClock = 2
  MaxModels = 2
  MaxStates = 1
  Faults = {}
PROPERTIES ConfigTakesEffect
