SPECIFICATION Spec
CONSTANTS
  ann = ann
  bob = bob
  r1 = r1
  manage = manage
  read = read
  q1 = q1
  q2 = q2
  s1 = s1
  s2 = s2
  o1 = o1
  o2 = o2
  None = None
  Manage = manage
  Users <- MCUsers
  Names <- MCNames
  Permissions <- MCPermissions
  SystemRoles <- MCSystemRoles
  SystemGrants <- MCSystemGrants
  RoleLists <- MCRoleLists
  Asked <- MCAsked
  Requests <- MCRequests
  SignIns <- MCSignIns
  UserOf <- MCUserOf
  Orgs <- MCOrgs
  Workloads <- MCWorkloads
  MaxChanges = 4
SYMMETRY MCSymmetry
CHECK_DEADLOCK FALSE
INVARIANTS TypeOK OnePersonalOrganization
PROPERTY GrantsWereHeld
