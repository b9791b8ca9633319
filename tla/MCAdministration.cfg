CONSTANTS
  r1 = r1
  r2 = r2
  r3 = r3
  Req <- ThreeRequests
  Permission = {"USER_READ", "USER_SUSPEND", "ADMIN_INVITE"}
  Reserved = {"ADMIN_INVITE"}
  Seeds <- EmptyOrStaffed
  MaxAccounts = 2
  MaxInvitations = 2
  MaxRoles = 1
  MaxEmails = 2
  MaxRequests = 3
SPECIFICATION Spec
CHECK_DEADLOCK FALSE
SYMMETRY RequestSymmetry
INVARIANT TypeOK
INVARIANT InvitationsSound
INVARIANT AllowedWasHeld
PROPERTY RolesChangeWhole
