SPECIFICATION Spec
CONSTANTS
  anna = anna
  bo = bo
  None = None
  Users <- MCUsers
  Providers <- AnonymousOnly
  MaxDue = 1
INVARIANTS
  CurrentUserPresent
