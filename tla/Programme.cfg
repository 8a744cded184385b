SPECIFICATION PSpec
CONSTANTS
  anna = anna
  fri = fri
  None = None
  Users <- OneUser
  Providers <- AnonymousOnly
  MaxDue = 1
  Lectures <- FridayOnly
  Order <- FridayOrder
  Days <- TwoDays
  DayOf <- DayOfFriday
  Removable <- FridayOnly
  Elsewhere <- OneUser
  MaxCopies = 2
INVARIANTS
  PTypeOK
  Converged
  BlurAwaited
PROPERTIES
  Session
