SPECIFICATION FairSpec
CONSTANTS
  anna = anna
  bo = bo
  None = None
  Users <- MCUsers
  Providers <- AllProviders
  MaxDue = 1
INVARIANTS
  TypeOK
  LoadedIsOwn
  SignedOutIsEmpty
  SessionAwaited
  SessionInv
PROPERTIES
  LoginOffered
  LogOutCompletes
