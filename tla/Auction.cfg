SPECIFICATION ASpec
CONSTANTS
  anna = anna
  hat = hat
  coat = coat
  None = None
  Users <- OneUser
  Providers <- Nobody
  MaxDue = 1
  Items <- BothItems
  ItemOrder <- BothInOrder
  Online <- CoatOnly
  Withdrawable <- HatOnly
  Elsewhere <- Nobody
  MaxSnapshots = 2
INVARIANTS
  ATypeOK
  FavouritesAreLive
PROPERTIES
  ListBidInPlace
  Session
