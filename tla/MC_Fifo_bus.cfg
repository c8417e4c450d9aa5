SPECIFICATION FairSpec
CONSTANTS
  Objects <- TwoObjects
  Names <- ThreeNames
  Owns <- OwnsOf
  Main <- MainOf
  Copying = {"loop"}
  Messages <- AllSizes
  Size <- Sizes
  Capacity = 5
  Limit = 2
  Nothing = "nothing"
  MaxSends = 4
  MaxDestroy = 1
INVARIANTS TypeOK Accounting
PROPERTIES MailboxesSpec Empties
CHECK_DEADLOCK FALSE
