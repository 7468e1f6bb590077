SPECIFICATION ListingSpec
CONSTANTS
  Name = {1, 2, 3}
  Length <- Lengths
  Procedures = {"read_dir", "read_dir_plus"}
  Counts <- SomeCounts
  Chunk = 2
  MaxTicks = 2
  MaxChanges = 2
CHECK_DEADLOCK FALSE
INVARIANTS ListingTypeOK ListingFaithful ReplyFits
PROPERTIES ListingEnds
