SPECIFICATION FairSessionSpec
CONSTANTS
  Seats = {0, 1, 3}
  MaxSeats = 9
  BuyIn = 3
  SmallBlind = 1
  BigBlind = 2
  Strengths = {1, 2}
  MaxHands = 3
  NoShowdown = NoShowdown
  MaxFaults = 2
INVARIANTS ArchivedOnce OneTrigger
PROPERTIES PlayedHandIsFollowed
CHECK_DEADLOCK FALSE
