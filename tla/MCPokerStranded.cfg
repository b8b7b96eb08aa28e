SPECIFICATION Spec
CONSTANTS
  Seats = {0, 1, 2, 3}
  MaxSeats = 9
  BuyIn = 4
  SmallBlind = 1
  BigBlind = 2
  Strengths = {1, 2}
  MaxHands = 2
  NoShowdown = NoShowdown
INVARIANTS ChipsConserved
