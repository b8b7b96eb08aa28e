SPECIFICATION PlayedSpec
CONSTANTS
  Seats = {0, 1, 3}
  MaxSeats = 9
  BuyIn = 5
  SmallBlind = 1
  BigBlind = 2
  Strengths = {1, 2, 3}
  MaxHands = 3
  NoShowdown = NoShowdown
INVARIANTS TurnIsActionable ChipsConserved OfferedIsAccepted ShowdownIsFair
PROPERTIES StreetClosesWhenAllActed HandEnds
