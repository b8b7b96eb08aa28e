SPECIFICATION PlayedSpec
CONSTANTS
  Seats = {0, 1, 3, 4}
  TrainsPerPlayer = 4
  Lengths = {1, 2}
INVARIANTS TurnHolderIsActive ScratchMatchesPhase OneMoreTurn
PROPERTIES FinalRoundEnds
CHECK_DEADLOCK FALSE
