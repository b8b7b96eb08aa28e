SPECIFICATION Spec
CONSTANTS
  Colours <- MCColours
  Cities <- MCCities
  Route <- MCRoute
  Ticket <- MCTicket
  TrainsPerPlayer = 2
  StationsPerPlayer = 1
  Seats = {0, 1}
  DeckComposition <- MCDeck
  TicketShuffles <- MCTicketShuffles
  LongShuffles <- MCLongShuffles
  initialTrainCards = 2
  faceUpSlots = 2
  locoFlushThreshold = 2
  maxFlushIterations = 2
  tunnelRevealCount = 2
  initialRegularTickets = 1
  minTicketsKeptAtSetup = 2
  ticketDrawCount = 2
  minTicketsKeptInGame = 1
INVARIANTS
  CardsConserved
  BoardAgrees
  OffersAreAccepted
  ScoringIsFair
PROPERTIES
  TicketsConserved
  RowCatchesUp
  FollowsTurns
CHECK_DEADLOCK FALSE
