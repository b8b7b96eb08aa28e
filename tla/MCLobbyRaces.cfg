SPECIFICATION MCSpec
CONSTANTS
  Users = {u1, u2}
  Lobbies = {l1}
  Procs = {p1, p2}
  MaxSeats = 2
  MinSeats = 2
  Resigns = TRUE
  MaxFaults = 1
  Nobody = Nobody
INVARIANTS StateRowAgrees OneSeatPerUser
PROPERTIES StartedOnce LeaveFreesSeat PromisesKeptInTurn
