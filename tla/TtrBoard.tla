------------------------------ MODULE TtrBoard ------------------------------
(***************************************************************************)
(* A Ticket to Ride map and what a position on it is worth: the rules a    *)
(* map document must meet before it is stored, and the final scoring with  *)
(* its longest trail, its choice of borrowed routes and its ranking.       *)
(*                                                                         *)
(* Pure operators: the game (TtrGame) is played on such a map and scored   *)
(* with them.                                                              *)
(***************************************************************************)
EXTENDS Integers, FiniteSets, Sequences, FiniteSetsExt, Functions

CONSTANTS
  Colours,            \* the card colours other than the locomotive
  Cities,             \* rules.cities
  Route,              \* rules.routes by id: a, b, color, length, tunnel, locos, pair
  Ticket,             \* rules.tickets by id: a, b, points, long
  TrainsPerPlayer,    \* rules.trains_per_player
  StationsPerPlayer   \* rules.stations_per_player

Loco == "Locomotive"
Gray == "Gray"

\* Route.pair of a route that has none; also the route of a station that
\* borrows none (noBorrow): route ids start at 1.
NoRoute  == 0
noBorrow == NoRoute

Routes        == DOMAIN Route
Tickets       == DOMAIN Ticket
LongTicketIDs == {t \in Tickets : Ticket[t].long}
RegularTicketIDs == Tickets \ LongTicketIDs

maxTrainsPerPlayer == 64

RoutePoints == [l \in {1, 2, 3, 4, 6, 8} |->
  CASE l = 1 -> 1 [] l = 2 -> 2 [] l = 3 -> 4 [] l = 4 -> 7 [] l = 6 -> 15 [] l = 8 -> 21]

IsFerry(r) == Route[r].locos > 0

(***************************************************************************)
(* ParseMap.                                                               *)
(***************************************************************************)
validRouteIdentity(r) ==
  /\ r >= 1
  /\ Route[r].a # Route[r].b
  /\ {Route[r].a, Route[r].b} \subseteq Cities

validRouteAttributes(r) ==
  /\ Route[r].color \in Colours \cup {Gray}
  /\ Route[r].length \in DOMAIN RoutePoints
  /\ Route[r].locos \in 0..Route[r].length
  /\ IsFerry(r) => Route[r].color = Gray

sameCityPair(r, q) == {Route[r].a, Route[r].b} = {Route[q].a, Route[q].b}

validPair(r) ==
  LET q == Route[r].pair
  IN  q # NoRoute =>
        /\ q # r
        /\ q \in Routes
        /\ Route[q].pair = r
        /\ Route[q].length = Route[r].length
        /\ sameCityPair(r, q)

\* The check leaves the points alone: they are an int of any sign.
validTickets ==
  \A t \in Tickets :
    /\ {Ticket[t].a, Ticket[t].b} \subseteq Cities
    /\ Ticket[t].points \in Int

ASSUME MapIsValid ==
  /\ Loco \notin Colours /\ Gray \notin Colours
  /\ Routes \subseteq Nat
  /\ \A r \in Routes : validRouteIdentity(r) /\ validRouteAttributes(r) /\ validPair(r)
  /\ validTickets
  /\ TrainsPerPlayer \in 1..maxTrainsPerPlayer
  /\ StationsPerPlayer \in Nat

-----------------------------------------------------------------------------
(***************************************************************************)
(* Points of routes and tickets.                                           *)
(***************************************************************************)
sumRoutePoints(R)  == MapThenSumSet(LAMBDA r : RoutePoints[Route[r].length], R)
sumTicketPoints(T) == MapThenSumSet(LAMBDA t : Ticket[t].points, T)
lengthOf(R)        == MapThenSumSet(LAMBDA r : Route[r].length, R)

-----------------------------------------------------------------------------
(***************************************************************************)
(* longestTrail: the longest path in a player's routes that uses no route  *)
(* twice, by depth-first search from every city they touch.                *)
(***************************************************************************)
at(c, R)         == {r \in R : c \in {Route[r].a, Route[r].b}}
otherEnd(r, c)   == IF c = Route[r].b THEN Route[r].a ELSE Route[r].b
citiesOf(R)      == UNION {{Route[r].a, Route[r].b} : r \in R}

\* dfs(vertex, used) with the routes not used yet.
dfsOver(R) ==
  LET dfs[v \in Cities \X SUBSET R] ==
        LET c    == v[1]
            left == v[2]
        IN  Max({0} \cup {Route[r].length + dfs[<<otherEnd(r, c), left \ {r}>>] : r \in at(c, left)})
  IN  dfs

\* Mutant: only trails that start at a city with an odd number of routes.
longestTrail_OddStart(R) ==
  Max({0} \cup {dfsOver(R)[<<c, R>>] : c \in {d \in citiesOf(R) : Cardinality(at(d, R)) % 2 = 1}})

longestTrail(R) == Max({0} \cup {dfsOver(R)[<<c, R>>] : c \in citiesOf(R)})

-----------------------------------------------------------------------------
(***************************************************************************)
(* Tickets: union-find over the claimed and the borrowed routes.           *)
(***************************************************************************)
\* The cities find(x) puts together with x after a union for every route.
component(c, R) ==
  LET grow[n \in Nat] ==
        IF n = 0 THEN {c}
        ELSE grow[n - 1] \cup citiesOf({r \in R : grow[n - 1] \cap {Route[r].a, Route[r].b} # {}})
  IN  grow[Cardinality(R)]

connected(t, R) == Ticket[t].b \in component(Ticket[t].a, R)

\* What each of a player's stations may borrow: nothing, or a route at its
\* city that someone else owns.
stationOptions(owner, s, city) ==
  {noBorrow} \cup {r \in at(city, Routes) : owner[r] >= 0 /\ owner[r] # s}

assignments(owner, s, cities) ==
  {a \in [DOMAIN cities -> Routes \cup {noBorrow}] :
     \A i \in DOMAIN cities : a[i] \in stationOptions(owner, s, cities[i])}

completedWith(a, claimed, T) ==
  {t \in T : connected(t, claimed \cup (Range(a) \ {noBorrow}))}

\* evaluateAssignment's net.
netOf(a, claimed, T) ==
  sumTicketPoints(completedWith(a, claimed, T)) - sumTicketPoints(T \ completedWith(a, claimed, T))

\* The order in which bestStationAssignment's recursion tries assignments:
\* the options of the first station vary slowest, in ascending route id.
triedBefore(a, b) ==
  \E i \in DOMAIN a : a[i] < b[i] /\ \A j \in 1..(i - 1) : a[j] = b[j]

\* Of the assignments with the best net the one tried first.
bestStationAssignment(owner, s, claimed, cities, T) ==
  LET all  == assignments(owner, s, cities)
      most == Max({netOf(a, claimed, T) : a \in all})
      best == {a \in all : netOf(a, claimed, T) = most}
  IN  CHOOSE a \in best : \A b \in best \ {a} : triedBefore(a, b)

-----------------------------------------------------------------------------
(***************************************************************************)
(* FinalScore of a position: for each player claimed routes, station       *)
(* cities, kept tickets and stations left, and who has resigned.           *)
(***************************************************************************)
unbuiltStationPoints   == 4
longestPathBonusPoints == 10

\* The position is a record of claimed, stations, tickets, stationsLeft (by
\* seat), owner (by route, -1 for none) and resigned.
activeOf(p) == DOMAIN p.claimed \ p.resigned

maxLongest(p) == Max({0} \cup {longestTrail(p.claimed[s]) : s \in activeOf(p)})

buildBreakdown(p, s) ==
  LET a         == bestStationAssignment(p.owner, s, p.claimed[s], p.stations[s], p.tickets[s])
      completed == completedWith(a, p.claimed[s], p.tickets[s])
      length    == longestTrail(p.claimed[s])
      bonus     == IF length > 0 /\ length = maxLongest(p) THEN longestPathBonusPoints ELSE 0
      routePts  == sumRoutePoints(p.claimed[s])
  IN  [ routePoints |-> routePts,
        completed   |-> completed,
        hasLongest  |-> bonus > 0,
        stations    |-> Len(p.stations[s]),
        total       |-> routePts + sumTicketPoints(completed)
                          - sumTicketPoints(p.tickets[s] \ completed)
                          + p.stationsLeft[s] * unbuiltStationPoints + bonus ]

rankLess(a, b) ==
  \/ a.total > b.total
  \/ /\ a.total = b.total
     /\ \/ Cardinality(a.completed) > Cardinality(b.completed)
        \/ /\ Cardinality(a.completed) = Cardinality(b.completed)
           /\ \/ a.stations < b.stations
              \/ a.stations = b.stations /\ a.hasLongest /\ ~b.hasLongest

rankTie(a, b) ==
  /\ a.total = b.total
  /\ Cardinality(a.completed) = Cardinality(b.completed)
  /\ a.stations = b.stations
  /\ a.hasLongest = b.hasLongest

\* sort.SliceStable: the seats in rank order, ties in seat order.
sorted(B) ==
  LET ahead(s, t) == rankLess(B[s], B[t]) \/ (~rankLess(B[t], B[s]) /\ s < t)
  IN  [i \in 1..Cardinality(DOMAIN B) |->
        CHOOSE s \in DOMAIN B : Cardinality({t \in DOMAIN B : t # s /\ ahead(t, s)}) = i - 1]

\* assignRanks: a player tied with the one before shares that place.
rankAt(B, order) ==
  LET rank[i \in DOMAIN order] ==
        IF i > 1 /\ rankTie(B[order[i - 1]], B[order[i]]) THEN rank[i - 1] ELSE i
  IN  rank

\* FinalScore: what each player who stayed has made, ...
FinalScore(p) == [s \in activeOf(p) |-> buildBreakdown(p, s)]

\* ... and the place of every seat.  Those who resigned come last.
placesOf(seats, B) ==
  LET order == sorted(B)
      rank  == rankAt(B, order)
  IN  [s \in seats |-> IF s \notin DOMAIN B THEN Cardinality(seats)
                       ELSE rank[CHOOSE i \in DOMAIN order : order[i] = s]]

\* SharedVictory: more than one player in the first place.
sharedVictory(ranks) == Cardinality({s \in DOMAIN ranks : ranks[s] = 1}) > 1

=============================================================================
