------------------------------- MODULE TtrGame ------------------------------
(***************************************************************************)
(* Ticket to Ride in full: train cards, routes and tunnels, stations and   *)
(* tickets, played in the turns of TtrTurns.                               *)
(*                                                                         *)
(* Each action is one Engine.Apply that returns no error; the session runs *)
(* it in a transaction that locks the game's row, so actions do not        *)
(* overlap.  A pile of train cards is a bag: it is shuffled and face down, *)
(* so the next card may be any card in it.  The ticket deck keeps its      *)
(* order, because returned tickets go to its bottom.                       *)
(***************************************************************************)
EXTENDS TtrBoard

CONSTANTS
  Seats,              \* the seats the game was started with
  DeckComposition,    \* how many cards of each kind the deck has
  TicketShuffles,     \* the orders the shuffle may leave the regular tickets in
  LongShuffles,       \* the orders it may leave the long tickets in
  initialTrainCards,  \* 4 in the code, and so below: 5, 3, 25, 3, 3, 2, 3, 1
  faceUpSlots,
  locoFlushThreshold,
  maxFlushIterations,
  tunnelRevealCount,
  initialRegularTickets,
  minTicketsKeptAtSetup,
  ticketDrawCount,
  minTicketsKeptInGame

\* A shuffle puts tickets of T in some order; InitState refuses fewer than n.
isShuffle(q, T, n) ==
  /\ q \in Seq(T) /\ Len(q) >= n
  /\ \A i, j \in DOMAIN q : q[i] = q[j] => i = j

ASSUME GameAssumption ==
  /\ Seats \subseteq Nat /\ IsFiniteSet(Seats) /\ Cardinality(Seats) >= 2
  /\ Colours # {} /\ IsFiniteSet(Colours) /\ IsFiniteSet(Routes) /\ IsFiniteSet(Tickets)
  /\ DeckComposition \in [Colours \cup {Loco} -> Nat]
  /\ {initialTrainCards, faceUpSlots, maxFlushIterations, tunnelRevealCount} \subseteq Nat
  /\ {locoFlushThreshold, initialRegularTickets, minTicketsKeptAtSetup} \subseteq Nat
  /\ minTicketsKeptAtSetup <= initialRegularTickets + 1 /\ minTicketsKeptInGame \in {0, 1}
  /\ ticketDrawCount \in Nat \ {0}
  /\ \A q \in LongShuffles : isShuffle(q, LongTicketIDs, Cardinality(Seats))
  /\ \A q \in TicketShuffles :
       isShuffle(q, RegularTicketIDs, initialRegularTickets * Cardinality(Seats))

VARIABLES
  phase, currentSeat, finalTurnsLeft, resigned, setupDone, trainsLeft,
  finalSeats, turns,   \* as in TtrTurns
  hands,               \* each seat's train cards, a bag
  drawPile,
  faceUp,
  discardPile,
  draw,                \* gs.Draw is set: the first of two cards is drawn
  pendingTunnel,       \* gs.PendingTunnel, or NoTunnel
  pendingTicketDraw,   \* the tickets offered in turn, in deck order; empty for none
  ticketDeck,
  setupTicketOffer,    \* each seat's tickets to choose from at setup
  tickets,             \* each seat's kept tickets
  routeOwner,          \* the seat that owns a route, or Nobody
  claimedRoutes,       \* the same by seat: p.ClaimedRouteIds
  closedRoutes,
  routeScore,
  stationOwner,        \* the seat with a station in a city, or Nobody
  stationCities,       \* the same by seat, in the order built
  stationsLeft,
  results,             \* gs.Results: the breakdown of each player who stayed, ...
  ranks                \* ... and everyone's place; empty until the game is over

historyVars == <<finalSeats, turns>>
turnVars    == <<phase, currentSeat, finalTurnsLeft, resigned, setupDone, historyVars>>
cardVars    == <<hands, drawPile, faceUp, discardPile>>
ticketVars  == <<ticketDeck, setupTicketOffer, tickets>>
routeVars   == <<trainsLeft, routeOwner, claimedRoutes, closedRoutes, routeScore>>
stationVars == <<stationOwner, stationCities, stationsLeft>>
pendingVars == <<draw, pendingTunnel, pendingTicketDraw>>
resultVars  == <<results, ranks>>
vars        == <<turnVars, cardVars, ticketVars, routeVars, stationVars, pendingVars, resultVars>>

Nobody   == -1
NoTunnel == [route |-> NoRoute]

-----------------------------------------------------------------------------
(***************************************************************************)
(* The turn flow that this game is shown to follow.                        *)
(***************************************************************************)
openDecisions ==
  (IF draw THEN {"draw"} ELSE {})
    \cup (IF pendingTunnel # NoTunnel THEN {"tunnel"} ELSE {})
    \cup (IF pendingTicketDraw # <<>> THEN {"tickets"} ELSE {})

pendingLength == IF pendingTunnel = NoTunnel THEN 0 ELSE Route[pendingTunnel.route].length

routeLengths == {Route[r].length : r \in Routes}

Turns == INSTANCE TtrTurns WITH scratch      <- openDecisions,
                               tunnelLength <- pendingLength,
                               Lengths      <- routeLengths

\* The position FinalScore is computed from; every view before the end shows
\* the tickets' progress from it, too.
position ==
  [claimed |-> claimedRoutes, stations |-> stationCities, tickets |-> tickets,
   stationsLeft |-> stationsLeft, owner |-> routeOwner, resigned |-> resigned]

\* finalizeGame, in the step that finishes the game.
scoreIfFinished ==
  IF phase' = "FINISHED"
  THEN results' = FinalScore(position') /\ ranks' = placesOf(Seats, results')
  ELSE UNCHANGED resultVars

\* The scratch fields cleared, then the turn counted and passed on.
endTurn(s) ==
  /\ draw' = FALSE
  /\ pendingTunnel' = NoTunnel
  /\ pendingTicketDraw' = <<>>
  /\ Turns!endTurn(s)
  /\ scoreIfFinished

-----------------------------------------------------------------------------
(***************************************************************************)
(* Bags of train cards.                                                    *)
(***************************************************************************)
Cards       == Colours \cup {Loco}
NoCards     == [c \in Cards |-> 0]
One(c)      == [NoCards EXCEPT ![c] = 1]
a (+) b     == [c \in Cards |-> a[c] + b[c]]
a (-) b     == [c \in Cards |-> a[c] - b[c]]
Size(b)     == MapThenSumSet(LAMBDA c : b[c], Cards)
Least(m, n) == IF m < n THEN m ELSE n

\* The bags of k cards in b.
Picks(k, b) ==
  {p \in [Cards -> 0..k] : (\A c \in Cards : p[c] <= b[c]) /\ Size(p) = k}

\* Cards taken one by one from the top of the draw pile: popDrawPile, with
\* refillDrawPile before a card that finds the pile empty.  Fewer than k come
\* when the discard pile runs out too.
takenFrom(k, pile, discard) ==
  IF k <= Size(pile)
  THEN {[cards |-> p, pile |-> pile (-) p, discard |-> discard] : p \in Picks(k, pile)}
  ELSE {[cards |-> pile (+) p, pile |-> discard (-) p, discard |-> NoCards] :
          p \in Picks(Least(k - Size(pile), Size(discard)), discard)}

\* fillFaceUp of a table: the ways its face-up row may be filled.
fillFaceUp(t) ==
  {[up |-> t.up (+) x.cards, pile |-> x.pile, discard |-> x.discard] :
     x \in takenFrom(faceUpSlots - Size(t.up), t.pile, t.discard)}

flushed(t) == [t EXCEPT !.up = NoCards, !.discard = @ (+) t.up]

\* flushFaceUpLocos: the row is replaced while it shows too many
\* locomotives, until it cannot be filled any more.
flushFaceUpLocos(t0) ==
  LET stable(t) == t.up[Loco] < locoFlushThreshold \/ (t # t0 /\ Size(t.up) < faceUpSlots)
      after[n \in 0..maxFlushIterations] ==
        IF n = 0 THEN {t0}
        ELSE UNION {IF stable(t) THEN {t} ELSE fillFaceUp(flushed(t)) : t \in after[n - 1]}
  IN  after[maxFlushIterations]

\* Mutant: a short row is not filled up.
takeFaceUp_NoFill(c) ==
  LET t == [up |-> faceUp (-) One(c), pile |-> drawPile, discard |-> discardPile]
  IN  flushFaceUpLocos(t)

\* takeFaceUp of a card c.
takeFaceUp(c) ==
  LET t == [up |-> faceUp (-) One(c), pile |-> drawPile, discard |-> discardPile]
  IN  UNION {flushFaceUpLocos(u) : u \in fillFaceUp(t)}

Table(t) == faceUp' = t.up /\ drawPile' = t.pile /\ discardPile' = t.discard

-----------------------------------------------------------------------------
(***************************************************************************)
(* InitState.                                                              *)
(***************************************************************************)
\* dealTickets gives the seats their tickets in seat order.
place(s) == Cardinality({t \in Seats : t < s})

dealTickets(longs, regulars) ==
  LET from(s) == place(s) * initialRegularTickets
  IN  /\ setupTicketOffer =
           [s \in Seats |-> {longs[place(s) + 1]}
                              \cup {regulars[from(s) + i] : i \in 1..initialRegularTickets}]
      /\ ticketDeck =
           SubSeq(regulars, initialRegularTickets * Cardinality(Seats) + 1, Len(regulars))

\* dealInitialHands: one hand after the other, of what is left of the deck.
Deals ==
  LET deal[n \in 0..Cardinality(Seats)] ==
        IF n = 0 THEN {[hands |-> [s \in Seats |-> NoCards], left |-> DeckComposition]}
        ELSE UNION {{[hands |-> [d.hands EXCEPT ![CHOOSE s \in Seats : place(s) = n - 1] = p],
                      left  |-> d.left (-) p] : p \in Picks(initialTrainCards, d.left)} :
                    d \in deal[n - 1]}
  IN  deal[Cardinality(Seats)]

Init ==
  /\ \E d \in Deals :
       /\ hands = d.hands
       /\ \E u \in fillFaceUp([up |-> NoCards, pile |-> d.left, discard |-> NoCards]) :
          \E t \in flushFaceUpLocos(u) :
             faceUp = t.up /\ drawPile = t.pile /\ discardPile = t.discard
  /\ \E longs \in LongShuffles, regulars \in TicketShuffles : dealTickets(longs, regulars)
  /\ draw = FALSE
  /\ pendingTunnel = NoTunnel
  /\ pendingTicketDraw = <<>>
  /\ tickets = [s \in Seats |-> {}]
  /\ routeOwner = [r \in Routes |-> Nobody]
  /\ claimedRoutes = [s \in Seats |-> {}]
  /\ closedRoutes = {}
  /\ routeScore = [s \in Seats |-> 0]
  /\ stationOwner = [c \in Cities |-> Nobody]
  /\ stationCities = [s \in Seats |-> <<>>]
  /\ stationsLeft = [s \in Seats |-> StationsPerPlayer]
  /\ results = <<>>
  /\ ranks = <<>>
  /\ Turns!Init

\* applySetupTicketsDecision: what is not kept leaves the game.
KeepSetupTickets(s) ==
  /\ \E keep \in SUBSET setupTicketOffer[s] :
       /\ Cardinality(keep) >= minTicketsKeptAtSetup
       /\ tickets' = [tickets EXCEPT ![s] = @ \cup keep]
  /\ setupTicketOffer' = [setupTicketOffer EXCEPT ![s] = {}]
  /\ UNCHANGED pendingVars
  /\ UNCHANGED routeVars
  /\ Turns!KeepSetupTickets(s)
  /\ UNCHANGED <<cardVars, ticketDeck, stationVars, resultVars>>

-----------------------------------------------------------------------------
(***************************************************************************)
(* Train cards.                                                            *)
(***************************************************************************)
canDraw == Size(drawPile) > 0 \/ Size(discardPile) > 0 \/ Size(faceUp) > 0

secondDrawAvailable ==
  Size(drawPile) > 0 \/ Size(discardPile) > 0 \/ \E c \in Colours : faceUp[c] > 0

\* resolveDrawSource: what may be taken.
deckHasCard     == Size(drawPile) > 0 \/ Size(discardPile) > 0
mayTakeFaceUp(c) == faceUp[c] > 0 /\ ~(draw /\ c = Loco)

\* Mutant: whose turn it is is not checked.
mayDraw_Anyone(s) == phase \in {"NORMAL", "AWAITING_SECOND_DRAW"} /\ s \notin resigned

mayDraw(s) ==
  Turns!mayAct(s, "NORMAL") \/ Turns!mayAct(s, "AWAITING_SECOND_DRAW")

\* After the card is in the hand: the second card, or a face-up locomotive
\* taken first, ends the turn.
afterCard(s, ends) ==
  IF draw \/ ends
  THEN endTurn(s)
  ELSE /\ draw' = TRUE
       /\ phase' = "AWAITING_SECOND_DRAW"
       /\ UNCHANGED <<currentSeat, finalTurnsLeft, resigned, setupDone, historyVars,
                      pendingTunnel, pendingTicketDraw, resultVars>>

DrawFromDeck(s) ==
  /\ mayDraw(s)
  /\ deckHasCard
  /\ \E x \in takenFrom(1, drawPile, discardPile) :
       /\ hands' = [hands EXCEPT ![s] = @ (+) x.cards]
       /\ drawPile' = x.pile
       /\ discardPile' = x.discard
  /\ UNCHANGED <<faceUp, ticketVars, routeVars, stationVars>>
  /\ afterCard(s, FALSE)

DrawFaceUp(s, c) ==
  /\ mayDraw(s)
  /\ mayTakeFaceUp(c)
  /\ \E t \in takeFaceUp(c) : Table(t)
  /\ hands' = [hands EXCEPT ![s] = @ (+) One(c)]
  /\ UNCHANGED <<ticketVars, routeVars, stationVars>>
  /\ afterCard(s, c = Loco)

EndDraw(s) ==
  /\ Turns!mayAct(s, "AWAITING_SECOND_DRAW")
  /\ ~secondDrawAvailable
  /\ UNCHANGED <<cardVars, ticketVars, routeVars, stationVars>>
  /\ endTurn(s)

-----------------------------------------------------------------------------
(***************************************************************************)
(* Routes.                                                                 *)
(***************************************************************************)
claimability(s, r) ==
  /\ routeOwner[r] = Nobody
  /\ r \notin closedRoutes
  /\ Route[r].pair \notin claimedRoutes[s]
  /\ trainsLeft[s] >= Route[r].length

\* validateSingleColourPayment: cards of the hand, of one colour and
\* locomotives.
coloursIn(pay)       == {c \in Colours : pay[c] > 0}
payments(hand, want) == {pay \in Picks(want, hand) : Cardinality(coloursIn(pay)) <= 1}
paymentColor(pay)    == IF coloursIn(pay) = {} THEN Loco ELSE CHOOSE c \in coloursIn(pay) : TRUE

validatePayment(r, pay) ==
  IF IsFerry(r)
  THEN pay[Loco] >= Route[r].locos
  ELSE Route[r].color = Gray \/ paymentColor(pay) \in {Loco, Route[r].color}

\* Mutant: the sibling stays open.
siblingsClosed_Not(r) == closedRoutes

\* With two or three players a double route is claimed only once.
siblingsClosed(r) ==
  IF Cardinality(Seats) <= 3 /\ Route[r].pair # NoRoute
  THEN closedRoutes \cup {Route[r].pair} ELSE closedRoutes

\* finishClaim, with the discard pile it leaves.
finishClaim(s, r, discard) ==
  /\ discardPile' = discard
  /\ trainsLeft' = [trainsLeft EXCEPT ![s] = @ - Route[r].length]
  /\ routeScore' = [routeScore EXCEPT ![s] = @ + RoutePoints[Route[r].length]]
  /\ routeOwner' = [routeOwner EXCEPT ![r] = s]
  /\ claimedRoutes' = [claimedRoutes EXCEPT ![s] = @ \cup {r}]
  /\ closedRoutes' = siblingsClosed(r)

ClaimRoute(s, r, pay) ==
  /\ Turns!mayAct(s, "NORMAL")
  /\ claimability(s, r)
  /\ validatePayment(r, pay)
  /\ ~Route[r].tunnel
  /\ hands' = [hands EXCEPT ![s] = @ (-) pay]
  /\ finishClaim(s, r, discardPile (+) pay)
  /\ UNCHANGED <<drawPile, faceUp, ticketVars, stationVars>>
  /\ endTurn(s)

matches(revealed, colour) ==
  IF colour = Loco THEN revealed[Loco] ELSE revealed[Loco] + revealed[colour]

\* beginTunnelClaim: the payment leaves the hand, cards are revealed, and
\* those that match make a surcharge to decide about.
BeginTunnelClaim(s, r, pay) ==
  /\ Turns!mayAct(s, "NORMAL")
  /\ claimability(s, r)
  /\ validatePayment(r, pay)
  /\ Route[r].tunnel
  /\ hands' = [hands EXCEPT ![s] = @ (-) pay]
  /\ UNCHANGED <<faceUp, ticketVars, stationVars>>
  /\ \E x \in takenFrom(tunnelRevealCount, drawPile, discardPile) :
       /\ drawPile' = x.pile
       /\ LET surcharge == matches(x.cards, paymentColor(pay))
          IN  IF surcharge = 0
              THEN finishClaim(s, r, x.discard (+) x.cards (+) pay) /\ endTurn(s)
              ELSE /\ pendingTunnel' = [route |-> r, base |-> pay, color |-> paymentColor(pay),
                                        revealed |-> x.cards, surcharge |-> surcharge]
                   /\ phase' = "AWAITING_TUNNEL"
                   /\ discardPile' = x.discard
                   /\ UNCHANGED <<routeVars, draw, pendingTicketDraw, currentSeat,
                                  finalTurnsLeft, resigned, setupDone, historyVars, resultVars>>

\* Mutant: the hand is not checked.
surcharges_Unchecked(pt, hand) ==
  {extra \in Picks(pt.surcharge, DeckComposition) : coloursIn(extra) \subseteq {pt.color}}

\* validateTunnelSurcharge: the extra cards that are accepted.
surcharges(pt, hand) ==
  {extra \in Picks(pt.surcharge, hand) : coloursIn(extra) \subseteq {pt.color}}

AcceptTunnel(s) ==
  /\ Turns!mayAct(s, "AWAITING_TUNNEL")
  /\ \E extra \in surcharges(pendingTunnel, hands[s]) :
       /\ hands' = [hands EXCEPT ![s] = @ (-) extra]
       /\ finishClaim(s, pendingTunnel.route,
                      discardPile (+) pendingTunnel.revealed (+) pendingTunnel.base (+) extra)
  /\ UNCHANGED <<drawPile, faceUp, ticketVars, stationVars>>
  /\ endTurn(s)

\* refundTunnel: declined, or accepted with cards the hand does not have.
RefundTunnel(s) ==
  /\ Turns!mayAct(s, "AWAITING_TUNNEL")
  /\ hands' = [hands EXCEPT ![s] = @ (+) pendingTunnel.base]
  /\ discardPile' = discardPile (+) pendingTunnel.revealed
  /\ UNCHANGED <<drawPile, faceUp, ticketVars, routeVars, stationVars>>
  /\ endTurn(s)

-----------------------------------------------------------------------------
(***************************************************************************)
(* Stations.                                                               *)
(***************************************************************************)
stationCost(s) == StationsPerPlayer - stationsLeft[s] + 1

mayBuildStation(s, city) == stationOwner[city] = Nobody /\ stationsLeft[s] >= 1

BuildStation(s, city) ==
  /\ Turns!mayAct(s, "NORMAL")
  /\ mayBuildStation(s, city)
  /\ \E pay \in payments(hands[s], stationCost(s)) :
       /\ hands' = [hands EXCEPT ![s] = @ (-) pay]
       /\ discardPile' = discardPile (+) pay
  /\ stationsLeft' = [stationsLeft EXCEPT ![s] = @ - 1]
  /\ stationCities' = [stationCities EXCEPT ![s] = Append(@, city)]
  /\ stationOwner' = [stationOwner EXCEPT ![city] = s]
  /\ UNCHANGED <<drawPile, faceUp, ticketVars, routeVars>>
  /\ endTurn(s)

-----------------------------------------------------------------------------
(***************************************************************************)
(* Tickets.                                                                *)
(***************************************************************************)
DrawTickets(s) ==
  /\ Turns!mayAct(s, "NORMAL")
  /\ ticketDeck # <<>>
  /\ LET n == Least(ticketDrawCount, Len(ticketDeck))
     IN  /\ pendingTicketDraw' = SubSeq(ticketDeck, 1, n)
         /\ ticketDeck' = SubSeq(ticketDeck, n + 1, Len(ticketDeck))
  /\ phase' = "AWAITING_TICKET_KEEP"
  /\ UNCHANGED <<currentSeat, finalTurnsLeft, resigned, setupDone, historyVars, draw,
                 pendingTunnel, setupTicketOffer, tickets, cardVars, routeVars, stationVars,
                 resultVars>>

\* Mutant: tickets not kept leave the game, as they do at setup.
returned_Dropped(keep) == <<>>

\* The tickets not kept, in the order drawn.
returned(keep) ==
  LET back == {i \in DOMAIN pendingTicketDraw : pendingTicketDraw[i] \notin keep}
      nth(k) == CHOOSE i \in back : Cardinality({j \in back : j < i}) = k - 1
  IN  [k \in 1..Cardinality(back) |-> pendingTicketDraw[nth(k)]]

\* resolveTicketKeep.
KeepTickets(s) ==
  /\ Turns!mayAct(s, "AWAITING_TICKET_KEEP")
  /\ \E keep \in SUBSET Range(pendingTicketDraw) :
       /\ Cardinality(keep) >= minTicketsKeptInGame
       /\ tickets' = [tickets EXCEPT ![s] = @ \cup keep]
       /\ ticketDeck' = ticketDeck \o returned(keep)
  /\ UNCHANGED <<setupTicketOffer, cardVars, routeVars, stationVars>>
  /\ endTurn(s)

-----------------------------------------------------------------------------
(***************************************************************************)
(* Resignation: the hand, and the cards and tickets of an open decision,   *)
(* go back before the turn passes on.                                      *)
(***************************************************************************)
\* The train cards a seat gives back.
heldBy(s) ==
  IF Turns!holdsTurn(s) /\ pendingTunnel # NoTunnel
  THEN hands[s] (+) pendingTunnel.base (+) pendingTunnel.revealed
  ELSE hands[s]

releaseDecision(s) ==
  IF Turns!holdsTurn(s)
  THEN /\ ticketDeck' = ticketDeck \o pendingTicketDraw
       /\ draw' = FALSE
       /\ pendingTunnel' = NoTunnel
       /\ pendingTicketDraw' = <<>>
  ELSE UNCHANGED <<ticketDeck, pendingVars>>

Resign(s) ==
  /\ phase # "FINISHED"
  /\ s \notin resigned
  /\ discardPile' = discardPile (+) heldBy(s)
  /\ hands' = [hands EXCEPT ![s] = NoCards]
  /\ releaseDecision(s)
  /\ UNCHANGED <<routeVars, stationVars, drawPile, faceUp, setupTicketOffer, tickets>>
  /\ Turns!Resign(s)
  /\ scoreIfFinished

-----------------------------------------------------------------------------
Claim(s, r) ==
  \E pay \in payments(hands[s], Route[r].length) : ClaimRoute(s, r, pay) \/ BeginTunnelClaim(s, r, pay)

Next ==
  \E s \in Seats :
    \/ KeepSetupTickets(s)
    \/ DrawFromDeck(s)
    \/ \E c \in Cards : DrawFaceUp(s, c)
    \/ EndDraw(s)
    \/ \E r \in Routes : Claim(s, r)
    \/ AcceptTunnel(s)
    \/ RefundTunnel(s)
    \/ \E city \in Cities : BuildStation(s, city)
    \/ DrawTickets(s)
    \/ KeepTickets(s)
    \/ Resign(s)

Spec == Init /\ [][Next]_vars

-----------------------------------------------------------------------------
(***************************************************************************)
(* LegalMoves: what a player's view offers.                                *)
(***************************************************************************)
\* Mutant: a ferry's own locomotives are not set aside.
PaymentOptions_Ferry(r, hand) ==
  {pay \in payments(hand, Route[r].length) :
     \E c \in (IF Route[r].color = Gray THEN Colours ELSE {Route[r].color}) :
        pay = [NoCards EXCEPT ![c] = Least(hand[c], Route[r].length),
                              ![Loco] = Route[r].length - Least(hand[c], Route[r].length)]}

\* PaymentOptions: as many cards of one colour as there are, the rest and a
\* ferry's own in locomotives.
PaymentOptions(r, hand) ==
  LET remaining  == Route[r].length - Route[r].locos
      candidates == IF ~IsFerry(r) /\ Route[r].color # Gray THEN {Route[r].color} ELSE Colours
      used(c)    == Least(hand[c], remaining)
      locos(c)   == Route[r].locos + remaining - used(c)
  IN  {[NoCards EXCEPT ![c] = used(c), ![Loco] = locos(c)] :
         c \in {c \in candidates : locos(c) <= hand[Loco]}}

claimableRoutes(s) ==
  {r \in Routes : claimability(s, r) /\ PaymentOptions(r, hands[s]) # {}}

\* stationOptions of legal.go: the hand is not asked for the cards a station costs.
stationOffers(s) ==
  IF stationsLeft[s] <= 0 THEN {} ELSE {city \in Cities : stationOwner[city] = Nobody}
offeredCost(s) == IF stationsLeft[s] <= 0 THEN 0 ELSE stationCost(s)

NoMoves == [draw |-> FALSE, drawTickets |-> FALSE, claim |-> {}, stations |-> {}, cost |-> 0, kind |-> "none"]

LegalMoves(s) ==
  IF s \in resigned THEN NoMoves
  ELSE IF phase = "SETUP_TICKETS" /\ s \notin setupDone
       THEN [NoMoves EXCEPT !.kind = "setup_tickets"]
  ELSE IF phase \notin Turns!Playing \/ s # currentSeat THEN NoMoves
  ELSE CASE phase = "NORMAL" ->
              [draw |-> canDraw, drawTickets |-> ticketDeck # <<>>,
               claim |-> claimableRoutes(s),
               stations |-> stationOffers(s), cost |-> offeredCost(s), kind |-> "none"]
         [] phase = "AWAITING_SECOND_DRAW" ->
              IF secondDrawAvailable THEN [NoMoves EXCEPT !.draw = TRUE]
                                     ELSE [NoMoves EXCEPT !.kind = "end_draw"]
         [] phase = "AWAITING_TUNNEL"      -> [NoMoves EXCEPT !.kind = "tunnel"]
         [] phase = "AWAITING_TICKET_KEEP" -> [NoMoves EXCEPT !.kind = "ticket_keep"]

-----------------------------------------------------------------------------
(***************************************************************************)
(* Every train card is in one place: a hand, a pile, the face-up row or    *)
(* the pending tunnel.  Draws, reshuffles in the middle of one, flushes,   *)
(* payments, refunds and resignations only move cards, and no payment or   *)
(* surcharge takes more than the hand holds.                               *)
(***************************************************************************)
inTunnel(c) == IF pendingTunnel = NoTunnel THEN 0 ELSE pendingTunnel.base[c] + pendingTunnel.revealed[c]

CardsConserved ==
  \A c \in Cards :
    /\ \A s \in Seats : hands[s][c] >= 0
    /\ drawPile[c] + faceUp[c] + discardPile[c] + inTunnel(c)
         + MapThenSumSet(LAMBDA s : hands[s][c], Seats) = DeckComposition[c]

(***************************************************************************)
(* Whenever the face-up row changes it is filled as far as the cards go:   *)
(* a row left short by an empty deck catches up with the next card taken   *)
(* from it, although payments had filled the discard pile in between.      *)
(***************************************************************************)
RowCatchesUp ==
  [][faceUp' # faceUp =>
       Size(faceUp') = faceUpSlots \/ Size(drawPile') + Size(discardPile') = 0]_vars

(***************************************************************************)
(* Routes, trains and points tell one story: owners and the players' lists *)
(* agree, trains left and trains on the board add up, the running score is *)
(* the one FinalScore counts afresh, nobody owns both halves of a double   *)
(* route and with two or three players the other half stays unowned.       *)
(***************************************************************************)
BoardAgrees ==
  /\ \A r \in Routes, s \in Seats : routeOwner[r] = s <=> r \in claimedRoutes[s]
  /\ \A s \in Seats :
       /\ trainsLeft[s] + lengthOf(claimedRoutes[s]) = TrainsPerPlayer
       /\ routeScore[s] = sumRoutePoints(claimedRoutes[s])
       /\ stationsLeft[s] + Len(stationCities[s]) = StationsPerPlayer
       /\ \A r \in claimedRoutes[s] : Route[r].pair \notin claimedRoutes[s]
  /\ Cardinality(Seats) <= 3 =>
       \A r \in Routes : routeOwner[r] # Nobody /\ Route[r].pair # NoRoute =>
         routeOwner[Route[r].pair] = Nobody

(***************************************************************************)
(* Once the setup is over no ticket leaves the game and none is copied:    *)
(* what is not kept goes back to the deck, also when its player resigns    *)
(* over the offer.                                                         *)
(***************************************************************************)
copies(t) ==
  LET inDeck == ticketDeck \o pendingTicketDraw
  IN  Cardinality({i \in DOMAIN inDeck : inDeck[i] = t}) + Cardinality({s \in Seats : t \in tickets[s]})

TicketsConserved ==
  [][phase # "SETUP_TICKETS" => \A t \in Tickets : copies(t)' = copies(t)]_vars

(***************************************************************************)
(* What LegalMoves offers is what Apply accepts: cards and tickets to      *)
(* draw, the routes some payment pays for with payments that are accepted, *)
(* and the decision that is open, to the player who may answer it, of      *)
(* which at least one answer is accepted.  The stations offered are those  *)
(* that may be built at the cost shown, if the hand pays it: the offer     *)
(* does not ask the hand.                                                  *)
(***************************************************************************)
accepts(s, kind) ==
  CASE kind = "setup_tickets" -> /\ phase = "SETUP_TICKETS" /\ s \notin resigned \cup setupDone
                                 /\ \E keep \in SUBSET setupTicketOffer[s] :
                                      Cardinality(keep) >= minTicketsKeptAtSetup
    [] kind = "end_draw"      -> Turns!mayAct(s, "AWAITING_SECOND_DRAW") /\ ~secondDrawAvailable
    [] kind = "tunnel"        -> Turns!mayAct(s, "AWAITING_TUNNEL") /\ pendingTunnel # NoTunnel
    [] kind = "ticket_keep"   -> /\ Turns!mayAct(s, "AWAITING_TICKET_KEEP")
                                 /\ \E keep \in SUBSET Range(pendingTicketDraw) :
                                      Cardinality(keep) >= minTicketsKeptInGame

OffersAreAccepted ==
  \A s \in Seats :
    LET m == LegalMoves(s) IN
    /\ m.draw <=> mayDraw(s) /\ (deckHasCard \/ \E c \in Cards : mayTakeFaceUp(c))
    /\ m.drawTickets <=> Turns!mayAct(s, "NORMAL") /\ ticketDeck # <<>>
    /\ m.claim = {r \in Routes : /\ Turns!mayAct(s, "NORMAL") /\ claimability(s, r)
                                 /\ \E pay \in payments(hands[s], Route[r].length) : validatePayment(r, pay)}
    /\ \A r \in m.claim : \A pay \in PaymentOptions(r, hands[s]) :
         pay \in payments(hands[s], Route[r].length) /\ validatePayment(r, pay)
    /\ m.stations = {city \in Cities : Turns!mayAct(s, "NORMAL") /\ mayBuildStation(s, city)}
    /\ m.stations # {} => m.cost = stationCost(s)
    /\ \A kind \in {"setup_tickets", "end_draw", "tunnel", "ticket_keep"} :
         m.kind = kind <=> accepts(s, kind)

(***************************************************************************)
(* The scoring against its rules.                                          *)
(*                                                                         *)
(* The trail found is the longest of all sequences of claimed routes that  *)
(* walk from city to city and repeat none.                                 *)
(***************************************************************************)
Trails(R) ==
  {w \in UNION {[1..n -> R] : n \in 1..Cardinality(R)} :
     /\ \A i, j \in DOMAIN w : w[i] = w[j] => i = j
     /\ \E c \in [1..(Len(w) + 1) -> Cities] :
          \A i \in DOMAIN w : {c[i], c[i + 1]} = {Route[w[i]].a, Route[w[i]].b}}

TrailIsLongest ==
  LET R == {r \in Routes : routeOwner[r] # Nobody}
  IN  longestTrail(R) = Max({0} \cup {lengthOf(Range(w)) : w \in Trails(R)})

\* A station borrows another player's route at its city, and none that gains
\* nothing.
BorrowingIsFair ==
  \A s \in {s \in Seats : stationCities[s] # <<>>} :
    LET a   == bestStationAssignment(routeOwner, s, claimedRoutes[s], stationCities[s], tickets[s])
        own == [i \in DOMAIN stationCities[s] |-> noBorrow]
    IN  /\ \A i \in DOMAIN a : a[i] # noBorrow =>
             /\ routeOwner[a[i]] \in Seats \ {s}
             /\ stationCities[s][i] \in {Route[a[i]].a, Route[a[i]].b}
        /\ Range(a) \subseteq {noBorrow}
             \/ netOf(a, claimedRoutes[s], tickets[s]) > netOf(own, claimedRoutes[s], tickets[s])

\* In a finished game a place is one more than the number of players ahead,
\* nobody who resigned is placed with or before one who stayed, and the points
\* for routes are those counted during the game.
RanksAreFair ==
  phase = "FINISHED" =>
    /\ \A s \in DOMAIN results :
         ranks[s] = 1 + Cardinality({t \in DOMAIN results : rankLess(results[t], results[s])})
    /\ \A s \in DOMAIN results, t \in resigned : ranks[s] < ranks[t]
    /\ \A s \in DOMAIN results : results[s].routePoints = routeScore[s]

(***************************************************************************)
(* FinalScore, and the progress every view shows: longest trail, borrowed  *)
(* routes and places are those the rules give.                             *)
(***************************************************************************)
ScoringIsFair == TrailIsLongest /\ BorrowingIsFair /\ RanksAreFair

(***************************************************************************)
(* The game follows the turn flow of TtrTurns: every move here is one of   *)
(* its steps, so what is shown there of turns, setup and the final round   *)
(* holds of this game.                                                     *)
(***************************************************************************)
FollowsTurns == Turns!Spec

=============================================================================
